SPECIFICATION Spec
CONSTANTS
  identity = identity
  hil = hil
  exec = exec
  plain = plain
  extra = extra
  Workloads <- MCWorkloads
  Identity = identity
  Generations <- MCGenerations
  SanContracts <- MCSanContracts
  BaseSans = plain
  Requests <- FreshRequests
  InitialMembers <- MCInitialMembers
  FaultPoints <- SkippedWorkload
  MaxFaults = 1
  MaxRestarts = 2
  MaxRuns = 1
  FirstGeneration = 0
PROPERTIES RetirementBoundary
CHECK_DEADLOCK FALSE

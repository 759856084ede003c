SPECIFICATION Spec
CONSTANTS
  identity = identity
  hil = hil
  exec = exec
  plain = plain
  extra = extra
  Workloads <- MCWorkloads
  Identity = identity
  Generations <- MCGenerations
  SanContracts <- MCSanContracts
  BaseSans = plain
  Requests <- KeepingRequests
  InitialMembers <- MCInitialMembers
  FaultPoints <- KeepingFaults
  MaxFaults = 3
  MaxRestarts = 2
  MaxRuns = 2
  FirstGeneration = 0
INVARIANTS AllOrNothing
PROPERTIES IdentityLoadsFirst
CHECK_DEADLOCK FALSE

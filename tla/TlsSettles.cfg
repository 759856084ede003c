SPECIFICATION FairSpec
CONSTANTS
  identity = identity
  hil = hil
  exec = exec
  plain = plain
  extra = extra
  Workloads <- MCWorkloads
  Identity = identity
  Generations <- MCGenerations
  SanContracts <- MCSanContracts
  BaseSans = plain
  Requests <- SettlingRequests
  InitialMembers <- MCInitialMembers
  FaultPoints <- AnyFault
  MaxFaults = 1
  MaxRestarts = 1
  MaxRuns = 2
  FirstGeneration = 0
INVARIANTS FailClosed
PROPERTIES Settles
CHECK_DEADLOCK FALSE

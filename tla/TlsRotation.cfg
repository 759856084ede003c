SPECIFICATION Spec
CONSTANTS
  identity = identity
  hil = hil
  exec = exec
  plain = plain
  extra = extra
  Workloads <- MCWorkloads
  Identity = identity
  Generations <- MCGenerations
  SanContracts <- MCSanContracts
  BaseSans = plain
  Requests <- AllRequests
  InitialMembers <- MCInitialMembers
  FaultPoints <- LateFaults
  MaxFaults = 2
  MaxRestarts = 1
  MaxRuns = 2
  FirstGeneration = 0
INVARIANTS TypeOK MutualTrust ReadinessIsTrue AllOrNothing HistoryTruthful RunningHaveIdentity
PROPERTIES RetirementBoundary ReconcilePreserves ImplementsRollover
CHECK_DEADLOCK FALSE

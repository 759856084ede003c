SPECIFICATION Spec
CONSTANTS
  hil = hil
  ledger = ledger
  Services <- OneService
  Releases <- TwoReleases
  FirstRelease = 1
  MaxOperations = 3
  MaxCommits = 1
  MaxFaults = 1
  LateOpens = FALSE
INVARIANTS RestoreUnobstructed
CHECK_DEADLOCK FALSE

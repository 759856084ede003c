SPECIFICATION FairSpec
CONSTANTS
  hil = hil
  ledger = ledger
  Services <- OneService
  Releases <- TwoReleases
  FirstRelease = 1
  MaxOperations = 3
  MaxCommits = 1
  MaxFaults = 1
  LateOpens = FALSE
INVARIANTS TypeOK PointerVerified SingleWriter NoDowngrade ReadsCommitted UpgradeProtected RestoredExactly
PROPERTIES ImplementsStore RollbackServes
CHECK_DEADLOCK FALSE

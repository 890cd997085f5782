\* One ingester; batches of two, so that the OLK branch takes two; two failures.
SPECIFICATION FairSpec
CONSTANTS
  base = base
  fix = fix
  merge = merge
  backport = backport
  None = None
  Hash = {base, fix, merge, backport}
  Sources <- MCSources
  History <- MCHistory
  Merge = {merge}
  Upstream <- MCUpstream
  Run = {r1}
  BatchSize = 2
  MaxFailures = 2
INVARIANTS
  TypeOK
  CheckpointAccounted
  VersionsAreTrue

  
CHECK_DEADLOCK FALSE

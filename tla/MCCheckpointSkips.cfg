\* One failed git log is enough.
SPECIFICATION Spec
CONSTANTS
  base = base
  fix = fix
  merge = merge
  backport = backport
  None = None
  Hash = {base, fix, merge, backport}
  Sources <- MCSources
  History <- MCHistory
  Merge = {merge}
  Upstream <- MCUpstream
  Run = {r1}
  BatchSize = 2
  MaxFailures = 1
INVARIANT
  CheckpointIsProcessed
CHECK_DEADLOCK FALSE

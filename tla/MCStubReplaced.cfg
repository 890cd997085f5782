\* No step need fail.
SPECIFICATION Spec
CONSTANTS
  base = base
  fix = fix
  merge = merge
  backport = backport
  None = None
  Hash = {base, fix, merge, backport}
  Sources <- MCSources
  History <- MCHistory
  Merge = {merge}
  Upstream <- MCUpstream
  Run = {r1}
  BatchSize = 2
  MaxFailures = 0
INVARIANT
  StubReplaced
CHECK_DEADLOCK FALSE

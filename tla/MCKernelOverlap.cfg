\* Two ingesters that overlap, one commit to a batch, two failures.
\* No liveness here, so the symmetry of the processes is sound.
SPECIFICATION Spec
CONSTANTS
  base = base
  fix = fix
  merge = merge
  backport = backport
  None = None
  Hash = {fix, backport}
  Sources <- MCSources
  History <- MCShortHistory
  Merge = {}
  Upstream <- MCUpstream
  Run = {r1, r2}
  BatchSize = 1
  MaxFailures = 2
SYMMETRY MCProcesses
INVARIANTS
  CheckpointAccounted
PROPERTIES
  TableOnlyGrows
CHECK_DEADLOCK FALSE

SPECIFICATION FairSpec
CONSTANTS
  None = None
  Input <- MCInput
  MaxIter = 2
  MaxEvents = 3
INVARIANTS
  CompletedRunLeavesRow
CHECK_DEADLOCK FALSE

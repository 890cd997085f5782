\* Two steps and at most two events before the verdict.
SPECIFICATION FairSpec
CONSTANTS
  None = None
  Input <- MCInput
  MaxIter = 2
  MaxEvents = 3
INVARIANTS
  TypeOK
  NoReactEventLost
  StreamClosesWell
  ReportMatchesInvestigation
  HardwareRoutesAway
PROPERTIES
  SessionEnds
CHECK_DEADLOCK FALSE

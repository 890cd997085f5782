SPECIFICATION FairSpec
CONSTANTS
  k1 = k1
  k2 = k2
  h1 = h1
  h2 = h2
  None = None
  Key = {k1, k2}
  Hash = {h1, h2}
  Reply <- MCReply
  Outcome <- MCOutcome
  Usage = {1, 3}
  MaxIter = 4
  RepeatLimit = 3
  TokenBudget = 5
  SoftBudget = 4
PROPERTIES
  RetryIsSent
CHECK_DEADLOCK FALSE

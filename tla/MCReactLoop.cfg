\* Four steps; three uses of a call are the limit; two replies of 3 tokens, or
\* one and a reply of 1, reach the soft budget, two of 3 the budget.
SPECIFICATION FairSpec
CONSTANTS
  k1 = k1
  k2 = k2
  h1 = h1
  h2 = h2
  None = None
  Key = {k1, k2}
  Hash = {h1, h2}
  Reply <- MCReply
  Outcome <- MCOutcome
  Usage = {1, 3}
  MaxIter = 4
  RepeatLimit = 3
  TokenBudget = 5
  SoftBudget = 4
INVARIANTS
  TypeOK
  RequestWithinLimits
  Threaded
  VerdictJustified
  BookkeepingMatchesConversation
  FinalizePromptedOnce
PROPERTIES
  ImplementsInvestigation
CHECK_DEADLOCK FALSE

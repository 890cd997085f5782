\* Two calls in a window of four ticks, spaced by window / calls as
\* get_endpoint_limiter does; two attempts.
SPECIFICATION FairSpec
CONSTANTS
  chat1 = chat1
  chat2 = chat2
  navigator = navigator
  cli = cli
  Thread = {chat1, chat2, navigator, cli}
  Provider = {"chat", "navigator", "claude_code"}
  ProviderOf <- MCProviderOf
  Compat = {"chat", "navigator"}
  Concurrency = 1
  Window = 4
  MaxCalls = 2
  MinInterval = 2
  MaxAttempts = 2
  BackoffInitial = 1
  BackoffMax = 2
  RetryAfter = 3
INVARIANTS
  TypeOK
  EveryAttemptHasSlot
  PermitsHeldBySenders
PROPERTIES
  RateRespected
  EveryCallEnds
CHECK_DEADLOCK FALSE

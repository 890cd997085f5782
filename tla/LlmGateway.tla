----------------------------- MODULE LlmGateway -----------------------------
(***************************************************************************)
(* Threads that ask a language model: the retry loop of the                *)
(* OpenAI-compatible provider around a slot of the endpoint's sliding      *)
(* window limiter and the provider's semaphore (llm/provider/              *)
(* openai_compat.py, llm/rate_limit/sliding_window.py), and the back ends  *)
(* that have a semaphore only (claude_code.py, anthropic_provider.py).     *)
(*                                                                         *)
(* Time passes in ticks.  A time stamp is kept as its age, which stops     *)
(* growing where no comparison can tell a difference any more; a sleep as  *)
(* the ticks it has left.  All threads ask one endpoint, whose limiter     *)
(* they share; each provider has a semaphore of its own.                   *)
(***************************************************************************)
EXTENDS Naturals, Sequences, FiniteSets

CONSTANTS
  Thread,          \* threads, each with one call to chat()
  Provider,        \* the provider objects
  ProviderOf,      \* [Thread -> Provider]
  Compat,          \* the providers that limit and retry
  Concurrency,     \* permits of a semaphore
  Window,          \* window_seconds, in ticks
  MaxCalls,        \* max_calls
  MinInterval,     \* min_interval_seconds, in ticks
  MaxAttempts,     \* retry.max_attempts
  BackoffInitial,  \* retry.backoff_initial
  BackoffMax,      \* retry.backoff_max
  RetryAfter       \* retry_after_seconds of a 429, fixed by chat_stream

ASSUME GatewayAssumption ==
  /\ IsFiniteSet(Thread)
  /\ ProviderOf \in [Thread -> Provider] /\ Compat \subseteq Provider
  /\ Concurrency \in Nat \ {0} /\ MaxCalls \in Nat \ {0}
  /\ Window \in Nat /\ MinInterval \in 0..Window
  /\ MaxAttempts \in Nat \ {0}
  /\ BackoffInitial \in Nat /\ BackoffMax \in Nat /\ RetryAfter \in Nat

VARIABLES
  timestamps,  \* the deque: ages of the calls in the window, oldest first
  since,       \* age of _last_acquired
  permits,     \* [Provider -> Nat], free permits of the semaphore
  pc,          \* [Thread -> control], see Control
  attempt,     \* [Thread -> Nat]
  sleep,       \* [Thread -> Nat], ticks left to sleep
  slots,       \* history: slots each thread has been given
  granted      \* history: ages of the last MaxCalls slots, oldest first

limiter == <<timestamps, since, granted>>
vars == <<limiter, permits, pc, attempt, sleep, slots>>

Control == {"idle", "acquire", "waiting", "semaphore", "sending", "backoff",
            "returned", "raised"}
Age == 0..(Window + 1)   \* Window + 1 is any age beyond the window

Init ==
  /\ timestamps = <<>>
  /\ since = MinInterval
  /\ permits = [p \in Provider |-> Concurrency]
  /\ pc = [t \in Thread |-> "idle"]
  /\ attempt = [t \in Thread |-> 0]
  /\ sleep = [t \in Thread |-> 0]
  /\ slots = [t \in Thread |-> 0]
  /\ granted = [i \in 1..MaxCalls |-> Window + 1]

Smaller(a, b) == IF a <= b THEN a ELSE b
Larger(a, b) == IF a <= b THEN b ELSE a
Limited(t) == ProviderOf[t] \in Compat
Goto(t, label) == pc' = [pc EXCEPT ![t] = label]

-----------------------------------------------------------------------------
(* chat() is called. *)
Call(t) ==
  /\ pc[t] = "idle"
  /\ attempt' = [attempt EXCEPT ![t] = 1]
  /\ Goto(t, IF Limited(t) THEN "acquire" ELSE "semaphore")
  /\ UNCHANGED <<limiter, permits, sleep, slots>>

(* _evict pops n calls: those at the front that are older than the window. *)
Evicts(n) ==
  /\ \A i \in 1..n : timestamps[i] > Window
  /\ n < Len(timestamps) => timestamps[n + 1] <= Window

Remaining(n) == SubSeq(timestamps, n + 1, Len(timestamps))

(* Mutant of Admissible: the window admits one call too many. *)
AdmissibleOneMore(n) ==
  Len(timestamps) - n <= MaxCalls /\ since >= MinInterval

Admissible(n) == Len(timestamps) - n < MaxCalls /\ since >= MinInterval

(* acquire: the check and the entry are one step under the lock. *)
Acquire(t) ==
  /\ pc[t] = "acquire"
  /\ \E n \in 0..Len(timestamps) :
       /\ Evicts(n)
       /\ Admissible(n)
       /\ timestamps' = Append(Remaining(n), 0)
  /\ since' = 0
  /\ granted' = [i \in 1..MaxCalls |->
                   IF i = MaxCalls THEN 0 ELSE granted[i + 1]]
  /\ slots' = [slots EXCEPT ![t] = @ + 1]
  /\ Goto(t, "semaphore")
  /\ UNCHANGED <<permits, attempt, sleep>>

(* No slot: sleep until the oldest call leaves the window, or until the    *)
(* interval is over, at least 0.05 s (one tick here); then check again.    *)
WaitForSlot(t) ==
  /\ pc[t] = "acquire"
  /\ \E n \in 0..Len(timestamps) :
       /\ Evicts(n)
       /\ ~Admissible(n)
       /\ timestamps' = Remaining(n)
       /\ sleep' = [sleep EXCEPT ![t] =
            Larger(1, IF Len(timestamps) - n >= MaxCalls
                      THEN Window - timestamps[n + 1]
                      ELSE MinInterval - since)]
  /\ Goto(t, "waiting")
  /\ UNCHANGED <<since, granted, permits, attempt, slots>>

WakeUp(t) ==
  /\ pc[t] = "waiting"
  /\ sleep[t] = 0
  /\ Goto(t, "acquire")
  /\ UNCHANGED <<limiter, permits, attempt, sleep, slots>>

(* The semaphore is entered, in any order, and the request is sent. *)
Send(t) ==
  /\ pc[t] = "semaphore"
  /\ permits[ProviderOf[t]] > 0
  /\ permits' = [permits EXCEPT ![ProviderOf[t]] = @ - 1]
  /\ Goto(t, "sending")
  /\ UNCHANGED <<limiter, attempt, sleep, slots>>

Release(t) == permits' = [permits EXCEPT ![ProviderOf[t]] = @ + 1]

(* The stream ends: the chunks are assembled into a response. *)
Respond(t) ==
  /\ pc[t] = "sending"
  /\ Release(t)
  /\ Goto(t, "returned")
  /\ UNCHANGED <<limiter, attempt, sleep, slots>>

(* What can end a request otherwise: a 429; a network error, a time-out or *)
(* a 5xx; anything else, which includes every error inside a stream that   *)
(* is none of those.                                                       *)
Failure == {"rate_limited", "transient", "fatal"}

(* Sleep before the next attempt.  A 429 names its own delay. *)
Backoff(t, failure) ==
  Smaller(BackoffMax,
          IF failure = "rate_limited" /\ RetryAfter > 0 THEN RetryAfter
          ELSE BackoffInitial * 2 ^ (attempt[t] - 1))

(* Mutant of Retryable: one attempt more than the configuration allows. *)
RetryableOneMore(t, failure) ==
  Limited(t) /\ failure # "fatal" /\ attempt[t] <= MaxAttempts

Retryable(t, failure) ==
  Limited(t) /\ failure # "fatal" /\ attempt[t] < MaxAttempts

(* Mutant of Fail: the permit is kept while the thread sleeps. *)
FailHoldingPermit(t) ==
  /\ pc[t] = "sending"
  /\ \E failure \in Failure :
       IF Retryable(t, failure)
       THEN /\ sleep' = [sleep EXCEPT ![t] = Backoff(t, failure)]
            /\ Goto(t, "backoff")
            /\ UNCHANGED permits
       ELSE Goto(t, "raised") /\ Release(t) /\ UNCHANGED sleep
  /\ UNCHANGED <<limiter, attempt, slots>>

(* The request fails: the exception leaves the semaphore, then the retry   *)
(* loop sleeps or raises it.                                               *)
Fail(t) ==
  /\ pc[t] = "sending"
  /\ Release(t)
  /\ \E failure \in Failure :
       IF Retryable(t, failure)
       THEN /\ sleep' = [sleep EXCEPT ![t] = Backoff(t, failure)]
            /\ Goto(t, "backoff")
       ELSE Goto(t, "raised") /\ UNCHANGED sleep
  /\ UNCHANGED <<limiter, attempt, slots>>

(* Mutant of Retry: the next attempt keeps the slot of the last. *)
RetryWithoutSlot(t) ==
  /\ pc[t] = "backoff"
  /\ sleep[t] = 0
  /\ attempt' = [attempt EXCEPT ![t] = @ + 1]
  /\ Goto(t, "semaphore")
  /\ UNCHANGED <<limiter, permits, sleep, slots>>

(* The next attempt starts with a slot of its own. *)
Retry(t) ==
  /\ pc[t] = "backoff"
  /\ sleep[t] = 0
  /\ attempt' = [attempt EXCEPT ![t] = @ + 1]
  /\ Goto(t, "acquire")
  /\ UNCHANGED <<limiter, permits, sleep, slots>>

(* A tick: what was taken gets older, sleepers have less left. *)
Tick ==
  /\ timestamps' = [i \in DOMAIN timestamps |->
                      Smaller(Window + 1, timestamps[i] + 1)]
  /\ since' = Smaller(MinInterval, since + 1)
  /\ granted' = [i \in 1..MaxCalls |-> Smaller(Window + 1, granted[i] + 1)]
  /\ sleep' = [t \in Thread |-> IF sleep[t] = 0 THEN 0 ELSE sleep[t] - 1]
  /\ UNCHANGED <<permits, pc, attempt, slots>>

Step(t) ==
  \/ Call(t) \/ Acquire(t) \/ WaitForSlot(t) \/ WakeUp(t) \/ Send(t)
  \/ Respond(t) \/ Fail(t) \/ Retry(t)

Next == Tick \/ \E t \in Thread : Step(t)

(* Time passes and every thread runs; a request ends, since the clients    *)
(* and the subprocess have time-outs.  The lock and the semaphore are not  *)
(* assumed to be fair: a thread that waits for a permit gets one in the    *)
(* end because each thread makes a bounded number of calls.                *)
Fairness == WF_vars(Tick) /\ \A t \in Thread : WF_vars(Step(t))

Spec == Init /\ [][Next]_vars
FairSpec == Spec /\ Fairness

-----------------------------------------------------------------------------
(* The limiter, the semaphores and the threads have the shape the code     *)
(* gives them; the attempts stay within the configuration.                 *)
TypeOK ==
  /\ timestamps \in Seq(Age) /\ Len(timestamps) <= MaxCalls
  /\ since \in 0..MinInterval
  /\ permits \in [Provider -> 0..Concurrency]
  /\ pc \in [Thread -> Control]
  /\ attempt \in [Thread -> 0..MaxAttempts]
  /\ sleep \in [Thread -> Nat]
  /\ slots \in [Thread -> 0..MaxAttempts]
  /\ granted \in [1..MaxCalls -> Age]

(* The endpoint's rate: a slot is given only when the MaxCalls-th slot     *)
(* before it has left the window, so that no window ever holds more than   *)
(* MaxCalls, and only MinInterval after the one before (sliding_window.py: *)
(* 44-49).  It must hold though entries are evicted lazily, threads wake   *)
(* late and all providers share the deque.                                 *)
RateRespected ==
  [][slots' # slots => granted[1] > Window /\ granted[MaxCalls] >= MinInterval
    ]_vars

(* openai_compat.py:62: the retry "with rate-limiter re-acquire" is the    *)
(* only retry path: a request in flight has a slot for each attempt it     *)
(* made, failed ones included.                                             *)
EveryAttemptHasSlot ==
  \A t \in Thread :
    Limited(t) /\ pc[t] \in {"semaphore", "sending"} => slots[t] = attempt[t]

(* Permits are held by requests in flight and by nothing else: no thread   *)
(* sleeps, waits for a slot or ends with one.                              *)
PermitsHeldBySenders ==
  \A p \in Provider :
    permits[p] + Cardinality({t \in Thread : /\ ProviderOf[t] = p
                                             /\ pc[t] = "sending"})
      = Concurrency

(* Every call returns a response or raises, whatever fails and however     *)
(* long the others hold their permits and slots.                           *)
EveryCallEnds ==
  <>(\A t \in Thread : pc[t] \in {"returned", "raised"})
=============================================================================

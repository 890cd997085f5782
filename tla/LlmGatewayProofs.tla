-------------------------- MODULE LlmGatewayProofs --------------------------
(***************************************************************************)
(* Theorems on LlmGateway, for every set of threads and providers and all  *)
(* limits.  The limiter alone carries the rate (LimiterInv), the threads   *)
(* alone the slots (ThreadInv) and the permits (PermitInv).                *)
(***************************************************************************)
EXTENDS LlmGateway, FiniteSetTheorems, TLAPS

(* 2^k counts the subsets of a set of k elements, so it is a number. *)
LEMMA PowerOfTwo == \A k \in Nat : 2 ^ k \in Nat
  <1> SUFFICES ASSUME NEW k \in Nat PROVE 2 ^ k \in Nat
    OBVIOUS
  <1>1. IsFiniteSet(1..k) /\ Cardinality(1..k) = k
    BY FS_Interval
  <1>2. /\ IsFiniteSet(SUBSET (1..k))
        /\ Cardinality(SUBSET (1..k)) = 2 ^ Cardinality(1..k)
    BY <1>1, FS_SUBSET
  <1>3. QED
    BY <1>1, <1>2, FS_CardinalityType

-----------------------------------------------------------------------------
(* The deque holds the newest of the slots granted, and the slots it has   *)
(* lost are older than the window.                                         *)
LimiterInv ==
  /\ timestamps \in Seq(Age)
  /\ Len(timestamps) <= MaxCalls
  /\ granted \in [1..MaxCalls -> Age]
  /\ since \in 0..MinInterval
  /\ since <= granted[MaxCalls]
  /\ \A i \in 1..Len(timestamps) :
       timestamps[i] = granted[MaxCalls - Len(timestamps) + i]
  /\ \A i \in 1..(MaxCalls - Len(timestamps)) : granted[i] = Window + 1

LEMMA InitLimiterInv == Init => LimiterInv
  BY GatewayAssumption DEF Init, LimiterInv, Age

(* What popping the old calls leaves. *)
LEMMA Popped ==
  ASSUME LimiterInv, NEW n \in 0..Len(timestamps), Evicts(n)
  PROVE  /\ Remaining(n) \in Seq(Age)
         /\ Len(Remaining(n)) = Len(timestamps) - n
         /\ \A i \in 1..(Len(timestamps) - n) :
              Remaining(n)[i] = granted[MaxCalls - (Len(timestamps) - n) + i]
         /\ \A i \in 1..(MaxCalls - (Len(timestamps) - n)) :
              granted[i] = Window + 1
  <1>1. /\ timestamps \in Seq(Age) /\ Len(timestamps) \in Nat
        /\ Len(timestamps) <= MaxCalls /\ MaxCalls \in Nat /\ Window \in Nat
    BY GatewayAssumption DEF LimiterInv
  <1>2. /\ Remaining(n) \in Seq(Age)
        /\ Len(Remaining(n)) = Len(timestamps) - n
        /\ \A i \in 1..(Len(timestamps) - n) :
             Remaining(n)[i] = timestamps[n + i]
    BY <1>1 DEF Remaining
  <1>3. ASSUME NEW i \in 1..(Len(timestamps) - n)
        PROVE  Remaining(n)[i] = granted[MaxCalls - (Len(timestamps) - n) + i]
    <2>1. n + i \in 1..Len(timestamps)
      BY <1>1
    <2>2. timestamps[n + i] = granted[MaxCalls - Len(timestamps) + (n + i)]
      BY <2>1 DEF LimiterInv
    <2>3. MaxCalls - Len(timestamps) + (n + i)
            = MaxCalls - (Len(timestamps) - n) + i
      BY <1>1
    <2>4. QED
      BY <1>2, <2>2, <2>3
  <1>4. ASSUME NEW i \in 1..(MaxCalls - (Len(timestamps) - n))
        PROVE  granted[i] = Window + 1
    <2>1. CASE i <= MaxCalls - Len(timestamps)
      BY <1>1, <2>1 DEF LimiterInv
    <2>2. CASE i > MaxCalls - Len(timestamps)
      <3> DEFINE j == i - (MaxCalls - Len(timestamps))
      <3>1. j \in 1..n /\ j \in 1..Len(timestamps)
        BY <1>1, <2>2
      <3>2. timestamps[j] > Window
        BY <3>1 DEF Evicts
      <3>3. timestamps[j] = granted[MaxCalls - Len(timestamps) + j]
        BY <3>1 DEF LimiterInv
      <3>4. MaxCalls - Len(timestamps) + j = i
        BY <1>1
      <3>5. timestamps[j] \in Age
        BY <1>1, <3>1
      <3>6. QED
        BY <1>1, <3>2, <3>3, <3>4, <3>5 DEF Age
    <2>3. QED
      BY <1>1, <2>1, <2>2
  <1>5. QED
    BY <1>2, <1>3, <1>4

LEMMA AcquireLimiterInv ==
  ASSUME LimiterInv, NEW t \in Thread, Acquire(t)
  PROVE  LimiterInv' /\ granted[1] > Window /\ granted[MaxCalls] >= MinInterval
  <1> PICK n \in 0..Len(timestamps) :
         /\ Evicts(n) /\ Admissible(n)
         /\ timestamps' = Append(Remaining(n), 0)
    BY DEF Acquire
  <1> DEFINE m == Len(timestamps) - n
  <1>1. /\ MaxCalls \in Nat \ {0} /\ Window \in Nat /\ MinInterval \in 0..Window
        /\ Len(timestamps) \in Nat /\ granted \in [1..MaxCalls -> Age]
    BY GatewayAssumption DEF LimiterInv
  <1>2. m \in Nat /\ m < MaxCalls /\ since >= MinInterval
    BY <1>1 DEF Admissible
  <1>3. /\ Remaining(n) \in Seq(Age) /\ Len(Remaining(n)) = m
        /\ \A i \in 1..m : Remaining(n)[i] = granted[MaxCalls - m + i]
        /\ \A i \in 1..(MaxCalls - m) : granted[i] = Window + 1
    BY Popped
  <1> HIDE DEF m
  <1>4. granted[1] > Window
    BY <1>1, <1>2, <1>3
  <1>5. granted[MaxCalls] >= MinInterval
    BY <1>1, <1>2 DEF LimiterInv, Age
  <1>6. /\ since' = 0
        /\ granted' = [i \in 1..MaxCalls |->
                         IF i = MaxCalls THEN 0 ELSE granted[i + 1]]
    BY DEF Acquire
  <1>7. granted' \in [1..MaxCalls -> Age]
    BY <1>1, <1>6 DEF Age
  <1>8. /\ timestamps' \in Seq(Age) /\ Len(timestamps') = m + 1
        /\ \A i \in 1..m : timestamps'[i] = granted[MaxCalls - m + i]
        /\ timestamps'[m + 1] = 0
    <2>1. 0 \in Age
      BY <1>1 DEF Age
    <2>2. QED
      BY <1>2, <1>3, <2>1
  <1>9. \A i \in 1..(m + 1) : timestamps'[i] = granted'[MaxCalls - (m + 1) + i]
    <2> SUFFICES ASSUME NEW i \in 1..(m + 1)
                 PROVE  timestamps'[i] = granted'[MaxCalls - (m + 1) + i]
      OBVIOUS
    <2>1. CASE i = m + 1
      BY <1>1, <1>2, <1>6, <1>8, <2>1
    <2>2. CASE i \in 1..m
      <3>1. /\ MaxCalls - (m + 1) + i \in 1..MaxCalls
            /\ MaxCalls - (m + 1) + i # MaxCalls
            /\ (MaxCalls - (m + 1) + i) + 1 = MaxCalls - m + i
        BY <1>1, <1>2, <2>2
      <3>2. granted'[MaxCalls - (m + 1) + i] = granted[MaxCalls - m + i]
        BY <1>6, <3>1
      <3>3. QED
        BY <1>8, <2>2, <3>2
    <2>3. i = m + 1 \/ i \in 1..m
      BY <1>2
    <2>4. QED
      BY ONLY <2>1, <2>2, <2>3
  <1>10. \A i \in 1..(MaxCalls - (m + 1)) : granted'[i] = Window + 1
    BY <1>1, <1>2, <1>3, <1>6
  <1>11. since' \in 0..MinInterval /\ since' <= granted'[MaxCalls]
    BY <1>1, <1>6
  <1>12. /\ Len(timestamps') <= MaxCalls
         /\ \A i \in 1..Len(timestamps') :
              timestamps'[i] = granted'[MaxCalls - Len(timestamps') + i]
         /\ \A i \in 1..(MaxCalls - Len(timestamps')) : granted'[i] = Window + 1
    <2>1. Len(timestamps') = m + 1
      BY <1>8
    <2>2. m + 1 <= MaxCalls
      BY <1>1, <1>2
    <2>3. QED
      BY ONLY <1>9, <1>10, <2>1, <2>2
  <1>13. LimiterInv'
    BY <1>7, <1>8, <1>11, <1>12 DEF LimiterInv
  <1>14. QED
    BY <1>4, <1>5, <1>13

LEMMA WaitLimiterInv ==
  ASSUME LimiterInv, NEW t \in Thread, WaitForSlot(t)
  PROVE  LimiterInv'
  <1> PICK n \in 0..Len(timestamps) :
         Evicts(n) /\ timestamps' = Remaining(n)
    BY DEF WaitForSlot
  <1>1. Len(timestamps) \in Nat /\ MaxCalls \in Nat
    BY GatewayAssumption DEF LimiterInv
  <1>2. UNCHANGED <<since, granted>>
    BY DEF WaitForSlot
  <1> DEFINE m == Len(timestamps) - n
  <1>3. /\ timestamps' \in Seq(Age) /\ Len(timestamps') = m
        /\ \A i \in 1..m : timestamps'[i] = granted[MaxCalls - m + i]
        /\ \A i \in 1..(MaxCalls - m) : granted[i] = Window + 1
    BY Popped
  <1>4. m <= MaxCalls
    BY <1>1 DEF LimiterInv
  <1> HIDE DEF m
  <1>5. /\ Len(timestamps') <= MaxCalls
        /\ \A i \in 1..Len(timestamps') :
             timestamps'[i] = granted'[MaxCalls - Len(timestamps') + i]
        /\ \A i \in 1..(MaxCalls - Len(timestamps')) : granted'[i] = Window + 1
    BY ONLY <1>2, <1>3, <1>4
  <1>6. granted' \in [1..MaxCalls -> Age] /\ since' \in 0..MinInterval
        /\ since' <= granted'[MaxCalls]
    BY <1>2 DEF LimiterInv
  <1>7. QED
    BY <1>3, <1>5, <1>6 DEF LimiterInv

LEMMA TickLimiterInv ==
  ASSUME LimiterInv, Tick
  PROVE  LimiterInv'
  <1>1. /\ MaxCalls \in Nat \ {0} /\ Window \in Nat /\ MinInterval \in 0..Window
        /\ Len(timestamps) \in Nat /\ granted \in [1..MaxCalls -> Age]
        /\ timestamps \in Seq(Age)
    BY GatewayAssumption DEF LimiterInv
  <1>2. \A a \in Age : Smaller(Window + 1, a + 1) \in Age
    BY <1>1 DEF Smaller, Age
  <1>3. /\ granted' \in [1..MaxCalls -> Age]
        /\ \A i \in 1..MaxCalls :
             granted'[i] = Smaller(Window + 1, granted[i] + 1)
    BY <1>1, <1>2 DEF Tick
  <1>4. /\ timestamps' \in Seq(Age) /\ Len(timestamps') = Len(timestamps)
        /\ \A i \in 1..Len(timestamps) :
             timestamps'[i] = Smaller(Window + 1, timestamps[i] + 1)
    <2>1. timestamps' = [i \in 1..Len(timestamps) |->
                           Smaller(Window + 1, timestamps[i] + 1)]
      BY <1>1 DEF Tick
    <2>2. QED
      BY <1>1, <1>2, <2>1
  <1>5. \A i \in 1..Len(timestamps) :
          timestamps'[i] = granted'[MaxCalls - Len(timestamps) + i]
    <2> SUFFICES ASSUME NEW i \in 1..Len(timestamps)
                 PROVE  timestamps'[i]
                          = granted'[MaxCalls - Len(timestamps) + i]
      OBVIOUS
    <2>1. MaxCalls - Len(timestamps) + i \in 1..MaxCalls
      BY <1>1 DEF LimiterInv
    <2>2. QED
      BY <1>3, <1>4, <2>1 DEF LimiterInv
  <1>6. \A i \in 1..(MaxCalls - Len(timestamps)) : granted'[i] = Window + 1
    <2> SUFFICES ASSUME NEW i \in 1..(MaxCalls - Len(timestamps))
                 PROVE  granted'[i] = Window + 1
      OBVIOUS
    <2>1. i \in 1..MaxCalls /\ granted[i] = Window + 1
      BY <1>1 DEF LimiterInv
    <2>2. QED
      BY <1>1, <1>3, <2>1 DEF Smaller
  <1>7. since' \in 0..MinInterval /\ since' <= granted'[MaxCalls]
    <2>1. since \in 0..MinInterval /\ since <= granted[MaxCalls]
      BY DEF LimiterInv
    <2>2. granted[MaxCalls] \in Age /\ MaxCalls \in 1..MaxCalls
      BY <1>1
    <2>3. since' = Smaller(MinInterval, since + 1)
      BY DEF Tick
    <2>4. granted'[MaxCalls] = Smaller(Window + 1, granted[MaxCalls] + 1)
      BY <1>3, <2>2
    <2>5. /\ since \in Nat /\ granted[MaxCalls] \in Nat /\ MinInterval \in Nat
          /\ MinInterval <= Window /\ since <= MinInterval
      BY <1>1, <2>1, <2>2 DEF Age
    <2>6. QED
      BY <1>1, <2>1, <2>3, <2>4, <2>5 DEF Smaller
  <1>8. QED
    BY <1>1, <1>3, <1>4, <1>5, <1>6, <1>7 DEF LimiterInv

(* Only Acquire, WaitForSlot and Tick touch the limiter, and only Acquire  *)
(* gives a slot.                                                           *)
LEMMA OtherStep ==
  ASSUME NEW t \in Thread,
         \/ Call(t) \/ WakeUp(t) \/ Send(t) \/ Respond(t) \/ Fail(t) \/ Retry(t)
  PROVE  UNCHANGED limiter /\ UNCHANGED slots
  BY DEF Call, WakeUp, Send, Respond, Fail, Retry

LEMMA NextLimiterInv ==
  LimiterInv /\ [Next]_vars
    => /\ LimiterInv'
       /\ slots' # slots =>
            granted[1] > Window /\ granted[MaxCalls] >= MinInterval
  <1> SUFFICES ASSUME LimiterInv, [Next]_vars
               PROVE  /\ LimiterInv'
                      /\ slots' # slots => /\ granted[1] > Window
                                           /\ granted[MaxCalls] >= MinInterval
    OBVIOUS
  <1>1. ASSUME UNCHANGED limiter PROVE LimiterInv'
    BY <1>1 DEF limiter, LimiterInv
  <1>2. CASE Tick
    BY <1>2, TickLimiterInv DEF Tick
  <1>3. ASSUME NEW t \in Thread, Acquire(t)
        PROVE  LimiterInv' /\ granted[1] > Window /\ granted[MaxCalls] >= MinInterval
    BY <1>3, AcquireLimiterInv
  <1>4. ASSUME NEW t \in Thread, WaitForSlot(t)
        PROVE  LimiterInv' /\ slots' = slots
    BY <1>4, WaitLimiterInv DEF WaitForSlot
  <1>5. CASE UNCHANGED vars
    BY <1>1, <1>5 DEF vars
  <1>6. QED
    BY <1>1, <1>2, <1>3, <1>4, <1>5, OtherStep DEF Next, Step

(* No window ever holds more than MaxCalls slots and no two slots are      *)
(* closer than MinInterval, for every number of threads (sliding_window.py *)
(* acquire).                                                               *)
THEOREM RateIsRespected == Spec => RateRespected
  BY InitLimiterInv, NextLimiterInv, PTL DEF Spec, RateRespected
-----------------------------------------------------------------------------
(* Where a thread is, and the attempts and slots it has had by then. *)
ThreadOK(t) ==
  /\ pc[t] = "idle" => attempt[t] = 0 /\ slots[t] = 0
  /\ pc[t] \in {"acquire", "waiting", "semaphore", "sending", "backoff"}
       => attempt[t] > 0
  /\ pc[t] \in {"acquire", "waiting"} => Limited(t) /\ slots[t] = attempt[t] - 1
  /\ pc[t] = "backoff" => Limited(t) /\ attempt[t] < MaxAttempts
  /\ Limited(t) /\ pc[t] \in {"semaphore", "sending", "backoff"}
       => slots[t] = attempt[t]

ThreadInv ==
  /\ pc \in [Thread -> Control]
  /\ attempt \in [Thread -> 0..MaxAttempts]
  /\ sleep \in [Thread -> Nat]
  /\ slots \in [Thread -> 0..MaxAttempts]
  /\ \A t \in Thread : ThreadOK(t)

LEMMA InitThreadInv == Init => ThreadInv
  BY GatewayAssumption DEF Init, ThreadInv, ThreadOK, Control

(* A step of one thread leaves the others where they are. *)
LEMMA OneThreadMoves ==
  ASSUME ThreadInv, NEW t \in Thread, Step(t)
  PROVE  \A u \in Thread \ {t} : /\ pc'[u] = pc[u] /\ attempt'[u] = attempt[u]
                                 /\ slots'[u] = slots[u]
  BY DEF ThreadInv, Step, Call, Acquire, WaitForSlot, WakeUp, Send, Respond,
         Fail, Retry, Goto

(* Every delay is a number of ticks. *)
LEMMA BackoffIsNat ==
  ASSUME NEW t \in Thread, attempt[t] \in Nat \ {0}, NEW failure \in Failure
  PROVE  Backoff(t, failure) \in Nat
  <1>1. attempt[t] - 1 \in Nat
    OBVIOUS
  <1>2. 2 ^ (attempt[t] - 1) \in Nat
    BY <1>1, PowerOfTwo
  <1> DEFINE d == 2 ^ (attempt[t] - 1)
  <1>3. d \in Nat
    BY <1>2
  <1>4. Backoff(t, failure) =
          Smaller(BackoffMax, IF failure = "rate_limited" /\ RetryAfter > 0
                              THEN RetryAfter ELSE BackoffInitial * d)
    BY DEF Backoff
  <1> HIDE DEF d
  <1>5. BackoffMax \in Nat /\ RetryAfter \in Nat /\ BackoffInitial * d \in Nat
    BY <1>3, GatewayAssumption
  <1>6. QED
    BY <1>4, <1>5 DEF Smaller

LEMMA WaitIsNat ==
  ASSUME LimiterInv, NEW n \in 0..Len(timestamps), Evicts(n)
  PROVE  Larger(1, IF Len(timestamps) - n >= MaxCalls
                   THEN Window - timestamps[n + 1]
                   ELSE MinInterval - since) \in Nat
  <1>1. /\ timestamps \in Seq(Age) /\ Len(timestamps) \in Nat
        /\ MaxCalls \in Nat \ {0} /\ Window \in Nat /\ MinInterval \in Nat
        /\ since \in 0..MinInterval
    BY GatewayAssumption DEF LimiterInv
  <1>2. CASE Len(timestamps) - n >= MaxCalls
    <2>1. n < Len(timestamps) /\ n + 1 \in 1..Len(timestamps)
      BY <1>1, <1>2
    <2>2. timestamps[n + 1] \in Age /\ timestamps[n + 1] <= Window
      BY <1>1, <2>1 DEF Evicts
    <2>3. QED
      BY <1>1, <1>2, <2>2 DEF Age, Larger
  <1>3. CASE ~(Len(timestamps) - n >= MaxCalls)
    BY <1>1, <1>3 DEF Larger
  <1>4. QED
    BY <1>2, <1>3

(* A step keeps ThreadInv: each action for the thread it moves. *)
LEMMA StepThreadInv ==
  ASSUME LimiterInv, ThreadInv, NEW t \in Thread, Step(t)
  PROVE  ThreadInv'
  <1>1. /\ MaxAttempts \in Nat \ {0} /\ attempt[t] \in 0..MaxAttempts
        /\ slots[t] \in 0..MaxAttempts /\ ThreadOK(t)
    BY GatewayAssumption DEF ThreadInv
  <1> DEFINE Typed == /\ pc' \in [Thread -> Control]
                      /\ attempt' \in [Thread -> 0..MaxAttempts]
                      /\ sleep' \in [Thread -> Nat]
                      /\ slots' \in [Thread -> 0..MaxAttempts]
  <1>2. ASSUME Call(t) PROVE Typed /\ ThreadOK(t)'
    <2>1. Typed
      BY <1>1, <1>2 DEF ThreadInv, Call, Goto, Control
    <2>2. ThreadOK(t)'
      BY <1>1, <1>2 DEF ThreadInv, ThreadOK, Call, Goto, Limited
    <2>3. QED
      BY <2>1, <2>2
  <1>3. ASSUME Acquire(t) PROVE Typed /\ ThreadOK(t)'
    <2>1. pc[t] = "acquire" /\ slots[t] = attempt[t] - 1 /\ attempt[t] > 0
      BY <1>1, <1>3 DEF ThreadOK, Acquire
    <2>2. Typed
      BY <1>1, <1>3, <2>1 DEF ThreadInv, Acquire, Goto, Control
    <2>3. ThreadOK(t)'
      BY <1>1, <1>3, <2>1 DEF ThreadInv, ThreadOK, Acquire, Goto, Limited
    <2>4. QED
      BY <2>2, <2>3
  <1>4. ASSUME WaitForSlot(t) PROVE Typed /\ ThreadOK(t)'
    <2>1. PICK n \in 0..Len(timestamps) :
            /\ Evicts(n)
            /\ sleep' = [sleep EXCEPT ![t] =
                 Larger(1, IF Len(timestamps) - n >= MaxCalls
                           THEN Window - timestamps[n + 1]
                           ELSE MinInterval - since)]
      BY <1>4 DEF WaitForSlot
    <2>2. sleep' \in [Thread -> Nat]
      BY <2>1, WaitIsNat DEF ThreadInv
    <2>3. Typed
      BY <1>4, <2>2 DEF ThreadInv, WaitForSlot, Goto, Control
    <2>4. ThreadOK(t)'
      BY <1>1, <1>4 DEF ThreadInv, ThreadOK, WaitForSlot, Goto, Limited
    <2>5. QED
      BY <2>3, <2>4
  <1>5. ASSUME WakeUp(t) \/ Send(t) \/ Respond(t) PROVE Typed /\ ThreadOK(t)'
    <2>1. Typed
      BY <1>5 DEF ThreadInv, WakeUp, Send, Respond, Goto, Control
    <2>2. ThreadOK(t)'
      BY <1>1, <1>5 DEF ThreadInv, ThreadOK, WakeUp, Send, Respond, Goto, Limited
    <2>3. QED
      BY <2>1, <2>2
  <1>6. ASSUME Fail(t) PROVE Typed /\ ThreadOK(t)'
    <2>1. /\ pc[t] = "sending" /\ attempt[t] \in Nat \ {0}
          /\ attempt' = attempt /\ slots' = slots
      BY <1>1, <1>6 DEF ThreadOK, Fail
    <2>2. PICK failure \in Failure :
            IF Retryable(t, failure)
            THEN sleep' = [sleep EXCEPT ![t] = Backoff(t, failure)]
                 /\ pc' = [pc EXCEPT ![t] = "backoff"]
            ELSE pc' = [pc EXCEPT ![t] = "raised"] /\ sleep' = sleep
      BY <1>6 DEF Fail, Goto
    <2>3. Backoff(t, failure) \in Nat
      BY <2>1, BackoffIsNat
    <2>4. Typed
      BY <2>1, <2>2, <2>3 DEF ThreadInv, Control
    <2>5. ThreadOK(t)'
      BY <1>1, <2>1, <2>2 DEF ThreadInv, ThreadOK, Retryable, Limited
    <2>6. QED
      BY <2>4, <2>5
  <1>7. ASSUME Retry(t) PROVE Typed /\ ThreadOK(t)'
    <2>1. /\ pc[t] = "backoff" /\ attempt[t] < MaxAttempts
          /\ slots[t] = attempt[t] /\ Limited(t)
      BY <1>1, <1>7 DEF ThreadOK, Retry
    <2>2. Typed
      BY <1>1, <1>7, <2>1 DEF ThreadInv, Retry, Goto, Control
    <2>3. ThreadOK(t)'
      BY <1>1, <1>7, <2>1 DEF ThreadInv, ThreadOK, Retry, Goto, Limited
    <2>4. QED
      BY <2>2, <2>3
  <1>8. Typed /\ ThreadOK(t)'
    BY <1>2, <1>3, <1>4, <1>5, <1>6, <1>7 DEF Step
  <1>9. ASSUME NEW u \in Thread \ {t} PROVE ThreadOK(u)'
    BY OneThreadMoves DEF ThreadInv, ThreadOK, Limited
  <1>10. QED
    BY <1>8, <1>9 DEF ThreadInv

LEMMA TickThreadInv == ThreadInv /\ Tick => ThreadInv'
  BY DEF Tick, ThreadInv, ThreadOK, Limited

LEMMA NextThreadInv == LimiterInv /\ ThreadInv /\ [Next]_vars => ThreadInv'
  <1> SUFFICES ASSUME LimiterInv, ThreadInv, [Next]_vars
               PROVE  ThreadInv'
    OBVIOUS
  <1>1. CASE UNCHANGED vars
    BY <1>1 DEF vars, ThreadInv, ThreadOK, Limited
  <1>2. QED
    BY <1>1, TickThreadInv, StepThreadInv DEF Next

(* Each attempt of the retry loop, failed ones included, takes a slot of   *)
(* its own before its request is sent (openai_compat.py chat, chat_stream).*)
THEOREM AttemptsHaveSlots == Spec => []EveryAttemptHasSlot
  <1>1. ThreadInv => EveryAttemptHasSlot
    BY DEF ThreadInv, ThreadOK, EveryAttemptHasSlot
  <1>2. QED
    BY <1>1, InitLimiterInv, NextLimiterInv, InitThreadInv, NextThreadInv, PTL
       DEF Spec

-----------------------------------------------------------------------------
(* The permits a provider has lent are the requests it has in flight. *)
Senders(p) == {t \in Thread : ProviderOf[t] = p /\ pc[t] = "sending"}

PermitInv ==
  /\ permits \in [Provider -> Nat]
  /\ \A p \in Provider : permits[p] + Cardinality(Senders(p)) = Concurrency

LEMMA SendersFinite ==
  \A p : IsFiniteSet(Senders(p)) /\ Cardinality(Senders(p)) \in Nat
  BY GatewayAssumption, FS_Subset, FS_CardinalityType DEF Senders

LEMMA InitPermitInv == Init => PermitInv
  <1> SUFFICES ASSUME Init PROVE PermitInv
    OBVIOUS
  <1>1. \A p : Senders(p) = {}
    BY DEF Init, Senders
  <1>2. \A p : Cardinality(Senders(p)) = 0
    BY <1>1, FS_EmptySet
  <1>3. Concurrency \in Nat /\ permits = [p \in Provider |-> Concurrency]
    BY GatewayAssumption DEF Init
  <1>4. QED
    BY <1>2, <1>3 DEF PermitInv

(* A thread that takes a permit joins the senders of its provider. *)
LEMMA SendPermitInv ==
  ASSUME ThreadInv, PermitInv, NEW t \in Thread, Send(t)
  PROVE  PermitInv'
  <1> DEFINE q == ProviderOf[t]
  <1>1. /\ q \in Provider /\ pc \in [Thread -> Control] /\ pc[t] = "semaphore"
        /\ permits[q] > 0 /\ permits' = [permits EXCEPT ![q] = @ - 1]
        /\ pc' = [pc EXCEPT ![t] = "sending"]
    BY GatewayAssumption DEF ThreadInv, Send, Goto
  <1>2. Senders(q)' = Senders(q) \cup {t} /\ t \notin Senders(q)
    BY <1>1 DEF Senders
  <1>3. \A p \in Provider \ {q} : Senders(p)' = Senders(p)
    BY <1>1 DEF Senders
  <1>4. Cardinality(Senders(q)') = Cardinality(Senders(q)) + 1
    BY <1>2, SendersFinite, FS_AddElement
  <1>5. /\ permits' \in [Provider -> Nat] /\ permits'[q] = permits[q] - 1
        /\ \A p \in Provider \ {q} : permits'[p] = permits[p]
    BY <1>1 DEF PermitInv
  <1>6. permits[q] \in Nat /\ Cardinality(Senders(q)) \in Nat
    BY <1>1, SendersFinite DEF PermitInv
  <1>7. permits'[q] + Cardinality(Senders(q)') = Concurrency
    BY <1>1, <1>4, <1>5, <1>6 DEF PermitInv
  <1>8. QED
    BY <1>3, <1>5, <1>7 DEF PermitInv

(* A thread whose request ends leaves them, whatever it does next. *)
LEMMA ReleasePermitInv ==
  ASSUME ThreadInv, PermitInv, NEW t \in Thread, Respond(t) \/ Fail(t)
  PROVE  PermitInv'
  <1> DEFINE q == ProviderOf[t]
  <1>1. PICK label \in Control \ {"sending"} : pc' = [pc EXCEPT ![t] = label]
    BY DEF Respond, Fail, Goto, Control
  <1>2. /\ q \in Provider /\ pc \in [Thread -> Control] /\ pc[t] = "sending"
        /\ permits' = [permits EXCEPT ![q] = @ + 1]
    BY GatewayAssumption DEF ThreadInv, Respond, Fail, Release
  <1>3. Senders(q)' = Senders(q) \ {t} /\ t \in Senders(q)
    BY <1>1, <1>2 DEF Senders
  <1>4. \A p \in Provider \ {q} : Senders(p)' = Senders(p)
    BY <1>1, <1>2 DEF Senders
  <1>5. Cardinality(Senders(q)') = Cardinality(Senders(q)) - 1
    BY <1>3, SendersFinite, FS_RemoveElement
  <1>6. /\ permits' \in [Provider -> Nat] /\ permits'[q] = permits[q] + 1
        /\ \A p \in Provider \ {q} : permits'[p] = permits[p]
    BY <1>2 DEF PermitInv
  <1>7. permits[q] \in Nat /\ Cardinality(Senders(q)) \in Nat
    BY <1>2, SendersFinite DEF PermitInv
  <1>8. permits'[q] + Cardinality(Senders(q)') = Concurrency
    BY <1>2, <1>5, <1>6, <1>7 DEF PermitInv
  <1>9. QED
    BY <1>4, <1>6, <1>8 DEF PermitInv

(* Other steps move no thread into or out of "sending". *)
LEMMA OtherPermitInv ==
  ASSUME ThreadInv, PermitInv,
         NEW t \in Thread,
         \/ Call(t) \/ Acquire(t) \/ WaitForSlot(t) \/ WakeUp(t) \/ Retry(t)
  PROVE  PermitInv'
  <1>1. PICK label \in Control \ {"sending"} : pc' = [pc EXCEPT ![t] = label]
    BY DEF Call, Acquire, WaitForSlot, WakeUp, Retry, Goto, Control
  <1>2. pc \in [Thread -> Control] /\ pc[t] # "sending" /\ permits' = permits
    BY DEF ThreadInv, Call, Acquire, WaitForSlot, WakeUp, Retry
  <1>3. \A p : Senders(p)' = Senders(p)
    BY <1>1, <1>2 DEF Senders
  <1>4. QED
    BY <1>2, <1>3 DEF PermitInv

LEMMA NextPermitInv == ThreadInv /\ PermitInv /\ [Next]_vars => PermitInv'
  <1> SUFFICES ASSUME ThreadInv, PermitInv, [Next]_vars
               PROVE  PermitInv'
    OBVIOUS
  <1>1. CASE UNCHANGED vars \/ Tick
    <2>1. permits' = permits /\ pc' = pc
      BY <1>1 DEF vars, Tick
    <2>2. \A p : Senders(p)' = Senders(p)
      BY <2>1 DEF Senders
    <2>3. QED
      BY <2>1, <2>2 DEF PermitInv
  <1>2. QED
    BY <1>1, SendPermitInv, ReleasePermitInv, OtherPermitInv DEF Next, Step

(* No permit is lost or lent twice, for every number of threads: a thread  *)
(* that sleeps between two attempts keeps none (openai_compat.py chat_stream)*)
THEOREM PermitsAccounted == Spec => []PermitsHeldBySenders
  <1>1. PermitInv => PermitsHeldBySenders
    BY DEF PermitInv, PermitsHeldBySenders, Senders
  <1>2. QED
    BY <1>1, InitLimiterInv, NextLimiterInv, InitThreadInv, NextThreadInv,
       InitPermitInv, NextPermitInv, PTL DEF Spec

(* The limiter, the semaphores and the threads keep their shape; attempts  *)
(* stay within retry.max_attempts, the deque within max_calls.             *)
THEOREM TypeCorrect == Spec => []TypeOK
  <1>1. LimiterInv /\ ThreadInv /\ PermitInv => TypeOK
    <2> SUFFICES ASSUME LimiterInv, ThreadInv, PermitInv PROVE TypeOK
      OBVIOUS
    <2>1. ASSUME NEW p \in Provider PROVE permits[p] \in 0..Concurrency
      <3>1. /\ permits[p] \in Nat /\ Cardinality(Senders(p)) \in Nat
            /\ permits[p] + Cardinality(Senders(p)) = Concurrency
        BY SendersFinite DEF PermitInv
      <3>2. QED
        BY <3>1
    <2>2. permits \in [Provider -> 0..Concurrency]
      BY <2>1 DEF PermitInv
    <2>3. QED
      BY <2>2 DEF LimiterInv, ThreadInv, TypeOK
  <1>2. QED
    BY <1>1, InitLimiterInv, NextLimiterInv, InitThreadInv, NextThreadInv,
       InitPermitInv, NextPermitInv, PTL DEF Spec
=============================================================================

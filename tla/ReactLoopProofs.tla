-------------------------- MODULE ReactLoopProofs --------------------------
(***************************************************************************)
(* Theorems about ReactLoop for every set of replies, tools and limits:    *)
(* its types, the limits on what is requested, the justification of the    *)
(* verdict, and that it implements Investigation (safety part); then about *)
(* the conversation it keeps: tool messages answer the calls of the        *)
(* assistant message before them, the counts and the harvested hashes      *)
(* agree with them, and the reminders are there when they must be.         *)
(***************************************************************************)
EXTENDS ReactLoop, FiniteSetTheorems, TLAPS

USE ReactAssumption DEF ReactAssumption

(* Every reply the provider gives has its calls in Seq(Key). *)
LEMMA ReplyHasCalls == \A r \in Reply : r.calls \in Seq(Key) /\ r \in ReplyType
  BY DEF ReplyType

(* What the head and the tail of a non-empty sequence of calls are. *)
LEMMA HeadTailOfCalls ==
  ASSUME NEW s \in Seq(Key), s # <<>>
  PROVE  Head(s) \in Key /\ Tail(s) \in Seq(Key)
  OBVIOUS

(* The types, with what control says of the reply and of the calls left. *)
TypeInv ==
  /\ TypeOK
  /\ pc \in {"replied", "dispatch", "turn_end"} => reply \in Reply
  /\ pc = "dispatch" => pending # <<>>

LEMMA InitTypeInv == Init => TypeInv
  <1> SUFFICES ASSUME Init PROVE TypeInv
    OBVIOUS
  <1>1. messages \in Seq(Message) /\ pending \in Seq(Key)
    BY DEF Init
  <1>2. /\ force_finalize \in BOOLEAN
        /\ finalize_reminder_added \in BOOLEAN
        /\ finalize_hallucination_retry \in BOOLEAN
    BY Zenon DEF Init
  <1>3. pc \in Control /\ step \in 0..MaxIter /\ tokens_used \in Nat
    BY DEF Init, Control
  <1>4. call_counts \in [Key -> Nat] /\ fail_counts \in [Key -> Nat]
    BY DEF Init
  <1>5. QED
    BY <1>1, <1>2, <1>3, <1>4 DEF Init, TypeInv, TypeOK

LEMMA NextTypeInv == TypeInv /\ [Next]_vars => TypeInv'
  <1> SUFFICES ASSUME TypeInv, [Next]_vars PROVE TypeInv'
    OBVIOUS
  <1> USE DEF TypeInv, TypeOK, flags, limits
  <1>1. CASE StartStep
    <2>1. messages' \in Seq(Message)
      <3>1. [role |-> "reminder"] \in Message
        BY DEF Message
      <3>2. \/ messages' = messages
            \/ messages' = Append(messages, [role |-> "reminder"])
        BY <1>1, Zenon DEF StartStep
      <3>3. CASE messages' = messages
        BY <3>3
      <3>4. CASE messages' = Append(messages, [role |-> "reminder"])
        BY <3>1, <3>4
      <3>5. QED
        BY <3>2, <3>3, <3>4
    <2>2. step' \in 0..MaxIter /\ force_finalize' \in BOOLEAN
      BY <1>1 DEF StartStep, MustFinalize
    <2>3. QED
      BY <1>1, <2>1, <2>2 DEF StartStep, Control
  <1>2. CASE ChatReturns
    BY <1>2 DEF ChatReturns, Control
  <1>3. CASE ChatRaises
    BY <1>3 DEF ChatRaises, Control
  <1>4. CASE RetryHallucination
    <2>1. messages' \in Seq(Message)
      <3>1. /\ [role |-> "assistant_text"] \in Message
            /\ [role |-> "reset"] \in Message
        BY DEF Message
      <3>2. <<[role |-> "assistant_text"], [role |-> "reset"]>> \in Seq(Message)
        BY <3>1
      <3>3. QED
        BY <1>4, <3>2 DEF RetryHallucination
    <2>2. QED
      BY <1>4, <2>1 DEF RetryHallucination, Control
  <1>5. CASE Answer
    BY <1>5 DEF Answer, VerdictOf, Control, Verdict
  <1>6. CASE BeginTools
    <2>1. reply.calls \in Seq(Key) /\ reply.calls # <<>>
      BY <1>6, ReplyHasCalls DEF BeginTools, Terminal
    <2>2. [role |-> "assistant", calls |-> reply.calls] \in Message
      BY <2>1 DEF Message
    <2>3. messages' \in Seq(Message)
      BY <1>6, <2>2 DEF BeginTools
    <2>4. QED
      BY <1>6, <2>1, <2>3 DEF BeginTools, Control
  <1>7. CASE DispatchCall
    <2> DEFINE k == Head(pending)
    <2>1. k \in Key /\ Tail(pending) \in Seq(Key)
      BY <1>7, HeadTailOfCalls DEF DispatchCall
    <2>2. PICK o \in Outcome :
            /\ call_counts' = [call_counts EXCEPT ![k] = @ + 1]
            /\ fail_counts' = IF o.errored
                              THEN [fail_counts EXCEPT ![k] = @ + 1]
                              ELSE fail_counts
            /\ messages' = Append(messages, [role |-> "tool", key |-> k,
                                             outcome |-> o])
            /\ seen_hashes' = IF o.errored THEN seen_hashes
                                           ELSE seen_hashes \cup o.hashes
      BY <1>7 DEF DispatchCall
    <2>3. o \in OutcomeType /\ o.hashes \in SUBSET Hash
      BY DEF OutcomeType
    <2>4. [role |-> "tool", key |-> k, outcome |-> o] \in Message
      BY <2>1, <2>3 DEF Message
    <2>5. messages' \in Seq(Message)
      BY <2>2, <2>4
    <2>6. call_counts' \in [Key -> Nat] /\ fail_counts' \in [Key -> Nat]
      BY <2>1, <2>2
    <2>7. seen_hashes' \in SUBSET Hash
      BY <2>2, <2>3
    <2>8. pc' \in {"turn_end", "dispatch"} /\ (pc' = "dispatch" => pending' # <<>>)
      BY <1>7 DEF DispatchCall
    <2>9. QED
      BY <1>7, <2>1, <2>5, <2>6, <2>7, <2>8 DEF DispatchCall, Control
  <1>8. CASE StopAtLimit
    BY <1>8 DEF StopAtLimit, Control, Verdict
  <1>9. CASE NextTurn
    BY <1>9 DEF NextTurn, Control
  <1>10. CASE Exhaust
    BY <1>10 DEF Exhaust, Control, Verdict
  <1>11. CASE ReturnResult
    BY <1>11 DEF ReturnResult, Control
  <1>12. CASE UNCHANGED vars
    BY <1>12 DEF vars
  <1>13. QED
    BY <1>1, <1>2, <1>3, <1>4, <1>5, <1>6, <1>7, <1>8, <1>9, <1>10, <1>11,
       <1>12 DEF Next

(* The type invariant holds for every choice of the constants. *)
THEOREM TypeCorrect == Spec => []TypeOK
  <1>1. TypeInv => TypeOK
    BY DEF TypeInv
  <1>2. QED
    BY <1>1, InitTypeInv, NextTypeInv, PTL DEF Spec

LEMMA AlwaysTypeInv == Spec => []TypeInv
  BY InitTypeInv, NextTypeInv, PTL DEF Spec

-----------------------------------------------------------------------------
(* Outside a tool turn no call has reached the limit; before a request the *)
(* tokens are spent only if the last turn was the malformed answer.        *)
LimitInv ==
  /\ pc \in {"loop", "chat", "replied"} =>
       /\ \A k \in Key : call_counts[k] < RepeatLimit
       /\ \A k \in Key : fail_counts[k] < RepeatLimit
  /\ pc \in {"loop", "chat"} => (OutOfTokens => finalize_hallucination_retry)

LEMMA InitLimitInv == Init => LimitInv
  BY DEF Init, LimitInv, OutOfTokens

LEMMA NextLimitInv == TypeInv /\ LimitInv /\ [Next]_vars => LimitInv'
  <1> SUFFICES ASSUME TypeInv, LimitInv, [Next]_vars PROVE LimitInv'
    OBVIOUS
  <1> USE DEF LimitInv, OutOfTokens, limits, flags
  <1>1. CASE StartStep
    BY <1>1 DEF StartStep
  <1>2. CASE ChatReturns
    BY <1>2 DEF ChatReturns
  <1>3. CASE RetryHallucination
    BY <1>3 DEF RetryHallucination
  <1>4. CASE NextTurn
    <2>1. /\ ~RepeatedFailure /\ ~RepeatedCall /\ ~(tokens_used >= TokenBudget)
          /\ UNCHANGED <<tokens_used, call_counts, fail_counts>>
      BY <1>4 DEF NextTurn
    <2>2. \A k \in Key : call_counts[k] \in Nat /\ fail_counts[k] \in Nat
      BY DEF TypeInv, TypeOK
    <2>3. \A k \in Key : call_counts[k] < RepeatLimit /\ fail_counts[k] < RepeatLimit
      BY <2>1, <2>2 DEF RepeatedFailure, RepeatedCall
    <2>4. QED
      BY <2>1, <2>3
  <1>5. CASE \/ ChatRaises \/ Answer \/ BeginTools \/ StopAtLimit
             \/ Exhaust \/ ReturnResult
    BY <1>5 DEF ChatRaises, Answer, BeginTools, StopAtLimit, Exhaust,
                ReturnResult
  <1>6. CASE DispatchCall
    BY <1>6 DEF DispatchCall
  <1>7. CASE UNCHANGED vars
    BY <1>7 DEF vars
  <1>8. QED
    BY <1>1, <1>2, <1>3, <1>4, <1>5, <1>6, <1>7 DEF Next

(* No request is made past a limit, whatever the limits are. *)
THEOREM RequestsStayWithinLimits == Spec => []RequestWithinLimits
  <1>1. LimitInv => RequestWithinLimits
    BY DEF LimitInv, RequestWithinLimits
  <1>2. QED
    BY <1>1, AlwaysTypeInv, InitLimitInv, NextLimitInv, PTL DEF Spec

-----------------------------------------------------------------------------
(* What control says of the reply and of the announced verdict.  At the    *)
(* head of the loop the last reply has been dealt with, so that a verdict  *)
(* announced there can only come from running out of steps.                *)
ControlInv ==
  /\ pc \in {"loop", "chat"} => reply = None
  /\ pc \notin {"announced", "returned"} => announced = None
  /\ pc # "loop" => step > 0

LEMMA InitControlInv == Init => ControlInv
  BY DEF Init, ControlInv

LEMMA NextControlInv == TypeInv /\ ControlInv /\ [Next]_vars => ControlInv'
  <1> SUFFICES ASSUME TypeInv, ControlInv, [Next]_vars PROVE ControlInv'
    OBVIOUS
  <1> USE DEF ControlInv
  <1>1. CASE StartStep
    <2>1. step \in Nat
      BY DEF TypeInv, TypeOK
    <2>2. QED
      BY <1>1, <2>1 DEF StartStep
  <1>2. CASE ChatReturns \/ ChatRaises \/ RetryHallucination
    BY <1>2 DEF ChatReturns, ChatRaises, RetryHallucination
  <1>3. CASE Answer \/ BeginTools
    BY <1>3 DEF Answer, BeginTools
  <1>4. CASE DispatchCall
    BY <1>4 DEF DispatchCall
  <1>5. CASE StopAtLimit \/ NextTurn \/ Exhaust \/ ReturnResult
    BY <1>5 DEF StopAtLimit, NextTurn, Exhaust, ReturnResult
  <1>6. CASE UNCHANGED vars
    BY <1>6 DEF vars
  <1>7. QED
    BY <1>1, <1>2, <1>3, <1>4, <1>5, <1>6 DEF Next

LEMMA AlwaysControlInv == Spec => [](TypeInv /\ LimitInv /\ ControlInv)
  BY InitTypeInv, NextTypeInv, InitLimitInv, NextLimitInv, InitControlInv,
     NextControlInv, PTL DEF Spec

LEMMA InitVerdict == Init => VerdictJustified
  BY DEF Init, VerdictJustified, Verdict

(* Once announced, nothing a verdict rests on changes. *)
LEMMA NextVerdict ==
  TypeInv /\ LimitInv /\ ControlInv /\ VerdictJustified /\ [Next]_vars
    => VerdictJustified'
  <1> SUFFICES ASSUME TypeInv, LimitInv, ControlInv, VerdictJustified,
                      [Next]_vars
               PROVE  VerdictJustified'
    OBVIOUS
  <1> USE DEF limits, flags
  <1>1. ASSUME announced' = None PROVE VerdictJustified'
    BY <1>1 DEF VerdictJustified, Verdict
  <1>2. CASE Answer
    <2>1. /\ Terminal(reply) /\ reply # None
          /\ announced' = VerdictOf(reply) /\ reply' = reply
      BY <1>2 DEF Answer, TypeInv, Verdict
    <2>2. Terminal(reply')
      BY <2>1
    <2>3. CASE reply.content = "final"
      BY <2>1, <2>3 DEF VerdictOf, VerdictJustified
    <2>4. CASE reply.content # "final"
      BY <2>1, <2>2, <2>4 DEF VerdictOf, VerdictJustified, Terminal, Tagged
    <2>5. QED
      BY <2>3, <2>4
  <1>3. CASE StopAtLimit
    <2>1. /\ RepeatedFailure' = RepeatedFailure
          /\ RepeatedCall' = RepeatedCall
          /\ OutOfTokens' = OutOfTokens
      BY <1>3 DEF StopAtLimit, RepeatedFailure, RepeatedCall, OutOfTokens
    <2>2. CASE RepeatedFailure
      BY <1>3, <2>1, <2>2 DEF StopAtLimit, VerdictJustified
    <2>3. CASE ~RepeatedFailure /\ RepeatedCall
      BY <1>3, <2>1, <2>3 DEF StopAtLimit, VerdictJustified
    <2>4. CASE ~RepeatedFailure /\ ~RepeatedCall
      BY <1>3, <2>1, <2>4 DEF StopAtLimit, VerdictJustified
    <2>5. QED
      BY <2>2, <2>3, <2>4
  <1>4. CASE Exhaust
    <2>1. \A k \in Key : fail_counts[k] < RepeatLimit /\ fail_counts[k] \in Nat
      BY <1>4 DEF Exhaust, LimitInv, TypeInv, TypeOK
    <2>2. ~RepeatedFailure
      BY <2>1 DEF RepeatedFailure
    <2>3. /\ ~RepeatedFailure' /\ step' = MaxIter /\ reply' = None
          /\ announced' = "max_iter_reached"
      BY <1>4, <2>2 DEF Exhaust, ControlInv, RepeatedFailure
    <2>4. QED
      BY <2>3 DEF VerdictJustified
  <1>5. CASE ReturnResult \/ UNCHANGED vars
    <2>1. UNCHANGED <<announced, reply, step, tokens_used, call_counts,
                      fail_counts>>
      BY <1>5 DEF ReturnResult, vars
    <2>2. QED
      BY <2>1 DEF VerdictJustified, RepeatedFailure, RepeatedCall,
                  OutOfTokens, Terminal, Tagged
  <1>6. CASE \/ StartStep \/ ChatReturns \/ ChatRaises \/ RetryHallucination
             \/ BeginTools \/ NextTurn
    BY <1>1, <1>6 DEF StartStep, ChatReturns, ChatRaises, RetryHallucination,
                      BeginTools, NextTurn, ControlInv
  <1>7. CASE DispatchCall
    BY <1>1, <1>7 DEF DispatchCall, ControlInv
  <1>8. QED
    BY <1>2, <1>3, <1>4, <1>5, <1>6, <1>7 DEF Next

(* Every verdict is justified by the state it was reached in. *)
THEOREM VerdictsAreJustified == Spec => []VerdictJustified
  BY AlwaysControlInv, InitVerdict, NextVerdict, PTL DEF Spec

-----------------------------------------------------------------------------
LEMMA InitImplements == Init => Abstract!InvestigationInit
  BY DEF Init, Phase, Abstract!InvestigationInit

LEMMA NextImplements ==
  TypeInv /\ ControlInv /\ [Next]_vars
    => [Abstract!InvestigationNext]_(Abstract!iVars)
  <1> SUFFICES ASSUME TypeInv, ControlInv, [Next]_vars
               PROVE  \/ Abstract!InvestigationNext
                      \/ UNCHANGED Abstract!iVars
    OBVIOUS
  <1> USE DEF Abstract!InvestigationNext, Abstract!iVars, Phase
  <1>1. CASE StartStep
    BY <1>1 DEF StartStep, Abstract!ReportStep
  <1>2. CASE ChatRaises
    BY <1>2 DEF ChatRaises, ControlInv, Abstract!Raise
  <1>3. CASE Answer
    <2>1. VerdictOf(reply) \in Verdict
      BY DEF VerdictOf, Verdict
    <2>2. Abstract!Announce(VerdictOf(reply))
      BY <1>3 DEF Answer, ControlInv, Abstract!Announce
    <2>3. QED
      BY <2>1, <2>2
  <1>4. CASE StopAtLimit \/ Exhaust
    <2>1. announced' \in Verdict
      BY <1>4 DEF StopAtLimit, Exhaust, Verdict
    <2>2. Abstract!Announce(announced')
      BY <1>4 DEF StopAtLimit, Exhaust, ControlInv, Abstract!Announce
    <2>3. QED
      BY <2>1, <2>2
  <1>5. CASE ReturnResult
    BY <1>5 DEF ReturnResult, Abstract!Return
  <1>6. CASE ChatReturns \/ RetryHallucination \/ BeginTools \/ NextTurn
    BY <1>6 DEF ChatReturns, RetryHallucination, BeginTools, NextTurn
  <1>7. CASE DispatchCall
    BY <1>7 DEF DispatchCall
  <1>8. CASE UNCHANGED vars
    BY <1>8 DEF vars
  <1>9. QED
    BY <1>1, <1>2, <1>3, <1>4, <1>5, <1>6, <1>7, <1>8 DEF Next

(* The loop implements the safety part of Investigation: one terminate     *)
(* event, the last, with the verdict returned.                             *)
THEOREM LoopImplementsInvestigation == Spec => Abstract!InvestigationSafety
  <1>1. Spec => [][Abstract!InvestigationNext]_(Abstract!iVars)
    BY AlwaysControlInv, NextImplements, PTL DEF Spec
  <1>2. QED
    BY <1>1, InitImplements DEF Spec, Abstract!InvestigationSafety

----------------------------------------------------------------------------
(* The conversation.                                                       *)

(* What the conversation looks like while calls of a reply are pending:    *)
(* the messages of the calls made so far are there, those of the pending   *)
(* ones come next, and outside a tool turn none is missing.                *)
Answered(i) ==
  /\ messages[i].calls \in Seq(Key)
  /\ \A j \in 1..Len(messages[i].calls) : i + j <= Len(messages) =>
       messages[i + j].role = "tool" /\ messages[i + j].key = messages[i].calls[j]

Open(i) ==
  /\ pc = "dispatch"
  /\ i + Len(messages[i].calls) = Len(messages) + Len(pending)
  /\ \A j \in 1..Len(messages[i].calls) : i + j > Len(messages) =>
       messages[i].calls[j] = pending[i + j - Len(messages)]

Asked(i) ==
  \E j \in 1..(i - 1) :
    messages[j].role = "assistant" /\ i - j <= Len(messages[j].calls)

ThreadInv ==
  /\ \A i \in 1..Len(messages) : messages[i].role = "assistant" =>
       Answered(i) /\ (Open(i) \/ i + Len(messages[i].calls) <= Len(messages))
  /\ \A i \in 1..Len(messages) : messages[i].role = "tool" => Asked(i)
  /\ pc = "dispatch" => \E i \in 1..Len(messages) :
       messages[i].role = "assistant" /\ Open(i)

(* What appending a message changes, and what it leaves.                   *)
LEMMA Appended ==
  ASSUME NEW s \in Seq(Message), NEW m \in Message
  PROVE  /\ Append(s, m) \in Seq(Message)
         /\ Len(Append(s, m)) = Len(s) + 1
         /\ \A i \in 1..Len(s) : Append(s, m)[i] = s[i]
         /\ Append(s, m)[Len(s) + 1] = m
         /\ DOMAIN s = 1..Len(s) /\ Len(s) \in Nat
         /\ DOMAIN Append(s, m) = 1..(Len(s) + 1)
  OBVIOUS

LEMMA LoopMessages ==
  [role |-> "reminder"] \in Message /\ [role |-> "assistant_text"] \in Message
    /\ [role |-> "reset"] \in Message
  BY DEF Message

(* Two messages appended at once are appended one after the other.         *)
LEMMA AppendTwo ==
  ASSUME NEW s \in Seq(Message), NEW a \in Message, NEW b \in Message
  PROVE  s \o <<a, b>> = Append(Append(s, a), b)
  OBVIOUS

(* What the loop says itself, behind the other messages, disturbs no       *)
(* thread.                                                                 *)
Remarks ==
  /\ Len(messages) \in Nat /\ Len(messages') \in Nat /\ Len(messages) <= Len(messages')
  /\ \A i \in 1..Len(messages) : messages'[i] = messages[i]
  /\ \A i \in 1..Len(messages') :
       i > Len(messages) => messages'[i].role \notin {"assistant", "tool"}

LEMMA RemarksKeepThread ==
  ASSUME ThreadInv, pc # "dispatch", pc' # "dispatch", Remarks
  PROVE  ThreadInv'
  <1> USE DEF Remarks
  <1>1. ASSUME NEW i \in 1..Len(messages'), messages'[i].role = "assistant"
        PROVE  Answered(i)' /\ i + Len(messages'[i].calls) <= Len(messages')
    <2>1. /\ i \in 1..Len(messages) /\ messages[i].role = "assistant"
          /\ messages'[i] = messages[i]
      BY <1>1
    <2>2. Answered(i) /\ i + Len(messages[i].calls) <= Len(messages)
      BY <2>1 DEF ThreadInv, Open
    <2>3. messages[i].calls \in Seq(Key) /\ Len(messages[i].calls) \in Nat
      BY <2>2 DEF Answered
    <2>4. \A j \in 1..Len(messages[i].calls) :
             i + j \in 1..Len(messages) /\ messages'[i + j] = messages[i + j]
      BY <2>1, <2>2, <2>3
    <2> QED
      BY <2>1, <2>2, <2>3, <2>4 DEF Answered
  <1>2. ASSUME NEW i \in 1..Len(messages'), messages'[i].role = "tool"
        PROVE  Asked(i)'
    <2>1. /\ i \in 1..Len(messages) /\ messages[i].role = "tool"
      BY <1>2
    <2>2. Asked(i)
      BY <2>1 DEF ThreadInv
    <2> QED
      BY <2>1, <2>2 DEF Asked
  <1> QED
    BY <1>1, <1>2 DEF ThreadInv

(* The message of an earlier turn: its thread is complete and stays so.    *)
LEMMA CompleteKeeps ==
  ASSUME NEW m, NEW i \in 1..Len(messages), Len(messages) \in Nat,
         Answered(i), i + Len(messages[i].calls) <= Len(messages),
         Len(messages') = Len(messages) + 1,
         \A n \in 1..Len(messages) : messages'[n] = messages[n]
  PROVE  Answered(i)' /\ i + Len(messages'[i].calls) <= Len(messages')
  <1>1. messages[i].calls \in Seq(Key) /\ Len(messages[i].calls) \in Nat
    BY DEF Answered
  <1>2. \A j \in 1..Len(messages[i].calls) :
           i + j \in 1..Len(messages) /\ messages'[i + j] = messages[i + j]
    BY <1>1
  <1> QED
    BY <1>1, <1>2 DEF Answered

(* A reply that asks for tools opens a thread of its own.                  *)
LEMMA BeginKeepsThread ==
  ASSUME TypeInv, ThreadInv, BeginTools
  PROVE  ThreadInv'
  <1> DEFINE m == [role |-> "assistant", calls |-> reply.calls]
  <1>1. m.role = "assistant" /\ m.calls = reply.calls
    OBVIOUS
  <1>2. reply.calls \in Seq(Key) /\ reply.calls # <<>>
    BY ReplyHasCalls DEF BeginTools, Terminal, TypeInv
  <1>3. m \in Message
    BY <1>2 DEF Message
  <1> HIDE DEF m
  <1>4. messages' = Append(messages, m) /\ pending' = reply.calls
        /\ pc = "replied" /\ pc' = "dispatch"
    BY DEF BeginTools, m
  <1>5. /\ Len(messages') = Len(messages) + 1 /\ Len(messages) \in Nat
        /\ \A i \in 1..Len(messages) : messages'[i] = messages[i]
        /\ messages'[Len(messages) + 1] = m
    BY <1>3, <1>4, Appended DEF TypeInv, TypeOK
  <1>6. PICK last : last = Len(messages) + 1
    OBVIOUS
  <1>7. ASSUME NEW i \in 1..Len(messages), messages'[i].role = "assistant"
        PROVE  Answered(i)' /\ i + Len(messages'[i].calls) <= Len(messages')
    <2>1. messages[i].role = "assistant"
      BY <1>5, <1>7
    <2>2. Answered(i) /\ i + Len(messages[i].calls) <= Len(messages)
      BY <1>4, <2>1 DEF ThreadInv, Open
    <2> QED
      BY <1>5, <2>2, CompleteKeeps
  <1>8. Answered(last)' /\ Open(last)'
    <2>1. /\ messages'[last].calls = reply.calls /\ last = Len(messages') /\ last \in Nat
          /\ Len(reply.calls) \in Nat
      BY <1>1, <1>2, <1>5, <1>6
    <2>2. \A j \in 1..Len(reply.calls) : ~(last + j <= last) /\ last + j - last = j
      BY <2>1
    <2>3. Answered(last)'
      BY <1>2, <2>1, <2>2 DEF Answered
    <2>4. Open(last)'
      BY <1>4, <2>1, <2>2 DEF Open
    <2> QED
      BY <2>3, <2>4
  <1>9. ASSUME NEW i \in 1..Len(messages'), messages'[i].role = "tool"
        PROVE  Asked(i)'
    <2>1. i \in 1..Len(messages) /\ messages[i].role = "tool"
      BY <1>1, <1>5, <1>9
    <2>2. Asked(i)
      BY <2>1 DEF ThreadInv
    <2> QED
      BY <1>5, <2>1, <2>2 DEF Asked
  <1>10. /\ \A i \in 1..Len(messages') : i \in 1..Len(messages) \/ i = last
         /\ last \in 1..Len(messages') /\ messages'[last].role = "assistant"
    BY <1>1, <1>5, <1>6
  <1>11. \A i \in 1..Len(messages') : messages'[i].role = "assistant" =>
           Answered(i)' /\ (Open(i)' \/ i + Len(messages'[i].calls) <= Len(messages'))
    BY <1>7, <1>8, <1>10
  <1>12. \E i \in 1..Len(messages') : messages'[i].role = "assistant" /\ Open(i)'
    BY <1>8, <1>10
  <1> QED
    BY <1>9, <1>11, <1>12 DEF ThreadInv

(* A tool message answers the next call of the open thread.                *)
LEMMA DispatchKeepsThread ==
  ASSUME TypeInv, ThreadInv, DispatchCall
  PROVE  ThreadInv'
  <1>1. pc = "dispatch" /\ pending \in Seq(Key) /\ pending # <<>> /\ pending' = Tail(pending)
    BY DEF DispatchCall, TypeInv, TypeOK
  <1>2. /\ Len(pending) \in Nat \ {0} /\ Head(pending) = pending[1] /\ Head(pending) \in Key
        /\ Len(pending') = Len(pending) - 1 /\ pending' \in Seq(Key)
        /\ \A j \in 1..Len(pending') : pending'[j] = pending[j + 1]
    BY <1>1
  <1>3. pc' = "dispatch" \/ Len(pending') = 0
    <2>1. pc' = IF Tail(pending) = <<>> THEN "turn_end" ELSE "dispatch"
      BY DEF DispatchCall
    <2>2. CASE Tail(pending) = <<>>
      BY <1>1, <2>2
    <2>3. CASE Tail(pending) # <<>>
      BY <2>1, <2>3
    <2> QED
      BY <2>2, <2>3
  <1>4. PICK o \in Outcome :
          messages' = Append(messages, [role |-> "tool", key |-> Head(pending), outcome |-> o])
    BY DEF DispatchCall
  <1> DEFINE m == [role |-> "tool", key |-> Head(pending), outcome |-> o]
  <1>5. m.role = "tool" /\ m.key = Head(pending)
    OBVIOUS
  <1>6. o \in OutcomeType
    OBVIOUS
  <1>7. m \in Message
    BY <1>2, <1>6 DEF Message
  <1>8. messages' = Append(messages, m)
    BY <1>4
  <1> HIDE DEF m
  <1>9. /\ Len(messages') = Len(messages) + 1 /\ Len(messages) \in Nat
        /\ \A i \in 1..Len(messages) : messages'[i] = messages[i]
        /\ messages'[Len(messages) + 1] = m
    BY <1>7, <1>8, Appended DEF TypeInv, TypeOK
  <1>10. ASSUME NEW i \in 1..Len(messages), messages[i].role = "assistant", Open(i)
         PROVE  /\ Answered(i)'
                /\ Open(i)' \/ i + Len(messages'[i].calls) <= Len(messages')
                /\ (pc' = "dispatch" => Open(i)')
                /\ i < Len(messages') /\ Len(messages') - i <= Len(messages'[i].calls)
    <2>1. Answered(i)
      BY <1>10 DEF ThreadInv
    <2>2. PICK calls \in Seq(Key) : calls = messages[i].calls /\ calls = messages'[i].calls
      BY <1>9, <2>1 DEF Answered
    <2>3. Len(calls) \in Nat
      BY <2>2
    <2>4. i + Len(calls) = Len(messages) + Len(pending)
      BY <1>10, <2>2 DEF Open
    <2>5. i + Len(calls) = Len(messages') + Len(pending')
      <3>1. /\ Len(messages) \in Nat /\ Len(pending) \in Nat
            /\ Len(messages') = Len(messages) + 1 /\ Len(pending') = Len(pending) - 1
        BY <1>2, <1>9
      <3> QED
        BY <2>3, <2>4, <3>1
    <2>6. \A j \in 1..Len(calls) : i + j > Len(messages) => calls[j] = pending[i + j - Len(messages)]
      BY <1>10, <2>2 DEF Open
    <2>7. \A j \in 1..Len(calls) : i + j > Len(messages') =>
             calls[j] = pending'[i + j - Len(messages')]
      <3>1. SUFFICES ASSUME NEW j \in 1..Len(calls), i + j > Len(messages')
                     PROVE  calls[j] = pending'[i + j - Len(messages')]
        OBVIOUS
      <3>2. i + j - Len(messages') \in 1..Len(pending')
        BY <1>2, <1>9, <2>3, <2>5, <3>1
      <3>3. i + j - Len(messages') + 1 = i + j - Len(messages)
        BY <1>9
      <3>4. calls[j] = pending[i + j - Len(messages)]
        BY <1>9, <2>6, <3>1
      <3> QED
        BY <1>2, <3>2, <3>3, <3>4
    <2>8. \A j \in 1..Len(calls) : i + j <= Len(messages') =>
             messages'[i + j].role = "tool" /\ messages'[i + j].key = calls[j]
      <3>1. SUFFICES ASSUME NEW j \in 1..Len(calls), i + j <= Len(messages')
                     PROVE  messages'[i + j].role = "tool" /\ messages'[i + j].key = calls[j]
        OBVIOUS
      <3>2. CASE i + j <= Len(messages)
        <4>1. i + j \in 1..Len(messages)
          BY <1>9, <2>3, <3>2
        <4>2. messages[i + j].role = "tool" /\ messages[i + j].key = calls[j]
          BY <2>1, <2>2, <3>2 DEF Answered
        <4> QED
          BY <1>9, <4>1, <4>2
      <3>3. CASE i + j = Len(messages) + 1
        <4>1. i + j > Len(messages) /\ i + j - Len(messages) = 1
          BY <1>9, <3>3
        <4>2. calls[j] = pending[i + j - Len(messages)]
          BY <2>6, <4>1
        <4>3. calls[j] = pending[1]
          BY <4>1, <4>2
        <4> QED
          BY <1>2, <1>5, <1>9, <3>3, <4>3
      <3> QED
        BY <1>9, <2>3, <3>1, <3>2, <3>3
    <2>9. Answered(i)'
      BY <2>2, <2>8 DEF Answered
    <2>10. pc' = "dispatch" => Open(i)'
      BY <2>2, <2>5, <2>7 DEF Open
    <2>11. Len(pending') = 0 => i + Len(calls) <= Len(messages')
      BY <1>9, <2>3, <2>5
    <2>12. i < Len(messages') /\ Len(messages') - i <= Len(calls)
      BY <1>2, <1>9, <2>3, <2>5
    <2> QED
      BY <1>3, <2>2, <2>9, <2>10, <2>11, <2>12
  <1>11. \A i \in 1..Len(messages') : i \in 1..Len(messages) \/ i = Len(messages')
    BY <1>9
  <1>12. messages'[Len(messages')].role = "tool"
    BY <1>5, <1>9
  <1>13. ASSUME NEW i \in 1..Len(messages'), messages'[i].role = "assistant"
         PROVE  Answered(i)' /\ (Open(i)' \/ i + Len(messages'[i].calls) <= Len(messages'))
    <2>1. i \in 1..Len(messages) /\ messages[i].role = "assistant"
      BY <1>9, <1>11, <1>12, <1>13
    <2>2. CASE Open(i)
      BY <1>10, <2>1, <2>2
    <2>3. CASE ~ Open(i)
      <3>1. Answered(i) /\ i + Len(messages[i].calls) <= Len(messages)
        BY <2>1, <2>3 DEF ThreadInv
      <3> QED
        BY <1>9, <2>1, <3>1, CompleteKeeps
    <2> QED
      BY <2>2, <2>3
  <1>14. PICK i \in 1..Len(messages) : messages[i].role = "assistant" /\ Open(i)
    BY <1>1 DEF ThreadInv
  <1>15. ASSUME NEW n \in 1..Len(messages'), messages'[n].role = "tool"
         PROVE  Asked(n)'
    <2>1. CASE n \in 1..Len(messages)
      <3>1. Asked(n)
        BY <1>9, <1>15, <2>1 DEF ThreadInv
      <3> QED
        BY <1>9, <2>1, <3>1 DEF Asked
    <2>2. CASE n = Len(messages')
      <3>1. i < n /\ n - i <= Len(messages'[i].calls) /\ messages'[i].role = "assistant"
        BY <1>9, <1>10, <1>14, <2>2
      <3>2. i \in 1..(n - 1)
        BY <1>9, <2>2, <3>1
      <3> QED
        BY <3>1, <3>2 DEF Asked
    <2> QED
      BY <1>11, <2>1, <2>2
  <1>16. pc' = "dispatch" => messages'[i].role = "assistant" /\ Open(i)'
    BY <1>9, <1>10, <1>14
  <1>17. i \in 1..Len(messages')
    BY <1>9
  <1> QED
    BY <1>13, <1>15, <1>16, <1>17 DEF ThreadInv

(* No action but these touches the conversation, the counts or the hashes.  *)
LEMMA Quiet ==
  ASSUME [Next]_vars, ~ StartStep, ~ RetryHallucination, ~ BeginTools, ~ DispatchCall
  PROVE  /\ UNCHANGED <<messages, call_counts, fail_counts, seen_hashes>>
         /\ (pc' # "dispatch" /\ pc # "dispatch") \/ (pc' = pc /\ pending' = pending)
         /\ UNCHANGED flags
  <1>1. CASE ChatReturns \/ ChatRaises \/ Answer
    BY <1>1 DEF ChatReturns, ChatRaises, Answer, limits
  <1>2. CASE StopAtLimit \/ NextTurn \/ Exhaust \/ ReturnResult
    BY <1>2 DEF StopAtLimit, NextTurn, Exhaust, ReturnResult, limits
  <1>3. CASE UNCHANGED vars
    BY <1>3 DEF vars, limits
  <1> QED
    BY <1>1, <1>2, <1>3 DEF Next

(* What the loop adds before a forced answer and after a malformed one.    *)
LEMMA RetryAppends ==
  ASSUME TypeOK, RetryHallucination
  PROVE  LET reset == [role |-> "reset"]
             text == [role |-> "assistant_text"]
         IN /\ messages' = Append(Append(messages, text), reset)
            /\ Remarks
  <1> DEFINE a == [role |-> "assistant_text"]
             b == [role |-> "reset"]
  <1>1. a.role \notin {"assistant", "tool"} /\ b.role \notin {"assistant", "tool"}
    OBVIOUS
  <1>2. a \in Message /\ b \in Message
    BY LoopMessages
  <1>3. messages' = messages \o <<a, b>> /\ messages \in Seq(Message)
    BY DEF RetryHallucination, TypeOK
  <1>4. messages' = Append(Append(messages, a), b)
    BY <1>2, <1>3, AppendTwo
  <1> HIDE DEF a, b
  <1>5. /\ Len(messages) \in Nat /\ Len(messages') = Len(messages) + 2
        /\ \A i \in 1..Len(messages) : messages'[i] = messages[i]
        /\ messages'[Len(messages) + 1] = a /\ messages'[Len(messages) + 2] = b
    BY <1>2, <1>3
  <1>6. \A i \in 1..Len(messages') :
          i > Len(messages) => i = Len(messages) + 1 \/ i = Len(messages) + 2
    BY <1>5
  <1>7. Remarks
    BY <1>1, <1>5, <1>6 DEF Remarks
  <1> QED
    BY <1>4, <1>7 DEF a, b

LEMMA StartAppends ==
  ASSUME TypeOK, StartStep
  PROVE  \/ UNCHANGED messages
         \/ messages' = Append(messages, [role |-> "reminder"]) /\ Remarks
  <1>1. CASE UNCHANGED messages
    BY <1>1
  <1>2. CASE messages' = Append(messages, [role |-> "reminder"])
    BY <1>2, LoopMessages, Appended DEF TypeOK, Remarks
  <1> QED
    BY <1>1, <1>2 DEF StartStep

LEMMA InitThread == Init => ThreadInv
  BY DEF Init, ThreadInv

LEMMA SameKeepsThread ==
  ASSUME ThreadInv, UNCHANGED messages,
         (pc' # "dispatch" /\ pc # "dispatch") \/ (pc' = pc /\ pending' = pending)
  PROVE  ThreadInv'
  <1>1. CASE pc' # "dispatch" /\ pc # "dispatch"
    BY <1>1 DEF ThreadInv, Answered, Open, Asked
  <1>2. CASE pc' = pc /\ pending' = pending
    BY <1>2 DEF ThreadInv, Answered, Open, Asked
  <1> QED
    BY <1>1, <1>2

LEMMA NextThread == TypeInv /\ ThreadInv /\ [Next]_vars => ThreadInv'
  <1> SUFFICES ASSUME TypeInv, ThreadInv, [Next]_vars PROVE ThreadInv'
    OBVIOUS
  <1>1. CASE StartStep
    <2>1. pc # "dispatch" /\ pc' # "dispatch"
      BY <1>1 DEF StartStep
    <2> QED
      BY <1>1, <2>1, StartAppends, SameKeepsThread, RemarksKeepThread DEF TypeInv
  <1>2. CASE RetryHallucination
    <2>1. pc # "dispatch" /\ pc' # "dispatch"
      BY <1>2 DEF RetryHallucination
    <2> QED
      BY <1>2, <2>1, RetryAppends, RemarksKeepThread DEF TypeInv
  <1>3. CASE BeginTools
    BY <1>3, BeginKeepsThread
  <1>4. CASE DispatchCall
    BY <1>4, DispatchKeepsThread
  <1> QED
    BY <1>1, <1>2, <1>3, <1>4, Quiet, SameKeepsThread

(* Whenever the model is asked, every call of an assistant message has its *)
(* tool message, in the calls' order and at once behind it, and no tool    *)
(* message stands elsewhere: run_react_loop threads what it dispatches     *)
(* (agent/react/loop.py), whatever the tools do.                           *)
THEOREM ConversationIsThreaded == Spec => []Threaded
  <1>1. TypeInv /\ ThreadInv => Threaded
    <2> SUFFICES ASSUME TypeInv, ThreadInv, pc = "chat" PROVE Threaded
      BY DEF Threaded
    <2>1. DOMAIN messages = 1..Len(messages) /\ Len(messages) \in Nat
      BY DEF TypeInv, TypeOK
    <2>2. ASSUME NEW i \in 1..Len(messages), messages[i].role = "assistant"
          PROVE  /\ i + Len(messages[i].calls) <= Len(messages)
                 /\ \A j \in DOMAIN messages[i].calls :
                      /\ messages[i + j].role = "tool"
                      /\ messages[i + j].key = messages[i].calls[j]
      <3>1. Answered(i) /\ i + Len(messages[i].calls) <= Len(messages)
        BY <2>2 DEF ThreadInv, Open
      <3>2. /\ DOMAIN messages[i].calls = 1..Len(messages[i].calls)
            /\ Len(messages[i].calls) \in Nat
        BY <3>1 DEF Answered
      <3>3. \A j \in 1..Len(messages[i].calls) : i + j <= Len(messages)
        BY <2>1, <3>1, <3>2
      <3> QED
        BY <3>1, <3>2, <3>3 DEF Answered
    <2>3. ASSUME NEW i \in 1..Len(messages), messages[i].role = "tool"
          PROVE  \E j \in 1..(i - 1) :
                   messages[j].role = "assistant" /\ i - j <= Len(messages[j].calls)
      BY <2>3 DEF ThreadInv, Asked
    <2> QED
      BY <2>1, <2>2, <2>3 DEF Threaded
  <1> QED
    BY <1>1, AlwaysTypeInv, InitThread, NextThread, PTL DEF Spec

-----------------------------------------------------------------------------
(* Messages by their role, and tool messages by the call they answer.      *)
OfRole(s, role) == {i \in 1..Len(s) : s[i].role = role}
OfKey(s, k) == {i \in 1..Len(s) : s[i].role = "tool" /\ s[i].key = k}
OfFailed(s, k) ==
  {i \in 1..Len(s) : s[i].role = "tool" /\ s[i].key = k /\ s[i].outcome.errored}

(* A set of places grows by the last one or not at all.                    *)
LEMMA CountGrows ==
  ASSUME NEW n \in Nat, NEW A \in SUBSET (1..n), NEW B,
         B = A \/ B = A \cup {n + 1}
  PROVE  /\ Cardinality(A) \in Nat
         /\ Cardinality(B) = IF B = A THEN Cardinality(A) ELSE Cardinality(A) + 1
  <1>1. IsFiniteSet(A)
    <2>1. 1 \in Int /\ n \in Int
      OBVIOUS
    <2>2. IsFiniteSet(1..n)
      BY <2>1, FS_Interval
    <2> QED
      BY <2>2, FS_Subset
  <1>2. n + 1 \notin A
    OBVIOUS
  <1> QED
    BY <1>1, <1>2, FS_AddElement, FS_CardinalityType

LEMMA RoleCount ==
  ASSUME NEW s \in Seq(Message), NEW m \in Message, NEW role
  PROVE  /\ Cardinality(OfRole(s, role)) \in Nat
         /\ Cardinality(OfRole(Append(s, m), role)) =
              IF m.role = role THEN Cardinality(OfRole(s, role)) + 1
              ELSE Cardinality(OfRole(s, role))
  <1> DEFINE A == OfRole(s, role)
             B == OfRole(Append(s, m), role)
  <1>1. Len(s) \in Nat /\ A \in SUBSET (1..Len(s)) /\ Len(s) + 1 \notin A
    BY DEF OfRole
  <1>2. m.role = role => B = A \cup {Len(s) + 1}
    BY Appended DEF OfRole
  <1>3. m.role # role => B = A
    BY Appended DEF OfRole
  <1> HIDE DEF A, B
  <1>4. m.role = role => B # A
    BY <1>1, <1>2
  <1>5. /\ Cardinality(A) \in Nat
        /\ Cardinality(B) = IF m.role = role THEN Cardinality(A) + 1 ELSE Cardinality(A)
    BY <1>1, <1>2, <1>3, <1>4, CountGrows
  <1> QED
    BY <1>5 DEF A, B

LEMMA KeyCount ==
  ASSUME NEW s \in Seq(Message), NEW m \in Message, m.role = "tool", NEW k
  PROVE  /\ Cardinality(OfKey(s, k)) \in Nat
         /\ Cardinality(OfKey(Append(s, m), k)) =
              IF m.key = k THEN Cardinality(OfKey(s, k)) + 1 ELSE Cardinality(OfKey(s, k))
  <1> DEFINE A == OfKey(s, k)
             B == OfKey(Append(s, m), k)
  <1>1. Len(s) \in Nat /\ A \in SUBSET (1..Len(s)) /\ Len(s) + 1 \notin A
    BY DEF OfKey
  <1>2. m.key = k => B = A \cup {Len(s) + 1}
    BY Appended DEF OfKey
  <1>3. m.key # k => B = A
    BY Appended DEF OfKey
  <1> HIDE DEF A, B
  <1>4. m.key = k => B # A
    BY <1>1, <1>2
  <1>5. /\ Cardinality(A) \in Nat
        /\ Cardinality(B) = IF m.key = k THEN Cardinality(A) + 1 ELSE Cardinality(A)
    BY <1>1, <1>2, <1>3, <1>4, CountGrows
  <1> QED
    BY <1>5 DEF A, B

LEMMA FailedCount ==
  ASSUME NEW s \in Seq(Message), NEW m \in Message, m.role = "tool", NEW k
  PROVE  /\ Cardinality(OfFailed(s, k)) \in Nat
         /\ Cardinality(OfFailed(Append(s, m), k)) =
              IF m.key = k /\ m.outcome.errored
              THEN Cardinality(OfFailed(s, k)) + 1 ELSE Cardinality(OfFailed(s, k))
  <1> DEFINE A == OfFailed(s, k)
             B == OfFailed(Append(s, m), k)
  <1>1. Len(s) \in Nat /\ A \in SUBSET (1..Len(s)) /\ Len(s) + 1 \notin A
    BY DEF OfFailed
  <1>2. m.key = k /\ m.outcome.errored => B = A \cup {Len(s) + 1}
    BY Appended DEF OfFailed
  <1>3. ~ (m.key = k /\ m.outcome.errored) => B = A
    BY Appended DEF OfFailed
  <1> HIDE DEF A, B
  <1>4. m.key = k /\ m.outcome.errored => B # A
    BY <1>1, <1>2
  <1>5. /\ Cardinality(A) \in Nat
        /\ Cardinality(B) = IF m.key = k /\ m.outcome.errored
                            THEN Cardinality(A) + 1 ELSE Cardinality(A)
    BY <1>1, <1>2, <1>3, <1>4, CountGrows
  <1> QED
    BY <1>5 DEF A, B

(* The bookkeeping, in the terms of the lemmas.                            *)
CountInv ==
  /\ \A k \in Key : /\ call_counts[k] = Cardinality(OfKey(messages, k))
                    /\ fail_counts[k] = Cardinality(OfFailed(messages, k))
  /\ \A h : h \in seen_hashes <=>
       \E i \in 1..Len(messages) : /\ messages[i].role = "tool"
                                   /\ ~ messages[i].outcome.errored
                                   /\ h \in messages[i].outcome.hashes

(* Messages of other kinds change none of it.                              *)
LEMMA RemarksKeepCount ==
  ASSUME CountInv, UNCHANGED <<call_counts, fail_counts, seen_hashes>>,
         Len(messages) \in Nat, Len(messages') \in Nat, Len(messages) <= Len(messages'),
         \A i \in 1..Len(messages) : messages'[i] = messages[i],
         \A i \in 1..Len(messages') : i > Len(messages) => messages'[i].role # "tool"
  PROVE  CountInv'
  <1>1. \A i \in 1..Len(messages') : messages'[i].role = "tool" => i \in 1..Len(messages)
    OBVIOUS
  <1>2. 1..Len(messages) \subseteq 1..Len(messages')
    OBVIOUS
  <1>3. \A k : OfKey(messages', k) = OfKey(messages, k)
               /\ OfFailed(messages', k) = OfFailed(messages, k)
    BY <1>1, <1>2 DEF OfKey, OfFailed
  <1>4. \A k \in Key : /\ call_counts'[k] = Cardinality(OfKey(messages', k))
                       /\ fail_counts'[k] = Cardinality(OfFailed(messages', k))
    BY <1>3 DEF CountInv
  <1>5. \A h : h \in seen_hashes' <=>
          \E i \in 1..Len(messages') : /\ messages'[i].role = "tool"
                                       /\ ~ messages'[i].outcome.errored
                                       /\ h \in messages'[i].outcome.hashes
    BY <1>1, <1>2 DEF CountInv
  <1> QED
    BY <1>4, <1>5 DEF CountInv

LEMMA DispatchKeepsCount ==
  ASSUME TypeInv, CountInv, DispatchCall
  PROVE  CountInv'
  <1> DEFINE key == Head(pending)
  <1>1. key \in Key
    BY HeadTailOfCalls DEF DispatchCall, TypeInv, TypeOK
  <1>2. PICK o \in Outcome :
          /\ call_counts' = [call_counts EXCEPT ![key] = @ + 1]
          /\ fail_counts' = IF o.errored THEN [fail_counts EXCEPT ![key] = @ + 1]
                            ELSE fail_counts
          /\ messages' = Append(messages, [role |-> "tool", key |-> key, outcome |-> o])
          /\ seen_hashes' = IF o.errored THEN seen_hashes ELSE seen_hashes \cup o.hashes
    BY DEF DispatchCall
  <1> DEFINE m == [role |-> "tool", key |-> key, outcome |-> o]
  <1>3. m.role = "tool" /\ m.key = key /\ m.outcome = o
    OBVIOUS
  <1>4. o \in OutcomeType
    OBVIOUS
  <1>5. m \in Message
    BY <1>1, <1>4 DEF Message
  <1>6. messages \in Seq(Message) /\ messages' = Append(messages, m)
    BY <1>2 DEF TypeInv, TypeOK
  <1>7. call_counts \in [Key -> Nat] /\ fail_counts \in [Key -> Nat]
    BY DEF TypeInv, TypeOK
  <1>8. /\ call_counts' = [call_counts EXCEPT ![key] = @ + 1]
        /\ fail_counts' = IF o.errored THEN [fail_counts EXCEPT ![key] = @ + 1]
                          ELSE fail_counts
        /\ seen_hashes' = IF o.errored THEN seen_hashes ELSE seen_hashes \cup o.hashes
    BY <1>2
  <1> HIDE DEF m, key
  <1>9. ASSUME NEW k \in Key PROVE call_counts'[k] = Cardinality(OfKey(messages', k))
    <2>1. call_counts'[k] = IF key = k THEN call_counts[k] + 1 ELSE call_counts[k]
      BY <1>7, <1>8
    <2>2. Cardinality(OfKey(messages', k)) =
            IF key = k THEN Cardinality(OfKey(messages, k)) + 1
            ELSE Cardinality(OfKey(messages, k))
      BY <1>3, <1>5, <1>6, KeyCount
    <2> QED
      BY <2>1, <2>2 DEF CountInv
  <1>10. ASSUME NEW k \in Key PROVE fail_counts'[k] = Cardinality(OfFailed(messages', k))
    <2>1. fail_counts'[k] = IF key = k /\ o.errored THEN fail_counts[k] + 1 ELSE fail_counts[k]
      BY <1>7, <1>8
    <2>2. Cardinality(OfFailed(messages', k)) =
            IF key = k /\ o.errored THEN Cardinality(OfFailed(messages, k)) + 1
            ELSE Cardinality(OfFailed(messages, k))
      BY <1>3, <1>5, <1>6, FailedCount
    <2> QED
      BY <2>1, <2>2 DEF CountInv
  <1>11. ASSUME NEW h
         PROVE  h \in seen_hashes' <=>
                  \E i \in 1..Len(messages') : /\ messages'[i].role = "tool"
                                               /\ ~ messages'[i].outcome.errored
                                               /\ h \in messages'[i].outcome.hashes
    <2>1. /\ Len(messages') = Len(messages) + 1 /\ Len(messages) \in Nat
          /\ \A i \in 1..Len(messages) : messages'[i] = messages[i]
          /\ messages'[Len(messages) + 1] = m
      BY <1>5, <1>6, Appended
    <2>2. /\ \A i \in 1..Len(messages') : i \in 1..Len(messages) \/ i = Len(messages) + 1
          /\ \A i \in 1..Len(messages) : i \in 1..Len(messages')
          /\ Len(messages) + 1 \in 1..Len(messages')
      BY <2>1
    <2>3. h \in seen_hashes <=>
            \E i \in 1..Len(messages) : /\ messages[i].role = "tool"
                                        /\ ~ messages[i].outcome.errored
                                        /\ h \in messages[i].outcome.hashes
      BY DEF CountInv
    <2>4. h \in seen_hashes' <=> h \in seen_hashes \/ (~ o.errored /\ h \in o.hashes)
      BY <1>8
    <2> QED
      BY <1>3, <2>1, <2>2, <2>3, <2>4
  <1> QED
    BY <1>9, <1>10, <1>11 DEF CountInv

LEMMA InitCount == Init => CountInv
  <1> SUFFICES ASSUME Init PROVE CountInv
    OBVIOUS
  <1>1. \A k : OfKey(messages, k) = {} /\ OfFailed(messages, k) = {}
    BY DEF Init, OfKey, OfFailed
  <1> QED
    <2>1. \A k \in Key : call_counts[k] = 0 /\ fail_counts[k] = 0
      BY DEF Init
    <2>2. seen_hashes = {} /\ \A i \in 1..Len(messages) : FALSE
      BY DEF Init
    <2> QED
      BY <1>1, <2>1, <2>2, FS_EmptySet DEF CountInv

LEMMA NextCount == TypeInv /\ CountInv /\ [Next]_vars => CountInv'
  <1> SUFFICES ASSUME TypeInv, CountInv, [Next]_vars PROVE CountInv'
    OBVIOUS
  <1>1. CASE StartStep
    <2>1. UNCHANGED <<call_counts, fail_counts, seen_hashes>>
      BY <1>1 DEF StartStep, limits
    <2>2. CASE UNCHANGED messages
      BY <2>1, <2>2 DEF CountInv
    <2>3. CASE Remarks
      BY <2>1, <2>3, RemarksKeepCount DEF Remarks
    <2> QED
      BY <1>1, <2>2, <2>3, StartAppends DEF TypeInv
  <1>2. CASE RetryHallucination
    <2>1. UNCHANGED <<call_counts, fail_counts, seen_hashes>>
      BY <1>2 DEF RetryHallucination, limits
    <2>2. Remarks
      BY <1>2, RetryAppends DEF TypeInv
    <2> QED
      BY <2>1, <2>2, RemarksKeepCount DEF Remarks
  <1>3. CASE BeginTools
    <2>1. UNCHANGED <<call_counts, fail_counts, seen_hashes>>
      BY <1>3 DEF BeginTools, limits
    <2> DEFINE m == [role |-> "assistant", calls |-> reply.calls]
    <2>2. m.role # "tool"
      OBVIOUS
    <2>3. reply.calls \in Seq(Key)
      BY <1>3, ReplyHasCalls DEF BeginTools, TypeInv
    <2>4. m \in Message
      BY <2>3 DEF Message
    <2>5. messages' = Append(messages, m) /\ messages \in Seq(Message)
      BY <1>3 DEF BeginTools, TypeInv, TypeOK
    <2> HIDE DEF m
    <2>6. /\ Len(messages') = Len(messages) + 1 /\ Len(messages) \in Nat
          /\ \A i \in 1..Len(messages) : messages'[i] = messages[i]
          /\ messages'[Len(messages) + 1] = m
      BY <2>4, <2>5, Appended
    <2>7. \A i \in 1..Len(messages') : i > Len(messages) => messages'[i].role # "tool"
      BY <2>2, <2>6
    <2> QED
      BY <2>1, <2>6, <2>7, RemarksKeepCount
  <1>4. CASE DispatchCall
    BY <1>4, DispatchKeepsCount
  <1>5. CASE UNCHANGED <<messages, call_counts, fail_counts, seen_hashes>>
    BY <1>5 DEF CountInv
  <1> QED
    BY <1>1, <1>2, <1>3, <1>4, <1>5, Quiet

(* The counts that stop the loop are those of the tool messages the model  *)
(* sees, errors included, and the hashes that become evidence are exactly  *)
(* those shown by tool messages without an error (agent/react/loop.py).    *)
THEOREM BookkeepingIsTrue == Spec => []BookkeepingMatchesConversation
  <1>1. TypeInv /\ CountInv => BookkeepingMatchesConversation
    <2> SUFFICES ASSUME TypeInv, CountInv PROVE BookkeepingMatchesConversation
      OBVIOUS
    <2>1. DOMAIN messages = 1..Len(messages)
      BY DEF TypeInv, TypeOK
    <2>2. \A k : ToolMessages(k) = OfKey(messages, k)
      BY <2>1 DEF ToolMessages, OfKey
    <2>3. \A k : {i \in ToolMessages(k) : messages[i].outcome.errored} = OfFailed(messages, k)
      BY <2>1 DEF ToolMessages, OfFailed
    <2>4. seen_hashes = UNION {messages[i].outcome.hashes :
                                 i \in {j \in DOMAIN messages :
                                          /\ messages[j].role = "tool"
                                          /\ ~messages[j].outcome.errored}}
      BY <2>1 DEF CountInv
    <2> QED
      BY <2>2, <2>3, <2>4 DEF CountInv, BookkeepingMatchesConversation
  <1> QED
    BY <1>1, AlwaysTypeInv, InitCount, NextCount, PTL DEF Spec

-----------------------------------------------------------------------------
(* The flags and the conversation.  Once an answer is forced it stays      *)
(* forced: tokens only grow, and the last step is the last.                *)
PromptInv ==
  /\ Cardinality(OfRole(messages, "reminder")) = IF force_finalize THEN 1 ELSE 0
  /\ Cardinality(OfRole(messages, "reset")) = IF finalize_hallucination_retry THEN 1 ELSE 0
  /\ finalize_reminder_added <=> force_finalize
  /\ finalize_hallucination_retry => force_finalize
  /\ force_finalize => MustFinalize(step, tokens_used)

LEMMA InitPrompt == Init => PromptInv
  <1> SUFFICES ASSUME Init PROVE PromptInv
    OBVIOUS
  <1>1. \A role : OfRole(messages, role) = {}
    BY DEF Init, OfRole
  <1> QED
    BY <1>1, FS_EmptySet DEF Init, PromptInv

LEMMA NextPrompt == TypeInv /\ PromptInv /\ [Next]_vars => PromptInv'
  <1> SUFFICES ASSUME TypeInv, PromptInv, [Next]_vars PROVE PromptInv'
    OBVIOUS
  <1>0. messages \in Seq(Message) /\ tokens_used \in Nat /\ step \in Nat
    BY DEF TypeInv, TypeOK
  <1>1. CASE StartStep
    <2>1. /\ force_finalize' = MustFinalize(step + 1, tokens_used)
          /\ step' = step + 1 /\ step < MaxIter /\ tokens_used' = tokens_used
          /\ finalize_hallucination_retry' = finalize_hallucination_retry
      BY <1>1 DEF StartStep, limits
    <2>2. force_finalize => force_finalize'
      <3>1. force_finalize => MustFinalize(step, tokens_used)
        BY DEF PromptInv
      <3>2. MustFinalize(step, tokens_used) => MustFinalize(step + 1, tokens_used)
        BY <1>0, <2>1 DEF MustFinalize
      <3> QED
        BY <2>1, <3>1, <3>2
    <2>3. force_finalize' => MustFinalize(step', tokens_used')
      BY <2>1
    <2>4. CASE force_finalize' /\ ~finalize_reminder_added
      <3>1. messages' = Append(messages, [role |-> "reminder"]) /\ finalize_reminder_added' = TRUE
        BY <1>1, <2>4 DEF StartStep
      <3>2. ~ force_finalize
        BY <2>4 DEF PromptInv
      <3>3. [role |-> "reminder"].role = "reminder" /\ "reminder" # "reset"
        OBVIOUS
      <3>4. /\ Cardinality(OfRole(messages', "reminder")) = 1
            /\ Cardinality(OfRole(messages', "reset")) = Cardinality(OfRole(messages, "reset"))
        BY <1>0, <3>1, <3>2, <3>3, LoopMessages, RoleCount DEF PromptInv
      <3> QED
        BY <2>1, <2>2, <2>3, <2>4, <3>1, <3>4 DEF PromptInv
    <2>5. CASE ~ (force_finalize' /\ ~finalize_reminder_added)
      <3>1. UNCHANGED <<messages, finalize_reminder_added>>
        BY <1>1, <2>5 DEF StartStep
      <3>2. force_finalize' <=> force_finalize
        BY <2>2, <2>5 DEF PromptInv
      <3> QED
        BY <2>1, <2>3, <3>1, <3>2 DEF PromptInv
    <2> QED
      BY <2>4, <2>5
  <1>2. CASE RetryHallucination
    <2>1. /\ force_finalize /\ ~ finalize_hallucination_retry
          /\ finalize_hallucination_retry' = TRUE
          /\ UNCHANGED <<force_finalize, finalize_reminder_added, step, tokens_used>>
      BY <1>2 DEF RetryHallucination, Hallucinated, limits
    <2> DEFINE a == [role |-> "assistant_text"]
               b == [role |-> "reset"]
    <2>2. messages' = Append(Append(messages, a), b)
      BY <1>2, RetryAppends DEF TypeInv
    <2>3. a \in Message /\ b \in Message /\ a.role = "assistant_text" /\ b.role = "reset"
      BY LoopMessages
    <2> HIDE DEF a, b
    <2>4. Append(messages, a) \in Seq(Message)
      BY <1>0, <2>3
    <2>5. \A role \in {"reminder", "reset"} :
            Cardinality(OfRole(Append(messages, a), role)) = Cardinality(OfRole(messages, role))
      BY <1>0, <2>3, RoleCount
    <2>6. /\ Cardinality(OfRole(messages', "reminder"))
               = Cardinality(OfRole(Append(messages, a), "reminder"))
          /\ Cardinality(OfRole(messages', "reset"))
               = Cardinality(OfRole(Append(messages, a), "reset")) + 1
      BY <2>2, <2>3, <2>4, RoleCount
    <2> QED
      BY <2>1, <2>5, <2>6 DEF PromptInv
  <1>3. ASSUME NEW m \in Message, m.role \notin {"reminder", "reset"},
               messages' = Append(messages, m), UNCHANGED <<flags, step, tokens_used>>
        PROVE  PromptInv'
    <2>1. \A role \in {"reminder", "reset"} :
            Cardinality(OfRole(messages', role)) = Cardinality(OfRole(messages, role))
      BY <1>0, <1>3, RoleCount
    <2> QED
      BY <1>3, <2>1 DEF PromptInv, flags
  <1>4. CASE BeginTools
    <2> DEFINE m == [role |-> "assistant", calls |-> reply.calls]
    <2>1. reply.calls \in Seq(Key)
      BY <1>4, ReplyHasCalls DEF BeginTools, TypeInv
    <2>2. m \in Message /\ m.role \notin {"reminder", "reset"}
      BY <2>1 DEF Message
    <2>3. messages' = Append(messages, m) /\ UNCHANGED <<flags, step, tokens_used>>
      BY <1>4 DEF BeginTools, limits
    <2> QED
      BY <1>3, <2>2, <2>3
  <1>5. CASE DispatchCall
    <2>1. Head(pending) \in Key
      BY <1>5, HeadTailOfCalls DEF DispatchCall, TypeInv, TypeOK
    <2>2. PICK o \in Outcome :
            messages' = Append(messages, [role |-> "tool", key |-> Head(pending), outcome |-> o])
      BY <1>5 DEF DispatchCall
    <2> DEFINE m == [role |-> "tool", key |-> Head(pending), outcome |-> o]
    <2>3. o \in OutcomeType
      OBVIOUS
    <2>4. m \in Message /\ m.role \notin {"reminder", "reset"}
      BY <2>1, <2>3 DEF Message
    <2>5. UNCHANGED <<flags, step, tokens_used>>
      BY <1>5 DEF DispatchCall
    <2> QED
      BY <1>3, <2>2, <2>4, <2>5
  <1>6. CASE ~ StartStep /\ ~ RetryHallucination /\ ~ BeginTools /\ ~ DispatchCall
    <2>1. UNCHANGED messages /\ UNCHANGED flags
      BY <1>6, Quiet
    <2>2. step' = step /\ tokens_used' >= tokens_used
      <3>1. CASE ChatReturns
        BY <1>0, <3>1 DEF ChatReturns
      <3>2. CASE ChatRaises \/ Answer \/ StopAtLimit \/ NextTurn
        BY <1>0, <3>2 DEF ChatRaises, Answer, StopAtLimit, NextTurn, limits
      <3>3. CASE Exhaust \/ ReturnResult \/ UNCHANGED vars
        BY <1>0, <3>3 DEF Exhaust, ReturnResult, vars, limits
      <3> QED
        BY <1>6, <3>1, <3>2, <3>3 DEF Next
    <2>3. MustFinalize(step, tokens_used) => MustFinalize(step, tokens_used')
      <3>1. tokens_used' \in Nat
        BY NextTypeInv DEF TypeInv, TypeOK
      <3> QED
        BY <1>0, <2>2, <3>1 DEF MustFinalize
    <2> QED
      BY <2>1, <2>2, <2>3 DEF PromptInv, flags
  <1> QED
    BY <1>1, <1>2, <1>4, <1>5, <1>6

(* The reminder is in the conversation exactly when the next reply must be *)
(* the answer, once; the reset at most once, never before the reminder:    *)
(* force_finalize, recomputed on every step, is never taken back.          *)
THEOREM PromptsAreOnce == Spec => []FinalizePromptedOnce
  <1>1. TypeInv /\ PromptInv => FinalizePromptedOnce
    <2> SUFFICES ASSUME TypeInv, PromptInv PROVE FinalizePromptedOnce
      OBVIOUS
    <2>1. DOMAIN messages = 1..Len(messages)
      BY DEF TypeInv, TypeOK
    <2>2. \A role : NumberOf(role) = Cardinality(OfRole(messages, role))
      BY <2>1 DEF NumberOf, OfRole
    <2> QED
      BY <2>2 DEF PromptInv, FinalizePromptedOnce
  <1> QED
    BY <1>1, AlwaysTypeInv, InitPrompt, NextPrompt, PTL DEF Spec
=============================================================================

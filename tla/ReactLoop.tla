----------------------------- MODULE ReactLoop -----------------------------
(***************************************************************************)
(* The ReAct investigation loop, agent/react/loop.py (run_react_loop): the *)
(* model is asked for a reply, the tools the reply names are dispatched    *)
(* and their outputs threaded back, until the model answers or a limit on  *)
(* steps, tokens or repeated calls is met.                                 *)
(*                                                                         *)
(* One action per point where control can leave the loop: the request, the *)
(* provider's answer or exception, each tool call, the checks at the end   *)
(* of a turn, the terminate event and the return.  The reply and the tool  *)
(* outputs come from outside and are chosen from the sets below.           *)
(***************************************************************************)
EXTENDS Naturals, Sequences, FiniteSets

CONSTANTS
  Key,          \* (tool name, raw arguments) pairs a reply can ask for
  Hash,         \* 12-digit commit prefixes a tool output can show
  Reply,        \* the replies of the provider, see ReplyType
  Outcome,      \* the outcomes of a tool call, see OutcomeType
  Usage,        \* the tokens a reply can cost
  MaxIter,      \* MAX_ITER
  RepeatLimit,  \* REPEAT_LIMIT
  TokenBudget,  \* TOKEN_BUDGET
  SoftBudget,   \* int(TOKEN_BUDGET * 0.85)
  None          \* no reply, no verdict

Content == {"empty", "prose", "tool_syntax", "final", "insufficient", "both"}

(* finish_reason, the tool calls in order, and what the text carries. *)
ReplyType == [finish : {"tool_calls", "stop"},
              calls : Seq(Key),
              content : Content]

(* A dispatch returns or raises; hashes are those its text shows, an error *)
(* text included.                                                          *)
OutcomeType == [errored : BOOLEAN, hashes : SUBSET Hash]

Verdict == {"diagnosed", "insufficient_evidence",
            "max_iter_reached", "budget_exhausted"}

ASSUME ReactAssumption ==
  /\ Reply \subseteq ReplyType
  /\ Outcome \subseteq OutcomeType
  /\ Usage \subseteq Nat
  /\ MaxIter \in Nat \ {0}
  /\ RepeatLimit \in Nat \ {0}
  /\ TokenBudget \in Nat \ {0}
  /\ SoftBudget \in Nat
  /\ SoftBudget <= TokenBudget
  /\ None \notin Verdict \cup ReplyType

VARIABLES
  pc,                            \* where control is, see Control
  step,                          \* the loop variable
  tokens_used,
  force_finalize,
  finalize_reminder_added,
  finalize_hallucination_retry,
  messages,                      \* the conversation after the two prompts
  reply,                         \* the reply being handled, None outside a turn
  pending,                       \* its tool calls not yet dispatched
  call_counts,
  fail_counts,
  seen_hashes,
  announced,                     \* verdict of the terminate event, None before
  result                         \* verdict of the ReactResult, None before

limits == <<tokens_used, call_counts, fail_counts>>
flags == <<force_finalize, finalize_reminder_added,
           finalize_hallucination_retry>>
vars == <<pc, step, flags, messages, reply, pending, limits, seen_hashes,
          announced, result>>

Control == {"loop", "chat", "replied", "dispatch", "turn_end",
            "announced", "returned", "raised"}

(* The messages the loop itself appends. *)
Message ==
  [role : {"reminder", "assistant_text", "reset"}]
    \cup [role : {"assistant"}, calls : Seq(Key)]
    \cup [role : {"tool"}, key : Key, outcome : OutcomeType]

-----------------------------------------------------------------------------
(* A reply ends the investigation when it asks for no tool or carries an   *)
(* answer tag, whatever else it carries.                                   *)
Tagged(r) == r.content \in {"final", "insufficient", "both"}
Terminal(r) == r.finish # "tool_calls" \/ r.calls = <<>> \/ Tagged(r)

(* Tool-call syntax in the text of a reply that had to be the answer. *)
Hallucinated(r) == force_finalize /\ r.content = "tool_syntax"

(* Mutant of VerdictOf: any answer tag counts as a diagnosis. *)
VerdictAnyTag(r) ==
  IF r.content \in {"final", "both"} THEN "diagnosed"
  ELSE "insufficient_evidence"

(* An insufficient tag wins over a final tag; no tag is insufficient. *)
VerdictOf(r) ==
  IF r.content = "final" THEN "diagnosed" ELSE "insufficient_evidence"

MustFinalize(s, tokens) == s = MaxIter \/ tokens >= SoftBudget

(* Mutant of RepeatedCall: the limit is one call late. *)
RepeatedCallLate == \E k \in Key : call_counts[k] > RepeatLimit

RepeatedFailure == \E k \in Key : fail_counts[k] >= RepeatLimit
RepeatedCall == \E k \in Key : call_counts[k] >= RepeatLimit
OutOfTokens == tokens_used >= TokenBudget

-----------------------------------------------------------------------------
Init ==
  /\ pc = "loop"
  /\ step = 0
  /\ tokens_used = 0
  /\ force_finalize = FALSE
  /\ finalize_reminder_added = FALSE
  /\ finalize_hallucination_retry = FALSE
  /\ messages = <<>>
  /\ reply = None
  /\ pending = <<>>
  /\ call_counts = [k \in Key |-> 0]
  /\ fail_counts = [k \in Key |-> 0]
  /\ seen_hashes = {}
  /\ announced = None
  /\ result = None

(* Mutant of StartStep: the reminder is appended on every forced step. *)
StartStepRemindAlways ==
  /\ pc = "loop"
  /\ step < MaxIter
  /\ pc' = "chat"
  /\ step' = step + 1
  /\ force_finalize' = MustFinalize(step + 1, tokens_used)
  /\ finalize_reminder_added' = force_finalize'
  /\ messages' = IF force_finalize'
                 THEN Append(messages, [role |-> "reminder"]) ELSE messages
  /\ UNCHANGED <<finalize_hallucination_retry, reply, pending, limits,
                 seen_hashes, announced, result>>

(* Mutant of StartStep: the loop runs one step too many. *)
StartStepOneMore ==
  /\ pc = "loop"
  /\ step <= MaxIter
  /\ pc' = "chat"
  /\ step' = step + 1
  /\ force_finalize' = MustFinalize(step + 1, tokens_used)
  /\ IF force_finalize' /\ ~finalize_reminder_added
     THEN /\ finalize_reminder_added' = TRUE
          /\ messages' = Append(messages, [role |-> "reminder"])
     ELSE UNCHANGED <<finalize_reminder_added, messages>>
  /\ UNCHANGED <<finalize_hallucination_retry, reply, pending, limits,
                 seen_hashes, announced, result>>

(* The head of the for loop: whether this reply must be the answer, the    *)
(* reminder the first time it must, the step_start event, the request.     *)
StartStep ==
  /\ pc = "loop"
  /\ step < MaxIter
  /\ pc' = "chat"
  /\ step' = step + 1
  /\ force_finalize' = MustFinalize(step + 1, tokens_used)
  /\ IF force_finalize' /\ ~finalize_reminder_added
     THEN /\ finalize_reminder_added' = TRUE
          /\ messages' = Append(messages, [role |-> "reminder"])
     ELSE UNCHANGED <<finalize_reminder_added, messages>>
  /\ UNCHANGED <<finalize_hallucination_retry, reply, pending, limits,
                 seen_hashes, announced, result>>

(* provider.chat returns; the request carries tool_choice="none" when      *)
(* force_finalize holds, which the loop does not check on the reply.       *)
ChatReturns ==
  /\ pc = "chat"
  /\ \E r \in Reply, u \in Usage :
       /\ reply' = r
       /\ tokens_used' = tokens_used + u
  /\ pc' = "replied"
  /\ UNCHANGED <<step, flags, messages, pending, call_counts, fail_counts,
                 seen_hashes, announced, result>>

(* provider.chat raises: the exception leaves run_react_loop. *)
ChatRaises ==
  /\ pc = "chat"
  /\ pc' = "raised"
  /\ UNCHANGED <<step, flags, messages, reply, pending, limits, seen_hashes,
                 announced, result>>

(* The one retry after tool-call syntax in the answer.  It goes back to    *)
(* the head of the loop, so it costs a step and skips the limit checks.    *)
RetryHallucination ==
  /\ pc = "replied"
  /\ Terminal(reply)
  /\ Hallucinated(reply)
  /\ ~finalize_hallucination_retry
  /\ finalize_hallucination_retry' = TRUE
  /\ messages' = messages \o <<[role |-> "assistant_text"], [role |-> "reset"]>>
  /\ reply' = None
  /\ pc' = "loop"
  /\ UNCHANGED <<step, force_finalize, finalize_reminder_added, pending,
                 limits, seen_hashes, announced, result>>

(* The reply is the answer: its verdict is announced. *)
Answer ==
  /\ pc = "replied"
  /\ Terminal(reply)
  /\ ~Hallucinated(reply) \/ finalize_hallucination_retry
  /\ announced' = VerdictOf(reply)
  /\ pc' = "announced"
  /\ UNCHANGED <<step, flags, messages, reply, pending, limits, seen_hashes,
                 result>>

(* The reply asks for tools: the assistant message goes first. *)
BeginTools ==
  /\ pc = "replied"
  /\ ~Terminal(reply)
  /\ messages' = Append(messages, [role |-> "assistant",
                                   calls |-> reply.calls])
  /\ pending' = reply.calls
  /\ pc' = "dispatch"
  /\ UNCHANGED <<step, flags, reply, limits, seen_hashes, announced, result>>

(* Mutant of DispatchCall: an exception of a tool leaves no tool message. *)
DispatchSilentError ==
  /\ pc = "dispatch"
  /\ LET k == Head(pending) IN
     \E o \in Outcome :
       /\ call_counts' = [call_counts EXCEPT ![k] = @ + 1]
       /\ fail_counts' = IF o.errored THEN [fail_counts EXCEPT ![k] = @ + 1]
                                      ELSE fail_counts
       /\ messages' = IF o.errored THEN messages
                      ELSE Append(messages, [role |-> "tool", key |-> k,
                                             outcome |-> o])
       /\ seen_hashes' = IF o.errored THEN seen_hashes
                                      ELSE seen_hashes \cup o.hashes
  /\ pending' = Tail(pending)
  /\ pc' = IF Tail(pending) = <<>> THEN "turn_end" ELSE "dispatch"
  /\ UNCHANGED <<step, flags, reply, tokens_used, announced, result>>

(* Mutant of DispatchCall: hashes are harvested from error texts too. *)
DispatchHarvestAll ==
  /\ pc = "dispatch"
  /\ LET k == Head(pending) IN
     \E o \in Outcome :
       /\ call_counts' = [call_counts EXCEPT ![k] = @ + 1]
       /\ fail_counts' = IF o.errored THEN [fail_counts EXCEPT ![k] = @ + 1]
                                      ELSE fail_counts
       /\ messages' = Append(messages, [role |-> "tool", key |-> k,
                                        outcome |-> o])
       /\ seen_hashes' = seen_hashes \cup o.hashes
  /\ pending' = Tail(pending)
  /\ pc' = IF Tail(pending) = <<>> THEN "turn_end" ELSE "dispatch"
  /\ UNCHANGED <<step, flags, reply, tokens_used, announced, result>>

(* One tool call: counted, dispatched, answered by a tool message, its     *)
(* hashes harvested unless it failed.  The last one ends the turn.         *)
DispatchCall ==
  /\ pc = "dispatch"
  /\ LET k == Head(pending) IN
     \E o \in Outcome :
       /\ call_counts' = [call_counts EXCEPT ![k] = @ + 1]
       /\ fail_counts' = IF o.errored THEN [fail_counts EXCEPT ![k] = @ + 1]
                                      ELSE fail_counts
       /\ messages' = Append(messages, [role |-> "tool", key |-> k,
                                        outcome |-> o])
       /\ seen_hashes' = IF o.errored THEN seen_hashes
                                      ELSE seen_hashes \cup o.hashes
  /\ pending' = Tail(pending)
  /\ pc' = IF Tail(pending) = <<>> THEN "turn_end" ELSE "dispatch"
  /\ UNCHANGED <<step, flags, reply, tokens_used, announced, result>>

(* The checks after a tool turn, in their order; the first that holds ends *)
(* the investigation.                                                      *)
StopAtLimit ==
  /\ pc = "turn_end"
  /\ RepeatedFailure \/ RepeatedCall \/ OutOfTokens
  /\ announced' = IF RepeatedFailure THEN "insufficient_evidence"
                  ELSE IF RepeatedCall THEN "max_iter_reached"
                  ELSE "budget_exhausted"
  /\ pc' = "announced"
  /\ UNCHANGED <<step, flags, messages, reply, pending, limits, seen_hashes,
                 result>>

NextTurn ==
  /\ pc = "turn_end"
  /\ ~(RepeatedFailure \/ RepeatedCall \/ OutOfTokens)
  /\ pc' = "loop"
  /\ reply' = None
  /\ UNCHANGED <<step, flags, messages, pending, limits, seen_hashes,
                 announced, result>>

(* Mutant of Exhaust: the loop falls through without a terminate event, as  *)
(* it did before the fix of loop.py:258-262.                               *)
ExhaustSilently ==
  /\ pc = "loop"
  /\ step = MaxIter
  /\ result' = "max_iter_reached"
  /\ pc' = "returned"
  /\ UNCHANGED <<step, flags, messages, reply, pending, limits, seen_hashes,
                 announced>>

(* The for loop runs out of steps. *)
Exhaust ==
  /\ pc = "loop"
  /\ step = MaxIter
  /\ announced' = "max_iter_reached"
  /\ pc' = "announced"
  /\ UNCHANGED <<step, flags, messages, reply, pending, limits, seen_hashes,
                 result>>

(* Every terminate event is followed by the return of the same verdict. *)
ReturnResult ==
  /\ pc = "announced"
  /\ result' = announced
  /\ pc' = "returned"
  /\ UNCHANGED <<step, flags, messages, reply, pending, limits, seen_hashes,
                 announced>>

Next ==
  \/ StartStep
  \/ ChatReturns
  \/ ChatRaises
  \/ RetryHallucination
  \/ Answer
  \/ BeginTools
  \/ DispatchCall
  \/ StopAtLimit
  \/ NextTurn
  \/ Exhaust
  \/ ReturnResult

(* The loop runs in one thread that is never suspended for ever, and       *)
(* provider.chat returns or raises (the HTTP client and the CLI backend    *)
(* carry timeouts).                                                        *)
Fairness == WF_vars(Next)

Spec == Init /\ [][Next]_vars
FairSpec == Spec /\ Fairness

-----------------------------------------------------------------------------
(* The state of an investigation has the shape the code gives it. *)
TypeOK ==
  /\ pc \in Control
  /\ step \in 0..MaxIter
  /\ tokens_used \in Nat
  /\ force_finalize \in BOOLEAN
  /\ finalize_reminder_added \in BOOLEAN
  /\ finalize_hallucination_retry \in BOOLEAN
  /\ messages \in Seq(Message)
  /\ reply \in Reply \cup {None}
  /\ pending \in Seq(Key)
  /\ call_counts \in [Key -> Nat]
  /\ fail_counts \in [Key -> Nat]
  /\ seen_hashes \in SUBSET Hash
  /\ announced \in Verdict \cup {None}
  /\ result \in Verdict \cup {None}

(* The model is never asked again once a call was made or failed           *)
(* RepeatLimit times, nor once the tokens are spent -- save for the one    *)
(* retry after a malformed answer, which skips the checks (loop.py:263-282 *)
(* run only after a tool turn).                                            *)
RequestWithinLimits ==
  pc = "chat" =>
    /\ \A k \in Key : call_counts[k] < RepeatLimit
    /\ \A k \in Key : fail_counts[k] < RepeatLimit
    /\ OutOfTokens => finalize_hallucination_retry

(* Whenever the model is asked, the conversation is one the chat API       *)
(* accepts: each assistant message with tool calls is followed at once by  *)
(* a tool message for each call, in the calls' order, whether the tool     *)
(* returned or raised, and no tool message stands elsewhere.               *)
Threaded ==
  pc = "chat" =>
    /\ \A i \in DOMAIN messages :
         messages[i].role = "assistant" =>
           LET calls == messages[i].calls IN
           /\ i + Len(calls) <= Len(messages)
           /\ \A j \in DOMAIN calls :
                /\ messages[i + j].role = "tool"
                /\ messages[i + j].key = calls[j]
    /\ \A i \in DOMAIN messages :
         messages[i].role = "tool" =>
           \E j \in 1..(i - 1) :
             /\ messages[j].role = "assistant"
             /\ i - j <= Len(messages[j].calls)

(* The verdict announced is the one the evidence of the run justifies: a   *)
(* diagnosis needs a reply whose only tag is final_answer; a failing tool  *)
(* outranks a repeated call, which outranks the budget; "insufficient"     *)
(* without a failing tool comes from a terminal reply; running out of      *)
(* steps is the only other way to max_iter_reached.                        *)
VerdictJustified ==
  /\ announced = "diagnosed" =>
       reply # None /\ reply.content = "final"
  /\ announced = "insufficient_evidence" =>
       \/ RepeatedFailure
       \/ reply # None /\ Terminal(reply) /\ reply.content # "final"
  /\ announced = "budget_exhausted" =>
       OutOfTokens /\ ~RepeatedCall /\ ~RepeatedFailure
  /\ announced = "max_iter_reached" =>
       /\ ~RepeatedFailure
       /\ RepeatedCall \/ (step = MaxIter /\ reply = None)

ToolMessages(k) ==
  {i \in DOMAIN messages : messages[i].role = "tool" /\ messages[i].key = k}

(* The bookkeeping agrees with the conversation the model sees: a call is  *)
(* counted for every tool message it got, a failure for every one that is  *)
(* an error, and the harvested hashes -- which become evidence of the      *)
(* report -- are exactly those shown by tool messages without error.       *)
BookkeepingMatchesConversation ==
  /\ \A k \in Key :
       /\ call_counts[k] = Cardinality(ToolMessages(k))
       /\ fail_counts[k] = Cardinality({i \in ToolMessages(k) :
                                          messages[i].outcome.errored})
  /\ seen_hashes =
       UNION {messages[i].outcome.hashes :
                i \in {j \in DOMAIN messages :
                         /\ messages[j].role = "tool"
                         /\ ~messages[j].outcome.errored}}

NumberOf(role) == Cardinality({i \in DOMAIN messages : messages[i].role = role})

(* The hard-constraint reminder is in the conversation of every request    *)
(* that must be the answer and of no other, once; the reset at most once,  *)
(* and never before the reminder.                                          *)
FinalizePromptedOnce ==
  /\ NumberOf("reminder") = IF force_finalize THEN 1 ELSE 0
  /\ NumberOf("reset") = IF finalize_hallucination_retry THEN 1 ELSE 0
  /\ finalize_hallucination_retry => force_finalize

(* run_react_loop keeps its promise to its callers, and always ends: one   *)
(* terminate event on every path that returns, then the same verdict.      *)
Phase ==
  IF pc \in {"announced", "returned", "raised"} THEN pc ELSE "running"
Abstract == INSTANCE Investigation WITH
  phase <- Phase, round <- step, returned <- result
ImplementsInvestigation == Abstract!InvestigationSpec

(* loop.py:160 on a malformed answer: "give the model ONE retry with a     *)
(* louder reminder" -- after the reset message the model is asked again.   *)
RetryIsSent ==
  [][(pc = "loop" /\ messages # <<>> /\ messages[Len(messages)].role = "reset")
     => pc' = "chat"]_vars
=============================================================================

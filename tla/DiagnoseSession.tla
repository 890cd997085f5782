-------------------------- MODULE DiagnoseSession --------------------------
(***************************************************************************)
(* One diagnosis, from the raw input to the report, through either entry   *)
(* point: the event stream of the web UI (web/server.py and                *)
(* web/streaming_pipeline.py) or the graph of the command line             *)
(* (agent/graph.py).  Both run the triage nodes, the investigation and the *)
(* report nodes; the web runs the investigation in a worker thread whose   *)
(* events reach the generator through a queue closed by a sentinel.        *)
(*                                                                         *)
(* The investigation is the abstract one of module Investigation, which    *)
(* ReactLoop implements.  The generator, the worker and the client, who    *)
(* may leave at any time, interleave.  The evidence pool the nodes pass on *)
(* is left out: no control here depends on it.                             *)
(***************************************************************************)
EXTENDS Naturals, Sequences, FiniteSets, SequencesExt, Order

CONSTANTS Input,      \* the inputs of a session, see InputType
          MaxIter,    \* bound on the steps of the investigation
          MaxEvents,  \* bound on the events one investigation reports
          None

(* fault kinds of dmesg events, by priority (triage/nodes.py:249) *)
Priority == <<"panic", "oom", "softlockup", "hardlockup", "rcu_stall",
              "oops", "bug", "warn", "lockdep">>
FaultKind == ToSet(Priority)

(* What the input is and what its text holds: whether it is a path that    *)
(* can be read, the kinds of the kernel events in it, a hardware signal, a *)
(* "something changed" framing and a CVE id in the raw input.              *)
InputType == [form : {"blank", "dmesg", "dmesg_file", "sosreport", "question"},
              kinds : SUBSET FaultKind, hardware : BOOLEAN,
              change : BOOLEAN, cve : BOOLEAN]

Verdict == {"diagnosed", "insufficient_evidence",
            "max_iter_reached", "budget_exhausted"}

ASSUME SessionAssumption ==
  /\ Input \subseteq InputType
  /\ MaxIter \in Nat \ {0}
  /\ MaxEvents \in Nat
  /\ None \notin Verdict

VARIABLES
  entry,        \* "web" or "graph"
  input,
  stage,        \* the next thing the pipeline does
  state,        \* the state dict: what triage found, route, evidence, outcome
  client,       \* "connected" or "gone"; the caller of the graph stays
  delivered,    \* events the client has been sent, in order
  worker,       \* "none", "running", "returned" or "ended"
  queue,        \* events of the worker not yet taken, then the sentinel
  emitted,      \* events the investigation has reported, in order
  result_box,   \* None, "error" or the verdict the worker stored
  phase, round, announced, returned,   \* the investigation
  dmesg_event   \* the verdict in the row of this input, None without a row

investigation == <<phase, round, announced, returned>>
workerVars == <<worker, queue, emitted, result_box, investigation>>
vars == <<entry, input, stage, state, client, delivered, workerVars,
          dmesg_event>>

Loop == INSTANCE Investigation

Stages == {"accept", "parse_input", "extract_events", "detect_signals",
           "classify", "retrieve", "prepare", "start_worker", "drain",
           "collect", "bind_claims", "report", "finish", "write_event"}
Ended == {"rejected", "done", "abandoned", "completed", "raised"}

Event(type) == [type |-> type]
StepEvent(type, n) == [type |-> type, step |-> n]
Sentinel == Event("sentinel")
StateDict ==
  [input_type : {None, "dmesg", "dmesg_file", "sosreport", "question"},
   dmesg_text : BOOLEAN, kinds : SUBSET FaultKind, hardware : BOOLEAN,
   fault_kind : FaultKind \cup {"generic"},
   route : {None, "hardware", "change", "kernel", "unknown"},
   verdict : Verdict \cup {None},
   groundedness : {None, "grounded", "speculative", "n/a"}]

Init ==
  /\ entry \in {"web", "graph"}
  /\ input \in Input
  /\ stage = IF entry = "web" THEN "accept" ELSE "parse_input"
  /\ state = [input_type |-> None, dmesg_text |-> FALSE, kinds |-> {},
              hardware |-> FALSE, fault_kind |-> "generic", route |-> None,
              verdict |-> None, groundedness |-> None]
  /\ client = "connected"
  /\ delivered = <<>>
  /\ worker = "none"
  /\ queue = <<>>
  /\ emitted = <<>>
  /\ result_box = None
  /\ Loop!InvestigationInit
  /\ dmesg_event \in Verdict \cup {None}   \* an earlier run of this input

-----------------------------------------------------------------------------
(* A yield of the generator; the graph has no event to send. *)
Yield(ev) == delivered' = IF entry = "web" THEN Append(delivered, ev)
                                           ELSE delivered

(* A node has run: its event is sent and the next stage follows. *)
Advance(from, ev, to) ==
  /\ stage = from
  /\ client = "connected"
  /\ Yield(ev)
  /\ stage' = to

Quiet == UNCHANGED <<entry, input, client, dmesg_event>>

(* The endpoint: a blank input gets one error event and no "done". *)
Accept ==
  /\ stage = "accept"
  /\ IF input.form = "blank"
     THEN delivered' = <<Event("error")>> /\ stage' = "rejected"
     ELSE stage' = "parse_input" /\ UNCHANGED delivered
  /\ Quiet
  /\ UNCHANGED <<state, workerVars>>

(* An existing path is a file or a sosreport, kernel log markers make a    *)
(* dmesg, anything else is a question (a blank input of the graph too).    *)
ParseInput ==
  /\ Advance("parse_input", Event("triage_input"), "extract_events")
  /\ state' = [state EXCEPT !.input_type =
                 IF input.form = "blank" THEN "question" ELSE input.form]
  /\ Quiet
  /\ UNCHANGED workerVars

(* Whether log text was found.  There is none in a question, in a file     *)
(* that cannot be read (its path is then taken for the text), in a         *)
(* sosreport that cannot be parsed or has no dmesg.                        *)
ExtractEvents ==
  /\ Advance("extract_events", Event("triage_events"), "detect_signals")
  /\ \E readable \in BOOLEAN :
       LET text == \/ state.input_type = "dmesg"
                   \/ state.input_type \in {"dmesg_file", "sosreport"} /\ readable
       IN state' = [state EXCEPT !.dmesg_text = text,
                                 !.kinds = IF text THEN input.kinds ELSE {}]
  /\ Quiet
  /\ UNCHANGED workerVars

(* The signals are searched in the dmesg text, else in the raw input,      *)
(* which for a file is only its path.                                      *)
HardwareSeen ==
  input.hardware /\ (state.dmesg_text \/ state.input_type = "question")

DetectSignals ==
  /\ Advance("detect_signals", Event("triage_signals"), "classify")
  /\ state' = [state EXCEPT !.hardware = HardwareSeen]
  /\ Quiet
  /\ UNCHANGED workerVars

(* The event of highest priority names the fault. *)
TopKind(kinds) ==
  LET ranks == {i \in DOMAIN Priority : Priority[i] \in kinds}
  IN Priority[CHOOSE i \in ranks : \A j \in ranks : i <= j]

(* Mutant of Route: the framing of the user is looked at first. *)
RouteChangeFirst(kind, kinds, hardware) ==
  IF input.change THEN "change"
  ELSE IF hardware THEN "hardware"
  ELSE IF input.cve THEN "kernel"
  ELSE IF kind = "generic" /\ kinds = {} THEN "unknown"
  ELSE "kernel"

(* Hardware signals first.  The kernel+vmcore route needs a vmcore_path in *)
(* the state, which neither entry point sets.                              *)
Route(kind, kinds, hardware) ==
  IF hardware THEN "hardware"
  ELSE IF input.change THEN "change"
  ELSE IF input.cve THEN "kernel"
  ELSE IF kind = "generic" /\ kinds = {} THEN "unknown"
  ELSE "kernel"

(* Without events the language model names a fault kind, or none does. *)
Classify ==
  /\ Advance("classify", Event("triage_route"), "retrieve")
  /\ \E kind \in IF state.kinds # {} THEN {TopKind(state.kinds)}
                 ELSE {"generic", "oops"} :
       state' = [state EXCEPT
                   !.fault_kind = kind,
                   !.route = Route(kind, state.kinds, state.hardware)]
  /\ Quiet
  /\ UNCHANGED workerVars

Retrieve ==
  /\ Advance("retrieve", Event("retrieval"), "prepare")
  /\ Quiet
  /\ UNCHANGED <<state, workerVars>>

Prepare ==
  /\ Advance("prepare", Event("react_prep"),
             IF entry = "web" THEN "start_worker" ELSE "drain")
  /\ worker' = IF entry = "web" THEN "none" ELSE "running"
  /\ Quiet
  /\ UNCHANGED <<state, queue, emitted, result_box, investigation>>

StartWorker ==
  /\ stage = "start_worker"
  /\ stage' = "drain"
  /\ worker' = "running"
  /\ Quiet
  /\ UNCHANGED <<state, delivered, queue, emitted, result_box, investigation>>

-----------------------------------------------------------------------------
(* The worker thread; in the graph the same loop runs inline and has no    *)
(* queue.  Every event of the loop goes through _on_event.                 *)
Report(ev) ==
  /\ emitted' = Append(emitted, ev)
  /\ queue' = IF entry = "web" THEN Append(queue, ev) ELSE queue

WorkerStep ==
  /\ worker = "running"
  /\ Loop!ReportStep
  /\ Len(emitted) < MaxEvents
  /\ Report(StepEvent("react_step_start", round'))
  /\ UNCHANGED <<entry, input, stage, state, client, delivered, worker,
                 result_box, dmesg_event>>

WorkerToolCall ==
  /\ worker = "running"
  /\ phase = "running"
  /\ round > 0
  /\ Len(emitted) < MaxEvents
  /\ Report(StepEvent("react_tool_call", round))
  /\ UNCHANGED <<entry, input, stage, state, client, delivered, worker,
                 result_box, investigation, dmesg_event>>

WorkerTerminate ==
  /\ worker = "running"
  /\ \E v \in Verdict : Loop!Announce(v)
  /\ Report(StepEvent("react_terminate", round))
  /\ UNCHANGED <<entry, input, stage, state, client, delivered, worker,
                 result_box, dmesg_event>>

(* run_react_loop returns or raises, and the outcome is put in the box. *)
WorkerOutcome ==
  /\ worker = "running"
  /\ \/ Loop!Return /\ result_box' = announced
     \/ Loop!Raise /\ result_box' = "error"
  /\ worker' = "returned"
  /\ UNCHANGED <<entry, input, stage, state, client, delivered, queue,
                 emitted, dmesg_event>>

(* Mutant of WorkerSentinel: only a normal return closes the queue. *)
WorkerSentinelIfReturned ==
  /\ worker = "returned"
  /\ worker' = "ended"
  /\ queue' = IF entry = "web" /\ result_box # "error"
              THEN Append(queue, Sentinel) ELSE queue
  /\ UNCHANGED <<entry, input, stage, state, client, delivered, emitted,
                 result_box, investigation, dmesg_event>>

(* The finally clause: the sentinel closes the queue in every case. *)
WorkerSentinel ==
  /\ worker = "returned"
  /\ worker' = "ended"
  /\ queue' = IF entry = "web" THEN Append(queue, Sentinel) ELSE queue
  /\ UNCHANGED <<entry, input, stage, state, client, delivered, emitted,
                 result_box, investigation, dmesg_event>>

-----------------------------------------------------------------------------
(* Mutant of Drain: the generator stops when the worker has stored its     *)
(* outcome, whatever is still queued.                                      *)
DrainUntilResult ==
  /\ stage = "drain"
  /\ entry = "web"
  /\ client = "connected"
  /\ IF result_box # None
     THEN stage' = "collect" /\ UNCHANGED <<queue, delivered>>
     ELSE /\ queue # <<>>
          /\ queue' = Tail(queue)
          /\ delivered' = Append(delivered, Head(queue))
          /\ UNCHANGED stage
  /\ Quiet
  /\ UNCHANGED <<state, worker, emitted, result_box, investigation>>

(* Events are taken and sent until the sentinel. *)
Drain ==
  /\ stage = "drain"
  /\ entry = "web"
  /\ client = "connected"
  /\ queue # <<>>
  /\ queue' = Tail(queue)
  /\ IF Head(queue) = Sentinel
     THEN stage' = "collect" /\ UNCHANGED delivered
     ELSE delivered' = Append(delivered, Head(queue)) /\ UNCHANGED stage
  /\ Quiet
  /\ UNCHANGED <<state, worker, emitted, result_box, investigation>>

(* The graph's node simply returns from the loop. *)
ReturnInline ==
  /\ stage = "drain"
  /\ entry = "graph"
  /\ worker = "ended"
  /\ stage' = "collect"
  /\ Quiet
  /\ UNCHANGED <<state, delivered, workerVars>>

(* Mutant of Collect: the error is sent, but the pipeline goes on. *)
CollectGoesOn ==
  /\ stage = "collect"
  /\ client = "connected"
  /\ IF result_box = "error"
     THEN Yield(Event("error")) /\ UNCHANGED state
     ELSE /\ state' = [state EXCEPT !.verdict = result_box]
          /\ UNCHANGED delivered
  /\ stage' = "bind_claims"
  /\ Quiet
  /\ UNCHANGED workerVars

(* Mutant of Collect: the box is taken for a verdict without a look. *)
CollectUnchecked ==
  /\ stage = "collect"
  /\ client = "connected"
  /\ state' = [state EXCEPT !.verdict = result_box]
  /\ stage' = "bind_claims"
  /\ Quiet
  /\ UNCHANGED <<delivered, workerVars>>

(* An error of the loop ends the stream with an error event, and leaves    *)
(* the graph as an exception.                                              *)
Collect ==
  /\ stage = "collect"
  /\ client = "connected"
  /\ IF result_box = "error"
     THEN /\ Yield(Event("error"))
          /\ stage' = IF entry = "web" THEN "finish" ELSE "raised"
          /\ UNCHANGED state
     ELSE /\ state' = [state EXCEPT !.verdict = result_box]
          /\ stage' = "bind_claims"
          /\ UNCHANGED delivered
  /\ Quiet
  /\ UNCHANGED workerVars

(* Mutant of BindClaims: claims are extracted from any answer. *)
BindClaimsAlways ==
  /\ Advance("bind_claims", Event("bind_claims"), "report")
  /\ \E g \in {"grounded", "speculative"} :
       state' = [state EXCEPT !.groundedness = g]
  /\ Quiet
  /\ UNCHANGED workerVars

(* Claims are only extracted from a diagnosis. *)
BindClaims ==
  /\ Advance("bind_claims", Event("bind_claims"), "report")
  /\ \E g \in IF state.verdict = "diagnosed" THEN {"grounded", "speculative"}
              ELSE {"n/a"} :
       state' = [state EXCEPT !.groundedness = g]
  /\ Quiet
  /\ UNCHANGED workerVars

RenderReport ==
  /\ Advance("report", Event("report"),
             IF entry = "web" THEN "finish" ELSE "write_event")
  /\ Quiet
  /\ UNCHANGED <<state, workerVars>>

(* The server closes the stream. *)
Finish ==
  /\ Advance("finish", Event("done"), "done")
  /\ Quiet
  /\ UNCHANGED <<state, workerVars>>

(* Only the graph writes the row; it may fail, and an existing row stays.  *)
(* A blank input has no row.                                               *)
WriteDmesgEvent ==
  /\ stage = "write_event"
  /\ stage' = "completed"
  /\ \/ /\ dmesg_event = None
        /\ input.form # "blank"
        /\ dmesg_event' = state.verdict
     \/ UNCHANGED dmesg_event
  /\ UNCHANGED <<entry, input, state, client, delivered, workerVars>>

(* A node raises (the database, the model, a parser): the web turns it     *)
(* into an error event followed by "done", the graph lets it out.          *)
NodeRaises ==
  /\ stage \in {"parse_input", "extract_events", "retrieve", "prepare",
                "bind_claims", "report"}
  /\ client = "connected"
  /\ Yield(Event("error"))
  /\ stage' = IF entry = "web" THEN "finish" ELSE "raised"
  /\ Quiet
  /\ UNCHANGED <<state, workerVars>>

(* The client closes the connection: the generator is never resumed, the   *)
(* worker thread runs on.                                                  *)
ClientLeaves ==
  /\ entry = "web"
  /\ stage \notin Ended
  /\ client' = "gone"
  /\ stage' = "abandoned"
  /\ UNCHANGED <<entry, input, state, delivered, workerVars, dmesg_event>>

Generator ==
  \/ Accept \/ ParseInput \/ ExtractEvents \/ DetectSignals \/ Classify
  \/ Retrieve \/ Prepare \/ StartWorker \/ Drain \/ ReturnInline \/ Collect
  \/ BindClaims \/ RenderReport \/ Finish \/ WriteDmesgEvent \/ NodeRaises

Worker ==
  \/ WorkerStep \/ WorkerToolCall \/ WorkerTerminate \/ WorkerOutcome
  \/ WorkerSentinel

Next == Generator \/ Worker \/ ClientLeaves

(* Both threads are scheduled and no node blocks for ever: model calls and *)
(* subprocesses carry timeouts.  Nothing makes the client leave.           *)
Fairness == WF_vars(Generator) /\ WF_vars(Worker)

Spec == Init /\ [][Next]_vars
FairSpec == Spec /\ Fairness

-----------------------------------------------------------------------------
NodeTypes == {"triage_input", "triage_events", "triage_signals", "triage_route",
              "retrieval", "react_prep", "bind_claims", "report", "error", "done"}
ReactTypes == {"react_step_start", "react_tool_call", "react_terminate"}

(* The state of a session has the shape the code gives it. *)
TypeOK ==
  /\ entry \in {"web", "graph"}
  /\ input \in Input
  /\ stage \in Stages \cup Ended
  /\ state \in StateDict
  /\ client \in {"connected", "gone"}
  /\ worker \in {"none", "running", "returned", "ended"}
  /\ result_box \in Verdict \cup {None, "error"}
  /\ dmesg_event \in Verdict \cup {None}
  /\ \A s \in {delivered, queue, emitted} :
       \A i \in DOMAIN s : s[i].type \in NodeTypes \cup ReactTypes \cup {"sentinel"}

ReactPart(events) ==
  Part(events, {i \in DOMAIN events : events[i].type \in ReactTypes})

(* The client sees the investigation as it happened: what it was sent and  *)
(* what still waits in the queue are the reported events, in order, none   *)
(* lost and none twice; and a stream that went past the investigation has  *)
(* sent them all.                                                          *)
NoReactEventLost ==
  entry = "web" =>
    /\ ReactPart(delivered) \o ReactPart(queue) = emitted
    /\ stage \in {"collect", "bind_claims", "report", "finish", "done"} =>
         ReactPart(delivered) = emitted

(* Terminal events close a stream the client stays on: "done" is last and  *)
(* only there, and before it is either the report or one error, never      *)
(* both.                                                                   *)
StreamClosesWell ==
  LET count(t) == Cardinality({i \in DOMAIN delivered : delivered[i].type = t})
  IN /\ count("error") + count("report") <= 1
     /\ count("done") = IF stage = "done" THEN 1 ELSE 0
     /\ stage = "done" =>
          /\ Last(delivered).type = "done"
          /\ delivered[Len(delivered) - 1].type \in {"error", "report"}

Reported ==
  \/ stage \in {"report", "write_event", "completed"}
  \/ stage = "done" /\ \E i \in DOMAIN delivered : delivered[i].type = "report"

(* What is reported is the outcome of the investigation: the verdict is    *)
(* the one its terminate event announced, and claims are bound for a       *)
(* diagnosis and for nothing else.                                         *)
ReportMatchesInvestigation ==
  Reported =>
    /\ phase = "returned"
    /\ state.verdict = announced
    /\ (state.groundedness = "n/a") = (announced # "diagnosed")

(* ADR-023 in _select_route: a hardware signal in the text that was read   *)
(* keeps the investigation off the kernel-commit routes, whatever the      *)
(* user's framing or a CVE id suggests.                                    *)
HardwareRoutesAway ==
  (/\ state.route # None
   /\ input.hardware
   /\ input.form \in {"dmesg", "question"} \/ state.kinds # {})
  => state.route = "hardware"

(* Every session ends -- with "done", a verdict or an exception -- unless  *)
(* the client leaves, and a worker that was started ends even then.        *)
SessionEnds ==
  /\ <>(stage \in Ended)
  /\ [](worker = "running" => <>(worker = "ended"))

(* dmesg_event_writer.py:6: "every completed agent run leaves a row". *)
CompletedRunLeavesRow ==
  stage = "done" /\ Last(SelectSeq(delivered,
                       LAMBDA e : e.type \in {"error", "report"})).type = "report"
    => dmesg_event # None
=============================================================================

--------------------------- MODULE DiagnoseProofs ---------------------------
(***************************************************************************)
(* Theorems about DiagnoseSession for every set of inputs, any number of   *)
(* steps and events of the investigation and every way a session can end:  *)
(* its types, the route of a hardware fault, that the report is what the   *)
(* investigation announced, how a stream closes, and that the client is    *)
(* sent every event of the investigation.                                  *)
(***************************************************************************)
EXTENDS DiagnoseSession, OrderProofs, FiniteSetTheorems, TLAPS

USE SessionAssumption DEF SessionAssumption

(* Only Classify computes with the input; the kinds and their priority are *)
(* nine names.                                                             *)
LEMMA KindsHaveTop ==
  ASSUME NEW kinds \in SUBSET FaultKind, kinds # {}
  PROVE  TopKind(kinds) \in FaultKind
  <1> DEFINE ranks == {i \in DOMAIN Priority : Priority[i] \in kinds}
  <1>1. DOMAIN Priority = 1..9
    BY DEF Priority
  <1>2. FaultKind = {Priority[i] : i \in 1..9}
    BY <1>1 DEF FaultKind, ToSet
  <1>3. ranks # {} /\ ranks \subseteq 1..9
    BY <1>1, <1>2
  <1>4. \E i \in ranks : \A j \in ranks : i <= j
    <2> HIDE DEF ranks
    <2>1. CASE 1 \in ranks
      BY <2>1, <1>3
    <2>2. CASE 1 \notin ranks /\ 2 \in ranks
      BY <2>2, <1>3
    <2>3. CASE {1, 2} \cap ranks = {} /\ 3 \in ranks
      BY <2>3, <1>3
    <2>4. CASE {1, 2, 3} \cap ranks = {} /\ 4 \in ranks
      BY <2>4, <1>3
    <2>5. CASE {1, 2, 3, 4} \cap ranks = {} /\ 5 \in ranks
      BY <2>5, <1>3
    <2>6. CASE {1, 2, 3, 4, 5} \cap ranks = {} /\ 6 \in ranks
      BY <2>6, <1>3
    <2>7. CASE {1, 2, 3, 4, 5, 6} \cap ranks = {} /\ 7 \in ranks
      BY <2>7, <1>3
    <2>8. CASE {1, 2, 3, 4, 5, 6, 7} \cap ranks = {} /\ 8 \in ranks
      BY <2>8, <1>3
    <2>9. CASE {1, 2, 3, 4, 5, 6, 7, 8} \cap ranks = {}
      <3>1. \A i \in ranks : i = 9
        BY <2>9, <1>3
      <3>2. 9 \in ranks
        BY <3>1, <1>3
      <3>3. \A j \in ranks : 9 <= j
        BY <3>1
      <3>4. QED
        BY <3>2, <3>3
    <2>10. QED
      BY <2>1, <2>2, <2>3, <2>4, <2>5, <2>6, <2>7, <2>8, <2>9
  <1>5. (CHOOSE i \in ranks : \A j \in ranks : i <= j) \in 1..9
    BY <1>3, <1>4
  <1>6. TopKind(kinds) = Priority[CHOOSE i \in ranks : \A j \in ranks : i <= j]
    BY DEF TopKind
  <1>7. QED
    <2> HIDE DEF ranks
    <2>1. QED
      BY <1>2, <1>5, <1>6

-----------------------------------------------------------------------------
(* Types.  The events of the nodes are known by their types only, those of *)
(* the investigation carry a step.                                         *)
ReactEvent == [type : ReactTypes, step : Nat]

TypeInv ==
  /\ entry \in {"web", "graph"}
  /\ input \in Input
  /\ stage \in Stages \cup Ended
  /\ state \in StateDict
  /\ client \in {"connected", "gone"}
  /\ worker \in {"none", "running", "returned", "ended"}
  /\ result_box \in Verdict \cup {None, "error"}
  /\ dmesg_event \in Verdict \cup {None}
  /\ delivered \in Seq([type : NodeTypes] \cup ReactEvent)
  /\ queue \in Seq({Sentinel} \cup ReactEvent)
  /\ emitted \in Seq(ReactEvent)
  /\ round \in Nat
  /\ announced \in Verdict \cup {None}
  /\ phase \in {"announced", "returned"} => announced \in Verdict

LEMMA InitTypeInv == Init => TypeInv
  <1> SUFFICES ASSUME Init PROVE TypeInv
    OBVIOUS
  <1>1. state \in StateDict
    BY DEF Init, StateDict
  <1>2. QED
    BY <1>1 DEF Init, TypeInv, Stages, Ended, Loop!InvestigationInit

(* What a node adds to the state dict has its type. *)
LEMMA StateTypes ==
  ASSUME TypeInv, Generator
  PROVE  state' \in StateDict
  <1> USE DEF TypeInv, StateDict, Advance
  <1>1. CASE ParseInput
    BY <1>1 DEF ParseInput, InputType
  <1>2. CASE ExtractEvents
    <2>1. PICK readable \in BOOLEAN :
            LET text == \/ state.input_type = "dmesg"
                        \/ state.input_type \in {"dmesg_file", "sosreport"} /\ readable
            IN state' = [state EXCEPT !.dmesg_text = text,
                                      !.kinds = IF text THEN input.kinds ELSE {}]
      BY <1>2 DEF ExtractEvents
    <2>2. input.kinds \subseteq FaultKind
      BY DEF InputType
    <2>3. PICK text \in BOOLEAN :
            state' = [state EXCEPT !.dmesg_text = text,
                                   !.kinds = IF text THEN input.kinds ELSE {}]
      BY <2>1, Zenon
    <2>4. QED
      BY <2>2, <2>3
  <1>3. CASE DetectSignals
    <2>1. HardwareSeen \in BOOLEAN
      BY Zenon DEF HardwareSeen, InputType
    <2>2. QED
      BY <1>3, <2>1 DEF DetectSignals
  <1>4. CASE Classify
    <2>1. \A kind, kinds, hardware : Route(kind, kinds, hardware) \in {"hardware", "change", "kernel", "unknown"}
      BY DEF Route
    <2>2. PICK kind \in IF state.kinds # {} THEN {TopKind(state.kinds)} ELSE {"generic", "oops"} :
            state' = [state EXCEPT !.fault_kind = kind,
                                   !.route = Route(kind, state.kinds, state.hardware)]
      BY <1>4 DEF Classify
    <2>3. "oops" \in FaultKind
      <3>1. 6 \in DOMAIN Priority /\ Priority[6] = "oops"
        BY DEF Priority
      <3>2. QED
        BY <3>1 DEF FaultKind, ToSet
    <2>4. kind \in FaultKind \cup {"generic"}
      BY <2>3, KindsHaveTop
    <2>5. Route(kind, state.kinds, state.hardware) \in {"hardware", "change", "kernel", "unknown"}
      BY <2>1
    <2>6. QED
      BY <2>2, <2>4, <2>5
  <1>5. CASE Collect
    BY <1>5 DEF Collect
  <1>6. CASE BindClaims
    BY <1>6 DEF BindClaims
  <1>7. QED
    BY <1>1, <1>2, <1>3, <1>4, <1>5, <1>6
    DEF Generator, Accept, Retrieve, Prepare, StartWorker, Drain, ReturnInline,
        RenderReport, Finish, WriteDmesgEvent, NodeRaises

(* What a step sends: an event of a node, the first of the queue, or the   *)
(* error of a blank input.                                                 *)
LEMMA Deliveries ==
  ASSUME TypeInv, [Next]_vars
  PROVE  \/ delivered' = delivered
         \/ entry = "web" /\ \E ev \in [type : NodeTypes] : delivered' = Append(delivered, ev)
         \/ Drain /\ Head(queue) # Sentinel /\ delivered' = Append(delivered, Head(queue))
         \/ Accept /\ delivered' = <<Event("error")>>
  <1>1. CASE Generator
    BY <1>1 DEF Generator, Accept, ParseInput, ExtractEvents, DetectSignals, Classify, Retrieve,
         Prepare, StartWorker, Drain, ReturnInline, Collect, BindClaims, RenderReport, Finish,
         WriteDmesgEvent, NodeRaises, Advance, Yield, Event, NodeTypes
  <1>2. QED
    BY <1>1 DEF Next, Worker, WorkerStep, WorkerToolCall, WorkerTerminate, WorkerOutcome,
         WorkerSentinel, ClientLeaves, vars

LEMMA NextTypeInv == TypeInv /\ [Next]_vars => TypeInv'
  <1> SUFFICES ASSUME TypeInv, [Next]_vars PROVE TypeInv'
    OBVIOUS
  <1> USE DEF TypeInv
  <1>1. delivered' \in Seq([type : NodeTypes] \cup ReactEvent)
    <2>1. CASE Drain /\ Head(queue) # Sentinel /\ delivered' = Append(delivered, Head(queue))
      <3>1. Head(queue) \in {Sentinel} \cup ReactEvent
        BY <2>1 DEF Drain
      <3>2. QED
        BY <2>1, <3>1
    <2>2. <<Event("error")>> \in Seq([type : NodeTypes] \cup ReactEvent)
      BY DEF Event, NodeTypes
    <2>3. ASSUME NEW ev \in [type : NodeTypes], delivered' = Append(delivered, ev)
          PROVE  delivered' \in Seq([type : NodeTypes] \cup ReactEvent)
      BY <2>3
    <2>4. QED
      BY <2>1, <2>2, <2>3, Deliveries
  <1>2. CASE Generator
    <2>1. stage' \in Stages \cup Ended /\ entry' = entry /\ input' = input /\ client' = client
      BY <1>2 DEF Generator, Accept, ParseInput, ExtractEvents, DetectSignals, Classify, Retrieve,
         Prepare, StartWorker, Drain, ReturnInline, Collect, BindClaims, RenderReport, Finish,
         WriteDmesgEvent, NodeRaises, Advance, Quiet, Stages, Ended
    <2>2. Drain \/ queue' = queue
      BY <1>2 DEF Generator, Accept, ParseInput, ExtractEvents, DetectSignals, Classify, Retrieve,
         Prepare, StartWorker, ReturnInline, Collect, BindClaims, RenderReport, Finish,
         WriteDmesgEvent, NodeRaises, workerVars
    <2>3. /\ worker' \in {worker, "none", "running"}
          /\ UNCHANGED <<emitted, result_box, investigation>>
      BY <1>2 DEF Generator, Accept, ParseInput, ExtractEvents, DetectSignals, Classify, Retrieve,
         Prepare, StartWorker, Drain, ReturnInline, Collect, BindClaims, RenderReport, Finish,
         WriteDmesgEvent, NodeRaises, workerVars
    <2>4. dmesg_event' \in {dmesg_event, state.verdict}
      BY <1>2 DEF Generator, Accept, ParseInput, ExtractEvents, DetectSignals, Classify, Retrieve,
         Prepare, StartWorker, Drain, ReturnInline, Collect, BindClaims, RenderReport, Finish,
         WriteDmesgEvent, NodeRaises, Quiet
    <2>5. state.verdict \in Verdict \cup {None}
      BY DEF StateDict
    <2>6. queue' \in Seq({Sentinel} \cup ReactEvent)
      <3>1. CASE Drain
        BY <3>1 DEF Drain
      <3>2. QED
        BY <2>2, <3>1
    <2>7. QED
      BY <1>1, <1>2, <2>1, <2>3, <2>4, <2>5, <2>6, StateTypes DEF investigation
  <1>3. CASE Worker
    <2> USE <1>3, <1>1 DEF investigation
    <2>1. ASSUME NEW type \in ReactTypes, NEW n \in Nat, Report(StepEvent(type, n))
          PROVE  emitted' \in Seq(ReactEvent) /\ queue' \in Seq({Sentinel} \cup ReactEvent)
      BY <2>1 DEF Report, StepEvent, ReactEvent
    <2>2. CASE WorkerStep
      BY <2>1, <2>2 DEF WorkerStep, Loop!ReportStep, ReactTypes
    <2>3. CASE WorkerToolCall
      BY <2>1, <2>3 DEF WorkerToolCall, ReactTypes
    <2>4. CASE WorkerTerminate
      BY <2>1, <2>4 DEF WorkerTerminate, Loop!Announce, ReactTypes
    <2>5. CASE WorkerOutcome
      BY <2>5 DEF WorkerOutcome, Loop!Return, Loop!Raise
    <2>6. CASE WorkerSentinel
      BY <2>6 DEF WorkerSentinel
    <2>7. QED
      BY <2>2, <2>3, <2>4, <2>5, <2>6 DEF Worker
  <1>4. CASE ClientLeaves
    BY <1>1, <1>4 DEF ClientLeaves, workerVars, investigation, Ended
  <1>5. CASE UNCHANGED vars
    BY <1>5 DEF vars, workerVars, investigation
  <1>6. QED
    BY <1>2, <1>3, <1>4, <1>5 DEF Next

LEMMA TypeInvImpliesTypeOK == TypeInv => TypeOK
  <1> SUFFICES ASSUME TypeInv PROVE TypeOK
    OBVIOUS
  <1> DEFINE types == NodeTypes \cup ReactTypes \cup {"sentinel"}
  <1>1. /\ delivered \in Seq([type : NodeTypes] \cup ReactEvent)
        /\ queue \in Seq({Sentinel} \cup ReactEvent)
        /\ emitted \in Seq(ReactEvent)
    BY DEF TypeInv
  <1>2. /\ \A i \in DOMAIN delivered : delivered[i] \in [type : NodeTypes] \cup ReactEvent
        /\ \A i \in DOMAIN queue : queue[i] \in {Sentinel} \cup ReactEvent
        /\ \A i \in DOMAIN emitted : emitted[i] \in ReactEvent
    BY <1>1
  <1>3. \A e \in [type : NodeTypes] \cup ReactEvent \cup {Sentinel} : e.type \in types
    BY DEF ReactEvent, Sentinel, Event
  <1>4. \A s \in {delivered, queue, emitted} : \A i \in DOMAIN s : s[i].type \in types
    BY <1>2, <1>3
  <1>5. QED
    BY <1>4 DEF TypeInv, TypeOK

(* Whatever the input, the investigation and the client do, the session's  *)
(* variables and the state dict keep the shape the code gives them.        *)
THEOREM TypeCorrect == Spec => []TypeOK
  <1>1. Spec => []TypeInv
    BY InitTypeInv, NextTypeInv, PTL DEF Spec
  <1>2. QED
    BY <1>1, TypeInvImpliesTypeOK, PTL

-----------------------------------------------------------------------------
(* The route.  Until the input is classified there is none, and each stage *)
(* knows what the ones before it found.                                    *)
RouteInv ==
  /\ stage \in {"accept", "parse_input", "extract_events", "detect_signals", "classify"} =>
       state.route = None
  /\ stage \in {"accept", "parse_input"} => state.kinds = {}
  /\ stage = "extract_events" =>
       state.kinds = {} /\ (input.form \in {"dmesg", "question"} => state.input_type = input.form)
  /\ stage = "detect_signals" =>
       /\ input.form = "question" => state.input_type = "question"
       /\ input.form = "dmesg" \/ state.kinds # {} => state.dmesg_text
  /\ stage = "classify" =>
       (input.hardware /\ (input.form \in {"dmesg", "question"} \/ state.kinds # {}) => state.hardware)
  /\ HardwareRoutesAway

LEMMA InitRouteInv == Init => RouteInv
  BY DEF Init, RouteInv, HardwareRoutesAway

LEMMA NextRouteInv == TypeInv /\ RouteInv /\ [Next]_vars => RouteInv'
  <1> SUFFICES ASSUME TypeInv, RouteInv, [Next]_vars PROVE RouteInv'
    OBVIOUS
  <1>0. state \in StateDict /\ input \in InputType
    BY DEF TypeInv
  <1> USE <1>0 DEF RouteInv, HardwareRoutesAway, StateDict, Advance, Quiet
  <1>1. CASE Accept
    BY <1>1 DEF Accept
  <1>2. CASE ParseInput
    BY <1>2 DEF ParseInput
  <1>3. CASE ExtractEvents
    BY <1>3 DEF ExtractEvents
  <1>4. CASE DetectSignals
    BY <1>4 DEF DetectSignals, HardwareSeen
  <1>5. CASE Classify
    BY <1>5 DEF Classify, Route
  <1>6. CASE Collect \/ BindClaims
    BY <1>6 DEF Collect, BindClaims
  <1>7. CASE Retrieve \/ Prepare \/ StartWorker \/ Drain \/ ReturnInline \/ RenderReport \/ Finish
             \/ WriteDmesgEvent \/ NodeRaises \/ ClientLeaves
    BY <1>7 DEF Retrieve, Prepare, StartWorker, Drain, ReturnInline, RenderReport, Finish,
         WriteDmesgEvent, NodeRaises, ClientLeaves
  <1>8. CASE Worker \/ UNCHANGED vars
    BY <1>8 DEF Worker, WorkerStep, WorkerToolCall, WorkerTerminate, WorkerOutcome,
         WorkerSentinel, vars
  <1>9. QED
    BY <1>1, <1>2, <1>3, <1>4, <1>5, <1>6, <1>7, <1>8 DEF Next, Generator

(* Whatever else the input holds, a hardware signal in the text that was   *)
(* read decides the route.                                                 *)
THEOREM HardwareDecides == Spec => []HardwareRoutesAway
  <1>1. Spec => [](TypeInv /\ RouteInv)
    BY InitTypeInv, NextTypeInv, InitRouteInv, NextRouteInv, PTL DEF Spec
  <1>2. RouteInv => HardwareRoutesAway
    BY DEF RouteInv
  <1>3. QED
    BY <1>1, <1>2, PTL

-----------------------------------------------------------------------------
(* The report.  The box is filled when the investigation has returned, the *)
(* sentinel comes after the box, and the pipeline looks into the box after *)
(* the sentinel.                                                           *)
ReportTrue ==
  /\ phase = "returned"
  /\ state.verdict = announced
  /\ (state.groundedness = "n/a") = (announced # "diagnosed")

HasReport == \E i \in DOMAIN delivered : delivered[i].type = "report"

OutcomeInv ==
  /\ stage \in {"accept", "parse_input", "extract_events", "detect_signals", "classify",
                "retrieve", "prepare", "start_worker"} => worker = "none"
  /\ worker \in {"returned", "ended"} => result_box \in Verdict \cup {"error"}
  /\ result_box \in Verdict => phase = "returned" /\ result_box = announced
  /\ worker # "ended" => \A i \in DOMAIN queue : queue[i] # Sentinel
  /\ stage \in {"collect", "bind_claims", "report", "write_event", "completed"} => worker = "ended"
  /\ stage = "bind_claims" => phase = "returned" /\ state.verdict = announced
  /\ stage \in {"report", "write_event", "completed"} => ReportTrue
  /\ HasReport => ReportTrue /\ stage \in {"finish", "done", "abandoned", "write_event", "completed"}

LEMMA InitOutcomeInv == Init => OutcomeInv
  <1> SUFFICES ASSUME Init PROVE OutcomeInv
    OBVIOUS
  <1>1. ~HasReport
    BY DEF Init, HasReport
  <1>2. QED
    BY <1>1 DEF Init, OutcomeInv

(* What is sent is a report only when RenderReport sends it.               *)
LEMMA OnlyRenderReports ==
  ASSUME TypeInv, [Next]_vars, HasReport'
  PROVE  HasReport \/ RenderReport
  <1> DEFINE Sent == [type : NodeTypes] \cup ReactEvent
  <1>1. delivered \in Seq(Sent)
    BY DEF TypeInv
  <1>2. ASSUME NEW ev, ev.type # "report", delivered' = Append(delivered, ev)
        PROVE  HasReport
    <2>1. PICK i \in DOMAIN delivered' : delivered'[i].type = "report"
      BY DEF HasReport
    <2>2. i # Len(delivered) + 1
      BY <1>1, <1>2, <2>1
    <2>3. i \in DOMAIN delivered /\ delivered[i].type = "report"
      BY <1>1, <1>2, <2>1, <2>2
    <2>4. QED
      BY <2>3 DEF HasReport
  <1>3. CASE Drain /\ Head(queue) # Sentinel /\ delivered' = Append(delivered, Head(queue))
    <2>1. Head(queue) \in ReactEvent
      BY <1>3 DEF Drain, TypeInv
    <2>2. QED
      BY <1>2, <1>3, <2>1 DEF ReactEvent, ReactTypes
  <1>4. CASE delivered' = delivered
    BY <1>4 DEF HasReport
  <1>5. CASE delivered' = <<Event("error")>>
    BY <1>5 DEF HasReport, Event
  <1>6. CASE \E type \in NodeTypes \ {"report"} : delivered' = Append(delivered, Event(type))
    BY <1>2, <1>6 DEF Event
  <1>7. CASE Generator
    <2>1. \/ RenderReport
          \/ delivered' \in {delivered, <<Event("error")>>}
          \/ Drain
          \/ \E type \in NodeTypes \ {"report"} : delivered' = Append(delivered, Event(type))
      BY <1>7 DEF Generator, Accept, ParseInput, ExtractEvents, DetectSignals, Classify, Retrieve,
         Prepare, StartWorker, ReturnInline, Collect, BindClaims, Finish,
         WriteDmesgEvent, NodeRaises, Advance, Yield, NodeTypes
    <2>2. Drain => \/ delivered' = delivered
                   \/ Head(queue) # Sentinel /\ delivered' = Append(delivered, Head(queue))
      BY DEF Drain
    <2>3. QED
      BY <2>1, <2>2, <1>3, <1>4, <1>5, <1>6
  <1>8. CASE ~Generator
    BY <1>8, <1>4 DEF Next, Worker, WorkerStep, WorkerToolCall, WorkerTerminate, WorkerOutcome,
         WorkerSentinel, ClientLeaves, vars
  <1>9. QED
    BY <1>7, <1>8

LEMMA NextOutcomeInv == TypeInv /\ OutcomeInv /\ [Next]_vars => OutcomeInv'
  <1> SUFFICES ASSUME TypeInv, OutcomeInv, [Next]_vars PROVE OutcomeInv'
    OBVIOUS
  <1>0. /\ state \in StateDict /\ queue \in Seq({Sentinel} \cup ReactEvent)
        /\ result_box \in Verdict \cup {None, "error"}
        /\ HasReport' => HasReport \/ RenderReport
        /\ phase \in {"announced", "returned"} => announced \in Verdict
    BY OnlyRenderReports DEF TypeInv
  <1> USE <1>0 DEF OutcomeInv, ReportTrue, Advance, Quiet
  <1>1. CASE Accept
    BY <1>1 DEF Accept, workerVars, investigation, RenderReport
  <1>2. CASE ParseInput \/ ExtractEvents \/ DetectSignals \/ Classify
    BY <1>2 DEF ParseInput, ExtractEvents, DetectSignals, Classify, workerVars, investigation, RenderReport
  <1>3. CASE Retrieve \/ Prepare \/ StartWorker
    BY <1>3 DEF Retrieve, Prepare, StartWorker, workerVars, investigation, RenderReport
  <1>4. CASE Drain
    <2>1. /\ \A i \in DOMAIN Tail(queue) : Tail(queue)[i] = queue[i + 1] /\ i + 1 \in DOMAIN queue
          /\ 1 \in DOMAIN queue /\ Head(queue) = queue[1]
      BY <1>4 DEF Drain
    <2>2. QED
      BY <1>4, <2>1 DEF Drain, investigation, RenderReport
  <1>5. CASE ReturnInline
    BY <1>5 DEF ReturnInline, workerVars, investigation, RenderReport
  <1>6. CASE Collect
    BY <1>6 DEF Collect, workerVars, investigation, RenderReport, StateDict
  <1>7. CASE BindClaims
    BY <1>7 DEF BindClaims, workerVars, investigation, RenderReport, StateDict
  <1>8. CASE RenderReport
    BY <1>8 DEF RenderReport, workerVars, investigation
  <1>9. CASE Finish \/ WriteDmesgEvent \/ NodeRaises \/ ClientLeaves
    BY <1>9 DEF Finish, WriteDmesgEvent, NodeRaises, ClientLeaves, workerVars, investigation,
         RenderReport, Ended
  <1>10. CASE WorkerStep \/ WorkerToolCall \/ WorkerTerminate
    <2>1. ASSUME NEW type \in ReactTypes, NEW n, Report(StepEvent(type, n))
          PROVE  (\A i \in DOMAIN queue : queue[i] # Sentinel) =>
                   (\A i \in DOMAIN queue' : queue'[i] # Sentinel)
      BY <2>1 DEF Report, StepEvent, Sentinel, Event, ReactTypes
    <2>2. QED
      BY <1>10, <2>1 DEF WorkerStep, WorkerToolCall, WorkerTerminate, ReactTypes, investigation,
           Loop!ReportStep, Loop!Announce, RenderReport
  <1>11. CASE WorkerOutcome
    BY <1>11 DEF WorkerOutcome, Loop!Return, Loop!Raise, RenderReport, Verdict
  <1>12. CASE WorkerSentinel
    BY <1>12 DEF WorkerSentinel, investigation, RenderReport
  <1>13. CASE UNCHANGED vars
    BY <1>13 DEF vars, workerVars, investigation, HasReport
  <1>14. QED
    BY <1>1, <1>2, <1>3, <1>4, <1>5, <1>6, <1>7, <1>8, <1>9, <1>10, <1>11, <1>12, <1>13
    DEF Next, Generator, Worker

(* However the worker and the generator interleave, what is reported is    *)
(* what the investigation announced.                                       *)
THEOREM ReportIsInvestigations == Spec => []ReportMatchesInvestigation
  <1>1. Spec => [](TypeInv /\ OutcomeInv)
    BY InitTypeInv, NextTypeInv, InitOutcomeInv, NextOutcomeInv, PTL DEF Spec
  <1>2. OutcomeInv => ReportMatchesInvestigation
    BY DEF OutcomeInv, ReportMatchesInvestigation, Reported, ReportTrue, HasReport
  <1>3. QED
    BY <1>1, <1>2, PTL

-----------------------------------------------------------------------------
(* The stream.  Up to the last node no event closes it; then one does, and *)
(* "done" comes right after that one.                                      *)
Open(s, n) == \A i \in 1..n : s[i].type \notin {"error", "report", "done"}
ClosedAt(s, n) ==
  n > 0 /\ s[n].type \in {"error", "report"} /\ Open(s, n - 1)

StreamInv ==
  /\ entry = "graph" => delivered = <<>> /\ stage \notin {"finish", "done", "abandoned", "rejected"}
  /\ stage = "accept" => entry = "web"
  /\ stage \in {"write_event", "completed", "raised"} => entry = "graph"
  /\ stage \notin {"finish", "done", "abandoned", "rejected"} => Open(delivered, Len(delivered))
  /\ stage \in {"finish", "rejected"} => ClosedAt(delivered, Len(delivered))
  /\ stage = "abandoned" =>
       Open(delivered, Len(delivered)) \/ ClosedAt(delivered, Len(delivered))
  /\ stage = "done" => /\ delivered # <<>> /\ delivered[Len(delivered)].type = "done"
                       /\ ClosedAt(delivered, Len(delivered) - 1)

LEMMA InitStreamInv == Init => StreamInv
  BY DEF Init, StreamInv, Open

(* What an event does to the two shapes.                                   *)
LEMMA StreamGrows ==
  ASSUME NEW T, NEW s \in Seq(T), NEW ev \in T, NEW t, t = Append(s, ev)
  PROVE  /\ t # <<>> /\ t[Len(t)] = ev
         /\ Open(s, Len(s)) /\ ev.type \notin {"error", "report", "done"} => Open(t, Len(t))
         /\ Open(s, Len(s)) /\ ev.type \in {"error", "report"} => ClosedAt(t, Len(t))
         /\ ClosedAt(s, Len(s)) => ClosedAt(t, Len(t) - 1)
  <1>1. /\ Len(t) = Len(s) + 1 /\ Len(s) \in Nat
        /\ t[Len(s) + 1] = ev
        /\ \A i \in 1..Len(s) : t[i] = s[i]
    OBVIOUS
  <1>2. \A n \in 0..Len(s) : Open(s, n) => Open(t, n)
    BY <1>1 DEF Open
  <1>3. QED
    BY <1>1, <1>2 DEF Open, ClosedAt

LEMMA NextStreamInv == TypeInv /\ StreamInv /\ [Next]_vars => StreamInv'
  <1> SUFFICES ASSUME TypeInv, StreamInv, [Next]_vars PROVE StreamInv'
    OBVIOUS
  <1> DEFINE Sent == [type : NodeTypes] \cup ReactEvent
  <1>1. /\ delivered \in Seq(Sent) /\ queue \in Seq({Sentinel} \cup ReactEvent)
        /\ entry \in {"web", "graph"}
    BY DEF TypeInv
  <1>2. \A type \in NodeTypes : Event(type) \in Sent /\ Event(type).type = type
    BY DEF Event
  <1>3. ASSUME NEW ev \in Sent, delivered' = Append(delivered, ev)
        PROVE  /\ delivered' # <<>> /\ delivered'[Len(delivered')] = ev
               /\ Open(delivered, Len(delivered)) /\ ev.type \notin {"error", "report", "done"}
                    => Open(delivered', Len(delivered'))
               /\ Open(delivered, Len(delivered)) /\ ev.type \in {"error", "report"}
                    => ClosedAt(delivered', Len(delivered'))
               /\ ClosedAt(delivered, Len(delivered)) => ClosedAt(delivered', Len(delivered') - 1)
    <2> HIDE DEF Sent
    <2>1. QED
      BY <1>1, <1>3, StreamGrows
  <1>4. ASSUME NEW type \in NodeTypes \ {"error", "report", "done"}, NEW from \in Stages, NEW to \in Stages,
               from # "finish", to \notin {"accept", "finish", "write_event"}, Advance(from, Event(type), to), Quiet
        PROVE  StreamInv'
    <2>1. stage = from /\ stage' = to /\ entry' = entry
          /\ (delivered' = IF entry = "web" THEN Append(delivered, Event(type)) ELSE delivered)
      BY <1>4 DEF Advance, Yield, Quiet
    <2>2. /\ Open(delivered, Len(delivered))
          /\ to \notin {"accept", "finish", "write_event", "done", "abandoned", "rejected", "completed",
                     "raised"}
      BY <2>1, <1>4 DEF StreamInv, Stages
    <2>3. CASE entry = "web"
      <3>1. Open(delivered', Len(delivered'))
        BY <2>1, <2>2, <2>3, <1>2, <1>3
      <3>2. QED
        BY <2>1, <2>2, <2>3, <3>1 DEF StreamInv
    <2>4. CASE entry = "graph"
      BY <2>1, <2>2, <2>4 DEF StreamInv
    <2>5. QED
      BY <1>1, <2>3, <2>4
  <1>5. CASE Accept
    <2>1. ClosedAt(<<Event("error")>>, 1) /\ Len(<<Event("error")>>) = 1
      BY DEF ClosedAt, Open, Event
    <2>2. entry' = entry /\ stage = "accept" /\ entry = "web"
      BY <1>5, <1>1 DEF Accept, Quiet, StreamInv
    <2>3. CASE delivered' = <<Event("error")>> /\ stage' = "rejected"
      BY <2>1, <2>2, <2>3 DEF StreamInv
    <2>4. CASE delivered' = delivered /\ stage' = "parse_input"
      BY <2>2, <2>4 DEF StreamInv
    <2>5. QED
      BY <1>5, <2>3, <2>4 DEF Accept
  <1>6. CASE ParseInput \/ ExtractEvents \/ DetectSignals \/ Classify \/ Retrieve \/ BindClaims
    BY <1>6, <1>4 DEF ParseInput, ExtractEvents, DetectSignals, Classify, Retrieve, BindClaims,
         NodeTypes, Stages
  <1>7. CASE Prepare
    BY <1>7, <1>4 DEF Prepare, NodeTypes, Stages
  <1>8. CASE StartWorker \/ ReturnInline
    BY <1>8 DEF StartWorker, ReturnInline, StreamInv, Quiet
  <1>9. CASE Drain
    <2>1. CASE Head(queue) # Sentinel
      <3>1. Head(queue) \in ReactEvent
        BY <1>1, <1>9, <2>1 DEF Drain
      <3>2. Head(queue) \in Sent /\ Head(queue).type \notin {"error", "report", "done"}
        BY <3>1 DEF ReactEvent, ReactTypes
      <3>3. Open(delivered', Len(delivered'))
        BY <1>3, <1>9, <2>1, <3>2 DEF Drain, StreamInv
      <3>4. QED
        BY <1>9, <2>1, <3>3 DEF Drain, StreamInv, Quiet
    <2>2. QED
      BY <1>9, <2>1 DEF Drain, StreamInv, Quiet
  <1>10. CASE Collect \/ NodeRaises
    <2>1. "error" \in NodeTypes
      BY DEF NodeTypes
    <2>2. stage \notin {"finish", "done", "abandoned", "rejected"}
      BY <1>10 DEF Collect, NodeRaises
    <2>3. CASE delivered' = Append(delivered, Event("error")) /\ stage' = "finish" /\ entry' = "web"
      BY <1>1, <1>2, <1>3, <2>1, <2>2, <2>3 DEF StreamInv
    <2>4. CASE /\ delivered' = delivered /\ entry' = entry
               /\ (stage' = "raised" /\ entry = "graph") \/ stage' = "bind_claims"
      BY <2>2, <2>4 DEF StreamInv
    <2>5. QED
      BY <1>1, <1>10, <2>3, <2>4 DEF Collect, NodeRaises, Yield, Quiet
  <1>11. CASE RenderReport
    <2>1. "report" \in NodeTypes
      BY DEF NodeTypes
    <2>2. CASE entry = "web"
      BY <1>1, <1>2, <1>3, <1>11, <2>1, <2>2 DEF RenderReport, Advance, Yield, Quiet, StreamInv
    <2>3. CASE entry = "graph"
      BY <1>11, <2>3 DEF RenderReport, Advance, Yield, Quiet, StreamInv
    <2>4. QED
      BY <1>1, <2>2, <2>3
  <1>12. CASE Finish
    <2>1. "done" \in NodeTypes
      BY DEF NodeTypes
    <2>2. QED
      BY <1>1, <1>2, <1>3, <1>12, <2>1 DEF Finish, Advance, Yield, Quiet, StreamInv
  <1>13. CASE WriteDmesgEvent
    BY <1>13 DEF WriteDmesgEvent, StreamInv
  <1>14. CASE ClientLeaves
    BY <1>14 DEF ClientLeaves, StreamInv, Ended
  <1>15. CASE Worker \/ UNCHANGED vars
    BY <1>15 DEF Worker, WorkerStep, WorkerToolCall, WorkerTerminate, WorkerOutcome,
         WorkerSentinel, vars, StreamInv
  <1>16. QED
    BY <1>5, <1>6, <1>7, <1>8, <1>9, <1>10, <1>11, <1>12, <1>13, <1>14, <1>15 DEF Next, Generator

(* Positions of the closing events in the shapes, counted.                 *)
LEMMA CountsOfShapes ==
  ASSUME TypeInv, StreamInv
  PROVE  StreamClosesWell
  <1> DEFINE n == Len(delivered)
             at(t) == {i \in DOMAIN delivered : delivered[i].type = t}
  <1>1. /\ n \in Nat /\ DOMAIN delivered = 1..n
    BY DEF TypeInv
  <1>2. Cardinality({}) = 0
    BY FS_EmptySet
  <1>3. \A k : Cardinality({k}) = 1
    BY FS_Singleton
  <1>4. ASSUME Open(delivered, n)
        PROVE  at("error") = {} /\ at("report") = {} /\ at("done") = {}
    BY <1>1, <1>4 DEF Open
  <1>5. ASSUME ClosedAt(delivered, n)
        PROVE  /\ at("done") = {}
               /\ \/ at("error") = {n} /\ at("report") = {}
                  \/ at("error") = {} /\ at("report") = {n}
    BY <1>1, <1>5 DEF Open, ClosedAt
  <1>6. ASSUME n > 0, delivered[n].type = "done", ClosedAt(delivered, n - 1)
        PROVE  /\ at("done") = {n}
               /\ \/ at("error") = {n - 1} /\ at("report") = {}
                  \/ at("error") = {} /\ at("report") = {n - 1}
    BY <1>1, <1>6 DEF Open, ClosedAt
  <1> HIDE DEF at
  <1>7. CASE stage = "done"
    <2>1. n > 0 /\ delivered[n].type = "done" /\ ClosedAt(delivered, n - 1)
      BY <1>1, <1>7 DEF StreamInv
    <2>2. /\ at("done") = {n}
          /\ \/ at("error") = {n - 1} /\ at("report") = {}
             \/ at("error") = {} /\ at("report") = {n - 1}
      BY <2>1, <1>6
    <2>3. /\ Cardinality(at("done")) = 1
          /\ \/ Cardinality(at("error")) = 1 /\ Cardinality(at("report")) = 0
             \/ Cardinality(at("error")) = 0 /\ Cardinality(at("report")) = 1
      BY <2>2, <1>2, <1>3, Zenon
    <2>4. QED
      BY <1>7, <2>1, <2>3 DEF StreamClosesWell, Last, ClosedAt, at
  <1>8. CASE stage # "done"
    <2>1. Open(delivered, n) \/ ClosedAt(delivered, n)
      BY <1>8 DEF StreamInv
    <2>2. /\ at("done") = {}
          /\ \/ at("error") = {} /\ at("report") = {}
             \/ at("error") = {n} /\ at("report") = {}
             \/ at("error") = {} /\ at("report") = {n}
      BY <2>1, <1>4, <1>5
    <2>3. /\ Cardinality(at("done")) = 0
          /\ \/ Cardinality(at("error")) = 0 /\ Cardinality(at("report")) = 0
             \/ Cardinality(at("error")) = 1 /\ Cardinality(at("report")) = 0
             \/ Cardinality(at("error")) = 0 /\ Cardinality(at("report")) = 1
      BY <2>2, <1>2, <1>3, Zenon
    <2>4. QED
      BY <1>8, <2>3 DEF StreamClosesWell, at
  <1>9. QED
    BY <1>7, <1>8

(* A stream never closes twice, never goes on after it closed, and is      *)
(* closed by a report or by an error.                                      *)
THEOREM StreamsCloseWell == Spec => []StreamClosesWell
  <1>1. Spec => [](TypeInv /\ StreamInv)
    BY InitTypeInv, NextTypeInv, InitStreamInv, NextStreamInv, PTL DEF Spec
  <1>2. QED
    BY <1>1, CountsOfShapes, PTL

-----------------------------------------------------------------------------
(* The events.  What the client was sent and what waits for it are the     *)
(* events of the investigation; nothing here depends on the inputs.        *)
HIDE SessionAssumption DEF SessionAssumption

Reacts(s) == {i \in DOMAIN s : s[i].type \in ReactTypes}

(* A sequence's part of the investigation grows by what is appended to it. *)
LEMMA ReactPartGrows ==
  ASSUME NEW T, NEW s \in Seq(T), NEW ev \in T
  PROVE  /\ ReactPart(s) \in Seq(T)
         /\ ev.type \in ReactTypes => ReactPart(Append(s, ev)) = Append(ReactPart(s), ev)
         /\ ev.type \notin ReactTypes => ReactPart(Append(s, ev)) = ReactPart(s)
  <1>1. PICK r, I : r = Append(s, ev) /\ I = Reacts(s)
    OBVIOUS
  <1>2. I \in SUBSET (DOMAIN s)
    BY <1>1 DEF Reacts
  <1>3. /\ Len(s) \in Nat /\ DOMAIN s = 1..Len(s) /\ DOMAIN r = 1..(Len(s) + 1)
        /\ r[Len(s) + 1] = ev /\ \A i \in 1..Len(s) : r[i] = s[i]
    BY <1>1
  <1>4. Reacts(r) = IF ev.type \in ReactTypes THEN I \cup {Len(s) + 1} ELSE I
    BY <1>1, <1>3 DEF Reacts
  <1>5. ReactPart(r) = Part(r, Reacts(r)) /\ ReactPart(s) = Part(s, I)
    BY <1>1 DEF ReactPart, Reacts
  <1>6. QED
    <2>1. Part(s, I) \in Seq(T) /\ Part(r, I) = Part(s, I)
          /\ Part(r, I \cup {Len(s) + 1}) = Append(Part(s, I), ev)
      <3>1. Part(s, I) \in Seq(T)
        BY <1>2, PartType
      <3>2. /\ Part(Append(s, ev), I) = Part(s, I)
            /\ Part(Append(s, ev), I \cup {Len(s) + 1}) = Append(Part(s, I), ev)
        BY <1>2, PartAppend
      <3>3. QED
        BY <1>1, <3>1, <3>2
    <2>2. QED
      BY <1>1, <1>4, <1>5, <2>1

LEMMA ReactPartOfNone == ReactPart(<<>>) = <<>>
  <1>1. {i \in DOMAIN <<>> : <<>>[i].type \in ReactTypes} = 1..0 /\ <<>> \in Seq({0}) /\ 0 \in 0..Len(<<>>)
    OBVIOUS
  <1>2. Part(<<>>, 1..0) = [k \in 1..0 |-> <<>>[k]]
    BY <1>1, FirstPart
  <1>3. QED
    BY <1>1, <1>2 DEF ReactPart

(* All of what the investigation reports is of the investigation.          *)
LEMMA ReactPartOfEvents ==
  ASSUME NEW s \in Seq(ReactEvent)
  PROVE  ReactPart(s) = s
  <1>1. PICK n \in Nat : n = Len(s)
    OBVIOUS
  <1>2. /\ n \in 0..Len(s) /\ DOMAIN s = 1..n /\ s = [k \in 1..n |-> s[k]]
        /\ \A i \in 1..n : s[i] \in ReactEvent
    BY <1>1
  <1>3. \A ev \in ReactEvent : ev.type \in ReactTypes
    BY DEF ReactEvent
  <1>4. {i \in DOMAIN s : s[i].type \in ReactTypes} = 1..n
    BY <1>2, <1>3
  <1>5. Part(s, 1..n) = [k \in 1..n |-> s[k]]
    BY <1>2, FirstPart
  <1>6. QED
    BY <1>2, <1>4, <1>5 DEF ReactPart

(* The queue holds the events that wait and, once it is closed, a sentinel *)
(* behind them.                                                            *)
Holds(q, waiting) == q = waiting \/ q = Append(waiting, Sentinel)

LEMMA ReactPartOfQueue ==
  ASSUME NEW waiting \in Seq(ReactEvent), NEW q, Holds(q, waiting)
  PROVE  ReactPart(q) = waiting
  <1>1. ReactPart(waiting) = waiting
    BY ReactPartOfEvents
  <1>2. CASE q = Append(waiting, Sentinel)
    <2> DEFINE T == ReactEvent \cup {Sentinel}
    <2>1. waiting \in Seq(T) /\ Sentinel \in T /\ Sentinel.type \notin ReactTypes
      BY DEF Sentinel, Event, ReactTypes
    <2> HIDE DEF T
    <2>2. ReactPart(Append(waiting, Sentinel)) = ReactPart(waiting)
      BY <2>1, ReactPartGrows
    <2>3. QED
      BY <1>1, <1>2, <2>2
  <1>3. QED
    BY <1>1, <1>2 DEF Holds

(* Taking the first of a queue.                                            *)
LEMMA QueueShrinks ==
  ASSUME NEW waiting \in Seq(ReactEvent), NEW q, Holds(q, waiting), q # <<>>
  PROVE  \/ /\ waiting = <<>> /\ Head(q) = Sentinel /\ Tail(q) = <<>>
         \/ /\ waiting # <<>> /\ Head(q) = Head(waiting) /\ Head(q) # Sentinel
            /\ Holds(Tail(q), Tail(waiting))
  <1>1. \A ev \in ReactEvent : ev # Sentinel
    BY DEF ReactEvent, Sentinel, Event, ReactTypes
  <1>2. CASE waiting = <<>>
    <2>1. q = <<Sentinel>>
      <3>1. Append(<<>>, Sentinel) = <<Sentinel>>
        OBVIOUS
      <3>2. QED
        BY <1>2, <3>1 DEF Holds
    <2>2. QED
      BY <1>2, <2>1
  <1>3. CASE waiting # <<>>
    <2>1. Head(waiting) \in ReactEvent
      BY <1>3
    <2>2. /\ Head(Append(waiting, Sentinel)) = Head(waiting)
          /\ Tail(Append(waiting, Sentinel)) = Append(Tail(waiting), Sentinel)
      BY <1>3, AppendFirst
    <2>3. QED
      BY <1>1, <1>3, <2>1, <2>2 DEF Holds
  <1>4. QED
    BY <1>2, <1>3

(* What waits in the queue is what has been reported and not sent.  There  *)
(* is nothing before the worker is started, no sentinel before it has      *)
(* ended, and nothing again once the sentinel has been taken.              *)
AfterDrain == {"collect", "bind_claims", "report", "finish", "done"}

WaitingIs(waiting) ==
  /\ Holds(queue, waiting)
  /\ worker # "ended" => queue = waiting
  /\ ReactPart(delivered) \o waiting = emitted

EventsInv ==
  entry = "web" =>
    /\ stage = "accept" => delivered = <<>>
    /\ worker = "none" => queue = <<>>
    /\ stage \in AfterDrain => queue = <<>> /\ worker \in {"none", "ended"}
    /\ \E waiting \in Seq(ReactEvent) : WaitingIs(waiting)

LEMMA InitEventsInv == Init => EventsInv
  <1> SUFFICES ASSUME Init, entry = "web" PROVE EventsInv
    BY DEF EventsInv
  <1>1. <<>> \in Seq(ReactEvent) /\ <<>> \o <<>> = <<>>
    OBVIOUS
  <1>2. delivered = <<>> /\ queue = <<>> /\ emitted = <<>> /\ stage = "accept" /\ worker = "none"
    BY DEF Init
  <1>3. WaitingIs(<<>>)
    BY <1>1, <1>2, ReactPartOfNone DEF WaitingIs, Holds
  <1>4. QED
    BY <1>1, <1>2, <1>3 DEF EventsInv, AfterDrain

(* The events of the nodes are no events of the investigation.             *)
LEMMA NodesReportNothing ==
  ASSUME TypeInv, [Next]_vars, ~ Drain, stage = "accept" => delivered = <<>>
  PROVE  ReactPart(delivered') = ReactPart(delivered)
  <1> DEFINE Sent == [type : NodeTypes] \cup ReactEvent
  <1>1. delivered \in Seq(Sent) /\ <<>> \in Seq(Sent)
    BY DEF TypeInv
  <1>2. \A ev \in [type : NodeTypes] : ev \in Sent /\ ev.type \notin ReactTypes
    BY DEF NodeTypes, ReactTypes
  <1>3. Event("error") \in [type : NodeTypes]
    BY DEF Event, NodeTypes
  <1> HIDE DEF Sent
  <1>4. ASSUME NEW s \in Seq(Sent), NEW ev \in [type : NodeTypes]
        PROVE  ReactPart(Append(s, ev)) = ReactPart(s)
    BY <1>2, ReactPartGrows
  <1>5. CASE \E ev \in [type : NodeTypes] : delivered' = Append(delivered, ev)
    <2>1. PICK ev \in [type : NodeTypes] : delivered' = Append(delivered, ev)
      BY <1>5
    <2>2. ReactPart(Append(delivered, ev)) = ReactPart(delivered)
      BY <1>1, <1>4
    <2>3. QED
      BY <2>1, <2>2
  <1>6. CASE Accept /\ delivered' = <<Event("error")>>
    <2>1. delivered = <<>> /\ delivered' = Append(<<>>, Event("error"))
      BY <1>6 DEF Accept
    <2>2. ReactPart(Append(<<>>, Event("error"))) = ReactPart(<<>>)
      BY <1>1, <1>3, <1>4
    <2>3. QED
      BY <2>1, <2>2
  <1>7. CASE delivered' = delivered
    BY <1>7
  <1>8. QED
    BY <1>5, <1>6, <1>7, Deliveries

(* Sending the first of what waits.                                        *)
LEMMA SentIsTaken ==
  ASSUME TypeInv, NEW waiting \in Seq(ReactEvent), waiting # <<>>,
         delivered' = Append(delivered, Head(waiting))
  PROVE  ReactPart(delivered') \o Tail(waiting) = ReactPart(delivered) \o waiting
  <1> DEFINE Sent == [type : NodeTypes] \cup ReactEvent
  <1>1. delivered \in Seq(Sent) /\ waiting \in Seq(Sent) /\ Head(waiting) \in Sent
        /\ Head(waiting).type \in ReactTypes
    <2>1. Head(waiting) \in ReactEvent
      BY Taken
    <2>2. Head(waiting).type \in ReactTypes
      BY <2>1 DEF ReactEvent
    <2>3. QED
      BY <2>1, <2>2 DEF TypeInv
  <1> HIDE DEF Sent
  <1>2. PICK A, h, B : A = ReactPart(delivered) /\ h = Head(waiting) /\ B = Tail(waiting)
    OBVIOUS
  <1>3. /\ A \in Seq(Sent) /\ ReactPart(delivered') = Append(A, h)
    <2>1. ReactPart(Append(delivered, h)) = Append(ReactPart(delivered), h)
          /\ ReactPart(delivered) \in Seq(Sent)
      BY <1>1, <1>2, ReactPartGrows
    <2>2. QED
      BY <1>2, <2>1
  <1>4. /\ h \in Sent /\ B \in Seq(Sent) /\ Len(waiting) = Len(B) + 1 /\ waiting[1] = h
        /\ \A i \in 1..Len(B) : waiting[i + 1] = B[i]
    BY <1>1, <1>2
  <1>5. Append(A, h) \o B = A \o waiting
    BY <1>1, <1>3, <1>4, TakenIsSent
  <1>6. QED
    BY <1>2, <1>3, <1>5

LEMMA NextEventsInv == TypeInv /\ OutcomeInv /\ EventsInv /\ [Next]_vars => EventsInv'
  <1> SUFFICES ASSUME TypeInv, OutcomeInv, EventsInv, [Next]_vars, entry' = "web" PROVE EventsInv'
    BY DEF EventsInv
  <1>1. entry = "web"
    BY DEF Next, Generator, Accept, ParseInput, ExtractEvents, DetectSignals, Classify, Retrieve,
         Prepare, StartWorker, Drain, ReturnInline, Collect, BindClaims, RenderReport, Finish,
         WriteDmesgEvent, NodeRaises, Advance, Quiet, Worker, WorkerStep, WorkerToolCall,
         WorkerTerminate, WorkerOutcome, WorkerSentinel, ClientLeaves, vars
  <1>2. /\ stage = "accept" => delivered = <<>>
        /\ worker = "none" => queue = <<>>
        /\ stage \in AfterDrain => queue = <<>> /\ worker \in {"none", "ended"}
    BY <1>1 DEF EventsInv
  <1>3. PICK waiting \in Seq(ReactEvent) : WaitingIs(waiting)
    BY <1>1 DEF EventsInv
  <1>4. ReactPart(delivered) \in Seq([type : NodeTypes] \cup ReactEvent)
    <2>1. delivered \in Seq([type : NodeTypes] \cup ReactEvent)
      BY DEF TypeInv
    <2>2. Event("error") \in [type : NodeTypes] \cup ReactEvent
      BY DEF Event, NodeTypes
    <2>3. QED
      BY <2>1, <2>2, ReactPartGrows
  <1>5. CASE Drain
    <2>1. /\ queue # <<>> /\ queue' = Tail(queue) /\ stage = "drain"
          /\ UNCHANGED <<worker, emitted>>
          /\ \/ Head(queue) = Sentinel /\ stage' = "collect" /\ delivered' = delivered
             \/ Head(queue) # Sentinel /\ stage' = "drain" /\ delivered' = Append(delivered, Head(queue))
      BY <1>5 DEF Drain
    <2>2. /\ Holds(queue, waiting) /\ (worker # "ended" => queue = waiting)
          /\ ReactPart(delivered) \o waiting = emitted
      BY <1>3 DEF WaitingIs
    <2>3. \/ /\ waiting = <<>> /\ Head(queue) = Sentinel /\ Tail(queue) = <<>>
          \/ /\ waiting # <<>> /\ Head(queue) = Head(waiting) /\ Head(queue) # Sentinel
             /\ Holds(Tail(queue), Tail(waiting))
      BY <2>1, <2>2, QueueShrinks
    <2>4. CASE waiting = <<>> /\ Head(queue) = Sentinel /\ Tail(queue) = <<>>
      <3>1. worker = "ended" /\ stage' = "collect" /\ queue' = <<>>
        BY <2>1, <2>2, <2>4
      <3>2. WaitingIs(<<>>)'
        BY <2>1, <2>2, <2>4, <3>1 DEF WaitingIs, Holds
      <3>3. \E w \in Seq(ReactEvent) : WaitingIs(w)'
        <4>1. <<>> \in Seq(ReactEvent)
          OBVIOUS
        <4>2. QED
          BY <3>2, <4>1
      <3>4. QED
        BY <2>1, <3>1, <3>3 DEF EventsInv, AfterDrain
    <2>5. CASE /\ waiting # <<>> /\ Head(queue) = Head(waiting) /\ Head(queue) # Sentinel
               /\ Holds(Tail(queue), Tail(waiting))
      <3>1. ReactPart(delivered') \o Tail(waiting) = ReactPart(delivered) \o waiting
        BY <2>1, <2>5, SentIsTaken
      <3>2. PICK rest \in Seq(ReactEvent) : rest = Tail(waiting)
        BY <2>5, Taken
      <3>3. WaitingIs(rest)'
        BY <2>1, <2>2, <2>5, <3>1, <3>2 DEF WaitingIs
      <3>4. worker # "none" /\ stage' = "drain"
        BY <1>2, <2>1, <2>5
      <3>5. QED
        BY <2>1, <3>3, <3>4 DEF EventsInv, AfterDrain
    <2>6. QED
      BY <2>3, <2>4, <2>5
  <1>6. CASE ~ Drain
    <2>1. ReactPart(delivered') = ReactPart(delivered)
      BY <1>2, <1>6, NodesReportNothing
    <2>2. ASSUME UNCHANGED <<queue, emitted>>, worker = "ended" => worker' = "ended"
          PROVE  \E w \in Seq(ReactEvent) : WaitingIs(w)'
      <3>1. WaitingIs(waiting)'
        BY <1>3, <2>1, <2>2 DEF WaitingIs
      <3>2. QED
        BY <3>1
    <2>3. OutcomeInv /\ worker \in {"none", "running", "returned", "ended"}
      BY DEF TypeInv
    <2>4. CASE Generator \/ ClientLeaves \/ UNCHANGED vars
      <3>1. /\ UNCHANGED <<queue, emitted>>
            /\ \/ worker' = worker
               \/ stage = "prepare" /\ worker' = "none" /\ stage' = "start_worker"
               \/ stage = "start_worker" /\ worker' = "running" /\ stage' = "drain"
            /\ \/ stage' = stage
               \/ stage \in AfterDrain
               \/ stage' \notin AfterDrain
               \/ stage' = "finish" /\ stage \in {"parse_input", "extract_events", "retrieve", "prepare"}
            /\ stage' = "accept" => stage = "accept" /\ delivered' = delivered
        BY <1>1, <1>6, <2>4 DEF Generator, Accept, ParseInput, ExtractEvents, DetectSignals, Classify, Retrieve,
         Prepare, StartWorker, ReturnInline, Collect, BindClaims, RenderReport, Finish,
         WriteDmesgEvent, NodeRaises, Advance, workerVars, ClientLeaves, Ended, vars, AfterDrain
      <3>2. stage \in {"parse_input", "extract_events", "retrieve", "prepare", "start_worker"} => worker = "none"
        BY DEF OutcomeInv
      <3>3. \E w \in Seq(ReactEvent) : WaitingIs(w)'
        BY <2>2, <3>1, <3>2
      <3>4. /\ stage' = "accept" => delivered' = <<>>
            /\ worker' = "none" => queue' = <<>>
            /\ stage' \in AfterDrain => queue' = <<>> /\ worker' \in {"none", "ended"}
        BY <1>2, <3>1, <3>2 DEF AfterDrain
      <3>5. QED
        BY <3>3, <3>4 DEF EventsInv
    <2>5. CASE Worker
      <3>1. /\ delivered' = delivered /\ stage' = stage /\ worker \notin {"none", "ended"}
            /\ worker' \in {"running", "returned", "ended"}
            /\ \/ UNCHANGED <<queue, emitted>>
               \/ worker' = "ended" /\ queue' = Append(queue, Sentinel) /\ emitted' = emitted
               \/ \E type \in ReactTypes, n \in Nat : Report(StepEvent(type, n))
        <4>1. round \in Nat
          BY DEF TypeInv
        <4>2. CASE WorkerStep \/ WorkerToolCall \/ WorkerTerminate
          <5>1. /\ delivered' = delivered /\ stage' = stage /\ worker = "running" /\ worker' = "running"
                /\ round' \in Nat
                /\ \E type \in ReactTypes : Report(StepEvent(type, round')) \/ Report(StepEvent(type, round))
            BY <4>1, <4>2 DEF WorkerStep, WorkerToolCall, WorkerTerminate, Loop!ReportStep, Loop!Announce,
                 investigation, ReactTypes
          <5>2. QED
            BY <4>1, <5>1
        <4>3. CASE WorkerOutcome \/ WorkerSentinel
          BY <1>1, <4>3 DEF WorkerOutcome, WorkerSentinel
        <4>4. QED
          BY <2>5, <4>2, <4>3 DEF Worker
      <3>2. stage \notin AfterDrain
        BY <1>2, <3>1
      <3>3. queue = waiting /\ Holds(queue, waiting) /\ ReactPart(delivered) \o waiting = emitted
        BY <1>3, <3>1 DEF WaitingIs
      <3>4. CASE UNCHANGED <<queue, emitted>>
        BY <1>2, <2>2, <3>1, <3>2, <3>4 DEF EventsInv
      <3>5. CASE worker' = "ended" /\ queue' = Append(queue, Sentinel) /\ emitted' = emitted
        <4>1. WaitingIs(waiting)'
          BY <2>1, <3>3, <3>5 DEF WaitingIs, Holds
        <4>2. QED
          BY <1>2, <3>1, <3>2, <3>5, <4>1 DEF EventsInv
      <3>6. CASE \E type \in ReactTypes, n \in Nat : Report(StepEvent(type, n))
        <4>1. PICK ev \in ReactEvent : Report(ev)
          BY <3>6 DEF StepEvent, ReactEvent
        <4>2. PICK more \in Seq(ReactEvent) : more = Append(waiting, ev)
          <5>1. Append(waiting, ev) \in Seq(ReactEvent)
            BY Appended
          <5>2. QED
            BY <5>1
        <4>3. emitted' = Append(emitted, ev) /\ queue' = more
          BY <1>1, <3>3, <4>1, <4>2 DEF Report
        <4>4. ReactPart(delivered) \o Append(waiting, ev) = Append(ReactPart(delivered) \o waiting, ev)
          <5>1. waiting \in Seq([type : NodeTypes] \cup ReactEvent) /\ ev \in [type : NodeTypes] \cup ReactEvent
            OBVIOUS
          <5>2. QED
            BY <1>4, <5>1, AppendToSecond
        <4>5. WaitingIs(more)'
          BY <2>1, <3>3, <4>2, <4>3, <4>4 DEF WaitingIs, Holds
        <4>6. QED
          BY <1>2, <3>1, <3>2, <4>5 DEF EventsInv
      <3>7. QED
        BY <3>1, <3>4, <3>5, <3>6
    <2>6. QED
      BY <2>4, <2>5 DEF Next
  <1>7. QED
    BY <1>5, <1>6

LEMMA EventsInvLosesNone == TypeInv /\ EventsInv => NoReactEventLost
  <1> SUFFICES ASSUME TypeInv, EventsInv, entry = "web"
               PROVE  /\ ReactPart(delivered) \o ReactPart(queue) = emitted
                      /\ stage \in AfterDrain => ReactPart(delivered) = emitted
    BY DEF NoReactEventLost, AfterDrain
  <1>1. PICK waiting \in Seq(ReactEvent) : WaitingIs(waiting)
    BY DEF EventsInv
  <1>2. Holds(queue, waiting) /\ ReactPart(delivered) \o waiting = emitted
    BY <1>1 DEF WaitingIs
  <1>3. ReactPart(queue) = waiting
    BY <1>2, ReactPartOfQueue
  <1>4. stage \in AfterDrain => waiting = <<>>
    BY <1>3, ReactPartOfNone DEF EventsInv
  <1>5. ReactPart(delivered) \o <<>> = ReactPart(delivered)
    <2>1. /\ delivered \in Seq([type : NodeTypes] \cup ReactEvent)
          /\ Event("error") \in [type : NodeTypes] \cup ReactEvent
      BY DEF TypeInv, Event, NodeTypes
    <2>2. ReactPart(delivered) \in Seq([type : NodeTypes] \cup ReactEvent)
      BY <2>1, ReactPartGrows
    <2>3. QED
      BY <2>1, <2>2, AppendToSecond
  <1>6. QED
    BY <1>2, <1>3, <1>4, <1>5

(* However the worker, the generator and the client interleave, the client *)
(* is sent what the investigation reported, in order, each event once, and *)
(* a stream that has gone past the investigation has sent all of it.       *)
THEOREM NothingIsLost == Spec => []NoReactEventLost
  <1>1. Spec => [](TypeInv /\ OutcomeInv /\ EventsInv)
    BY InitTypeInv, NextTypeInv, InitOutcomeInv, NextOutcomeInv, InitEventsInv, NextEventsInv, PTL DEF Spec
  <1>2. QED
    BY <1>1, EventsInvLosesNone, PTL
=============================================================================

------------------------------ MODULE Evidence ------------------------------
(* One diagnosis, followed along its evidence: the question is parsed, the     *)
(* seven routes answer, linked commits are injected, the pool is ranked, the   *)
(* investigation calls tools whose text is searched for hashes, what it found  *)
(* joins the pool, the claims of the answer are bound to it, and the report is *)
(* written (retrieval/engine.py, agent/triage/nodes.py, agent/react/nodes.py,  *)
(* agent/diagnosis/nodes.py, agent/report/renderer.py).                        *)
(* The loop that decides on the calls is ReactLoop.                            *)
EXTENDS ReactTools, Claims

CONSTANTS Worlds,      \* databases, machines and questions to start from
          MaxCalls,    \* tool calls of the investigation
          MaxClaims,   \* claims of the final answer
          MaxFaults    \* routes, statements and services that fail

ASSUME EvidenceAssumption == {MaxCalls, MaxClaims, MaxFaults} \subseteq Nat

(* The ids of commits, bugs, CVEs and messages are of different forms: digits  *)
(* of a hash, a row's number, CVE-..., and one with an @ (lore_search.py:74).  *)
(* Every entry of lore's answer is a message of its own.                       *)
LoreIds(db) == {db.lore[i].id : i \in DOMAIN db.lore}

IdTables(db) == <<DOMAIN db.commit, DOMAIN db.bug, DOMAIN db.cve, DOMAIN db.mail \cup LoreIds(db)>>

ASSUME WorldAssumption == \A w \in Worlds :
  /\ IsFiniteSet(DOMAIN w.db.commit) /\ \A c \in DOMAIN w.db.commit : w.db.commit[c].date \in Nat
  /\ \A i, j \in 1..4 : i # j => IdTables(w.db)[i] \cap IdTables(w.db)[j] = {}
  /\ Len(w.db.lore) \in Nat /\ DOMAIN w.db.lore = 1..Len(w.db.lore)
  /\ \A i, j \in DOMAIN w.db.lore : w.db.lore[i].id = w.db.lore[j].id => i = j
  /\ \A text \in w.claims : IsFiniteSet(text)
  /\ w.strays \subseteq DOMAIN Registry

VARIABLES world,      \* what there is: db, host, question, args, ...
          phase,
          query,      \* the parsed question
          pending,    \* routes that have not answered
          down,       \* services that cannot be reached
          faults,
          pool,       \* state["evidence"]
          source,     \* injection queries done
          calls,
          answer,     \* the last tool's answer
          harvested,  \* commits whose hash a tool's text showed
          verdict,
          claims,
          report

vars == <<world, phase, query, pending, down, faults, pool, source, calls, answer,
          harvested, verdict, claims, report>>

(* parse, recall, inject, rank, react, merge, bind, render, done *)
Enter(next) == phase' = next

Fault == faults < MaxFaults /\ faults' = faults + 1

NoReport == [label |-> "none", verified |-> 0, pool |-> 0, lines |-> <<>>]

Init ==
  /\ world \in Worlds
  /\ phase = "parse"
  /\ query = RegexParse(world.question)
  /\ pending = Routes
  /\ down = {} /\ faults = 0
  /\ pool = {} /\ source = 0
  /\ calls = 0 /\ answer = NoAnswer /\ harvested = {}
  /\ verdict = "none" /\ claims = <<>> /\ report = NoReport

Retrieval  == <<query, pending, down, pool, source>>
Inquiry    == <<calls, answer, harvested>>
Conclusion == <<verdict, claims, report>>

------------------------------------------------------------------------------
(* parse_query by the model, or by patterns when the model fails or answers    *)
(* with something else; the version found in the logs replaces the parsed one. *)
ParseQuery ==
  /\ phase = "parse"
  /\ \E parsed \in {RegexParse(world.question)} \cup world.parses :
       query' = [parsed EXCEPT !.version = IF world.tag = None THEN @ ELSE world.tag]
  /\ \/ down' = {} /\ UNCHANGED faults
     \/ \E service \in {"codegraph", "lore"} : Fault /\ down' = {service}
  /\ Enter("recall")
  /\ UNCHANGED <<world, pending, pool, source, Inquiry, Conclusion>>

(* as_completed: the routes answer in any order. *)
RouteAnswers(route) ==
  /\ phase = "recall"
  /\ route \in pending
  /\ \E rows \in RecallBy(world.db, query, route, down) : pool' = pool \cup rows
  /\ pending' = pending \ {route}
  /\ Enter(IF pending = {route} THEN "inject" ELSE "recall")
  /\ UNCHANGED <<world, query, down, faults, source, Inquiry, Conclusion>>

(* A failing route is logged and leaves what it has. *)
RouteFails(route) ==
  /\ phase = "recall"
  /\ route \in pending
  /\ Fault
  /\ \E rows \in RecallBroken(world.db, query, route, down) : pool' = pool \cup rows
  /\ pending' = pending \ {route}
  /\ Enter(IF pending = {route} THEN "inject" ELSE "recall")
  /\ UNCHANGED <<world, query, down, source, Inquiry, Conclusion>>

(* One injection query; the hits it follows are those of the routes. *)
Inject ==
  /\ phase = "inject"
  /\ source < Len(InjectSources)
  /\ LET from == InjectSources[source + 1]
     IN \E top \in TopByScore(pool, InjectRoute(from)) :
          \E cands \in Candidates(world.db, from, top) :
            \E rows \in InjectRows(world.db, from, pool, cands) : pool' = pool \cup rows
  /\ source' = source + 1
  /\ UNCHANGED <<world, phase, query, pending, down, faults, Inquiry, Conclusion>>

(* A failing query ends the injection; what was injected before it stays. *)
InjectEnds ==
  /\ phase = "inject"
  /\ IF source = Len(InjectSources) THEN UNCHANGED faults ELSE Fault
  /\ Enter("rank")
  /\ UNCHANGED <<world, Retrieval, Inquiry, Conclusion>>

(* Reranked by the model, or the best by score when that fails. *)
RankPool ==
  /\ phase = "rank"
  /\ \/ Cardinality(pool) <= 1 /\ UNCHANGED <<pool, faults>>
     \/ Cardinality(pool) > 1 /\ pool' \in LlmRerank(pool) /\ UNCHANGED faults
     \/ Cardinality(pool) > 1 /\ Fault /\ pool' \in TopRanked(pool, RerankTopK)
  /\ Enter("react")
  /\ UNCHANGED <<world, query, pending, down, source, Inquiry, Conclusion>>

------------------------------------------------------------------------------
(* A tool answers; the hashes in its text are kept. *)
CallTool(tool) ==
  /\ phase = "react"
  /\ calls < MaxCalls
  /\ \E a \in AnswersTo(world.db, world.host, tool, world.args) :
       answer' = a /\ harvested' = harvested \cup a.shas
  /\ calls' = calls + 1
  /\ UNCHANGED <<world, phase, Retrieval, faults, Conclusion>>

(* The tool's service is gone. *)
CallWithout(tool) ==
  /\ phase = "react"
  /\ calls < MaxCalls
  /\ tool \notin HostToolNames
  /\ Fault
  /\ \E a \in AnswersWithout(world.db, tool, world.args) :
       answer' = a /\ harvested' = harvested \cup a.shas
  /\ calls' = calls + 1
  /\ UNCHANGED <<world, phase, Retrieval, Conclusion>>

(* dispatch raises: no such tool, or a required argument is missing. *)
CallRaises ==
  /\ phase = "react"
  /\ calls < MaxCalls
  /\ \E tool \in DOMAIN Registry \cup {"no such tool"} :
       /\ tool \in DOMAIN Registry => Registry[tool].required # {}
       /\ answer' = Answer(tool, None, "raised", {})
  /\ calls' = calls + 1
  /\ UNCHANGED <<world, phase, Retrieval, faults, harvested, Conclusion>>

FinishReact ==
  /\ phase = "react"
  /\ verdict' \in {"diagnosed", "insufficient_evidence"}
  /\ answer' = NoAnswer
  /\ Enter("merge")
  /\ UNCHANGED <<world, Retrieval, faults, calls, harvested, claims, report>>

(* Mutant of ReactRows: what the text showed is taken whatever it is. *)
ReactRowsUnfiltered(db, found, rows) ==
  {Row("commit", c, CommitWords(db, c), 57, 0, "react") :
     c \in (found \cap DOMAIN db.commit) \ Present(rows)}

(* The rows of the harvested commits that the pool lacks. *)
ReactRows(db, found, rows) ==
  {Row("commit", c, CommitWords(db, c), 57, 0, "react") :
     c \in (found \cap Real(db)) \ Present(rows)}

MergeReactEvidence ==
  /\ phase = "merge"
  /\ \/ pool' = pool \cup ReactRows(world.db, harvested, pool) /\ UNCHANGED faults
     \/ Fault /\ UNCHANGED pool
  /\ Enter("bind")
  /\ UNCHANGED <<world, query, pending, down, source, Inquiry, Conclusion>>

------------------------------------------------------------------------------
(* The model takes one more claim out of the answer.  It is told to cite the   *)
(* pool but may cite anything.                                                 *)
Bind ==
  /\ phase = "bind"
  /\ verdict = "diagnosed"
  /\ Len(claims) < MaxClaims
  /\ \E text \in world.claims :
       \E refs \in {{}} \cup {{r} : r \in UNION {RefsTo(x) : x \in pool} \cup world.refs} :
         \E c \in BindClaim(text, refs, pool) : claims' = Append(claims, c)
  /\ UNCHANGED <<world, phase, Retrieval, faults, Inquiry, verdict, report>>

EndBinding ==
  /\ phase = "bind"
  /\ Enter("render")
  /\ UNCHANGED <<world, Retrieval, faults, Inquiry, Conclusion>>

GenerateReport ==
  /\ phase = "render"
  /\ report' \in RenderMd(verdict, claims, pool)
  /\ Enter("done")
  /\ UNCHANGED <<world, Retrieval, faults, Inquiry, verdict, claims>>

Next ==
  \/ ParseQuery
  \/ \E route \in Routes : RouteAnswers(route) \/ RouteFails(route)
  \/ Inject \/ InjectEnds
  \/ RankPool
  \/ \E tool \in Offered(world.route) \cup world.strays : CallTool(tool) \/ CallWithout(tool)
  \/ CallRaises
  \/ FinishReact
  \/ MergeReactEvidence
  \/ Bind \/ EndBinding
  \/ GenerateReport

Spec == Init /\ [][Next]_vars

------------------------------------------------------------------------------
(* A commit in the pool is a commit of the table and no stub, and it is there   *)
(* once -- recalled, injected by any of the five queries, or harvested from any *)
(* tool's text, echoes of what the model asked included ("downstream tools and  *)
(* prompts never see them", engine.py:150).                                    *)
EvidenceIsSound ==
  \A r \in pool : r.route = "commit" =>
    /\ r.id \in Real(world.db)
    /\ \A s \in pool : (s.route = "commit" /\ s.id = r.id) => s = r

(* A claim the report marks as verified is shown with a row that supports it,   *)
(* the report calls itself grounded only when half of all claims, shown or not, *)
(* are supported by rows of the pool, and its JSON form says the same.          *)
ReportShowsSupport ==
  phase = "done" =>
    /\ \A i \in DOMAIN report.lines : report.lines[i].mark = "verified" =>
         \E r \in report.lines[i].shown : r \in pool /\ Overlap(claims[i].text, r) >= Threshold
    /\ report.label = "grounded" =>
         LET supported == {i \in DOMAIN claims :
                             \E r \in pool : /\ CarriesId(r)
                                             /\ Overlap(claims[i].text, r) >= Threshold}
         IN claims # <<>> /\ 2 * Cardinality(supported) >= Len(claims)
    /\ LET json == RenderJson(verdict, claims, pool)
       IN IF verdict = "diagnosed"
          THEN json.groundedness = report.label /\ json.verified = report.verified
          ELSE json.reason = report.label

(* While nothing fails, what a tool says of a commit is true of the table: no   *)
(* backport when there is none and a backport of that commit in that version    *)
(* otherwise; no known regression only when no commit fixes or reverts it; and  *)
(* no commit touching a symbol only when none recent does.                      *)
AnswersAreTrue ==
  /\ answer.tool = "check_backport_status" /\ answer.says # "error" /\ answer.says # "raised" =>
       LET is == BackportsOf(world.db, answer.arg[1], answer.arg[2])
       IN IF answer.says = "BACKPORTED" THEN is \cap answer.shas # {} ELSE is = {}
  /\ answer.tool = "get_regression_fixes" /\ answer.says = "No known regression" /\ faults = 0 =>
       \A c \in DOMAIN world.db.commit :
         /\ answer.arg \in DOMAIN world.db.commit => answer.arg \notin world.db.commit[c].fixes
         /\ <<c, answer.arg>> \notin world.db.reverts
  /\ answer.tool = "find_commits_touching_symbol" /\ answer.says = "none" =>
       \A c \in Real(world.db) :
         answer.arg \in world.db.commit[c].touches => world.db.commit[c].date < Recent
==============================================================================

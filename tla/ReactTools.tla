----------------------------- MODULE ReactTools -----------------------------
(* The tools the investigation may call (agent/react/tools), answered from    *)
(* the database, the code index and the machine.  An answer is what the tool   *)
(* says and the commit hashes its text shows, which is all the loop keeps of   *)
(* it beside the conversation.                                                *)
EXTENDS Recall, HostTools

CONSTANTS ToolLimit,    \* rows a query tool lists at most
          OwnerLimit,   \* MAINTAINERS patterns read
          Recent        \* oldest commit date of "since_months"

ASSUME ToolAssumption == ToolLimit \in Nat \ {0} /\ {OwnerLimit, Recent} \subseteq Nat

(* routes: where the model is offered the tool; required: what it must pass.  *)
Tool(routes, required) == [routes |-> routes, required |-> required]

Kernel     == {"kernel", "kernel+vmcore", "unknown"}
WithChange == Kernel \cup {"change"}
AllRoutes  == WithChange \cup {"hardware"}

RetrievalTools ==
  [search_commits |-> Tool(AllRoutes, {"keywords"}),
   search_lkml    |-> Tool(WithChange, {"keywords"}),
   search_bugs    |-> Tool(WithChange, {"keywords"}),
   search_syzbot  |-> Tool(Kernel, {"keywords"}),
   search_cve     |-> Tool(Kernel \cup {"hardware"}, {}),
   search_code    |-> Tool(Kernel, {"query"}),
   lookup_symbol  |-> Tool(Kernel, {"name"})]

CommitTools ==
  [get_commit_detail     |-> Tool(WithChange, {"commit_hash"}),
   get_commit_diff       |-> Tool(WithChange, {"commit_hash"}),
   check_backport_status |-> Tool(Kernel, {"upstream_sha", "olk_version"}),
   get_regression_fixes  |-> Tool(Kernel, {"commit_hash"})]

SymbolTools ==
  [get_function_source   |-> Tool(Kernel, {"func_name"}),
   get_call_graph        |-> Tool(Kernel, {"func_name"}),
   get_device_major_mapping     |-> Tool(AllRoutes, {"major"}),
   expand_query_from_symbol     |-> Tool(Kernel, {"symbol"}),
   browse_subsystem_fixes       |-> Tool(Kernel, {"subsystem_prefixes"}),
   find_commits_touching_symbol |-> Tool(Kernel, {"symbol"})]

LineageTools ==
  [get_patch_series           |-> Tool(Kernel, {"message_id"}),
   lookup_subsystem_owner     |-> Tool(Kernel, {"file_path"}),
   find_syzbot_fixed_by_commit |-> Tool(Kernel, {"commit_hash"}),
   find_similar_crashes       |-> Tool(Kernel, {"trace_text"})]

HardwareTools ==
  [get_mce_log            |-> Tool({"hardware"}, {}),
   get_edac_errors        |-> Tool({"hardware"}, {}),
   get_ipmi_sel           |-> Tool({"hardware"}, {}),
   get_hardware_inventory |-> Tool({"hardware"}, {}),
   parse_taint_flags      |-> Tool(AllRoutes, {"taint_value"})]

VmcoreTools ==
  [fetch_debuginfo   |-> Tool({"kernel+vmcore"}, {}),
   decode_stacktrace |-> Tool(Kernel, {"raw_trace"}),
   analyze_vmcore    |-> Tool({"kernel+vmcore"}, {"vmcore_path", "query"})]

LogTools ==
  [parse_dmesg        |-> Tool(AllRoutes, {"text"}),
   parse_sosreport    |-> Tool(AllRoutes, {"path"}),
   extract_call_trace |-> Tool(AllRoutes, {"text"})]

HostToolNames == DOMAIN HardwareTools \cup DOMAIN VmcoreTools \cup DOMAIN LogTools

Catalogs == {RetrievalTools, CommitTools, SymbolTools, LineageTools, HardwareTools, VmcoreTools,
             LogTools}

(* Every tool of every catalog, by its name. *)
Registry == [t \in UNION {DOMAIN C : C \in Catalogs} |-> (CHOOSE C \in Catalogs : t \in DOMAIN C)[t]]

(* The tools whose schemas go to the model; dispatch by name runs any other too. *)
Offered(route) == {t \in DOMAIN Registry : route \in Registry[t].routes}

------------------------------------------------------------------------------
Answer(tool, arg, says, shas) ==
  [tool |-> tool, arg |-> arg, says |-> says, shas |-> shas]

NoAnswer == Answer("none", None, "nothing", {})

(* A commit as the model names it: full is FALSE for an abbreviation shorter    *)
(* than the twelve digits the loop's pattern takes for a hash.                 *)
Shown(sha) == IF sha.full THEN {sha.commit} ELSE {}

(* hash LIKE prefix *)
InTable(db, sha) == sha.commit \in DOMAIN db.commit

(* The hashes in a row of search results: its own and those of its text. *)
RowShas(db, row) ==
  CASE row.route = "commit" -> {row.id} \cup db.commit[row.id].fixes
    [] row.route = "lkml" /\ row.id \in DOMAIN db.mail -> db.mail[row.id].cites
    [] row.route = "bug" -> db.bug[row.id].cites
    [] row.route = "cve" -> db.cve[row.id].cites
    [] OTHER -> {}

Listed(db, tool, rows) ==
  Answer(tool, None, IF rows = {} THEN "none" ELSE "results",
         UNION {RowShas(db, r) : r \in rows})

(* The five full-text searches run a recall route; a failing one says so only  *)
(* where the route raises.                                                    *)
Search(db, tool, query) ==
  LET rows == CASE tool = "search_commits" -> CommitRecall(db, query, ToolLimit)
                [] tool = "search_lkml"    -> LkmlRecall(db, query, ToolLimit, TRUE)
                [] tool = "search_bugs"    -> BugRecall(db, query, ToolLimit)
                [] tool = "search_syzbot"  -> SyzbotRecall(db, query, ToolLimit)
                [] tool = "search_cve"     -> CveRecall(db, query, ToolLimit, FALSE)
  IN {Listed(db, tool, r) : r \in rows}

(* All words in one file, else the files with one of them. *)
SearchCode(db, words) ==
  LET whole == CodeHits(db, words)
      parts == IF Cardinality(words) > 1 THEN UNION {CodeHits(db, {w}) : w \in words} ELSE {}
  IN Answer("search_code", None, IF whole \cup parts = {} THEN "none" ELSE "results", {})

(* Symbols: what CodeGraph's own index has (external), then its text search,    *)
(* which lookup_symbol and get_call_graph do not try.                          *)
SymbolQuery(db, tool, symbol) ==
  LET indexed == \E f \in DOMAIN db.file : symbol \in db.file[f].symbols
      found   == \/ indexed
                 \/ /\ tool \in {"get_function_source", "expand_query_from_symbol"}
                    /\ CodeHits(db, {symbol}) # {}
  IN Answer(tool, None, IF found THEN "results" ELSE "none", {})

GetCommitDetail(db, sha) ==
  LET c == sha.commit
  IN IF ~InTable(db, sha) THEN Answer("get_commit_detail", c, "none", Shown(sha))
     ELSE Answer("get_commit_detail", c, "results",
                 {c} \cup db.commit[c].fixes \cup ({db.commit[c].upstream} \ {None}))

(* Either tree has it, the commit's own version first. *)
GetCommitDiff(db, sha) ==
  LET c     == sha.commit
      trees == {v \in DOMAIN db.tree : c \in db.tree[v]}
  IN IF trees = {} THEN Answer("get_commit_diff", c, "none", Shown(sha))
     ELSE Answer("get_commit_diff", c, "results", {c} \cup db.commit[c].fixes)

BackportsOf(db, upstream, version) ==
  {c \in DOMAIN db.commit :
     db.commit[c].upstream = upstream /\ version \in db.commit[c].versions}

(* The model is told of one of the backports, or that there is none. *)
CheckBackportStatus(db, sha, version) ==
  LET found == BackportsOf(db, sha.commit, version)
      arg   == <<sha.commit, version>>
  IN IF found = {}
     THEN {Answer("check_backport_status", arg, "NOT backported", Shown(sha))}
     ELSE {Answer("check_backport_status", arg, "BACKPORTED", Shown(sha) \cup {c}) : c \in found}

(* A Fixes: trailer is compared with the commit's full hash when the table has  *)
(* it, and with the abbreviation given when not.                               *)
FixersOf(db, sha) ==
  {c \in DOMAIN db.commit : sha.commit \in db.commit[c].fixes /\ (InTable(db, sha) \/ sha.full)}

(* Mutant of RevertersOf: only the trailers are asked. *)
RevertersForgotten(db, sha) == {}

RevertersOf(db, sha) ==
  {p[1] : p \in {q \in db.reverts : q[2] = sha.commit}} \cap DOMAIN db.commit

(* reverters: what the second statement finds; its failure is only logged. *)
GetRegressionFixes(db, sha, reverters) ==
  LET known == FixersOf(db, sha) \cup reverters
  IN IF known = {}
     THEN {Answer("get_regression_fixes", sha.commit, "No known regression", Shown(sha))}
     ELSE {Answer("get_regression_fixes", sha.commit, "REGRESSION/REVERT",
                  {sha.commit} \cup some) :
             some \in {s \in SUBSET known :
                         Cardinality(s) = Smaller(ToolLimit, Cardinality(known))}}

(* LIMIT is applied in the order of the hashes, not of the dates. *)
FindCommitsTouchingSymbol(db, symbol) ==
  LET found == {c \in Real(db) : symbol \in db.commit[c].touches
                                  /\ db.commit[c].date >= Recent}
  IN {Answer("find_commits_touching_symbol", symbol,
             IF s = {} THEN "none" ELSE "newest first", s) :
        s \in {t \in SUBSET found : Cardinality(t) = Smaller(ToolLimit, Cardinality(found))}}

(* Fixes by the prefix of the subject, newest first. *)
BrowseSubsystemFixes(db, prefix) ==
  LET found == {c \in Real(db) : prefix = db.commit[c].prefix /\ db.commit[c].date > Recent}
      newer(c) == {d \in found : db.commit[d].date > db.commit[c].date}
      shown == {c \in found : Cardinality(newer(c)) < ToolLimit}
  IN Answer("browse_subsystem_fixes", prefix, IF shown = {} THEN "none" ELSE "newest first",
            shown)

(* Reports with the same stack, and the fix of a syzbot report. *)
FindSimilarCrashes(db, trace) ==
  LET crashes == {s \in DOMAIN db.crash : db.crash[s].trace = trace}
      bugs    == {b \in DOMAIN db.bug : db.bug[b].trace = trace}
  IN Answer("find_similar_crashes", trace,
            IF crashes \cup bugs = {} THEN "new" ELSE "results",
            {db.crash[s].fix : s \in crashes} \ {None})

FindSyzbotFixedByCommit(db, sha) ==
  LET fixed == {s \in DOMAIN db.crash : sha.commit \in db.crash[s].fixes}
  IN Answer("find_syzbot_fixed_by_commit", sha.commit, IF fixed = {} THEN "none" ELSE "results",
            Shown(sha))

GetPatchSeries(db, message) ==
  LET series == IF message \in DOMAIN db.mail THEN db.mail[message].series ELSE None
  IN Answer("get_patch_series", message, IF series = None THEN "none" ELSE "results", {})

(* Only the longest OwnerLimit patterns that match are looked at; any X: among  *)
(* them drops its section.                                                     *)
LookupSubsystemOwner(db, path) ==
  LET matching == {g \in db.globs : path \in g.covers}
      read     == {g \in matching :
                     Cardinality({h \in matching : h.length > g.length}) < OwnerLimit}
      excluded == {g.section : g \in {h \in read : h.kind = "X"}}
      owners   == {g.section : g \in {h \in read : h.kind = "F"}} \ excluded
  IN Answer("lookup_subsystem_owner", path, IF owners = {} THEN "none" ELSE "results", {})

(* A static table: the driver, and whether the number is a dynamic one. *)
DeviceMajors == {"static", "dynamic", "unknown"}

------------------------------------------------------------------------------
(* The answers a call may get, over the arguments in args; a host tool's file   *)
(* is no commit.                                                               *)
AnswersTo(db, host, tool, args) ==
  CASE tool \in {"search_commits", "search_lkml", "search_bugs", "search_syzbot", "search_cve"} ->
         UNION {Search(db, tool, q) : q \in args.queries}
    [] tool = "search_code" -> {SearchCode(db, WordsOf(Keys(q))) : q \in args.queries}
    [] tool \in {"lookup_symbol", "get_function_source", "get_call_graph",
                 "expand_query_from_symbol"} -> {SymbolQuery(db, tool, s) : s \in args.symbols}
    [] tool = "get_commit_detail" -> {GetCommitDetail(db, s) : s \in args.shas}
    [] tool = "get_commit_diff"   -> {GetCommitDiff(db, s) : s \in args.shas}
    [] tool = "check_backport_status" ->
         UNION {CheckBackportStatus(db, s, v) : s \in args.shas, v \in args.versions}
    [] tool = "get_regression_fixes" ->
         UNION {GetRegressionFixes(db, s, RevertersOf(db, s)) : s \in args.shas}
    [] tool = "find_commits_touching_symbol" ->
         UNION {FindCommitsTouchingSymbol(db, s) : s \in args.symbols}
    [] tool = "browse_subsystem_fixes" -> {BrowseSubsystemFixes(db, p) : p \in args.prefixes}
    [] tool = "find_similar_crashes" -> {FindSimilarCrashes(db, t) : t \in args.traces}
    [] tool = "find_syzbot_fixed_by_commit" -> {FindSyzbotFixedByCommit(db, s) : s \in args.shas}
    [] tool = "get_patch_series" -> {GetPatchSeries(db, m) : m \in args.messages}
    [] tool = "lookup_subsystem_owner" -> {LookupSubsystemOwner(db, p) : p \in args.paths}
    [] tool = "get_device_major_mapping" -> {Answer(tool, None, d, {}) : d \in DeviceMajors}
    [] tool \in HostToolNames ->
         {Answer(tool, None, a, {}) : a \in HostAnswers(host, tool, args.versions)}

(* With its service gone a tool of the database or of CodeGraph answers with a  *)
(* text of the error, or raises: the loop sees no hash in either.  The reverts  *)
(* of get_regression_fixes are lost silently.                                  *)
AnswersWithout(db, tool, args) ==
  IF tool = "get_regression_fixes"
  THEN UNION {GetRegressionFixes(db, s, {}) : s \in args.shas}
  ELSE {Answer(tool, None, "error", {})}
==============================================================================

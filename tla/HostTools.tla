----------------------------- MODULE HostTools -----------------------------
(* The tools that look at a machine: its hardware counters, its crash dumps   *)
(* and its logs (agent/react/tools/hardware_tools.py, vmcore_tools.py,        *)
(* log_tools.py over src/mcp_servers).  host is a record of what is on that   *)
(* machine; a tool's answer is what it says, and the file it names.           *)
EXTENDS Integers, Sequences, FiniteSets, FiniteSetsExt

CONSTANTS Tags,        \* the OLK trees, in the order the code lists them
          BlockLines,  \* lines of an event's block (60 in the code)
          ShortBlock   \* lines of a memory or hung-task event's block (30)

ASSUME HostAssumption == BlockLines \in Nat \ {0} /\ ShortBlock \in Nat \ {0}

Says(what, file) == [says |-> what, file |-> file]

NoFile == "no file"

Nothing(what) == Says(what, NoFile)

------------------------------------------------------------------------------
(* Hardware.  host.run[program] is how a subprocess ends: "ok", "missing" (not *)
(* installed), "down" (its daemon or device is not there), "denied", "timeout". *)

(* Only a missing mcelog, and a daemon that is down with no log to read, are   *)
(* errors; a run that was denied or timed out is read as empty output.        *)
GetMceLog(host) ==
  LET ran  == host.run["mcelog"]
      seen == CASE ran = "ok"   -> host.mce
                [] ran = "down" -> host.mceLog
                [] OTHER        -> 0
  IN IF ran = "missing" \/ (ran = "down" /\ host.run["mcelog_file"] # "ok")
     THEN Nothing("error")
     ELSE Nothing(IF seen = 0 THEN "clean" ELSE "events")

(* The first of two programs that is installed is believed, whatever its      *)
(* exit; counts are read in ras-mc-ctl's format only, and reading sysfs gives *)
(* a summary without the counts the tool prints.                              *)
GetEdacErrors(host) ==
  LET installed == {p \in {"ras_summary", "edac_util"} : host.run[p] # "missing"}
      counted   == IF host.run["ras_summary"] = "ok" THEN host.ecc ELSE [ce |-> 0, ue |-> 0]
  IN CASE installed # {} /\ counted.ue > 0                -> Nothing("critical")
       [] installed # {} /\ counted.ue = 0 /\ counted.ce > 100 -> Nothing("increasing")
       [] installed # {} /\ counted.ue = 0 /\ counted.ce <= 100 -> Nothing("stable")
       [] installed = {} /\ host.run["edac_sysfs"] # "ok" -> Nothing("error")
       [] installed = {} /\ host.run["edac_sysfs"] = "ok" -> Nothing("raised")

(* host.sel: the severity of each entry of the event log, and what it is about. *)
GetIpmiSel(host, criticalOnly) ==
  LET ran      == host.run["ipmitool"]
      events   == {e \in host.sel : criticalOnly => e.severity \in {"Critical", "Warning"}}
      critical == {e \in events : e.severity = "Critical"}
  IN CASE ran # "ok" -> Nothing("error")
       [] ran = "ok" /\ critical = {} -> Nothing("no critical events")
       [] ran = "ok" /\ \E e \in critical : e.memory -> Nothing("memory failure")
       [] ran = "ok" /\ critical # {} /\ \A e \in critical : ~e.memory -> Nothing("critical events")

GetHardwareInventory(host) ==
  Nothing(IF host.run["dmidecode"] = "ok" THEN "inventory" ELSE "error")

HighPriority == {"M", "B"}

ParseTaintFlags(letters) ==
  CASE letters = {} -> Nothing("clean")
    [] letters # {} /\ letters \cap HighPriority = {} -> Nothing("flags")
    [] letters \cap HighPriority # {} -> Nothing("hardware suspected")

------------------------------------------------------------------------------
(* Dumps.  host.build: tree -> age rank of its vmlinux (higher is newer), for  *)
(* the trees that have one; host.boot likewise for /boot; host.cache: versions *)
(* with a debuginfo; host.names: pairs <<version, tree>> where one string      *)
(* contains the other.                                                        *)

FirstOf(trees) == Tags[Min({i \in DOMAIN Tags : Tags[i] \in trees})]

Newest(ages) == CHOOSE f \in DOMAIN ages : \A g \in DOMAIN ages : ages[f] >= ages[g]

Named(host, version, trees) == {t \in trees : <<version, t>> \in host.names}

(* The tree the version names; else the newest build of any tree, before /boot *)
(* is looked at; then /boot, the cache and the sosreport.                      *)
FetchDebuginfo(host, version) ==
  LET trees == DOMAIN host.build
      named == Named(host, version, trees)
  IN CASE named # {} -> Says("found", FirstOf(named))
       [] named = {} /\ trees # {} -> Says("found", Newest(host.build))
       [] trees = {} /\ version \in DOMAIN host.boot -> Says("found", version)
       [] trees = {} /\ version \notin DOMAIN host.boot /\ DOMAIN host.boot # {}
            -> Says("found", Newest(host.boot))
       [] trees = {} /\ DOMAIN host.boot = {} /\ version \in host.cache -> Says("found", version)
       [] trees = {} /\ DOMAIN host.boot = {} /\ version \notin host.cache
            -> IF host.sos THEN Says("found", "sosreport") ELSE Nothing("error")

(* decode_stacktrace and analyze_vmcore look for themselves: the first build   *)
(* of the list, not the newest.                                               *)
FindVmlinux(host, version) ==
  LET trees == DOMAIN host.build
      named == Named(host, version, trees)
  IN CASE named # {} -> FirstOf(named)
       [] named = {} /\ trees # {} -> FirstOf(trees)
       [] trees = {} /\ DOMAIN host.boot # {} -> Newest(host.boot)
       [] trees = {} /\ DOMAIN host.boot = {} -> NoFile

VmcoreQueries == {"all_stacks", "locks", "oom_context", "network_state", "memory_state"}

(* The checks in the order they are made. host.core: "absent", "bad" (cannot be *)
(* opened) or "good"; a query of a good dump may still fail.                    *)
AnalyzeVmcore(host, query, version) ==
  LET file == FindVmlinux(host, version)
  IN IF \/ query \notin VmcoreQueries
        \/ host.core = "absent"
        \/ file = NoFile
        \/ ~host.drgn
        \/ host.core = "bad"
     THEN {Nothing("error")}
     ELSE {Says("analysed", file), Nothing("error")}

(* Without the script of any tree, addr2line. *)
DecodeStacktrace(host, version) ==
  LET file == FindVmlinux(host, version)
  IN CASE file = NoFile -> {Nothing("error")}
       [] file # NoFile /\ host.scripts # {} ->
            {Nothing("error"), Says("decoded", file), Nothing("no frames")}
       [] file # NoFile /\ host.scripts = {} ->
            IF host.run["addr2line"] = "ok" THEN {Says("decoded", file), Nothing("error")}
            ELSE {Nothing("error")}

------------------------------------------------------------------------------
(* Logs: a sequence of line classes -- "blank", "text", "trace" (Call Trace:), *)
(* "frame", or the kind of event the line starts.                             *)

ShortEvents == {"oom", "hung"}

EventKinds == {"panic", "bug", "warn", "softlockup", "hardlockup", "rcu_stall"} \cup ShortEvents

(* The lines of the block at i: up to a blank line or the limit. *)
BlockEnd(log, i) ==
  LET size == IF log[i] \in ShortEvents THEN ShortBlock ELSE BlockLines
      last == Min({i + size - 1, Len(log)})
      gaps == {j \in (i + 1)..last : log[j] = "blank"}
  IN IF gaps = {} THEN last ELSE Min(gaps) - 1

(* An event takes its whole block with it: what starts inside is not seen. *)
ExtractEvents(log) ==
  LET from[i \in 1..(Len(log) + 1)] ==
        IF i > Len(log) THEN {}
        ELSE IF log[i] \in EventKinds THEN {i} \cup from[BlockEnd(log, i) + 1]
        ELSE from[i + 1]
  IN from[1]

ParseDmesg(host) ==
  Nothing(IF ExtractEvents(host.log) = {} THEN "no events" ELSE "events")

(* Frames are taken from the first header on, over other lines too, until a    *)
(* blank line comes after one.                                                 *)
ExtractCallTrace(host) ==
  LET heads  == {i \in DOMAIN host.log : host.log[i] = "trace"}
      frames == {i \in DOMAIN host.log : host.log[i] = "frame"}
  IN Nothing(IF heads # {} /\ \E i \in frames : i > Min(heads) THEN "call trace"
             ELSE "no call trace")

(* The branch of the tree that uname tells. *)
SosTag(uname) ==
  CASE uname \in {"olk6.6", "olk on 6.6"}   -> "OLK-6.6"
    [] uname \in {"olk5.10", "olk on 5.10"} -> "OLK-5.10"
    [] uname \in {"", "olk on another"}     -> "unknown"
    [] uname = "vanilla"                    -> "mainline"

(* A path that is no directory and no archive raises; an archive that cannot   *)
(* be read gives an empty summary.                                            *)
ParseSosreport(host) ==
  CASE host.sosKind = "unsupported" -> Nothing("failed")
    [] host.sosKind = "broken archive" -> Nothing(SosTag(""))
    [] host.sosKind = "readable" -> Nothing(SosTag(host.uname))

------------------------------------------------------------------------------
(* What each tool may answer on the host, for every argument it may be given.  *)
HostAnswers(host, tool, versions) ==
  CASE tool = "get_mce_log"            -> {GetMceLog(host)}
    [] tool = "get_edac_errors"        -> {GetEdacErrors(host)}
    [] tool = "get_ipmi_sel"           -> {GetIpmiSel(host, f) : f \in BOOLEAN}
    [] tool = "get_hardware_inventory" -> {GetHardwareInventory(host)}
    [] tool = "parse_taint_flags"      -> {ParseTaintFlags(host.taint)}
    [] tool = "fetch_debuginfo"        -> {FetchDebuginfo(host, v) : v \in versions}
    [] tool = "analyze_vmcore"         ->
         UNION {AnalyzeVmcore(host, q, v) : q \in VmcoreQueries \cup {"other"}, v \in versions}
    [] tool = "decode_stacktrace"      -> UNION {DecodeStacktrace(host, v) : v \in versions}
    [] tool = "parse_dmesg"            -> {ParseDmesg(host)}
    [] tool = "parse_sosreport"        -> {ParseSosreport(host)}
    [] tool = "extract_call_trace"     -> {ExtractCallTrace(host)}
==============================================================================

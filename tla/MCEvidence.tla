----------------------------- MODULE MCEvidence -----------------------------
(* TLC instance of Evidence: a backport with a stub upstream, a regression    *)
(* that was fixed and reverted, and machines with nothing but their hardware  *)
(* or a dump.  Ids: c... commits, m... messages, b... bugs, v... CVEs.        *)
EXTENDS Evidence, TLC

MCTags == <<"OLK-5.10", "OLK-6.6">>

Commit(subject, upstream, date) ==
  [subject |-> subject, body |-> {}, stub |-> FALSE, versions |-> {"OLK-6.6"},
   upstream |-> upstream, date |-> date, fixes |-> {}, touches |-> {}, prefix |-> "mm"]

Stub(subject) ==
  [Commit(subject, None, 0) EXCEPT !.stub = TRUE, !.versions = {"mainline"}]

EmptyDb ==
  [commit |-> [c \in {} |-> 0], mail |-> [m \in {} |-> 0], bug |-> [b \in {} |-> 0],
   cve |-> [v \in {} |-> 0], crash |-> [s \in {} |-> 0], doc |-> [d \in {} |-> 0],
   file |-> [f \in {} |-> 0], lore |-> <<>>, link |-> {}, fixes |-> {}, reverts |-> {},
   tree |-> [t \in {} |-> {}], globs |-> {}]

Programs == {"mcelog", "mcelog_file", "ras_summary", "edac_util", "edac_sysfs",
             "ipmitool", "dmidecode", "addr2line"}

BareHost ==
  [run |-> [p \in Programs |-> "missing"], mce |-> 0, mceLog |-> 0, ecc |-> [ce |-> 0, ue |-> 0],
   sel |-> {}, taint |-> {}, build |-> [t \in {} |-> 0], boot |-> [v \in {} |-> 0], cache |-> {},
   names |-> {}, sos |-> FALSE, scripts |-> {}, core |-> "absent", drgn |-> FALSE,
   log |-> <<>>, sosKind |-> "unsupported", uname |-> ""]

NoArgs ==
  [queries |-> {}, symbols |-> {}, shas |-> {}, versions |-> {}, prefixes |-> {},
   traces |-> {}, messages |-> {}, paths |-> {}]

Asked(words, version, cves) == [words |-> words, version |-> version, cves |-> cves]

World(db, host, question, tag, route, args, parses, strays, claimed, refs) ==
  [db |-> db, host |-> host, question |-> question, tag |-> tag, route |-> route, args |-> args,
   parses |-> parses, strays |-> strays, claims |-> claimed, refs |-> refs]

Sha(commit)   == [commit |-> commit, full |-> TRUE]
Short(commit) == [commit |-> commit, full |-> FALSE]

------------------------------------------------------------------------------
(* c1 backports c2, of which only a stub is stored; a patch mail and a CVE     *)
(* lead to c1; the code index has nothing but the file.                        *)
Backport ==
  LET db == [EmptyDb EXCEPT
        !.commit = ("c1" :> Commit({"null"}, "c2", 2) @@ "c2" :> Stub({"null"})),
        !.mail = "m1" :> [words |-> {"null", "deref"}, cites |-> {"c2"}, series |-> None],
        !.cve  = "v1" :> [words |-> {"deref"}, cites |-> {"c1"}],
        !.doc  = "d1" :> [words |-> {"deref"}],
        !.file = "f1" :> [words |-> {"null", "deref"}, isDoc |-> FALSE, symbols |-> {"null"}],
        !.lore = <<[id |-> "m1", words |-> {"null"}]>>,
        !.link = {<<"c1", "m1">>, <<"c1", "v1">>}, !.tree = "OLK-6.6" :> {"c1"}]
  IN World(db, BareHost, Asked(<<"null", "deref">>, None, {"v1"}), "OLK-6.6", "kernel",
           [NoArgs EXCEPT !.shas = {Sha("c1"), Sha("c2"), Short("c2")}, !.versions = {"OLK-6.6"},
                          !.messages = {"m1"}, !.symbols = {"null"}],
           {}, {}, {{"null", "deref"}, {"other"}}, {Ref("c2", "id"), Ref("v1", "id")})

(* c1 broke something; c2 carries Fixes: c1, c3 reverts it; both close b1.     *)
Regression ==
  LET db == [EmptyDb EXCEPT
        !.commit = ("c1" :> [Commit({"leak"}, None, 1) EXCEPT !.touches = {"sym"}]
                    @@ "c2" :> [Commit({"leak", "fix"}, None, 2) EXCEPT !.fixes = {"c1"},
                                                                          !.touches = {"sym"}]
                    @@ "c3" :> Commit({"back"}, None, 3)
                    @@ "c4" :> Commit({"odd"}, None, 1)
                    @@ "c5" :> Commit({"back"}, None, 3)),
        !.bug    = "b1" :> [words |-> {"leak", "back"}, cites |-> {}, trace |-> "t1"],
        !.crash  = "s1" :> [words |-> {"leak"}, trace |-> "t1", fix |-> "c3", fixes |-> {"c3"}],
        !.link   = {<<"c2", "b1">>, <<"c3", "b1">>},
        !.fixes  = {<<"c2", "c1">>}, !.reverts = {<<"c3", "c1">>, <<"c5", "c4">>},
        !.globs  = {[section |-> "mm", kind |-> "F", length |-> 2, covers |-> {"p1"}],
                    [section |-> "mm", kind |-> "X", length |-> 3, covers |-> {"p1"}]}]
  IN World(db, BareHost, Asked(<<"leak">>, None, {}), None, "kernel",
           [NoArgs EXCEPT !.shas = {Sha("c1"), Short("c4")}, !.symbols = {"sym"},
                          !.prefixes = {"mm"}, !.traces = {"t1"}, !.paths = {"p1"}],
           {[question |-> <<"leak">>, keywords |-> <<"back">>, version |-> "OLK-6.6", cves |-> {}]},
           {}, {{"leak", "back"}}, {Ref("b1", "shown")})

------------------------------------------------------------------------------
(* Machines.  The model calls what its route does not offer, too.              *)
OfMachine(host, route, strays) ==
  World([EmptyDb EXCEPT !.bug = "b1" :> [words |-> {"mce"}, cites |-> {}, trace |-> None]],
        host, Asked(<<"mce">>, None, {}), None, route,
        [NoArgs EXCEPT !.versions = {"OLK-6.6", "6.6.0"}, !.queries =
           {[question |-> <<"mce">>, keywords |-> <<"mce">>, version |-> None, cves |-> {}]}],
        {}, strays, {{"mce"}}, {})

Failing ==
  [BareHost EXCEPT !.run = [p \in Programs |-> "ok"], !.mce = 2, !.ecc = [ce |-> 200, ue |-> 1],
     !.sel = {[severity |-> "Critical", memory |-> TRUE]}, !.taint = {"M"},
     !.log = <<"panic", "text", "bug", "blank", "trace", "frame">>]

Denied ==
  [BareHost EXCEPT !.run = [p \in Programs |-> "denied"], !.mce = 2, !.taint = {"P"},
     !.log = <<"text", "blank">>, !.sosKind = "broken archive"]

Dumped ==
  [BareHost EXCEPT !.build = ("OLK-5.10" :> 1 @@ "OLK-6.6" :> 2),
     !.names = {<<"OLK-6.6", "OLK-6.6">>}, !.core = "good", !.drgn = TRUE,
     !.run["addr2line"] = "ok", !.sosKind = "readable", !.uname = "olk6.6"]

MCWorlds == {Backport, Regression,
             OfMachine(Failing, "hardware", {"search_bugs"}),
             OfMachine(Denied, "hardware", {}),
             OfMachine(Dumped, "kernel+vmcore", {})}
=============================================================================

-------------------------- MODULE MCKnowledgeGraph --------------------------
(* TLC instance of KnowledgeGraph: two commits, and one source with content *)
(* in each of the behaviours, besides what the commits cite.                *)
EXTENDS KnowledgeGraph, TLC

Nothing == [c \in {} |-> {}]
Empty == [bugzilla |-> {}, nvd |-> {}, crashes |-> {}, span |-> 0,
          cites |-> Nothing, upstream |-> [c \in Commits |-> 0],
          gone |-> {}, broken |-> {},
          fixes |-> [n \in 1..2 |-> {}], project |-> [n \in 1..2 |-> {}], pairs |-> {}, jobs |-> {}]

Bugzilla == [Empty EXCEPT !.bugzilla = {1, 2}, !.span = 3]
\* The second bug is cited by the first commit and the first by the second.
CitedBugs == [Empty EXCEPT !.bugzilla = {1, 2},
                           !.cites = (1 :> {<<"bugzilla", 2>>} @@ 2 :> {<<"bugzilla", 1>>}),
                           !.jobs = {"linker"}]
\* Two CVEs; the kernel project knows a backport that NVD does not.
Nvd == [Empty EXCEPT !.nvd = {1, 2}, !.span = 3,
                     !.cites = (1 :> {} @@ 2 :> {}), !.fixes = (1 :> {1} @@ 2 :> {}), !.project = (1 :> {2} @@ 2 :> {})]
\* Two crashes, one page to a run.
Crashes == [Empty EXCEPT !.crashes = {1, 2}, !.cites = (1 :> {} @@ 2 :> {}), !.fixes = (1 :> {1} @@ 2 :> {2})]
\* Issues of both trackers, one of them gone, one that is always a server error,
\* and a data set that names a bug by the number of an issue.
IssuesOnly == [Empty EXCEPT !.cites = (1 :> {<<"gitee", 2>>, <<"gitee", 1>>} @@ 2 :> {<<"gitee", 3>>}),
                            !.gone = {<<"gitee", 1>>}, !.broken = {<<"gitee", 3>>}, !.jobs = {"issue linker"}]
Dataset == [Empty EXCEPT !.cites = (1 :> {<<"atomgit", 1>>, <<"lore", 1>>} @@ 2 :> {}),
                         !.pairs = {<<2, 1>>}, !.jobs = {"linker", "issue linker"}]
\* A backport and its upstream commit.
Backport == [Empty EXCEPT !.cites = (1 :> {} @@ 2 :> {}),
                          !.upstream = (1 :> 2 @@ 2 :> 0), !.jobs = {"linker", "tagger", "neo4j"}]

MCWorlds == {Bugzilla, CitedBugs, Nvd, Crashes, IssuesOnly, Dataset, Backport}
=============================================================================

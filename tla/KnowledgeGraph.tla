--------------------------- MODULE KnowledgeGraph ---------------------------
(***************************************************************************)
(* The link tables and the graph built from what the ingesters stored: the *)
(* linker (run_linker, one transaction of three parts;                     *)
(* link_gitee_atomgit_bugs, three transactions; link_nvd_commits and       *)
(* link_syzbot_commits, one statement each), the Zenodo data set, the      *)
(* fault-domain tagger, the rebuild of Neo4j and its reconciliation.       *)
(* They run one after another, as in the weekly script, while the          *)
(* ingesters of Trackers, the kernel ingester and the mail archive may add *)
(* rows between any two of their transactions.                             *)
(***************************************************************************)
EXTENDS Trackers

CONSTANTS
    Tagged,         \* commits a fault domain's keywords match
    TagBatch        \* commits in a page of the tagger

ASSUME GraphAssumption == Tagged \subseteq Commits /\ TagBatch \in Nat \ {0}

VARIABLES
    mail,           \* lkml_message
    bugLinks,       \* link_commit_bug
    mailLinks, cveLinks, crashLinks,    \* link_commit_message, _cve, link_syzbot_commit
    domains,        \* link_commit_fault_domain
    nodes,          \* :Commit nodes of Neo4j
    job             \* the run in progress

links     == <<bugLinks, mailLinks, cveLinks, crashLinks>>
graphVars == <<mail, links, domains, nodes, job>>
vars      == <<trackerVars, graphVars>>
tables    == <<world, external, crawled, issues, crashes, quarantined>>

TypeOK ==
    /\ TrackerTypeOK
    /\ mailLinks \subseteq Commits \X mail
    /\ \A l \in bugLinks: l.bug \in DOMAIN bug /\ commitRow[l.commit] # "none"
    /\ cveLinks \subseteq Commits \X world.nvd
    /\ crashLinks \subseteq (DOMAIN crashFix) \X Commits
    /\ domains \subseteq Commits /\ nodes \subseteq Commits
    /\ job.at \in {"idle", "bugs", "mail", "stubs", "issues", "insert", "page", "tagged",
                  "cleared", "loaded", "compare", "compared"}

Init ==
    /\ TrackerInit
    /\ mail = {} /\ bugLinks = {} /\ mailLinks = {} /\ cveLinks = {} /\ crashLinks = {}
    /\ domains = {} /\ nodes = {}
    /\ job = Idle

----------------------------------------------------------------------------
\* Rows that come from the other ingesters.

\* The upsert of a commit leaves the body a row has, also when it has none.
IngestCommit ==
    /\ \E c \in DOMAIN world.cites:
          /\ commitRow[c] = "none"
          /\ commitRow' = [commitRow EXCEPT ![c] = "full"]
    /\ UNCHANGED <<tables, bug, faults, graphVars>>

IngestMail ==
    /\ \E r \in UNION {world.cites[c] : c \in DOMAIN world.cites}:
          r[1] = "lore" /\ r[2] \notin mail /\ mail' = mail \cup {r[2]}
    /\ UNCHANGED <<trackerVars, links, domains, nodes, job>>

----------------------------------------------------------------------------
\* run_linker

Link(c, pk, type, source) == [commit |-> c, bug |-> pk, type |-> type, source |-> source]

\* ON CONFLICT DO NOTHING on (commit, bug, type): who wrote the link first is
\* remembered.
Insert(old, new) ==
    old \cup {l \in new : \A o \in old: <<o.commit, o.bug, o.type>> # <<l.commit, l.bug, l.type>>}

\* The primary keys of a tracker's bugs, by their external id.
Index(sources) == [r \in {q \in ToSet(bug) : q[1] \in sources} |->
                     CHOOSE pk \in DOMAIN bug: bug[pk] = r]

Bodies == {c \in Commits : commitRow[c] = "full"}

Starts(name) == job.at = "idle" /\ name \in world.jobs

StartLinker ==
    /\ Starts("linker")
    /\ job' = [at |-> "bugs", index |-> Index({"bugzilla"}), bugs |-> {}, mail |-> {}]
    /\ UNCHANGED <<trackerVars, mail, links, domains, nodes>>

\* Mutant: the number in the commit is taken for the primary key.
BugLinksById(index) ==
    UNION {{Link(c, r[2], "closes", "trailer") :
              r \in {q \in world.cites[c] : q[1] = "bugzilla" /\ q[2] \in DOMAIN bug}} : c \in Bodies}

\* Mutant: the first commits only, and nobody remembers where the run stopped.
BugLinksFirst(index) ==
    LET first == {c \in Bodies : \A d \in Bodies: c <= d}
    IN UNION {{Link(c, index[r], "closes", "trailer") : r \in world.cites[c] \cap DOMAIN index} : c \in first}

\* A bug that is cited and was not in the index is passed over until next time.
BugLinks(index) ==
    UNION {{Link(c, index[r], "closes", "trailer") : r \in world.cites[c] \cap DOMAIN index} : c \in Bodies}

LinkBugs ==
    /\ job.at = "bugs"
    /\ job' = [job EXCEPT !.at = "mail", !.bugs = BugLinks(job.index)]
    /\ UNCHANGED <<trackerVars, mail, links, domains, nodes>>

LinkMail ==
    /\ job.at = "mail"
    /\ job' = [job EXCEPT !.at = "stubs",
                      !.mail = UNION {{<<c, m>> : m \in {n \in mail : <<"lore", n>> \in world.cites[c]}}
                                      : c \in Bodies}]
    /\ UNCHANGED <<trackerVars, mail, links, domains, nodes>>

\* The upstream commits that have no row, and the end of the transaction.
LinkStubs ==
    LET orphans == {world.upstream[c] : c \in Bodies} \ {0}
    IN /\ job.at = "stubs"
       /\ commitRow' = [c \in Commits |-> IF c \in orphans /\ commitRow[c] = "none" THEN "stub"
                                          ELSE commitRow[c]]
       /\ bugLinks' = Insert(bugLinks, job.bugs)
       /\ mailLinks' = mailLinks \cup job.mail
       /\ job' = Idle
       /\ UNCHANGED <<tables, bug, faults, mail, cveLinks, crashLinks, domains, nodes>>

\* Any of the three parts fails: all of it is rolled back.
LinkerFails ==
    /\ job.at \in {"bugs", "mail", "stubs"} /\ Fault
    /\ job' = Idle
    /\ UNCHANGED <<tables, bug, commitRow, mail, links, domains, nodes>>

----------------------------------------------------------------------------
\* link_gitee_atomgit_bugs: the index, the commits and the inserts are separate
\* transactions.

StartIssueLinker ==
    /\ Starts("issue linker") /\ DOMAIN Index(Trackers) # {}
    /\ job' = [at |-> "issues", index |-> Index(Trackers), pairs |-> {}]
    /\ UNCHANGED <<trackerVars, mail, links, domains, nodes>>

ReadIssuePairs ==
    /\ job.at = "issues"
    /\ job' = [job EXCEPT !.at = "insert",
           !.pairs = UNION {{<<c, r>> : r \in {q \in world.cites[c] : q[1] \in Trackers}} : c \in Bodies}]
    /\ UNCHANGED <<trackerVars, mail, links, domains, nodes>>

InsertIssueLinks ==
    /\ job.at = "insert"
    /\ bugLinks' = Insert(bugLinks, {Link(p[1], job.index[p[2]], "trailer", p[2][1]) :
                        p \in {q \in job.pairs : q[2] \in DOMAIN job.index}})
    /\ job' = Idle
    /\ UNCHANGED <<trackerVars, mail, mailLinks, cveLinks, crashLinks, domains, nodes>>

\* A prefix of the hash decides, so stubs and rows without a body match too.
Rows == {c \in Commits : commitRow[c] # "none"}

LinkNvd ==
    LET new == {p \in Rows \X world.nvd : p[1] \in cveFix[p[2]]}
    IN /\ ~ new \subseteq cveLinks
       /\ cveLinks' = cveLinks \cup new
       /\ UNCHANGED <<trackerVars, mail, bugLinks, mailLinks, crashLinks, domains, nodes, job>>

LinkSyzbot ==
    LET new == {p \in (DOMAIN crashFix) \X Rows : p[2] \in crashFix[p[1]]}
    IN /\ ~ new \subseteq crashLinks
       /\ crashLinks' = crashLinks \cup new
       /\ UNCHANGED <<trackerVars, mail, bugLinks, mailLinks, cveLinks, domains, nodes, job>>

\* Mutant: no foreign key on the commit of a link.
ImportPairsUnchecked ==
    LET new == {Link(m[1][1], m[2], "fixes", "zenodo_dataset") :
                  m \in {q \in world.pairs \X (DOMAIN bug) : bug[q[2]][2] = q[1][2]}}
    IN /\ Insert(bugLinks, new) # bugLinks
       /\ bugLinks' = Insert(bugLinks, new)
       /\ UNCHANGED <<trackerVars, mail, mailLinks, cveLinks, crashLinks, domains, nodes, job>>

\* The data set names a bug by a number only: bugs of every tracker match.  A
\* pair whose commit has no row is quarantined (a foreign key).
ImportPairs ==
    LET new == {Link(m[1][1], m[2], "fixes", "zenodo_dataset") :
                  m \in {q \in world.pairs \X (DOMAIN bug) :
                            bug[q[2]][2] = q[1][2] /\ q[1][1] \in Rows}}
    IN /\ Insert(bugLinks, new) # bugLinks
       /\ bugLinks' = Insert(bugLinks, new)
       /\ UNCHANGED <<trackerVars, mail, mailLinks, cveLinks, crashLinks, domains, nodes, job>>

\* The commits of the data set come without a body and keep none.
ImportCommits ==
    LET new == {p[1] : p \in world.pairs} \ Rows
    IN /\ new # {}
       /\ commitRow' = [c \in Commits |-> IF c \in new THEN "bare" ELSE commitRow[c]]
       /\ UNCHANGED <<tables, bug, faults, graphVars>>

----------------------------------------------------------------------------
\* tag_commits

\* Mutant: commits that have their tag are left out of the pages.
PageUntagged(offset) == Slice(InOrder(Bodies \ domains), offset, TagBatch)

\* A page of the commits that have a body, in the order of their hashes.
Page(offset) == Slice(InOrder(Bodies), offset, TagBatch)

StartTagger ==
    /\ Starts("tagger")
    /\ job' = [at |-> "page", offset |-> 0, promised |-> Bodies]
    /\ UNCHANGED <<trackerVars, mail, links, domains, nodes>>

TagPage ==
    /\ job.at = "page"
    /\ LET page == Page(job.offset)
       IN /\ domains' = domains \cup (ToSet(page) \cap Tagged)
          /\ job' = IF Len(page) < TagBatch
                       THEN [at |-> "tagged", promised |-> job.promised]
                       ELSE [job EXCEPT !.offset = @ + TagBatch]
    /\ UNCHANGED <<trackerVars, mail, links, nodes>>

EndTagger ==
    /\ job.at = "tagged" /\ job' = Idle
    /\ UNCHANGED <<trackerVars, mail, links, domains, nodes>>

TaggerDies ==
    /\ job.at = "page" /\ Fault /\ job' = Idle
    /\ UNCHANGED <<tables, bug, commitRow, mail, links, domains, nodes>>

----------------------------------------------------------------------------
\* The rebuild of Neo4j and its reconciliation

ClearGraph ==
    /\ Starts("neo4j") /\ job' = [at |-> "cleared"]
    /\ nodes' = {}
    /\ UNCHANGED <<trackerVars, mail, links, domains>>

\* Mutant: stubs become nodes.
NodesWithStubs == Rows

GraphNodes == {c \in Commits : commitRow[c] \in {"full", "bare"}}

LoadCommits ==
    /\ job.at = "cleared" /\ job' = [at |-> "loaded"]
    /\ nodes' = GraphNodes
    /\ UNCHANGED <<trackerVars, mail, links, domains>>

\* The bugs' query names a column (summary) that the table does not have: it
\* raises, and nothing after the commits is ever loaded.
LoadBugsRaises ==
    /\ job.at = "loaded" /\ job' = Idle
    /\ UNCHANGED <<trackerVars, mail, links, domains, nodes>>

\* Tables are compared one after the other: an empty one always passes, else a
\* difference of a fifth fails.
Within(neo, pg) == pg = 0 \/ 5 * (pg - neo) < pg

StartReconcile ==
    /\ Starts("neo4j") /\ job' = [at |-> "compare", table |-> 1, ok |-> TRUE]
    /\ UNCHANGED <<trackerVars, mail, links, domains, nodes>>

Compare ==
    LET ok == CASE job.table = 1 -> Within(Cardinality(nodes), Cardinality(Rows))
                [] job.table = 2 -> Within(0, Len(bug))
                [] job.table = 3 -> Within(0, Cardinality({x \in world.nvd :
                                          stored["nvd"][x] # 0 \/ cveFix[x] # {}}))
    IN /\ job.at = "compare"
       /\ job' = IF job.table < 3 THEN [job EXCEPT !.table = @ + 1, !.ok = ok /\ @]
                 ELSE [at |-> "compared", ok |-> ok /\ job.ok]
       /\ UNCHANGED <<trackerVars, mail, links, domains, nodes>>

EndReconcile ==
    /\ job.at = "compared" /\ job' = Idle
    /\ UNCHANGED <<trackerVars, mail, links, domains, nodes>>

----------------------------------------------------------------------------
Linker      == LinkBugs \/ LinkMail \/ LinkStubs \/ LinkerFails
IssueLinker == ReadIssuePairs \/ InsertIssueLinks
Tagger      == StartTagger \/ TagPage \/ EndTagger \/ TaggerDies
Neo4j       == \/ ClearGraph \/ LoadCommits \/ LoadBugsRaises
               \/ StartReconcile \/ Compare \/ EndReconcile
Job         == StartLinker \/ Linker \/ StartIssueLinker \/ IssueLinker \/ Tagger \/ Neo4j

Next == \/ TrackerNext /\ UNCHANGED graphVars
        \/ IngestCommit \/ IngestMail
        \/ LinkNvd \/ LinkSyzbot \/ ImportPairs \/ ImportCommits
        \/ Job

\* Runs come to an end, and both linkers are run again and again, as their
\* documentation asks: after each ingestion.
Spec == /\ Init /\ [][Next]_vars
        /\ WF_vars(Linker \/ IssueLinker \/ TagPage \/ EndTagger \/ LoadCommits
                   \/ LoadBugsRaises \/ Compare \/ EndReconcile)
        /\ SF_vars(StartLinker) /\ SF_vars(StartIssueLinker)

----------------------------------------------------------------------------
\* What the audit of the graph asks of a link between a commit and a bug: the
\* commit's body cites the bug, in the tracker the link says it is from.
PassesAudit(l) ==
    LET r == bug[l.bug]
    IN /\ r \in world.cites[l.commit] /\ commitRow[l.commit] = "full"
       /\ l.source = IF r[1] = "bugzilla" THEN "trailer" ELSE r[1]

\* Whatever arrives in whatever order, the links the linker wrote pass the audit
\* (those of the Zenodo data set cannot: it knows no such source), a message is
\* linked only to commits that cite it, and no node of Neo4j is a stub.
GraphIsTrue ==
    /\ \A l \in bugLinks: l.source # "zenodo_dataset" => PassesAudit(l)
    /\ \A p \in mailLinks: <<"lore", p[2]>> \in world.cites[p[1]]
    /\ \A c \in nodes: commitRow[c] \in {"full", "bare"}

\* A tagger that ends has tagged every matching commit that was there when it
\* started, though the pages shift as commits are ingested in between.
TaggerSkipsNone ==
    job.at = "tagged" => job.promised \cap Tagged \subseteq domains

Linked(c, r) ==
    CASE r[1] = "lore" -> <<c, r[2]>> \in mailLinks
      [] OTHER -> \E l \in bugLinks: l.commit = c /\ bug[l.bug] = r
Present(r) == IF r[1] = "lore" THEN r[2] \in mail ELSE r \in ToSet(bug)

\* In the end every citation in a stored body, of a bug or a message that has a
\* row, is a link, and the upstream commit of every backport has a row: no part
\* of a run is left to a run that never gets to it.
CitationsLinked ==
    <>[](\A c \in Bodies:
            /\ \A r \in world.cites[c]: Present(r) => Linked(c, r)
            /\ world.upstream[c] # 0 => commitRow[world.upstream[c]] # "none")
=============================================================================

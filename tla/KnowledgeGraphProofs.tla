------------------------ MODULE KnowledgeGraphProofs ------------------------
(***************************************************************************)
(* Theorems about KnowledgeGraph for every world and any number of         *)
(* commits, entries, changes and failures: links and nodes are true, no    *)
(* change is behind a cursor, no checkpoint lists what is not kept, the    *)
(* tagger skips nobody, and the types.                                     *)
(*                                                                         *)
(* The linkers work on what they read in earlier transactions.  That is    *)
(* sound because the tables only grow in the places they look at (Grows):  *)
(* a primary key names the same bug for ever and a body, or the lack of    *)
(* one in a full row, is never replaced.  TruthInv says what the tables    *)
(* and a linker's locals have in common; Keeps shows that growth never     *)
(* disturbs it, so only the steps of the jobs are left to look at.         *)
(*                                                                         *)
(* A crawl works on pages of a list that changes while it is read.         *)
(* CrawlInv says where an entry can be that the run owes: stored, in       *)
(* quarantine, in the batch in hand, on a page ahead, or among those that  *)
(* the code is known to miss.                                              *)
(***************************************************************************)
EXTENDS KnowledgeGraph, OrderProofs, TLAPS

(* The part of the tables that the links rest on.                          *)
TablesInv ==
  /\ bug \in Seq(ToSet(bug))
  /\ commitRow \in [Commits -> {"none", "full", "stub", "bare"}]

(* A step that only adds bugs and only fills rows that have no commit.     *)
Grows ==
  /\ world' = world
  /\ \A i \in DOMAIN bug : i \in DOMAIN bug' /\ bug'[i] = bug[i]
  /\ \A c \in Commits : commitRow[c] \in {"full", "bare"} => commitRow'[c] = commitRow[c]

(* A link to a bug that exists and passes the audit.                       *)
TrueLink(l) == l.commit \in Commits /\ l.bug \in DOMAIN bug /\ PassesAudit(l)
TrueMail(p) == <<"lore", p[2]>> \in world.cites[p[1]]
TruePair(p) == p[1] \in Commits /\ commitRow[p[1]] = "full" /\ p[2] \in world.cites[p[1]]

(* An index maps the references of some trackers to their primary keys.    *)
TrueIndex(index, sources) ==
  \A r \in DOMAIN index : r[1] \in sources /\ index[r] \in DOMAIN bug /\ bug[index[r]] = r

LinksInv ==
  /\ \A l \in bugLinks : l.source # "zenodo_dataset" => TrueLink(l)
  /\ \A p \in mailLinks : TrueMail(p)
  /\ nodes \subseteq Commits
  /\ \A c \in nodes : commitRow[c] \in {"full", "bare"}

JobInv ==
  /\ "at" \in DOMAIN job
  /\ job.at \in {"bugs", "mail", "stubs"} =>
       /\ DOMAIN job = {"at", "index", "bugs", "mail"}
       /\ TrueIndex(job.index, {"bugzilla"})
       /\ \A l \in job.bugs : TrueLink(l)
       /\ \A p \in job.mail : TrueMail(p)
  /\ job.at \in {"issues", "insert"} =>
       /\ DOMAIN job = {"at", "index", "pairs"}
       /\ TrueIndex(job.index, Trackers)
       /\ \A p \in job.pairs : TruePair(p)

TruthInv == TablesInv /\ LinksInv /\ JobInv

----------------------------------------------------------------------------
(* The new row of a bug goes behind the others and leaves them their keys. *)
LEMMA WithBugGrows ==
  ASSUME TablesInv, NEW r, bug' = WithBug(r)
  PROVE  /\ bug' \in Seq(ToSet(bug'))
         /\ \A i \in DOMAIN bug : i \in DOMAIN bug' /\ bug'[i] = bug[i]
<1>1. CASE r \in ToSet(bug)
  BY <1>1 DEF WithBug, TablesInv
<1>2. CASE r \notin ToSet(bug)
  <2>1. bug' = Append(bug, r)
    BY <1>2 DEF WithBug
  <2>2. /\ bug \in Seq(ToSet(bug) \cup {r})
        /\ bug' \in Seq(ToSet(bug) \cup {r})
        /\ Len(bug') = Len(bug) + 1
        /\ \A i \in 1..Len(bug) : bug'[i] = bug[i]
        /\ bug'[Len(bug) + 1] = r
        /\ DOMAIN bug = 1..Len(bug) /\ DOMAIN bug' = 1..(Len(bug) + 1) /\ Len(bug) \in Nat
    BY <2>1 DEF TablesInv
  <2>3. ASSUME NEW i \in DOMAIN bug' PROVE bug'[i] \in ToSet(bug')
    BY DEF ToSet
  <2>4. bug' \in Seq(ToSet(bug'))
    BY <2>2, <2>3
  <2> QED
    BY <2>2, <2>4
<1> QED
  BY <1>1, <1>2

(* The ingesters add bugs, and touch neither commits, links nor jobs.      *)
LEMMA TrackersAddBugs ==
  ASSUME TrackerNext
  PROVE  /\ world' = world /\ commitRow' = commitRow
         /\ bug' = bug \/ \E r : bug' = WithBug(r)
<1>1. CASE Remote
  BY <1>1 DEF Remote, Tick, MoveCrash, Change
<1>2. CASE MergeProject
  BY <1>2 DEF MergeProject
<1>3. CASE Syzbot
  BY <1>3 DEF Syzbot, StartSyzbot, ReadBoard, StoreCrash, StoreCrashFails, EndSyzbot, SyzbotDies
<1>4. ASSUME NEW s \in Crawled, Crawl(s)
      PROVE  /\ world' = world /\ commitRow' = commitRow
             /\ bug' = bug \/ \E r : bug' = WithBug(r)
  <2>1. CASE StoreEntry(s)
    BY <2>1 DEF StoreEntry, external
  <2>2. CASE StartCrawl(s) \/ FetchPage(s) \/ StoreEntryFails(s)
    BY <2>2 DEF StartCrawl, FetchPage, StoreEntryFails
  <2>3. CASE NextPage(s) \/ NextWindow(s) \/ EndCrawl(s) \/ CrawlDies(s)
    BY <2>3 DEF NextPage, NextWindow, EndCrawl, CrawlDies
  <2> QED
    BY <1>4, <2>1, <2>2, <2>3 DEF Crawl
<1>5. ASSUME NEW t \in Trackers, Issues(t)
      PROVE  /\ world' = world /\ commitRow' = commitRow
             /\ bug' = bug \/ \E r : bug' = WithBug(r)
  <2>1. CASE StoreIssue(t)
    BY <2>1 DEF StoreIssue
  <2>2. CASE StartIssues(t) \/ IssueNotFound(t) \/ IssueServerError(t)
    BY <2>2 DEF StartIssues, IssueNotFound, IssueServerError
  <2>3. CASE IssueFails(t) \/ EndIssues(t) \/ IssuesDie(t)
    BY <2>3 DEF IssueFails, EndIssues, IssuesDie
  <2> QED
    BY <1>5, <2>1, <2>2, <2>3 DEF Issues
<1> QED
  BY <1>1, <1>2, <1>3, <1>4, <1>5 DEF TrackerNext

LEMMA TrackersGrow ==
  ASSUME TablesInv, TrackerNext
  PROVE  Grows /\ commitRow' = commitRow /\ bug' \in Seq(ToSet(bug'))
<1>1. /\ world' = world /\ commitRow' = commitRow
      /\ bug' = bug \/ \E r : bug' = WithBug(r)
  BY TrackersAddBugs
<1>2. /\ bug' \in Seq(ToSet(bug'))
      /\ \A i \in DOMAIN bug : i \in DOMAIN bug' /\ bug'[i] = bug[i]
  <2>1. CASE bug' = bug
    BY <2>1 DEF TablesInv
  <2>2. ASSUME NEW r, bug' = WithBug(r)
        PROVE  /\ bug' \in Seq(ToSet(bug'))
               /\ \A i \in DOMAIN bug : i \in DOMAIN bug' /\ bug'[i] = bug[i]
    BY <2>2, WithBugGrows
  <2> QED
    BY <1>1, <2>1, <2>2
<1> QED
  BY <1>1, <1>2 DEF Grows

----------------------------------------------------------------------------
(* What is true of a link, a pair or an index stays true while tables grow. *)
LEMMA LinkKeeps ==
  ASSUME Grows, NEW l, TrueLink(l)
  PROVE  TrueLink(l)'
BY DEF Grows, TrueLink, PassesAudit

LEMMA MailKeeps ==
  ASSUME Grows, NEW p, TrueMail(p)
  PROVE  TrueMail(p)'
BY DEF Grows, TrueMail

LEMMA PairKeeps ==
  ASSUME Grows, NEW p, TruePair(p)
  PROVE  TruePair(p)'
BY DEF Grows, TruePair

LEMMA IndexKeeps ==
  ASSUME Grows, NEW index, NEW sources, TrueIndex(index, sources)
  PROVE  TrueIndex(index, sources)'
BY DEF Grows, TrueIndex

LEMMA LinksKeep ==
  ASSUME LinksInv, Grows, UNCHANGED <<bugLinks, mailLinks, nodes>>
  PROVE  LinksInv'
BY LinkKeeps, MailKeeps DEF LinksInv, Grows

LEMMA JobKeeps ==
  ASSUME JobInv, Grows, UNCHANGED job
  PROVE  JobInv'
<1>1. CASE job.at \in {"bugs", "mail", "stubs"}
  BY <1>1, LinkKeeps, MailKeeps, IndexKeeps DEF JobInv
<1>2. CASE job.at \in {"issues", "insert"}
  BY <1>2, PairKeeps, IndexKeeps DEF JobInv
<1>3. CASE job.at \notin {"bugs", "mail", "stubs", "issues", "insert"}
  BY <1>3 DEF JobInv
<1> QED
  BY <1>1, <1>2, <1>3

(* The index a linker starts from is true of the tables it was read from.  *)
LEMMA IndexIsTrue ==
  ASSUME NEW sources
  PROVE  TrueIndex(Index(sources), sources)
<1> SUFFICES ASSUME NEW r \in DOMAIN Index(sources)
             PROVE  /\ r[1] \in sources /\ Index(sources)[r] \in DOMAIN bug
                    /\ bug[Index(sources)[r]] = r
  BY DEF TrueIndex
<1>1. r \in ToSet(bug) /\ r[1] \in sources
  BY DEF Index
<1>2. \E pk \in DOMAIN bug : bug[pk] = r
  BY <1>1 DEF ToSet
<1>3. Index(sources)[r] = CHOOSE pk \in DOMAIN bug : bug[pk] = r
  BY <1>1 DEF Index
<1> QED
  BY <1>1, <1>2, <1>3

(* A link is inserted, if at all, as the run collected it.                 *)
LEMMA InsertAdds ==
  ASSUME NEW old, NEW new, NEW l \in Insert(old, new)
  PROVE  l \in old \/ l \in new
BY DEF Insert

----------------------------------------------------------------------------
LEMMA InitTruth == Init => TruthInv
<1> SUFFICES ASSUME Init PROVE TruthInv
  OBVIOUS
<1>1. TablesInv
  BY DEF Init, TrackerInit, TablesInv
<1>2. LinksInv
  BY DEF Init, LinksInv
<1>3. JobInv
  BY DEF Init, JobInv, Idle
<1> QED
  BY <1>1, <1>2, <1>3 DEF TruthInv

(* Rows of commits and messages arrive.                                    *)
LEMMA IngestKeeps ==
  ASSUME TruthInv, IngestCommit \/ IngestMail \/ ImportCommits
  PROVE  TruthInv'
<1>1. Grows /\ TablesInv' /\ UNCHANGED <<bugLinks, mailLinks, nodes, job>>
  <2>1. CASE IngestCommit
    BY <2>1 DEF IngestCommit, TruthInv, TablesInv, Grows, tables, graphVars, links
  <2>2. CASE IngestMail
    BY <2>2 DEF IngestMail, TruthInv, TablesInv, Grows, trackerVars, links
  <2>3. CASE ImportCommits
    BY <2>3 DEF ImportCommits, Rows, TruthInv, TablesInv, Grows, tables, graphVars, links
  <2> QED
    BY <2>1, <2>2, <2>3
<1> QED
  BY <1>1, LinksKeep, JobKeeps DEF TruthInv

(* Statements that add links of their own: none of them claims a trailer.  *)
LEMMA StatementsKeep ==
  ASSUME TruthInv, LinkNvd \/ LinkSyzbot \/ ImportPairs
  PROVE  TruthInv'
<1>1. Grows /\ TablesInv' /\ UNCHANGED <<mailLinks, nodes, job>>
  BY DEF LinkNvd, LinkSyzbot, ImportPairs, TruthInv, TablesInv, Grows, trackerVars
<1>2. JobInv'
  BY <1>1, JobKeeps DEF TruthInv
<1>3. \A l \in bugLinks' : l \in bugLinks \/ l.source = "zenodo_dataset"
  BY InsertAdds DEF LinkNvd, LinkSyzbot, ImportPairs, Link
<1>4. LinksInv'
  BY <1>1, <1>3, LinkKeeps, MailKeeps DEF LinksInv, Grows, TruthInv
<1> QED
  BY <1>1, <1>2, <1>4 DEF TruthInv

(* run_linker                                                              *)
LEMMA LinkerKeeps ==
  ASSUME TruthInv, StartLinker \/ Linker
  PROVE  TruthInv'
<1> USE DEF TruthInv
<1>1. CASE StartLinker
  <2>1. Grows /\ TablesInv' /\ UNCHANGED <<bug, world, bugLinks, mailLinks, nodes>>
    BY <1>1 DEF StartLinker, TablesInv, Grows, trackerVars, links
  <2>2. PICK index : index = Index({"bugzilla"})
    OBVIOUS
  <2>3. TrueIndex(index, {"bugzilla"})'
    BY <2>1, <2>2, IndexIsTrue, IndexKeeps
  <2>4. job' = [at |-> "bugs", index |-> index, bugs |-> {}, mail |-> {}]
    BY <1>1, <2>2 DEF StartLinker
  <2>5. JobInv'
    BY <2>3, <2>4 DEF JobInv, TrueIndex
  <2> QED
    BY <2>1, <2>5, LinksKeep
<1>2. CASE LinkBugs
  <2>1. Grows /\ TablesInv' /\ UNCHANGED <<bugLinks, mailLinks, nodes>>
    BY <1>2 DEF LinkBugs, TablesInv, Grows, trackerVars, links
  <2>2. ASSUME NEW l \in BugLinks(job.index) PROVE TrueLink(l)
    <3>1. PICK c \in Bodies : \E r \in world.cites[c] \cap DOMAIN job.index :
                 l = Link(c, job.index[r], "closes", "trailer")
      BY DEF BugLinks
    <3>2. PICK r \in world.cites[c] \cap DOMAIN job.index :
                 l = Link(c, job.index[r], "closes", "trailer")
      BY <3>1
    <3>3. r[1] = "bugzilla" /\ job.index[r] \in DOMAIN bug /\ bug[job.index[r]] = r
      BY <1>2 DEF LinkBugs, JobInv, TrueIndex
    <3>4. c \in Commits /\ commitRow[c] = "full"
      BY DEF Bodies
    <3> QED
      BY <3>2, <3>3, <3>4 DEF Link, TrueLink, PassesAudit
  <2>3. /\ DOMAIN job = {"at", "index", "bugs", "mail"}
        /\ job' = [job EXCEPT !.at = "mail", !.bugs = BugLinks(job.index)]
    BY <1>2 DEF LinkBugs, JobInv
  <2>4. /\ DOMAIN job' = {"at", "index", "bugs", "mail"}
        /\ job'.at = "mail" /\ job'.bugs = BugLinks(job.index)
        /\ job'.index = job.index /\ job'.mail = job.mail
    BY <2>3
  <2>5. PICK index, found : index = job.index /\ found = BugLinks(job.index)
    OBVIOUS
  <2>6. TrueIndex(index, {"bugzilla"}) /\ \A p \in job'.mail : TrueMail(p)
    BY <1>2, <2>4, <2>5 DEF LinkBugs, JobInv
  <2>7. TrueIndex(index, {"bugzilla"})'
    BY <2>1, <2>6, IndexKeeps
  <2>8. (\A p \in job'.mail : TrueMail(p)') /\ (\A l \in found : TrueLink(l)')
    BY <2>1, <2>2, <2>5, <2>6, LinkKeeps, MailKeeps
  <2>9. JobInv'
    BY <2>4, <2>5, <2>7, <2>8 DEF JobInv, TrueIndex
  <2> QED
    BY <2>1, <2>9, LinksKeep
<1>3. CASE LinkMail
  <2>1. Grows /\ TablesInv' /\ UNCHANGED <<bugLinks, mailLinks, nodes>>
    BY <1>3 DEF LinkMail, TablesInv, Grows, trackerVars, links
  <2>2. PICK index, kept, found :
          /\ index = job.index /\ kept = job.bugs
          /\ found = UNION {{<<c, m>> : m \in {n \in mail : <<"lore", n>> \in world.cites[c]}} : c \in Bodies}
    OBVIOUS
  <2>3. ASSUME NEW p \in found PROVE TrueMail(p)
    <3>1. PICK c \in Bodies : p \in {<<c, m>> : m \in {n \in mail : <<"lore", n>> \in world.cites[c]}}
      BY <2>2
    <3>2. PICK m \in mail : p = <<c, m>> /\ <<"lore", m>> \in world.cites[c]
      BY <3>1
    <3>3. p[1] = c /\ p[2] = m
      BY <3>2
    <3> QED
      BY <3>2, <3>3 DEF TrueMail
  <2>4. DOMAIN job = {"at", "index", "bugs", "mail"}
    BY <1>3 DEF LinkMail, JobInv
  <2>5. job' = [job EXCEPT !.at = "stubs", !.mail = found]
    BY <1>3, <2>2 DEF LinkMail
  <2>6. /\ DOMAIN job' = {"at", "index", "bugs", "mail"}
        /\ job'.at = "stubs" /\ job'.mail = found
        /\ job'.index = index /\ job'.bugs = kept
    BY <2>2, <2>4, <2>5
  <2>7. TrueIndex(index, {"bugzilla"}) /\ \A l \in kept : TrueLink(l)
    BY <1>3, <2>2 DEF LinkMail, JobInv
  <2>8. TrueIndex(index, {"bugzilla"})'
    BY <2>1, <2>7, IndexKeeps
  <2>9. (\A p \in found : TrueMail(p)') /\ (\A l \in kept : TrueLink(l)')
    BY <2>1, <2>3, <2>7, LinkKeeps, MailKeeps
  <2>10. JobInv'
    BY <2>6, <2>8, <2>9 DEF JobInv, TrueIndex
  <2> QED
    BY <2>1, <2>10, LinksKeep
<1>4. CASE LinkStubs
  <2>1. Grows /\ TablesInv' /\ UNCHANGED nodes
    BY <1>4 DEF LinkStubs, TablesInv, Grows, tables
  <2>2. job' = Idle /\ bugLinks' = Insert(bugLinks, job.bugs) /\ mailLinks' = mailLinks \cup job.mail
    BY <1>4 DEF LinkStubs
  <2>3. /\ \A l \in bugLinks' : l \in bugLinks \/ l \in job.bugs
        /\ \A l \in job.bugs : TrueLink(l)
        /\ \A p \in job.mail : TrueMail(p)
    BY <1>4, <2>2, InsertAdds DEF LinkStubs, JobInv
  <2>4. LinksInv'
    BY <2>1, <2>2, <2>3, LinkKeeps, MailKeeps DEF LinksInv, Grows
  <2> QED
    BY <2>1, <2>2, <2>4 DEF JobInv, Idle
<1>5. CASE LinkerFails
  <2>1. Grows /\ TablesInv' /\ UNCHANGED <<bugLinks, mailLinks, nodes>> /\ job' = Idle
    BY <1>5 DEF LinkerFails, TablesInv, Grows, tables, links
  <2> QED
    BY <2>1, LinksKeep DEF JobInv, Idle
<1> QED
  BY <1>1, <1>2, <1>3, <1>4, <1>5 DEF Linker

(* link_gitee_atomgit_bugs                                                 *)
LEMMA IssueLinkerKeeps ==
  ASSUME TruthInv, StartIssueLinker \/ IssueLinker
  PROVE  TruthInv'
<1> USE DEF TruthInv
<1>1. CASE StartIssueLinker
  <2>1. Grows /\ TablesInv' /\ UNCHANGED <<bugLinks, mailLinks, nodes>>
    BY <1>1 DEF StartIssueLinker, TablesInv, Grows, trackerVars, links
  <2>2. JobInv'
    BY <1>1, <2>1, IndexIsTrue, IndexKeeps DEF StartIssueLinker, JobInv
  <2> QED
    BY <2>1, <2>2, LinksKeep
<1>2. CASE ReadIssuePairs
  <2>1. Grows /\ TablesInv' /\ UNCHANGED <<bugLinks, mailLinks, nodes>>
    BY <1>2 DEF ReadIssuePairs, TablesInv, Grows, trackerVars, links
  <2>2. PICK index, pairs :
          /\ index = job.index
          /\ pairs = UNION {{<<c, r>> : r \in {q \in world.cites[c] : q[1] \in Trackers}} : c \in Bodies}
    OBVIOUS
  <2>3. \A p \in pairs : TruePair(p)
    BY <2>2 DEF TruePair, Bodies
  <2>4. DOMAIN job = {"at", "index", "pairs"}
    BY <1>2 DEF ReadIssuePairs, JobInv
  <2>5. job' = [job EXCEPT !.at = "insert", !.pairs = pairs]
    BY <1>2, <2>2 DEF ReadIssuePairs
  <2>6. /\ DOMAIN job' = {"at", "index", "pairs"}
        /\ job'.at = "insert" /\ job'.pairs = pairs /\ job'.index = index
    BY <2>2, <2>4, <2>5
  <2>7. TrueIndex(index, Trackers)
    BY <1>2, <2>2 DEF ReadIssuePairs, JobInv
  <2>8. TrueIndex(index, Trackers)'
    BY <2>1, <2>7, IndexKeeps
  <2>9. \A p \in pairs : TruePair(p)'
    BY <2>1, <2>3, PairKeeps
  <2>10. JobInv'
    BY <2>6, <2>8, <2>9 DEF JobInv, TrueIndex
  <2> QED
    BY <2>1, <2>10, LinksKeep
<1>3. CASE InsertIssueLinks
  <2>1. Grows /\ TablesInv' /\ UNCHANGED <<mailLinks, nodes>>
    BY <1>3 DEF InsertIssueLinks, TablesInv, Grows, trackerVars
  <2>2. ASSUME NEW l \in bugLinks', l \notin bugLinks PROVE TrueLink(l)
    <3>1. l \in {Link(p[1], job.index[p[2]], "trailer", p[2][1]) :
                   p \in {q \in job.pairs : q[2] \in DOMAIN job.index}}
      BY <1>3, <2>2, InsertAdds DEF InsertIssueLinks
    <3>2. PICK p \in job.pairs : /\ p[2] \in DOMAIN job.index
                                 /\ l = Link(p[1], job.index[p[2]], "trailer", p[2][1])
      BY <3>1
    <3>3. /\ p[2][1] \in Trackers /\ job.index[p[2]] \in DOMAIN bug
          /\ bug[job.index[p[2]]] = p[2] /\ TruePair(p)
      BY <1>3, <3>2 DEF InsertIssueLinks, JobInv, TrueIndex
    <3> QED
      BY <3>2, <3>3 DEF Link, TruePair, TrueLink, PassesAudit, Trackers
  <2>3. LinksInv'
    BY <2>1, <2>2, LinkKeeps, MailKeeps DEF LinksInv, Grows
  <2>4. JobInv'
    BY <1>3 DEF InsertIssueLinks, JobInv, Idle
  <2> QED
    BY <2>1, <2>3, <2>4
<1> QED
  BY <1>1, <1>2, <1>3 DEF IssueLinker

(* The tagger and Neo4j read the tables; only the nodes are theirs.        *)
LEMMA OthersKeep ==
  ASSUME TruthInv, Tagger \/ Neo4j
  PROVE  TruthInv'
<1> USE DEF TruthInv
<1>1. Grows /\ TablesInv' /\ UNCHANGED <<commitRow, bugLinks, mailLinks>>
  <2>1. CASE Tagger
    BY <2>1 DEF Tagger, StartTagger, TagPage, EndTagger, TaggerDies, TablesInv, Grows,
                trackerVars, tables, links
  <2>2. CASE Neo4j
    BY <2>2 DEF Neo4j, ClearGraph, LoadCommits, LoadBugsRaises, StartReconcile, Compare,
                EndReconcile, TablesInv, Grows, trackerVars, links
  <2> QED
    BY <2>1, <2>2
<1>2. nodes' \subseteq Commits /\ \A c \in nodes' : commitRow'[c] \in {"full", "bare"}
  <2>1. nodes' \in {nodes, {}, GraphNodes}
    BY DEF Tagger, StartTagger, TagPage, EndTagger, TaggerDies, Neo4j, ClearGraph, LoadCommits,
           LoadBugsRaises, StartReconcile, Compare, EndReconcile
  <2> QED
    BY <1>1, <2>1 DEF LinksInv, GraphNodes
<1>3. LinksInv'
  BY <1>1, <1>2, LinkKeeps, MailKeeps DEF LinksInv
<1>4. /\ "at" \in DOMAIN job'
      /\ job'.at \notin {"bugs", "mail", "stubs", "issues", "insert"}
  <2>1. CASE StartTagger \/ TagPage \/ EndTagger \/ TaggerDies
    BY <2>1 DEF StartTagger, TagPage, EndTagger, TaggerDies, Idle, JobInv
  <2>2. CASE Compare
    BY <2>2 DEF Compare, JobInv
  <2>3. CASE ClearGraph \/ LoadCommits \/ LoadBugsRaises \/ StartReconcile \/ EndReconcile
    BY <2>3 DEF ClearGraph, LoadCommits, LoadBugsRaises, StartReconcile, EndReconcile, Idle
  <2> QED
    BY <2>1, <2>2, <2>3 DEF Tagger, Neo4j
<1>5. JobInv'
  BY <1>4 DEF JobInv
<1> QED
  BY <1>1, <1>3, <1>5

LEMMA NextTruth == TruthInv /\ [Next]_vars => TruthInv'
<1> SUFFICES ASSUME TruthInv, [Next]_vars PROVE TruthInv'
  OBVIOUS
<1>1. CASE TrackerNext /\ UNCHANGED graphVars
  <2>1. Grows /\ commitRow' = commitRow /\ bug' \in Seq(ToSet(bug'))
    BY <1>1, TrackersGrow DEF TruthInv
  <2>2. TablesInv' /\ UNCHANGED <<bugLinks, mailLinks, nodes, job>>
    BY <1>1, <2>1 DEF TruthInv, TablesInv, graphVars, links
  <2> QED
    BY <2>1, <2>2, LinksKeep, JobKeeps DEF TruthInv
<1>2. CASE UNCHANGED vars
  <2>1. Grows /\ TablesInv' /\ UNCHANGED <<bugLinks, mailLinks, nodes, job>>
    BY <1>2 DEF vars, trackerVars, graphVars, links, Grows, TruthInv, TablesInv
  <2> QED
    BY <2>1, LinksKeep, JobKeeps DEF TruthInv
<1> QED
  BY <1>1, <1>2, IngestKeeps, StatementsKeep, LinkerKeeps, IssueLinkerKeeps, OthersKeep
     DEF Next, Job

(* Every link between a commit and a bug that the linker wrote passes the   *)
(* audit, every linked message is cited, and no node of Neo4j is a stub:    *)
(* run_linker and link_gitee_atomgit_bugs insert what they computed from    *)
(* rows read earlier (src/graph/linker.py), and it is still true.     *)
THEOREM LinksAreTrue == Spec => []GraphIsTrue
<1>1. TruthInv => GraphIsTrue
  BY DEF TruthInv, LinksInv, TrueLink, TrueMail, GraphIsTrue
<1> QED
  BY <1>1, InitTruth, NextTruth, PTL DEF Spec

----------------------------------------------------------------------------
(* Bugzilla and NVD.                                                       *)

(* What the assumptions say of the sizes and of a world.                   *)
LEMMA Sizes ==
  /\ Ticks \in Nat \ {0} /\ Window \in Nat \ {0} /\ PageSize \in Nat \ {0}
  /\ SaveEvery \in Nat \ {0} /\ MaxPerRun \in Nat \ {0}
  /\ Commits \subseteq Nat /\ IsFiniteSet(Commits)
BY TrackerAssumption DEF TrackerAssumption

LEMMA WorldIsFinite ==
  ASSUME NEW w \in Worlds
  PROVE  /\ w.bugzilla \in SUBSET Nat /\ IsFiniteSet(w.bugzilla)
         /\ w.nvd \in SUBSET Nat /\ IsFiniteSet(w.nvd)
         /\ w.crashes \in SUBSET Nat /\ IsFiniteSet(w.crashes)
         /\ w.span \in Nat /\ DOMAIN w.cites \subseteq Commits
BY TrackerAssumption DEF TrackerAssumption

(* What a crawl owes an entry that changed before the cursor.              *)
Covered(s, x) ==
  \/ stored[s][x] = remote[s][x].ver
  \/ <<s, x, remote[s][x].ver>> \in quarantined
  \/ <<s, x>> \in missed

Row == [ver : Nat, at : Nat]
Run(s) == [at : {"fetch", "store"}, from : Nat, to : Nat, start : Nat, offset : Nat,
           newest : Nat, batch : Seq(Entries(s) \X Row), last : BOOLEAN]

(* A bug that changed since its crawl began: a midnight may pass it over.  *)
Late(s, c, x) == s = "bugzilla" /\ remote[s][x].at >= c.start

(* An entry the crawl still has to store: in the batch as it is now, or on *)
(* a page to come.                                                         *)
InBatch(s, c, x) == \E p \in ToSet(c.batch) : p[1] = x /\ p[2].ver = remote[s][x].ver
Ahead(s, c, x) == (c.at = "fetch" \/ ~ c.last) /\ c.offset <= Cardinality(Before(Changed(s, c), x))

RowsInv(s) ==
  /\ remote[s] \in [Entries(s) -> Row] /\ stored[s] \in [Entries(s) -> Nat]
  /\ cursor[s] \in Nat /\ cursor[s] <= clock
  /\ \A x \in Entries(s) : stored[s][x] <= remote[s][x].ver /\ remote[s][x].at <= clock
  /\ \A x \in Entries(s) : remote[s][x].at < Since(s, cursor[s]) => Covered(s, x)

(* The windows of a run, and the times it has seen.                        *)
TimesInv(s, c) ==
  /\ c.from <= clock /\ c.start <= clock /\ c.newest <= clock
  /\ s = "bugzilla" => c.to = world.span
  /\ s = "nvd" => c.start < clock /\ c.from <= c.to /\ c.to <= c.start /\ c.newest <= c.to

BatchInv(s, c) ==
  /\ c.at = "fetch" => c.batch = <<>>
  /\ \A p \in ToSet(c.batch) :
       /\ stored[s][p[1]] <= p[2].ver /\ p[2].ver <= remote[s][p[1]].ver
       /\ p[2].at <= clock /\ (s = "nvd" => p[2].at <= c.to)
  /\ \A p, q \in ToSet(c.batch) : p[1] = q[1] => p[2].ver = q[2].ver

(* No entry is forgotten: not one before the window, nor one in it.        *)
ReachInv(s, c) ==
  /\ \A x \in Entries(s) : remote[s][x].at < Since(s, c.from) => Covered(s, x)
  /\ \A x \in Changed(s, c) : Late(s, c, x) \/ Covered(s, x) \/ InBatch(s, c, x) \/ Ahead(s, c, x)
  /\ \A x \in Entries(s) : Late(s, c, x) /\ remote[s][x].at < Since(s, clock) => <<s, x>> \in missed

RunInv(s, c) == c \in Run(s) /\ TimesInv(s, c) /\ BatchInv(s, c) /\ ReachInv(s, c)

CrawlInv ==
  /\ world \in Worlds /\ clock \in Nat /\ clock <= world.span
  /\ DOMAIN remote = Crawled /\ DOMAIN stored = Crawled /\ DOMAIN cursor = Crawled
  /\ DOMAIN crawl = Crawled
  /\ \A s \in Crawled : RowsInv(s) /\ (crawl[s].at = "idle" \/ RunInv(s, crawl[s]))

----------------------------------------------------------------------------
(* A query that is asked from a date or a time asks from no later than it, *)
(* and from later when the time is later.                                  *)
LEMMA DayIsBefore ==
  ASSUME NEW t \in Nat
  PROVE  (t \div Ticks) * Ticks \in Nat /\ (t \div Ticks) * Ticks <= t
<1>1. Ticks \in Nat /\ Ticks > 0
  BY Sizes
<1> QED
  BY <1>1

LEMMA SinceIsBefore ==
  ASSUME NEW s, NEW t \in Nat
  PROVE  Since(s, t) \in Nat /\ Since(s, t) <= t
BY DayIsBefore DEF Since

LEMMA SinceGrows ==
  ASSUME NEW s, NEW t \in Nat, NEW u \in Nat, t <= u
  PROVE  Since(s, t) <= Since(s, u)
<1>1. Ticks \in Nat /\ Ticks > 0
  BY Sizes
<1>2. t \div Ticks <= u \div Ticks /\ t \div Ticks \in Nat /\ u \div Ticks \in Nat
  BY <1>1
<1>3. (t \div Ticks) * Ticks <= (u \div Ticks) * Ticks
  BY <1>1, <1>2
<1> QED
  BY <1>3 DEF Since

(* Within a day the date is the same.                                      *)
LEMMA SameDay ==
  ASSUME NEW s, NEW t \in Nat, (t + 1) % Ticks # 0, s = "bugzilla"
  PROVE  Since(s, t + 1) = Since(s, t)
<1>1. Ticks \in Nat /\ Ticks > 0
  BY Sizes
<1>2. (t + 1) \div Ticks = t \div Ticks
  BY <1>1
<1> QED
  BY <1>2 DEF Since

LEMMA EntriesFinite ==
  ASSUME CrawlInv, NEW s \in Crawled
  PROVE  Entries(s) \in SUBSET Nat /\ IsFiniteSet(Entries(s))
<1>1. CASE s = "bugzilla"
  BY <1>1, WorldIsFinite DEF CrawlInv, Entries
<1>2. CASE s = "nvd"
  BY <1>2, WorldIsFinite DEF CrawlInv, Entries
<1> QED
  BY <1>1, <1>2 DEF Crawled

(* The rows of a crawl's source that no step of its own touched.           *)
LEMMA CoveredKeeps ==
  ASSUME NEW s, NEW x,
         remote'[s] = remote[s], stored'[s] = stored[s],
         quarantined \subseteq quarantined', missed \subseteq missed', Covered(s, x)
  PROVE  Covered(s, x)'
BY DEF Covered

LEMMA RowsKeep ==
  ASSUME CrawlInv, NEW s \in Crawled,
         world' = world, clock' \in Nat, clock <= clock',
         remote'[s] = remote[s], stored'[s] = stored[s], cursor'[s] = cursor[s],
         quarantined \subseteq quarantined', missed \subseteq missed'
  PROVE  RowsInv(s)'
<1>1. Entries(s)' = Entries(s)
  BY DEF Entries
<1>2. RowsInv(s)
  BY DEF CrawlInv
<1>3. \A x \in Entries(s) : remote[s][x].at \in Nat
  BY <1>2 DEF RowsInv, Row
<1>4. cursor'[s] \in Nat /\ cursor'[s] <= clock'
      /\ \A x \in Entries(s) : remote[s][x].at <= clock'
  BY <1>2, <1>3 DEF RowsInv, CrawlInv
<1>5. \A x \in Entries(s) : remote[s][x].at < Since(s, cursor[s]) => Covered(s, x)'
  BY <1>2, CoveredKeeps DEF RowsInv
<1> QED
  BY <1>1, <1>2, <1>4, <1>5 DEF RowsInv, Since

(* What others do disturbs neither the rows of a source nor its run.       *)
LEMMA CrawlQuiet ==
  ASSUME CrawlInv, NEW s \in Crawled,
         world' = world, clock' \in Nat, clock <= clock',
         remote'[s] = remote[s], stored'[s] = stored[s], cursor'[s] = cursor[s],
         crawl'[s] = crawl[s],
         quarantined \subseteq quarantined', missed \subseteq missed',
         crawl[s].at = "idle"
           \/ \A x \in Entries(s) : Late(s, crawl[s], x) /\ remote[s][x].at < Since(s, clock')
                                     => <<s, x>> \in missed'
  PROVE  RowsInv(s)' /\ (crawl'[s].at = "idle" \/ RunInv(s, crawl[s])')
<1>1. Entries(s)' = Entries(s) /\ world' = world
  BY DEF Entries
<1>2. RowsInv(s)'
  BY RowsKeep
<1>3. ASSUME crawl[s].at # "idle" PROVE RunInv(s, crawl[s])'
  <2>1. PICK c : c = crawl[s]
    OBVIOUS
  <2>2. RunInv(s, c)
    BY <1>3, <2>1 DEF CrawlInv
  <2>3. c \in Run(s)' /\ c \in Run(s)
    BY <1>1, <2>2 DEF Run, RunInv
  <2>4. TimesInv(s, c)'
    BY <1>1, <2>2, <2>3 DEF RunInv, TimesInv, Run, CrawlInv
  <2>5. BatchInv(s, c)'
    <3>1. ASSUME NEW p \in ToSet(c.batch) PROVE p[2].at <= clock'
      <4>1. c.batch \in Seq(Entries(s) \X Row)
        BY <2>3 DEF Run
      <4>2. p \in Entries(s) \X Row
        BY <4>1 DEF ToSet
      <4>3. p[2].at \in Nat /\ p[2].at <= clock
        BY <2>2, <4>2 DEF RunInv, BatchInv, Row
      <4> QED
        BY <4>3 DEF CrawlInv
    <3> QED
      BY <2>2, <3>1 DEF RunInv, BatchInv
  <2>6. ReachInv(s, c)'
    <3>1. Changed(s, c)' = Changed(s, c)
      BY <1>1 DEF Changed, Since
    <3>2. \A x : /\ Late(s, c, x)' = Late(s, c, x) /\ InBatch(s, c, x)' = InBatch(s, c, x)
                 /\ Ahead(s, c, x)' = Ahead(s, c, x)
      BY <3>1 DEF Late, InBatch, Ahead
    <3>3. \A x \in Entries(s) : remote[s][x].at < Since(s, c.from) => Covered(s, x)'
      BY <2>2, CoveredKeeps DEF RunInv, ReachInv
    <3>4. \A x \in Changed(s, c) : \/ Late(s, c, x) \/ Covered(s, x)'
                                    \/ InBatch(s, c, x) \/ Ahead(s, c, x)
      BY <2>2, CoveredKeeps DEF RunInv, ReachInv
    <3>5. \A x \in Entries(s) : Late(s, c, x) /\ remote[s][x].at < Since(s, clock')
                                   => <<s, x>> \in missed'
      BY <1>3, <2>1
    <3> QED
      BY <1>1, <3>1, <3>2, <3>3, <3>4, <3>5 DEF ReachInv, Since
  <2> QED
    BY <2>1, <2>3, <2>4, <2>5, <2>6 DEF RunInv
<1> QED
  BY <1>2, <1>3

(* A step of one crawl keeps the invariant if it keeps its own part: the   *)
(* other crawl has its own rows, and where the clock moves it is idle.     *)
LEMMA Alone ==
  ASSUME CrawlInv, NEW s \in Crawled,
         world' = world, clock' \in Nat, clock <= clock', clock' <= world.span,
         DOMAIN remote' = Crawled, DOMAIN stored' = Crawled, DOMAIN cursor' = Crawled,
         DOMAIN crawl' = Crawled,
         \A o \in Crawled \ {s} : /\ remote'[o] = remote[o] /\ stored'[o] = stored[o]
                                  /\ cursor'[o] = cursor[o] /\ crawl'[o] = crawl[o],
         clock' = clock \/ \A o \in Crawled : crawl[o].at = "idle",
         quarantined \subseteq quarantined', missed \subseteq missed',
         RowsInv(s)', crawl'[s].at = "idle" \/ RunInv(s, crawl[s])'
  PROVE  CrawlInv'
<1>1. ASSUME NEW o \in Crawled, o # s
      PROVE  RowsInv(o)' /\ (crawl'[o].at = "idle" \/ RunInv(o, crawl[o])')
  <2>1. \/ crawl[o].at = "idle"
        \/ \A x \in Entries(o) : Late(o, crawl[o], x) /\ remote[o][x].at < Since(o, clock')
                                  => <<o, x>> \in missed'
    BY DEF CrawlInv, RunInv, ReachInv
  <2> QED
    BY <1>1, <2>1, CrawlQuiet
<1> QED
  BY <1>1 DEF CrawlInv

LEMMA ChangedFinite ==
  ASSUME CrawlInv, NEW s \in Crawled, NEW c
  PROVE  /\ Changed(s, c) \in SUBSET Nat /\ IsFiniteSet(Changed(s, c))
         /\ \A x \in Changed(s, c) : Cardinality(Before(Changed(s, c), x)) \in Nat
<1>1. Entries(s) \in SUBSET Nat /\ IsFiniteSet(Entries(s)) /\ Changed(s, c) \subseteq Entries(s)
  BY EntriesFinite DEF Changed
<1>2. IsFiniteSet(Changed(s, c)) /\ Changed(s, c) \in SUBSET Nat
  BY <1>1, FS_Subset
<1> QED
  BY <1>2, RankType

LEMMA MinOfTwo ==
  ASSUME NEW a \in Nat, NEW b \in Nat
  PROVE  Min({a, b}) = IF a <= b THEN a ELSE b
BY DEF Min

LEMMA SubSeqIs ==
  ASSUME NEW S, NEW list \in Seq(S), NEW o \in Nat, NEW m \in Nat, m <= Len(list)
  PROVE  /\ SubSeq(list, o + 1, m) \in Seq(S)
         /\ Len(SubSeq(list, o + 1, m)) = IF o + 1 <= m THEN m - o ELSE 0
         /\ \A i \in 1..Len(SubSeq(list, o + 1, m)) : SubSeq(list, o + 1, m)[i] = list[o + i]
OBVIOUS

(* What a slice of a list is, without Min.                                 *)
LEMMA SliceIs ==
  ASSUME NEW S, NEW list \in Seq(S), NEW offset \in Nat, NEW size \in Nat
  PROVE  \E m \in Nat :
           /\ m <= Len(list) /\ m <= offset + size /\ (m = offset + size \/ m = Len(list))
           /\ Slice(list, offset, size) \in Seq(S) /\ Len(Slice(list, offset, size)) \in Nat
           /\ m <= offset => Len(Slice(list, offset, size)) = 0
           /\ m > offset => Len(Slice(list, offset, size)) = m - offset
           /\ \A i \in 1..Len(Slice(list, offset, size)) : Slice(list, offset, size)[i] = list[offset + i]
<1>1. PICK m : m = Min({offset + size, Len(list)})
  OBVIOUS
<1>2. /\ m \in Nat /\ m <= Len(list) /\ m <= offset + size
      /\ m = offset + size \/ m = Len(list)
  BY <1>1, MinOfTwo
<1>3. Slice(list, offset, size) = SubSeq(list, offset + 1, m)
  BY <1>1 DEF Slice
<1>4. offset + 1 <= m <=> m > offset
  BY <1>2
<1> QED
  BY <1>2, <1>3, <1>4, SubSeqIs

(* A page holds the numbers whose turn it is: one that was ahead is on it, *)
(* or the page is full and it is still ahead.                              *)
LEMMA PageHolds ==
  ASSUME NEW S \in SUBSET Nat, IsFiniteSet(S), NEW offset \in Nat, NEW size \in Nat,
         NEW x \in S, offset <= Cardinality(Before(S, x)),
         x \notin ToSet(Slice(InOrder(S), offset, size))
  PROVE  /\ Len(Slice(InOrder(S), offset, size)) = size
         /\ offset + size <= Cardinality(Before(S, x))
         /\ Cardinality(Before(S, x)) < Len(InOrder(S))
<1>1. PICK list, page : list = InOrder(S) /\ page = Slice(list, offset, size)
  OBVIOUS
<1>2. list \in Seq(S) /\ Len(list) \in Nat
  BY <1>1, InOrderLists
<1>3. PICK k \in Nat : k = Cardinality(Before(S, x)) /\ k < Len(list) /\ list[k + 1] = x
  BY <1>1, InOrderLists, RankType
<1>4. PICK m \in Nat :
        /\ m <= Len(list) /\ m <= offset + size /\ (m = offset + size \/ m = Len(list))
        /\ page \in Seq(S) /\ Len(page) \in Nat
        /\ m <= offset => Len(page) = 0
        /\ m > offset => Len(page) = m - offset
        /\ \A i \in 1..Len(page) : page[i] = list[offset + i]
  <2>1. \E m \in Nat :
          /\ m <= Len(list) /\ m <= offset + size /\ (m = offset + size \/ m = Len(list))
          /\ Slice(list, offset, size) \in Seq(S) /\ Len(Slice(list, offset, size)) \in Nat
          /\ m <= offset => Len(Slice(list, offset, size)) = 0
          /\ m > offset => Len(Slice(list, offset, size)) = m - offset
          /\ \A i \in 1..Len(Slice(list, offset, size)) :
               Slice(list, offset, size)[i] = list[offset + i]
    BY <1>2, SliceIs
  <2> QED
    BY <1>1, <2>1
<1>5. offset <= k /\ x \notin ToSet(page)
  BY <1>1, <1>3
<1>6. ~ (k + 1 <= m)
  <2> SUFFICES ASSUME k + 1 <= m PROVE FALSE
    OBVIOUS
  <2>1. PICK i \in 1..Len(page) : i = k + 1 - offset
    BY <1>4, <1>5
  <2>2. page[i] = x /\ DOMAIN page = 1..Len(page)
    BY <1>3, <1>4, <1>5, <2>1
  <2> QED
    BY <1>5, <2>2 DEF ToSet
<1>7. m = offset + size /\ m <= k
  <2>1. m <= k
    BY <1>6
  <2>2. m # Len(list)
    BY <1>2, <1>3, <2>1
  <2> QED
    BY <1>4, <2>1, <2>2
<1>8. Len(page) = size
  <2>1. CASE size = 0
    BY <1>4, <1>7, <2>1
  <2>2. CASE size > 0
    <3>1. m > offset /\ m - offset = size
      BY <1>7, <2>2
    <3> QED
      BY <1>4, <3>1
  <2> QED
    BY <2>1, <2>2
<1> QED
  BY <1>1, <1>3, <1>7, <1>8

----------------------------------------------------------------------------
(* What a run's fields are.                                                *)
LEMMA RunFields ==
  ASSUME NEW s, NEW c \in Run(s)
  PROVE  /\ c.at \in {"fetch", "store"} /\ c.from \in Nat /\ c.to \in Nat /\ c.start \in Nat
         /\ c.offset \in Nat /\ c.newest \in Nat /\ c.batch \in Seq(Entries(s) \X Row)
BY DEF Run

LEMMA RowFields ==
  ASSUME CrawlInv, NEW s \in Crawled, NEW x \in Entries(s)
  PROVE  /\ remote[s][x].ver \in Nat /\ remote[s][x].at \in Nat /\ remote[s][x].at <= clock
         /\ stored[s][x] \in Nat /\ stored[s][x] <= remote[s][x].ver
<1>1. RowsInv(s)
  BY DEF CrawlInv
<1> QED
  BY <1>1 DEF RowsInv, Row

(* A run asks from its cursor on: what is before it is covered.            *)
LEMMA StartCrawlKeeps ==
  ASSUME CrawlInv, NEW s \in Crawled, StartCrawl(s)
  PROVE  CrawlInv'
<1>1. PICK to : to = WindowEnd(s, cursor[s], clock)
  OBVIOUS
<1>2. PICK r : r = [at |-> "fetch", from |-> cursor[s], to |-> to, start |-> clock, offset |-> 0,
                    newest |-> cursor[s], batch |-> <<>>, last |-> FALSE]
  OBVIOUS
<1>3. /\ crawl' = [crawl EXCEPT ![s] = r]
      /\ UNCHANGED <<world, remote, stored, cursor, missed, quarantined>>
      /\ \A o \in Crawled : crawl[o].at = "idle"
      /\ clock' = IF s = "nvd" THEN clock + 1 ELSE clock
      /\ s = "nvd" => cursor[s] < clock /\ clock < world.span
  BY <1>1, <1>2 DEF StartCrawl, CrawlStep, AllIdle
<1>4. /\ clock \in Nat /\ cursor[s] \in Nat /\ cursor[s] <= clock /\ world.span \in Nat
      /\ clock <= world.span /\ RowsInv(s)
  BY WorldIsFinite DEF CrawlInv, RowsInv
<1>5. /\ clock' \in Nat /\ clock <= clock' /\ clock' <= world.span
      /\ s = "bugzilla" => clock' = clock
      /\ s = "nvd" => clock < clock'
  BY <1>3, <1>4
<1>6. /\ to \in Nat
      /\ s = "bugzilla" => to = world.span
      /\ s = "nvd" => cursor[s] <= to /\ to <= clock
  <2>1. CASE s = "bugzilla"
    BY <1>1, <1>4, <2>1 DEF WindowEnd
  <2>2. CASE s = "nvd"
    <3>1. to = Min({cursor[s] + Window, clock})
      BY <1>1, <2>2 DEF WindowEnd
    <3>2. to = IF cursor[s] + Window <= clock THEN cursor[s] + Window ELSE clock
      BY <1>4, <3>1, MinOfTwo, Sizes
    <3> QED
      BY <1>4, <2>2, <3>2, Sizes
  <2> QED
    BY <2>1, <2>2 DEF Crawled
<1>7. r \in Run(s)' /\ r \in Run(s)
  BY <1>2, <1>3, <1>4, <1>6 DEF Run, Entries
<1>8. TimesInv(s, r)'
  BY <1>2, <1>3, <1>4, <1>5, <1>6 DEF TimesInv
<1>9. BatchInv(s, r)'
  BY <1>2 DEF BatchInv, ToSet
<1>10. ReachInv(s, r)'
  <2>1. /\ Entries(s)' = Entries(s) /\ Changed(s, r)' = Changed(s, r)
        /\ \A x : Covered(s, x)' = Covered(s, x)
    BY <1>3 DEF Entries, Changed, Since, Covered
  <2>2. \A x \in Entries(s) : remote[s][x].at < Since(s, r.from) => Covered(s, x)
    BY <1>2, <1>4 DEF RowsInv
  <2>3. \A x \in Changed(s, r) : 0 <= Cardinality(Before(Changed(s, r), x))
    <3>1. \A x \in Changed(s, r) : Cardinality(Before(Changed(s, r), x)) \in Nat
      BY ChangedFinite
    <3> QED
      BY <3>1
  <2>4. \A x \in Changed(s, r) : Ahead(s, r, x)'
    BY <1>2, <2>1, <2>3 DEF Ahead
  <2>5. ASSUME NEW x \in Entries(s), Late(s, r, x) PROVE ~ (remote[s][x].at < Since(s, clock'))
    <3>1. s = "bugzilla" /\ clock <= remote[s][x].at /\ remote[s][x].at \in Nat
      BY <1>2, <2>5, RowFields DEF Late
    <3>2. Since(s, clock) \in Nat /\ Since(s, clock) <= clock
      BY <1>4, SinceIsBefore
    <3> QED
      BY <1>4, <1>5, <3>1, <3>2
  <2> QED
    BY <1>3, <2>1, <2>2, <2>4, <2>5 DEF ReachInv, Late, Since
<1>11. RunInv(s, r)'
  BY <1>7, <1>8, <1>9, <1>10 DEF RunInv
<1>12. DOMAIN crawl = Crawled /\ crawl'[s] = r /\ RunInv(s, crawl[s])'
  BY <1>3, <1>11 DEF CrawlInv
<1>13. RowsInv(s)'
  BY <1>3, <1>5, RowsKeep
<1> QED
  BY <1>3, <1>5, <1>12, <1>13, Alone DEF CrawlInv

(* A step of a run that changes no row is judged by the run it leaves.     *)
LEMMA MovesOn ==
  ASSUME CrawlInv, NEW s \in Crawled, NEW r,
         UNCHANGED <<world, clock, remote, stored, cursor, missed, quarantined>>,
         crawl' = [crawl EXCEPT ![s] = r],
         r.at = "idle" \/ RunInv(s, r)
  PROVE  CrawlInv'
<1>1. DOMAIN crawl = Crawled /\ crawl'[s] = r /\ clock \in Nat /\ clock <= clock
      /\ clock <= world.span
  BY DEF CrawlInv
<1>2. Entries(s)' = Entries(s) /\ Changed(s, r)' = Changed(s, r) /\ Run(s)' = Run(s)
  BY DEF Entries, Changed, Since, Run
<1>3. \A x : /\ Covered(s, x)' = Covered(s, x) /\ Late(s, r, x)' = Late(s, r, x)
             /\ InBatch(s, r, x)' = InBatch(s, r, x) /\ Ahead(s, r, x)' = Ahead(s, r, x)
  BY <1>2 DEF Covered, Late, InBatch, Ahead
<1>4. TimesInv(s, r)' = TimesInv(s, r) /\ BatchInv(s, r)' = BatchInv(s, r)
  BY DEF TimesInv, BatchInv
<1>5. ReachInv(s, r)' = ReachInv(s, r)
  BY <1>2, <1>3 DEF ReachInv, Since
<1>6. r.at = "idle" \/ RunInv(s, r)'
  BY <1>2, <1>4, <1>5 DEF RunInv
<1>7. crawl'[s].at = "idle" \/ RunInv(s, crawl[s])'
  BY <1>1, <1>6
<1>8. RowsInv(s)'
  BY <1>1, RowsKeep
<1> QED
  BY <1>1, <1>7, <1>8, Alone DEF CrawlInv

(* What was ahead is in the batch or still ahead; what the batch holds is  *)
(* what the tracker has now.                                               *)
LEMMA FetchPageKeeps ==
  ASSUME CrawlInv, NEW s \in Crawled, FetchPage(s)
  PROVE  CrawlInv'
<1>1. PICK c : c = crawl[s]
  OBVIOUS
<1>2. PICK S : S = Changed(s, c)
  OBVIOUS
<1>3. PICK page : page = Slice(InOrder(S), c.offset, PageSize)
  OBVIOUS
<1>4. PICK batch : batch = [i \in DOMAIN page |-> <<page[i], remote[s][page[i]]>>]
  OBVIOUS
<1>5. PICK last : last = IF s = "bugzilla" THEN Len(page) < PageSize
                         ELSE c.offset + Len(page) >= Len(InOrder(S))
  OBVIOUS
<1>6. PICK r : r = [c EXCEPT !.at = "store", !.offset = @ + Len(page), !.batch = batch, !.last = last]
  OBVIOUS
<1>7. /\ crawl' = [crawl EXCEPT ![s] = r] /\ c.at = "fetch"
      /\ UNCHANGED <<world, clock, remote, stored, cursor, missed, quarantined>>
  BY <1>1, <1>2, <1>3, <1>4, <1>5, <1>6 DEF FetchPage, CrawlStep, Listing, external
<1>8. RunInv(s, c) /\ c \in Run(s)
  BY <1>1, <1>7 DEF CrawlInv, RunInv
<1>9. /\ S \in SUBSET Nat /\ IsFiniteSet(S) /\ S \subseteq Entries(s)
      /\ \A x \in S : Cardinality(Before(S, x)) \in Nat
      /\ c.offset \in Nat /\ PageSize \in Nat
  BY <1>2, <1>8, ChangedFinite, RunFields, Sizes DEF Changed
<1>10. page \in Seq(S) /\ Len(page) \in Nat
  <2>1. InOrder(S) \in Seq(S)
    BY <1>9, InOrderLists
  <2>2. Slice(InOrder(S), c.offset, PageSize) \in Seq(S)
    BY <1>9, <2>1, SliceIs
  <2> QED
    BY <1>3, <2>2
<1>11. last \in BOOLEAN
  <2>1. (Len(page) < PageSize) \in BOOLEAN /\ (c.offset + Len(page) >= Len(InOrder(S))) \in BOOLEAN
    OBVIOUS
  <2> QED
    BY <1>5, <2>1, Zenon
<1>12. batch \in Seq(Entries(s) \X Row) /\ DOMAIN batch = DOMAIN page
  <2>1. ASSUME NEW i \in DOMAIN page PROVE page[i] \in Entries(s) /\ remote[s][page[i]] \in Row
    <3>1. remote[s] \in [Entries(s) -> Row]
      BY DEF CrawlInv, RowsInv
    <3>2. page[i] \in S
      BY <1>10
    <3> QED
      BY <1>9, <3>1, <3>2
  <2> QED
    BY <1>4, <1>10, <2>1
<1>13. r \in Run(s)
  <2>1. PICK next : next = c.offset + Len(page)
    OBVIOUS
  <2>2. next \in Nat
    BY <1>9, <1>10, <2>1
  <2>3. r = [c EXCEPT !.at = "store", !.offset = next, !.batch = batch, !.last = last]
    BY <1>6, <2>1
  <2> QED
    BY <1>8, <1>11, <1>12, <2>2, <2>3 DEF Run
<1>14. /\ r.at = "store" /\ r.from = c.from /\ r.to = c.to /\ r.start = c.start
       /\ r.newest = c.newest /\ r.offset = c.offset + Len(page)
       /\ r.batch = batch /\ r.last = last
  BY <1>6, <1>8 DEF Run
<1>15. TimesInv(s, r)
  BY <1>8, <1>14 DEF RunInv, TimesInv
<1>16. \A p \in ToSet(batch) : \E x \in S : p = <<x, remote[s][x]>>
  <2> SUFFICES ASSUME NEW i \in DOMAIN batch PROVE \E x \in S : batch[i] = <<x, remote[s][x]>>
    BY DEF ToSet
  <2>1. page[i] \in S
    BY <1>10, <1>12
  <2> QED
    BY <1>4, <1>12, <2>1
<1>17. BatchInv(s, r)
  <2>1. ASSUME NEW p \in ToSet(batch)
        PROVE  /\ stored[s][p[1]] <= p[2].ver /\ p[2].ver <= remote[s][p[1]].ver
               /\ p[2].at <= clock /\ (s = "nvd" => p[2].at <= c.to)
    <3>1. PICK x \in S : p = <<x, remote[s][x]>>
      BY <1>16
    <3>2. p[1] = x /\ p[2] = remote[s][x] /\ x \in Entries(s)
      BY <1>9, <3>1
    <3>3. remote[s][x].at <= c.to
      BY <1>2 DEF Changed
    <3> QED
      BY <3>2, <3>3, RowFields
  <2>2. \A p, q \in ToSet(batch) : p[1] = q[1] => p[2].ver = q[2].ver
    BY <1>16
  <2> QED
    BY <1>14, <2>1, <2>2 DEF BatchInv
<1>18. ReachInv(s, r)
  <2>1. Changed(s, r) = S /\ Changed(s, c) = S
    BY <1>2, <1>14 DEF Changed
  <2>2. ASSUME NEW x \in S, ~ Late(s, r, x), ~ Covered(s, x), ~ InBatch(s, r, x)
        PROVE  Ahead(s, r, x)
    <3>1. ~ Late(s, c, x)
      BY <1>14, <2>2 DEF Late
    <3>2. ~ InBatch(s, c, x)
      BY <1>7, <1>8 DEF RunInv, BatchInv, InBatch, ToSet
    <3>3. Ahead(s, c, x)
      BY <1>8, <2>1, <2>2, <3>1, <3>2 DEF RunInv, ReachInv
    <3>4. c.offset <= Cardinality(Before(S, x))
      BY <2>1, <3>3 DEF Ahead
    <3>5. x \notin ToSet(page)
      <4> SUFFICES ASSUME NEW i \in DOMAIN page, page[i] = x PROVE FALSE
        BY DEF ToSet
      <4>1. batch[i] = <<x, remote[s][x]>> /\ batch[i] \in ToSet(r.batch)
        BY <1>4, <1>12, <1>14 DEF ToSet
      <4>2. <<x, remote[s][x]>>[1] = x /\ <<x, remote[s][x]>>[2].ver = remote[s][x].ver
        OBVIOUS
      <4> QED
        BY <2>2, <4>1, <4>2 DEF InBatch
    <3>6. /\ Len(page) = PageSize /\ c.offset + PageSize <= Cardinality(Before(S, x))
          /\ Cardinality(Before(S, x)) < Len(InOrder(S))
      BY <1>3, <1>9, <3>4, <3>5, PageHolds
    <3>7. Len(InOrder(S)) \in Nat /\ Cardinality(Before(S, x)) \in Nat
      BY <1>9, InOrderLists
    <3>8. ~ (Len(page) < PageSize) /\ ~ (c.offset + Len(page) >= Len(InOrder(S)))
      BY <1>9, <3>6, <3>7
    <3>9. ~ last
      BY <1>5, <3>8
    <3> QED
      BY <1>14, <2>1, <3>6, <3>9 DEF Ahead
  <2>3. \A x \in Entries(s) : Late(s, r, x) /\ remote[s][x].at < Since(s, clock) => <<s, x>> \in missed
    BY <1>8, <1>14 DEF RunInv, ReachInv, Late
  <2>4. \A x \in Entries(s) : remote[s][x].at < Since(s, r.from) => Covered(s, x)
    BY <1>8, <1>14 DEF RunInv, ReachInv
  <2> QED
    BY <2>1, <2>2, <2>3, <2>4 DEF ReachInv
<1> QED
  BY <1>7, <1>13, <1>15, <1>17, <1>18, MovesOn DEF RunInv

LEMMA HeadAndTail ==
  ASSUME NEW T, NEW b \in Seq(T), b # <<>>
  PROVE  /\ Head(b) \in T /\ Tail(b) \in Seq(T)
         /\ ToSet(b) = {Head(b)} \cup ToSet(Tail(b))
<1>1. /\ Head(b) \in T /\ Tail(b) \in Seq(T) /\ Len(b) \in Nat /\ Len(b) > 0
      /\ Head(b) = b[1] /\ Len(Tail(b)) = Len(b) - 1
      /\ \A i \in 1..Len(Tail(b)) : Tail(b)[i] = b[i + 1]
      /\ DOMAIN b = 1..Len(b) /\ DOMAIN Tail(b) = 1..(Len(b) - 1)
  OBVIOUS
<1>2. ASSUME NEW i \in DOMAIN b PROVE b[i] = Head(b) \/ b[i] \in ToSet(Tail(b))
  <2>1. CASE i = 1
    BY <1>1, <2>1
  <2>2. CASE i # 1
    <3>1. i \in 1..Len(b) /\ Len(b) \in Nat
      BY <1>1
    <3>2. i - 1 \in 1..(Len(b) - 1) /\ (i - 1) + 1 = i
      BY <2>2, <3>1
    <3>3. PICK j : j = i - 1
      OBVIOUS
    <3>4. j \in DOMAIN Tail(b) /\ b[i] = Tail(b)[j]
      BY <1>1, <3>2, <3>3
    <3> QED
      BY <3>4 DEF ToSet
  <2> QED
    BY <2>1, <2>2
<1>3. ASSUME NEW j \in DOMAIN Tail(b) PROVE Tail(b)[j] \in ToSet(b)
  BY <1>1 DEF ToSet
<1>4. Head(b) \in ToSet(b)
  BY <1>1 DEF ToSet
<1>5. ToSet(b) \subseteq {Head(b)} \cup ToSet(Tail(b))
  BY <1>2 DEF ToSet
<1>6. ToSet(Tail(b)) \subseteq ToSet(b)
  <2> SUFFICES ASSUME NEW x \in ToSet(Tail(b)) PROVE x \in ToSet(b)
    OBVIOUS
  <2>1. PICK j \in DOMAIN Tail(b) : x = Tail(b)[j]
    BY DEF ToSet
  <2> QED
    BY <1>3, <2>1
<1> QED
  BY <1>1, <1>4, <1>5, <1>6

LEMMA MaxOfTwo ==
  ASSUME NEW a \in Nat, NEW b \in Nat
  PROVE  Max({a, b}) = IF a >= b THEN a ELSE b
BY DEF Max

(* The first entry of the batch is stored or put in quarantine, in the     *)
(* version the page had.                                                   *)
LEMMA EntryLeavesBatch ==
  ASSUME CrawlInv, NEW s \in Crawled, NEW c, NEW p, NEW newest,
         c = crawl[s], c.at = "store", c.batch # <<>>, p = Head(c.batch),
         newest \in {c.newest, Max({c.newest, p[2].at})},
         crawl' = [crawl EXCEPT ![s] = [c EXCEPT !.batch = Tail(@), !.newest = newest]],
         UNCHANGED <<world, clock, remote, cursor, missed>>,
         \/ /\ stored' = [stored EXCEPT ![s][p[1]] = p[2].ver]
            /\ UNCHANGED quarantined
         \/ /\ quarantined' = quarantined \cup {<<s, p[1], p[2].ver>>}
            /\ UNCHANGED stored
  PROVE  CrawlInv'
<1>1. RunInv(s, c) /\ c \in Run(s) /\ RowsInv(s)
  BY DEF CrawlInv, RunInv
<1>2. PICK rest : rest = Tail(c.batch)
  OBVIOUS
<1>3. /\ p \in Entries(s) \X Row /\ rest \in Seq(Entries(s) \X Row)
      /\ ToSet(c.batch) = {p} \cup ToSet(rest)
  <2>1. c.batch \in Seq(Entries(s) \X Row)
    BY <1>1, RunFields
  <2>2. /\ Head(c.batch) \in Entries(s) \X Row /\ Tail(c.batch) \in Seq(Entries(s) \X Row)
        /\ ToSet(c.batch) = {Head(c.batch)} \cup ToSet(Tail(c.batch))
    BY <2>1, HeadAndTail
  <2> QED
    BY <1>2, <2>2
<1>4. PICK y, e : y = p[1] /\ e = p[2]
  OBVIOUS
<1>5. /\ y \in Entries(s) /\ e.ver \in Nat /\ e.at \in Nat
      /\ stored[s][y] <= e.ver /\ e.ver <= remote[s][y].ver
      /\ e.at <= clock /\ (s = "nvd" => e.at <= c.to)
  BY <1>1, <1>3, <1>4 DEF RunInv, BatchInv, Row
<1>6. PICK r : r = [c EXCEPT !.batch = rest, !.newest = newest]
  OBVIOUS
<1>7. crawl' = [crawl EXCEPT ![s] = r] /\ crawl'[s] = r /\ DOMAIN crawl' = Crawled
  BY <1>2, <1>6 DEF CrawlInv
<1>8. /\ newest \in Nat /\ newest <= clock /\ (s = "nvd" => newest <= c.to)
  <2>1. c.newest \in Nat /\ c.newest <= clock /\ (s = "nvd" => c.newest <= c.to)
    BY <1>1, RunFields DEF RunInv, TimesInv
  <2>2. Max({c.newest, e.at}) = IF c.newest >= e.at THEN c.newest ELSE e.at
    BY <1>5, <2>1, MaxOfTwo
  <2>3. newest = c.newest \/ newest = e.at
    BY <1>4, <2>2
  <2> QED
    BY <1>5, <2>1, <2>3
<1>9. r \in Run(s)
  BY <1>1, <1>3, <1>6, <1>8 DEF Run
<1>10. /\ r.at = c.at /\ r.from = c.from /\ r.to = c.to /\ r.start = c.start
       /\ r.newest = newest /\ r.offset = c.offset /\ r.batch = rest /\ r.last = c.last
  BY <1>1, <1>6 DEF Run
<1>11. /\ DOMAIN stored' = Crawled /\ stored'[s] \in [Entries(s) -> Nat]
       /\ \A x \in Entries(s) : \/ stored'[s][x] = stored[s][x]
                                \/ x = y /\ stored'[s][x] = e.ver
       /\ \A o \in Crawled \ {s} : stored'[o] = stored[o]
  <2>1. DOMAIN stored = Crawled /\ stored[s] \in [Entries(s) -> Nat]
    BY <1>1 DEF CrawlInv, RowsInv
  <2>2. CASE stored' = [stored EXCEPT ![s][p[1]] = p[2].ver]
    <3>1. stored' = [stored EXCEPT ![s] = [stored[s] EXCEPT ![y] = e.ver]]
      BY <1>4, <2>1, <2>2
    <3> QED
      BY <1>5, <2>1, <3>1
  <2>3. CASE UNCHANGED stored
    BY <2>1, <2>3
  <2> QED
    BY <2>2, <2>3
<1>12. ASSUME NEW x \in Entries(s), Covered(s, x) PROVE Covered(s, x)'
  <2>1. CASE stored[s][x] = remote[s][x].ver
    <3>1. stored'[s][x] = remote[s][x].ver
      BY <1>5, <1>11, <2>1, RowFields
    <3> QED
      BY <3>1 DEF Covered
  <2>2. CASE stored[s][x] # remote[s][x].ver
    BY <1>12, <2>2 DEF Covered
  <2> QED
    BY <2>1, <2>2
<1>13. e.ver = remote[s][y].ver => Covered(s, y)'
  BY <1>1, <1>4, <1>5 DEF Covered, CrawlInv, RowsInv
<1>14. RowsInv(s)'
  <2>1. Entries(s)' = Entries(s)
    BY DEF Entries
  <2>2. \A x \in Entries(s) : stored'[s][x] <= remote[s][x].ver
    BY <1>5, <1>11, RowFields
  <2>3. \A x \in Entries(s) : remote[s][x].at < Since(s, cursor[s]) => Covered(s, x)'
    BY <1>1, <1>12 DEF RowsInv
  <2> QED
    BY <1>1, <1>11, <2>1, <2>2, <2>3 DEF RowsInv, Since
<1>15. TimesInv(s, r)'
  BY <1>1, <1>8, <1>10 DEF RunInv, TimesInv
<1>16. BatchInv(s, r)'
  <2>1. ASSUME NEW q \in ToSet(rest)
        PROVE  /\ stored'[s][q[1]] <= q[2].ver /\ q[2].ver <= remote[s][q[1]].ver
               /\ q[2].at <= clock /\ (s = "nvd" => q[2].at <= c.to)
    <3>1. q \in ToSet(c.batch) /\ p \in ToSet(c.batch)
      BY <1>3
    <3>2. /\ stored[s][q[1]] <= q[2].ver /\ q[2].ver <= remote[s][q[1]].ver
          /\ q[2].at <= clock /\ (s = "nvd" => q[2].at <= c.to)
          /\ (q[1] = y => q[2].ver = e.ver)
      BY <1>1, <1>4, <3>1 DEF RunInv, BatchInv
    <3>3. q \in Entries(s) \X Row
      BY <1>3 DEF ToSet
    <3>4. q[1] \in Entries(s) /\ q[2].ver \in Nat
      BY <3>3 DEF Row
    <3>5. stored'[s][q[1]] <= q[2].ver
      BY <1>5, <1>11, <3>2, <3>4
    <3> QED
      BY <3>2, <3>5
  <2>2. \A q, o \in ToSet(rest) : q[1] = o[1] => q[2].ver = o[2].ver
    BY <1>1, <1>3 DEF RunInv, BatchInv
  <2> QED
    BY <1>10, <2>1, <2>2 DEF BatchInv
<1>17. ReachInv(s, r)'
  <2>1. Entries(s)' = Entries(s) /\ Changed(s, r)' = Changed(s, c) /\ Changed(s, c) \subseteq Entries(s)
    BY <1>10 DEF Entries, Changed, Since
  <2>2. ASSUME NEW x \in Changed(s, c)
        PROVE  Late(s, r, x)' \/ Covered(s, x)' \/ InBatch(s, r, x)' \/ Ahead(s, r, x)'
    <3>1. Late(s, c, x) \/ Covered(s, x) \/ InBatch(s, c, x) \/ Ahead(s, c, x)
      BY <1>1 DEF RunInv, ReachInv
    <3>2. CASE Late(s, c, x)
      BY <1>10, <3>2 DEF Late
    <3>3. CASE Covered(s, x)
      BY <1>12, <2>1, <3>3
    <3>4. CASE InBatch(s, c, x)
      <4>1. PICK q \in ToSet(c.batch) : q[1] = x /\ q[2].ver = remote[s][x].ver
        BY <3>4 DEF InBatch
      <4>2. CASE q = p
        BY <1>4, <1>13, <4>1, <4>2
      <4>3. CASE q # p
        BY <1>3, <1>10, <4>1, <4>3 DEF InBatch
      <4> QED
        BY <4>2, <4>3
    <3>5. CASE Ahead(s, c, x)
      BY <1>10, <2>1, <3>5 DEF Ahead
    <3> QED
      BY <3>1, <3>2, <3>3, <3>4, <3>5
  <2>3. \A x \in Entries(s) : Late(s, c, x) /\ remote[s][x].at < Since(s, clock) => <<s, x>> \in missed
    BY <1>1 DEF RunInv, ReachInv
  <2>4. \A x \in Entries(s) : remote[s][x].at < Since(s, c.from) => Covered(s, x)'
    BY <1>1, <1>12 DEF RunInv, ReachInv
  <2> QED
    BY <1>10, <2>1, <2>2, <2>3, <2>4 DEF ReachInv, Since, Late
<1>18. r \in Run(s)'
  BY <1>9 DEF Run, Entries
<1>19. RunInv(s, crawl[s])'
  BY <1>7, <1>15, <1>16, <1>17, <1>18 DEF RunInv
<1>20. quarantined \subseteq quarantined' /\ missed \subseteq missed'
  OBVIOUS
<1>21. clock \in Nat /\ clock <= clock /\ clock <= world.span
  BY DEF CrawlInv
<1> QED
  BY <1>7, <1>11, <1>14, <1>19, <1>20, <1>21, Alone DEF CrawlInv

LEMMA StoreEntryKeeps ==
  ASSUME CrawlInv, NEW s \in Crawled, StoreEntry(s) \/ StoreEntryFails(s)
  PROVE  CrawlInv'
<1>1. PICK c, p : c = crawl[s] /\ p = Head(c.batch)
  OBVIOUS
<1>2. CASE StoreEntry(s)
  <2>1. PICK newest : newest = Max({c.newest, p[2].at})
    OBVIOUS
  <2>2. /\ c.at = "store" /\ c.batch # <<>>
        /\ stored' = [stored EXCEPT ![s][p[1]] = p[2].ver]
        /\ UNCHANGED <<world, clock, remote, cursor, missed, quarantined>>
    BY <1>1, <1>2 DEF StoreEntry, external
  <2>3. crawl' = [crawl EXCEPT ![s] = [c EXCEPT !.batch = Tail(@), !.newest = Max({@, p[2].at})]]
    BY <1>1, <1>2 DEF StoreEntry, CrawlStep
  <2>4. "newest" \in DOMAIN c
    BY <1>1, <2>2 DEF CrawlInv, RunInv, Run
  <2>5. crawl' = [crawl EXCEPT ![s] = [c EXCEPT !.batch = Tail(@), !.newest = newest]]
    BY <2>1, <2>3, <2>4
  <2> QED
    BY <1>1, <2>1, <2>2, <2>5, EntryLeavesBatch
<1>3. CASE StoreEntryFails(s)
  <2>1. /\ c.at = "store" /\ c.batch # <<>>
        /\ quarantined' = quarantined \cup {<<s, p[1], p[2].ver>>}
        /\ UNCHANGED <<world, clock, remote, cursor, missed, stored>>
    BY <1>1, <1>3 DEF StoreEntryFails, external
  <2>2. PICK newest \in {c.newest, Max({c.newest, p[2].at})} :
          crawl' = [crawl EXCEPT ![s] = [c EXCEPT !.batch = Tail(@), !.newest = newest]]
    BY <1>1, <1>3 DEF StoreEntryFails, CrawlStep
  <2> QED
    BY <1>1, <2>1, <2>2, EntryLeavesBatch
<1> QED
  BY <1>2, <1>3

LEMMA NextPageKeeps ==
  ASSUME CrawlInv, NEW s \in Crawled, NextPage(s)
  PROVE  CrawlInv'
<1>1. PICK c : c = crawl[s]
  OBVIOUS
<1>2. PICK r : r = [c EXCEPT !.at = "fetch"]
  OBVIOUS
<1>3. /\ crawl' = [crawl EXCEPT ![s] = r] /\ c.at = "store" /\ c.batch = <<>> /\ ~ c.last
      /\ UNCHANGED <<world, clock, remote, stored, cursor, missed, quarantined>>
  BY <1>1, <1>2 DEF NextPage, CrawlStep, external
<1>4. RunInv(s, c) /\ c \in Run(s)
  BY <1>1, <1>3 DEF CrawlInv, RunInv
<1>5. /\ r.at = "fetch" /\ r.from = c.from /\ r.to = c.to /\ r.start = c.start
      /\ r.newest = c.newest /\ r.offset = c.offset /\ r.batch = c.batch /\ r.last = c.last
      /\ r \in Run(s)
  BY <1>2, <1>4 DEF Run
<1>6. Changed(s, r) = Changed(s, c)
  BY <1>5 DEF Changed
<1>7. \A x : /\ Late(s, r, x) = Late(s, c, x) /\ InBatch(s, r, x) = InBatch(s, c, x)
             /\ Ahead(s, c, x) => Ahead(s, r, x)
  BY <1>5, <1>6 DEF Late, InBatch, Ahead
<1>8. TimesInv(s, r) /\ BatchInv(s, r) /\ ReachInv(s, r)
  BY <1>3, <1>4, <1>5, <1>6, <1>7 DEF RunInv, TimesInv, BatchInv, ReachInv
<1> QED
  BY <1>3, <1>5, <1>8, MovesOn DEF RunInv

(* A window that is read to its end leaves nothing before the next one.    *)
LEMMA ReadToTheEnd ==
  ASSUME CrawlInv, NEW s \in Crawled, NEW c, RunInv(s, c),
         c.at = "store", c.batch = <<>>, c.last, NEW x \in Changed(s, c)
  PROVE  Late(s, c, x) \/ Covered(s, x)
<1>1. ~ Ahead(s, c, x)
  BY DEF Ahead
<1>2. ~ InBatch(s, c, x)
  BY DEF InBatch, ToSet
<1> QED
  BY <1>1, <1>2 DEF RunInv, ReachInv

(* A window that was read to its end is before the next one.               *)
LEMMA NextWindowKeeps ==
  ASSUME CrawlInv, NEW s \in Crawled, NextWindow(s)
  PROVE  CrawlInv'
<1>1. PICK c : c = crawl[s]
  OBVIOUS
<1>2. PICK to : to = WindowEnd(s, c.to, c.start)
  OBVIOUS
<1>3. PICK r : r = [c EXCEPT !.at = "fetch", !.offset = 0, !.from = c.to, !.to = to]
  OBVIOUS
<1>4. /\ crawl' = [crawl EXCEPT ![s] = r] /\ c.at = "store" /\ c.batch = <<>> /\ c.last
      /\ s = "nvd" /\ c.to < c.start
      /\ UNCHANGED <<world, clock, remote, stored, cursor, missed, quarantined>>
  BY <1>1, <1>2, <1>3 DEF NextWindow, CrawlStep, external
<1>5. RunInv(s, c) /\ c \in Run(s)
  BY <1>1, <1>4 DEF CrawlInv, RunInv
<1>6. /\ c.from \in Nat /\ c.to \in Nat /\ c.start \in Nat /\ clock \in Nat /\ c.newest \in Nat
      /\ c.start <= clock /\ c.newest <= c.to /\ c.from <= c.to /\ c.start < clock
      /\ c.newest <= clock
  BY <1>4, <1>5, RunFields DEF RunInv, TimesInv, CrawlInv
<1>7. to \in Nat /\ c.to <= to /\ to <= c.start
  <2>1. to = Min({c.to + Window, c.start})
    BY <1>2, <1>4 DEF WindowEnd
  <2>2. to = IF c.to + Window <= c.start THEN c.to + Window ELSE c.start
    BY <1>6, <2>1, MinOfTwo, Sizes
  <2> QED
    BY <1>4, <1>6, <2>2, Sizes
<1>8. /\ r.at = "fetch" /\ r.from = c.to /\ r.to = to /\ r.start = c.start
      /\ r.newest = c.newest /\ r.offset = 0 /\ r.batch = <<>> /\ r.last = c.last
      /\ r \in Run(s)
  BY <1>3, <1>4, <1>5, <1>6, <1>7 DEF Run
<1>9. TimesInv(s, r) /\ BatchInv(s, r)
  BY <1>4, <1>6, <1>7, <1>8 DEF TimesInv, BatchInv, ToSet
<1>10. ReachInv(s, r)
  <2>1. ASSUME NEW x \in Entries(s), remote[s][x].at < Since(s, r.from) PROVE Covered(s, x)
    <3>1. CASE x \in Changed(s, c)
      BY <1>4, <1>5, <3>1, ReadToTheEnd DEF Late
    <3>2. CASE x \notin Changed(s, c)
      <4>1. remote[s][x].at < c.to /\ remote[s][x].at \in Nat
        BY <1>4, <1>8, <2>1, RowFields DEF Since
      <4>2. Since(s, c.from) = c.from
        BY <1>4 DEF Since
      <4>3. remote[s][x].at < Since(s, c.from)
        BY <1>6, <3>2, <4>1, <4>2 DEF Changed
      <4> QED
        BY <1>5, <4>3 DEF RunInv, ReachInv
    <3> QED
      BY <3>1, <3>2
  <2>2. ASSUME NEW x \in Changed(s, r) PROVE Ahead(s, r, x)
    <3>1. Cardinality(Before(Changed(s, r), x)) \in Nat
      BY ChangedFinite
    <3> QED
      BY <1>8, <3>1 DEF Ahead
  <2> QED
    BY <1>4, <2>1, <2>2 DEF ReachInv, Late
<1> QED
  BY <1>4, <1>8, <1>9, <1>10, MovesOn DEF RunInv

(* The cursor becomes the newest change seen: all before it was before the *)
(* last window or in it.                                                   *)
LEMMA EndCrawlKeeps ==
  ASSUME CrawlInv, NEW s \in Crawled, EndCrawl(s)
  PROVE  CrawlInv'
<1>1. PICK c : c = crawl[s]
  OBVIOUS
<1>2. /\ crawl' = [crawl EXCEPT ![s] = Idle] /\ c.at = "store" /\ c.batch = <<>> /\ c.last
      /\ s = "nvd" => c.to = c.start
      /\ cursor' = [cursor EXCEPT ![s] = c.newest]
      /\ UNCHANGED <<world, clock, remote, stored, missed, quarantined>>
  BY <1>1 DEF EndCrawl, CrawlStep, external
<1>3. RunInv(s, c) /\ c \in Run(s) /\ RowsInv(s)
  BY <1>1, <1>2 DEF CrawlInv, RunInv
<1>4. /\ c.newest \in Nat /\ c.newest <= clock /\ clock \in Nat /\ c.to \in Nat
      /\ clock <= world.span /\ world.span \in Nat
      /\ s = "bugzilla" => c.to = world.span
      /\ s = "nvd" => c.newest <= c.to
  BY <1>3, RunFields, WorldIsFinite DEF RunInv, TimesInv, CrawlInv
<1>5. ASSUME NEW x \in Entries(s), remote[s][x].at < Since(s, c.newest) PROVE Covered(s, x)
  <2>1. /\ Since(s, c.newest) \in Nat /\ Since(s, c.newest) <= c.newest
        /\ Since(s, clock) \in Nat /\ Since(s, c.newest) <= Since(s, clock)
    BY <1>4, SinceIsBefore, SinceGrows
  <2>2. /\ remote[s][x].at \in Nat /\ remote[s][x].at <= clock
        /\ remote[s][x].at <= c.to /\ remote[s][x].at < Since(s, clock)
    <3>1. remote[s][x].at \in Nat /\ remote[s][x].at <= clock
      BY RowFields
    <3>2. CASE s = "bugzilla"
      BY <1>4, <1>5, <2>1, <3>1, <3>2
    <3>3. CASE s = "nvd"
      BY <1>4, <1>5, <2>1, <3>1, <3>3
    <3> QED
      BY <3>1, <3>2, <3>3 DEF Crawled
  <2>3. CASE Late(s, c, x)
    BY <1>3, <2>2, <2>3 DEF RunInv, ReachInv, Covered
  <2>4. CASE ~ Late(s, c, x) /\ x \in Changed(s, c)
    BY <1>2, <1>3, <2>4, ReadToTheEnd
  <2>5. CASE x \notin Changed(s, c)
    <3>1. Since(s, c.from) \in Nat
      BY <1>3, RunFields, SinceIsBefore
    <3>2. remote[s][x].at < Since(s, c.from)
      BY <2>2, <2>5, <3>1 DEF Changed
    <3> QED
      BY <1>3, <3>2 DEF RunInv, ReachInv
  <2> QED
    BY <2>3, <2>4, <2>5
<1>6. /\ DOMAIN cursor' = Crawled /\ cursor'[s] = c.newest /\ DOMAIN crawl' = Crawled
      /\ \A o \in Crawled \ {s} : cursor'[o] = cursor[o] /\ crawl'[o] = crawl[o]
      /\ crawl'[s].at = "idle"
  BY <1>2 DEF CrawlInv, Idle
<1>7. RowsInv(s)'
  <2>1. Entries(s)' = Entries(s) /\ \A x : Covered(s, x)' = Covered(s, x)
    BY <1>2 DEF Entries, Covered
  <2> QED
    BY <1>2, <1>3, <1>4, <1>5, <1>6, <2>1 DEF RowsInv, Since
<1>8. clock <= clock
  BY <1>4
<1> QED
  BY <1>2, <1>4, <1>6, <1>7, <1>8, Alone DEF CrawlInv

LEMMA CrawlDiesKeeps ==
  ASSUME CrawlInv, NEW s \in Crawled, CrawlDies(s)
  PROVE  CrawlInv'
<1>1. /\ crawl' = [crawl EXCEPT ![s] = Idle] /\ Idle.at = "idle"
      /\ UNCHANGED <<world, clock, remote, stored, cursor, missed, quarantined>>
  BY DEF CrawlDies, CrawlStep, external, Idle
<1> QED
  BY <1>1, MovesOn

(* An entry that changes is dated the present: a run has it still to see,  *)
(* or leaves it to the next one.                                           *)
LEMMA ChangeKeeps ==
  ASSUME CrawlInv, NEW s \in Crawled, NEW x \in Entries(s), Change(s, x)
  PROVE  CrawlInv'
<1>1. /\ remote' = [remote EXCEPT ![s][x] = [ver |-> @.ver + 1, at |-> clock]]
      /\ UNCHANGED <<world, clock, stored, cursor, crawl, quarantined>>
      /\ missed \subseteq missed'
  BY DEF Change
<1>2. /\ RowsInv(s) /\ clock \in Nat /\ clock <= clock /\ clock <= world.span
      /\ DOMAIN remote = Crawled
  BY DEF CrawlInv
<1>3. /\ DOMAIN remote' = Crawled /\ \A o \in Crawled \ {s} : remote'[o] = remote[o]
      /\ remote'[s] \in [Entries(s) -> Row]
      /\ remote'[s][x] = [ver |-> remote[s][x].ver + 1, at |-> clock]
      /\ \A y \in Entries(s) \ {x} : remote'[s][y] = remote[s][y]
  <2>1. remote[s] \in [Entries(s) -> Row] /\ remote[s][x].ver \in Nat
    BY <1>2, RowFields DEF RowsInv
  <2>2. PICK e : e = [ver |-> remote[s][x].ver + 1, at |-> clock]
    OBVIOUS
  <2>3. e \in Row
    BY <1>2, <2>1, <2>2 DEF Row
  <2>4. remote' = [remote EXCEPT ![s] = [remote[s] EXCEPT ![x] = e]]
    BY <1>1, <1>2, <2>1, <2>2
  <2> QED
    BY <1>2, <2>1, <2>2, <2>3, <2>4
<1>4. ASSUME NEW y \in Entries(s) \ {x}, Covered(s, y) PROVE Covered(s, y)'
  BY <1>1, <1>3, <1>4 DEF Covered
<1>5. Entries(s)' = Entries(s) /\ \A t : Since(s, t)' = Since(s, t)
  BY <1>1 DEF Entries, Since
<1>6. ASSUME NEW t \in Nat, t <= clock PROVE ~ (remote'[s][x].at < Since(s, t))
  BY <1>2, <1>3, <1>6, SinceIsBefore
<1>7. RowsInv(s)'
  <2>1. \A y \in Entries(s) : stored[s][y] <= remote'[s][y].ver /\ remote'[s][y].at <= clock
    BY <1>2, <1>3, RowFields
  <2>2. \A y \in Entries(s) : remote'[s][y].at < Since(s, cursor[s]) => Covered(s, y)'
    BY <1>2, <1>3, <1>4, <1>6 DEF RowsInv
  <2> QED
    BY <1>1, <1>2, <1>3, <1>5, <2>1, <2>2 DEF RowsInv
<1>8. ASSUME crawl[s].at # "idle" PROVE RunInv(s, crawl[s])'
  <2>1. PICK c : c = crawl[s]
    OBVIOUS
  <2>2. RunInv(s, c) /\ c \in Run(s)
    BY <1>8, <2>1 DEF CrawlInv, RunInv
  <2>3. /\ c.from \in Nat /\ c.to \in Nat /\ c.start \in Nat /\ c.from <= clock /\ c.start <= clock
        /\ s = "bugzilla" => c.to = world.span
        /\ s = "nvd" => c.start < clock /\ c.to <= c.start
        /\ c.offset \in Nat
    BY <2>2, RunFields DEF RunInv, TimesInv
  <2>4. TimesInv(s, c)'
    BY <1>1, <2>2 DEF RunInv, TimesInv
  <2>5. BatchInv(s, c)'
    <3>1. ASSUME NEW p \in ToSet(c.batch) PROVE p[2].ver <= remote'[s][p[1]].ver
      <4>1. p \in Entries(s) \X Row
        <5>1. c.batch \in Seq(Entries(s) \X Row)
          BY <2>2, RunFields
        <5> QED
          BY <5>1 DEF ToSet
      <4>2. p[1] \in Entries(s) /\ p[2].ver \in Nat /\ p[2].ver <= remote[s][p[1]].ver
        BY <2>2, <4>1 DEF RunInv, BatchInv, Row
      <4> QED
        BY <1>3, <4>2, RowFields
    <3> QED
      BY <1>1, <2>2, <3>1 DEF RunInv, BatchInv
  <2>6. ReachInv(s, c)'
    <3>1. \A y \in Entries(s) : remote'[s][y].at < Since(s, c.from) => Covered(s, y)'
      BY <1>3, <1>4, <1>6, <2>2, <2>3 DEF RunInv, ReachInv
    <3>2. ASSUME NEW y \in Entries(s), Late(s, c, y)', remote'[s][y].at < Since(s, clock)
          PROVE  <<s, y>> \in missed'
      <4>1. y # x
        BY <1>2, <1>6, <3>2
      <4> QED
        BY <1>1, <1>3, <2>2, <3>2, <4>1 DEF RunInv, ReachInv, Late
    <3>3. \A y \in Entries(s) \ {x} : y \in Changed(s, c)' <=> y \in Changed(s, c)
      BY <1>1, <1>3, <1>5 DEF Changed
    <3>5. \A y \in Entries(s) \ {x} : /\ Late(s, c, y)' = Late(s, c, y)
                                       /\ InBatch(s, c, y)' = InBatch(s, c, y)
      BY <1>1, <1>3 DEF Late, InBatch
    <3>4. ASSUME NEW y \in Changed(s, c)'
          PROVE  Late(s, c, y)' \/ Covered(s, y)' \/ InBatch(s, c, y)' \/ Ahead(s, c, y)'
      <4>1. y \in Entries(s)
        BY <1>5 DEF Changed
      <4>2. CASE s = "bugzilla" /\ y = x
        BY <1>3, <2>3, <4>2 DEF Late
      <4>3. CASE s = "bugzilla" /\ y # x
        <5>1. Changed(s, c) \subseteq Changed(s, c)'
          <6>1. Since(s, c.from) \in Nat /\ Since(s, c.from) <= c.from
            BY <2>3, SinceIsBefore
          <6>2. x \in Changed(s, c)'
            BY <1>2, <1>3, <1>5, <2>3, <4>3, <6>1 DEF Changed
          <6>3. ASSUME NEW z \in Changed(s, c) PROVE z \in Changed(s, c)'
            <7>1. z \in Entries(s)
              BY DEF Changed
            <7> QED
              BY <3>3, <6>2, <7>1
          <6> QED
            BY <6>3
        <5>2. Changed(s, c)' \in SUBSET Nat /\ IsFiniteSet(Changed(s, c)') /\ y \in Nat
          <6>1. Changed(s, c)' \subseteq Entries(s)
            BY <1>5 DEF Changed
          <6> QED
            BY <4>1, <6>1, EntriesFinite, FS_Subset
        <5>3. y \in Changed(s, c)
          BY <3>3, <4>1, <4>3
        <5>4. Late(s, c, y) \/ Covered(s, y) \/ InBatch(s, c, y) \/ Ahead(s, c, y)
          BY <2>2, <5>3 DEF RunInv, ReachInv
        <5>5. ASSUME Ahead(s, c, y) PROVE Ahead(s, c, y)'
          <6>1. /\ Cardinality(Before(Changed(s, c), y)) \in Nat
                /\ Cardinality(Before(Changed(s, c)', y)) \in Nat
                /\ Cardinality(Before(Changed(s, c), y)) <= Cardinality(Before(Changed(s, c)', y))
            <7>1. PICK S, T : S = Changed(s, c) /\ T = Changed(s, c)'
              OBVIOUS
            <7>2. S \in SUBSET Nat /\ T \in SUBSET Nat /\ S \subseteq T /\ IsFiniteSet(T)
              BY <5>1, <5>2, <7>1
            <7> QED
              BY <5>2, <7>1, <7>2, RankOfMore
          <6> QED
            BY <2>3, <5>5, <6>1 DEF Ahead
        <5> QED
          BY <1>4, <3>5, <4>1, <4>3, <5>4, <5>5
      <4>4. CASE s = "nvd"
        <5>1. y # x
          BY <1>2, <1>3, <2>3, <4>4 DEF Changed
        <5>2. y \in Changed(s, c)
          BY <3>3, <4>1, <5>1
        <5>3. CASE x \in Changed(s, c)
          <6>1. <<s, y>> \in missed'
            BY <1>8, <2>1, <4>4, <5>1, <5>2, <5>3 DEF Change
          <6> QED
            BY <6>1 DEF Covered
        <5>4. CASE x \notin Changed(s, c)
          <6>1. Changed(s, c)' = Changed(s, c)
            <7>1. x \notin Changed(s, c)'
              BY <1>2, <1>3, <2>3, <4>4 DEF Changed
            <7>2. Changed(s, c)' \subseteq Entries(s) /\ Changed(s, c) \subseteq Entries(s)
              BY <1>5 DEF Changed
            <7>3. ASSUME NEW z \in Entries(s) PROVE z \in Changed(s, c)' <=> z \in Changed(s, c)
              BY <3>3, <5>4, <7>1
            <7> QED
              BY <7>2, <7>3
          <6>2. Ahead(s, c, y)' = Ahead(s, c, y)
            BY <6>1 DEF Ahead
          <6>3. Late(s, c, y) \/ Covered(s, y) \/ InBatch(s, c, y) \/ Ahead(s, c, y)
            BY <2>2, <5>2 DEF RunInv, ReachInv
          <6> QED
            BY <1>4, <3>5, <4>1, <5>1, <6>2, <6>3
        <5> QED
          BY <5>3, <5>4
      <4> QED
        BY <4>2, <4>3, <4>4 DEF Crawled
    <3> QED
      BY <1>1, <1>5, <3>1, <3>2, <3>4 DEF ReachInv
  <2>7. c \in Run(s)'
    BY <1>5, <2>2 DEF Run
  <2> QED
    BY <1>1, <2>1, <2>4, <2>5, <2>6, <2>7 DEF RunInv
<1>9. crawl'[s].at = "idle" \/ RunInv(s, crawl[s])'
  BY <1>1, <1>8
<1> QED
  BY <1>1, <1>2, <1>3, <1>7, <1>9, Alone DEF CrawlInv

(* At midnight what the run may pass over is written down as missed.       *)
LEMMA TickKeeps ==
  ASSUME CrawlInv, Tick
  PROVE  CrawlInv'
<1>1. /\ clock' = clock + 1 /\ clock < world.span
      /\ UNCHANGED <<world, remote, stored, cursor, crawl, quarantined>>
      /\ missed \subseteq missed'
  BY DEF Tick, crawled
<1>2. clock \in Nat /\ clock' \in Nat /\ clock <= clock' /\ world.span \in Nat /\ clock' <= world.span
  BY <1>1, WorldIsFinite DEF CrawlInv
<1>3. ASSUME NEW s \in Crawled, crawl[s].at # "idle",
             NEW x \in Entries(s), Late(s, crawl[s], x), remote[s][x].at < Since(s, clock')
      PROVE  <<s, x>> \in missed'
  <2>1. s = "bugzilla" /\ remote[s][x].at >= crawl[s].start
    BY <1>3 DEF Late
  <2>2. CASE clock' % Ticks # 0
    <3>1. Since(s, clock') = Since(s, clock)
      BY <1>1, <1>2, <2>1, <2>2, SameDay
    <3>2. <<s, x>> \in missed
      BY <1>3, <3>1 DEF CrawlInv, RunInv, ReachInv
    <3> QED
      BY <1>1, <3>2
  <2>3. CASE clock' % Ticks = 0
    <3>1. x \in {y \in world.bugzilla : remote["bugzilla"][y].at >= crawl["bugzilla"].start}
      BY <1>3, <2>1 DEF Entries
    <3>2. missed' = missed \cup {<<"bugzilla", z>> :
              z \in {y \in world.bugzilla : remote["bugzilla"][y].at >= crawl["bugzilla"].start}}
      BY <1>3, <2>1, <2>3 DEF Tick
    <3> QED
      BY <2>1, <3>1, <3>2
  <2> QED
    BY <2>2, <2>3
<1>4. ASSUME NEW s \in Crawled
      PROVE  RowsInv(s)' /\ (crawl'[s].at = "idle" \/ RunInv(s, crawl[s])')
  BY <1>1, <1>2, <1>3, CrawlQuiet
<1> QED
  BY <1>1, <1>2, <1>4 DEF CrawlInv

(* Everything else leaves the crawls alone.                                *)
LEMMA CrawlRests ==
  ASSUME CrawlInv, UNCHANGED <<world, clock, remote, stored, cursor, crawl, missed>>,
         quarantined \subseteq quarantined'
  PROVE  CrawlInv'
<1>1. clock \in Nat /\ clock <= clock
  BY DEF CrawlInv
<1>2. ASSUME NEW s \in Crawled
      PROVE  RowsInv(s)' /\ (crawl'[s].at = "idle" \/ RunInv(s, crawl[s])')
  <2>1. \/ crawl[s].at = "idle"
        \/ \A x \in Entries(s) : Late(s, crawl[s], x) /\ remote[s][x].at < Since(s, clock')
                                  => <<s, x>> \in missed'
    BY DEF CrawlInv, RunInv, ReachInv
  <2> QED
    BY <1>1, <2>1, CrawlQuiet
<1> QED
  BY <1>1, <1>2 DEF CrawlInv

LEMMA InitCrawl == TrackerInit => CrawlInv
<1> SUFFICES ASSUME TrackerInit PROVE CrawlInv
  OBVIOUS
<1>1. world \in Worlds /\ clock = 0 /\ world.span \in Nat
  BY WorldIsFinite DEF TrackerInit
<1>2. ASSUME NEW s \in Crawled PROVE RowsInv(s) /\ crawl[s].at = "idle"
  <2>1. /\ remote[s] = [x \in Entries(s) |-> [ver |-> 1, at |-> 0]]
        /\ stored[s] = [x \in Entries(s) |-> 0] /\ cursor[s] = 0 /\ crawl[s].at = "idle"
    BY DEF TrackerInit, Idle
  <2>2. \A x \in Entries(s) : ~ (remote[s][x].at < Since(s, cursor[s]))
    <3>1. Since(s, 0) \in Nat /\ Since(s, 0) <= 0
      BY SinceIsBefore
    <3> QED
      BY <2>1, <3>1
  <2> QED
    BY <1>1, <2>1, <2>2 DEF RowsInv, Row
<1> QED
  BY <1>1, <1>2 DEF CrawlInv, TrackerInit

----------------------------------------------------------------------------
(* Gitee and AtomGit.                                                      *)

(* A record of issues that lists nothing as fetched that is not a row.     *)
TrueRecord(t, f) ==
  /\ DOMAIN f = {"fetched", "notFound", "serverError"}
  /\ \A id \in f.fetched : <<t, id>> \in ToSet(bug)

IssuesInv ==
  /\ DOMAIN file = Trackers /\ DOMAIN issue = Trackers
  /\ \A t \in Trackers :
       /\ TrueRecord(t, file[t])
       /\ issue[t].at \in {"idle", "run"}
       /\ issue[t].at = "run" => /\ DOMAIN issue[t] = {"at", "i", "done", "todo"}
                                 /\ TrueRecord(t, issue[t].done)

Kept(c) == c \in DOMAIN crashFix \/ <<"syzbot", c>> \in quarantined

Listed == world.crashes \X {"open", "fixed", "invalid"}
SyzRun == [at : {"list", "fetch"}, next : 1..3, found : Seq(Listed), seen : SUBSET world.crashes]

SyzInv ==
  /\ world.crashes \in SUBSET Nat /\ IsFiniteSet(world.crashes)
  /\ DOMAIN crashFix \subseteq world.crashes /\ seen \subseteq world.crashes
  /\ \A c \in seen : Kept(c)
  /\ syz.at \in {"idle", "list", "fetch"}
  /\ syz.at # "idle" => syz \in SyzRun /\ \A c \in syz.seen : Kept(c)

----------------------------------------------------------------------------
LEMMA RecordKeeps ==
  ASSUME NEW t, NEW f, TrueRecord(t, f), ToSet(bug) \subseteq ToSet(bug')
  PROVE  TrueRecord(t, f)'
BY DEF TrueRecord

(* A run proceeds with a record that is true.                              *)
LEMMA ProceedKeeps ==
  ASSUME IssuesInv, NEW t \in Trackers, NEW done, issue[t].at = "run", Proceed(t, done),
         ToSet(bug) \subseteq ToSet(bug'), TrueRecord(t, done)'
  PROVE  IssuesInv'
<1>1. PICK r : r = issue[t]
  OBVIOUS
<1>2. PICK n : n = [r EXCEPT !.i = (@ + 1) % SaveEvery, !.done = done, !.todo = @ \ {Min(r.todo)}]
  OBVIOUS
<1>3. issue' = [issue EXCEPT ![t] = n] /\ file' \in {file, [file EXCEPT ![t] = done]}
  BY <1>1, <1>2 DEF Proceed
<1>4. DOMAIN r = {"at", "i", "done", "todo"} /\ r.at = "run"
  BY <1>1 DEF IssuesInv
<1>5. DOMAIN n = {"at", "i", "done", "todo"} /\ n.at = "run" /\ n.done = done
  BY <1>2, <1>4
<1>6. ASSUME NEW u \in Trackers
      PROVE  /\ TrueRecord(u, file[u])'
             /\ issue'[u].at \in {"idle", "run"}
             /\ issue'[u].at = "run" => /\ DOMAIN issue'[u] = {"at", "i", "done", "todo"}
                                        /\ TrueRecord(u, issue[u].done)'
  <2>1. PICK f, d : f = file'[u] /\ d = issue'[u].done
    OBVIOUS
  <2>2. TrueRecord(u, f)'
    <3>1. f = file[u] \/ (u = t /\ f = done)
      BY <1>3, <2>1 DEF IssuesInv
    <3>2. TrueRecord(u, file[u])
      BY DEF IssuesInv
    <3>3. f = file[u] => TrueRecord(u, f)'
      BY <3>2, RecordKeeps
    <3> QED
      BY <3>1, <3>3
  <2>3. CASE u = t
    <3>1. issue'[u] = n /\ d = done
      BY <1>3, <1>5, <2>1, <2>3 DEF IssuesInv
    <3> QED
      BY <1>5, <2>1, <2>2, <2>3, <3>1
  <2>4. CASE u # t
    <3>1. issue'[u] = issue[u] /\ d = issue[u].done
      BY <1>3, <2>1, <2>4 DEF IssuesInv
    <3>2. /\ issue[u].at \in {"idle", "run"}
          /\ issue[u].at = "run" => DOMAIN issue[u] = {"at", "i", "done", "todo"} /\ TrueRecord(u, d)
      BY <3>1 DEF IssuesInv
    <3>3. TrueRecord(u, d) => TrueRecord(u, d)'
      BY RecordKeeps
    <3> QED
      BY <2>1, <2>2, <3>1, <3>2, <3>3
  <2> QED
    BY <2>3, <2>4
<1>7. DOMAIN file' = Trackers /\ DOMAIN issue' = Trackers
  BY <1>3 DEF IssuesInv
<1> QED
  BY <1>6, <1>7 DEF IssuesInv

(* A run that starts, ends or loses its file.                              *)
LEMMA IssuesReset ==
  ASSUME IssuesInv, NEW t \in Trackers, NEW f, NEW r,
         file' = file \/ file' = [file EXCEPT ![t] = f], issue' = [issue EXCEPT ![t] = r],
         UNCHANGED bug, TrueRecord(t, f),
         r.at = "idle" \/ (/\ r.at = "run" /\ DOMAIN r = {"at", "i", "done", "todo"}
                           /\ TrueRecord(t, r.done))
  PROVE  IssuesInv'
<1>1. ASSUME NEW u \in Trackers
      PROVE  /\ TrueRecord(u, file'[u])
             /\ issue'[u].at \in {"idle", "run"}
             /\ issue'[u].at = "run" => /\ DOMAIN issue'[u] = {"at", "i", "done", "todo"}
                                        /\ TrueRecord(u, issue'[u].done)
  <2>1. CASE u = t
    BY <2>1 DEF IssuesInv
  <2>2. CASE u # t
    BY <2>2 DEF IssuesInv
  <2> QED
    BY <2>1, <2>2
<1>2. \A u, d : TrueRecord(u, d)' = TrueRecord(u, d)
  BY DEF TrueRecord
<1>3. DOMAIN file' = Trackers /\ DOMAIN issue' = Trackers
  BY DEF IssuesInv
<1> QED
  BY <1>1, <1>3 DEF IssuesInv, TrueRecord

LEMMA GrowsKeepsBugs ==
  ASSUME Grows
  PROVE  ToSet(bug) \subseteq ToSet(bug')
BY DEF Grows, ToSet

(* The row is there when the statement ends.                               *)
LEMMA WithBugHolds ==
  ASSUME TablesInv, NEW r, bug' = WithBug(r)
  PROVE  ToSet(bug) \subseteq ToSet(bug') /\ r \in ToSet(bug')
<1>1. ToSet(bug) \subseteq ToSet(bug')
  BY WithBugGrows DEF ToSet
<1>2. CASE r \in ToSet(bug)
  BY <1>1, <1>2
<1>3. CASE r \notin ToSet(bug)
  <2>1. bug' = Append(bug, r)
    BY <1>3 DEF WithBug
  <2>2. Len(bug) \in Nat /\ Len(bug) + 1 \in DOMAIN bug' /\ bug'[Len(bug) + 1] = r
    BY <2>1 DEF TablesInv
  <2> QED
    BY <1>1, <2>2 DEF ToSet
<1> QED
  BY <1>2, <1>3

(* Whatever an issue run meets, what it lists is a row.                    *)
LEMMA IssuesKeep ==
  ASSUME TablesInv, IssuesInv, NEW t \in Trackers, Issues(t)
  PROVE  IssuesInv'
<1>1. PICK r : r = issue[t]
  OBVIOUS
<1>2. /\ TrueRecord(t, file[t]) /\ TrueRecord(t, NoFile)
      /\ r.at = "run" => DOMAIN r = {"at", "i", "done", "todo"} /\ TrueRecord(t, r.done)
  BY <1>1 DEF IssuesInv, TrueRecord, NoFile
<1>3. CASE StartIssues(t)
  <2>1. PICK n : n = [at |-> "run", i |-> 0, done |-> file[t], todo |-> Cited(t) \ Done(file[t])]
    OBVIOUS
  <2>2. issue' = [issue EXCEPT ![t] = n] /\ UNCHANGED <<file, bug>>
    BY <1>3, <2>1 DEF StartIssues
  <2>3. PICK f : f = file[t]
    OBVIOUS
  <2>4. file' = file
    BY <2>2
  <2>5. n.at = "run" /\ DOMAIN n = {"at", "i", "done", "todo"} /\ n.done = f
    BY <2>1, <2>3
  <2> QED
    BY <1>2, <2>2, <2>3, <2>4, <2>5, IssuesReset
<1>4. CASE IssueNotFound(t)
  <2>1. PICK id : id = Min(issue[t].todo)
    OBVIOUS
  <2>2. PICK done : done = [r.done EXCEPT !.notFound = @ \cup {id}]
    OBVIOUS
  <2>3. issue[t].at = "run" /\ UNCHANGED bug /\ Proceed(t, done)
    BY <1>1, <1>4, <2>1, <2>2 DEF IssueNotFound, Running
  <2>4. TrueRecord(t, done)'
    BY <1>1, <1>2, <2>2, <2>3 DEF TrueRecord
  <2> QED
    BY <2>3, <2>4, ProceedKeeps
<1>5. CASE IssueServerError(t)
  <2>1. PICK id : id = Min(issue[t].todo)
    OBVIOUS
  <2>2. PICK done : done = [r.done EXCEPT !.serverError = @ \cup {id}]
    OBVIOUS
  <2>3. issue[t].at = "run" /\ UNCHANGED bug /\ Proceed(t, done)
    BY <1>1, <1>5, <2>1, <2>2 DEF IssueServerError, Running
  <2>4. TrueRecord(t, done)'
    BY <1>1, <1>2, <2>2, <2>3 DEF TrueRecord
  <2> QED
    BY <2>3, <2>4, ProceedKeeps
<1>6. CASE StoreIssue(t)
  <2>1. PICK id : id = Min(issue[t].todo)
    OBVIOUS
  <2>2. PICK done : done = [r.done EXCEPT !.fetched = @ \cup {id}]
    OBVIOUS
  <2>3. issue[t].at = "run" /\ bug' = WithBug(<<t, id>>) /\ Proceed(t, done)
    BY <1>1, <1>6, <2>1, <2>2 DEF StoreIssue, Running
  <2>4. ToSet(bug) \subseteq ToSet(bug') /\ <<t, id>> \in ToSet(bug')
    BY <2>3, WithBugHolds
  <2>5. DOMAIN r.done = {"fetched", "notFound", "serverError"}
        /\ \A x \in r.done.fetched : <<t, x>> \in ToSet(bug')
    BY <1>1, <1>2, <2>3, <2>4 DEF TrueRecord
  <2>6. DOMAIN done = {"fetched", "notFound", "serverError"} /\ done.fetched = r.done.fetched \cup {id}
    BY <2>2, <2>5
  <2>7. TrueRecord(t, done)'
    BY <2>4, <2>5, <2>6 DEF TrueRecord
  <2> QED
    BY <2>3, <2>4, <2>7, ProceedKeeps
<1>7. CASE IssueFails(t)
  <2>1. PICK n : n = [r EXCEPT !.i = (@ + 1) % SaveEvery, !.todo = @ \ {Min(r.todo)}]
    OBVIOUS
  <2>2. PICK f : f = file[t]
    OBVIOUS
  <2>3. r.at = "run" /\ issue' = [issue EXCEPT ![t] = n] /\ UNCHANGED <<bug, file>>
    BY <1>1, <1>7, <2>1 DEF IssueFails, Running
  <2>4. n.at = "run" /\ DOMAIN n = {"at", "i", "done", "todo"} /\ n.done = r.done
    BY <1>2, <2>1, <2>3
  <2>5. file' = file
    BY <2>3
  <2> QED
    BY <1>2, <2>2, <2>3, <2>4, <2>5, IssuesReset
<1>8. CASE EndIssues(t)
  <2>1. PICK f : f = issue[t].done
    OBVIOUS
  <2>2. r.at = "run" /\ file' = [file EXCEPT ![t] = f] /\ issue' = [issue EXCEPT ![t] = Idle] /\ UNCHANGED bug
    BY <1>1, <1>8, <2>1 DEF EndIssues
  <2>3. TrueRecord(t, f) /\ Idle.at = "idle"
    BY <1>1, <1>2, <2>1, <2>2 DEF Idle
  <2> QED
    BY <2>2, <2>3, IssuesReset
<1>9. CASE IssuesDie(t)
  <2>1. PICK f \in {file[t], NoFile} : file' = [file EXCEPT ![t] = f]
    BY <1>9 DEF IssuesDie
  <2>2. issue' = [issue EXCEPT ![t] = Idle] /\ UNCHANGED bug /\ Idle.at = "idle"
    BY <1>9 DEF IssuesDie, Idle
  <2> QED
    BY <1>2, <2>1, <2>2, IssuesReset
<1> QED
  BY <1>3, <1>4, <1>5, <1>6, <1>7, <1>8, <1>9 DEF Issues

LEMMA IssuesRest ==
  ASSUME IssuesInv, UNCHANGED <<file, issue>>, ToSet(bug) \subseteq ToSet(bug')
  PROVE  IssuesInv'
<1>1. \A t, f : TrueRecord(t, f) => TrueRecord(t, f)'
  BY RecordKeeps
<1> QED
  BY <1>1 DEF IssuesInv

----------------------------------------------------------------------------
(* syzbot.                                                                 *)

LEMMA SyzFields ==
  ASSUME NEW r \in SyzRun
  PROVE  /\ r.at \in {"list", "fetch"} /\ r.next \in 1..3 /\ r.found \in Seq(Listed)
         /\ r.seen \in SUBSET world.crashes
BY DEF SyzRun

LEMMA ConcatType ==
  ASSUME NEW T, NEW s \in Seq(T), NEW r \in Seq(T)
  PROVE  s \o r \in Seq(T)
OBVIOUS

LEMMA TailType ==
  ASSUME NEW T, NEW s \in Seq(T), s # <<>>
  PROVE  Tail(s) \in Seq(T) /\ Head(s) \in T
OBVIOUS

(* Ordering a run's list by dashboard and cutting it adds nothing to it.   *)
LEMMA OnType ==
  ASSUME NEW T, NEW found \in Seq(T), NEW b
  PROVE  On(found, b) \in Seq(T)
<1>1. {i \in DOMAIN found : found[i][2] = b} \in SUBSET (DOMAIN found)
  OBVIOUS
<1> QED
  BY <1>1, PartType DEF On

LEMMA WorkType ==
  ASSUME NEW found \in Seq(Listed)
  PROVE  Work(found) \in Seq(Listed)
<1>1. PICK a, b, c : a = On(found, "fixed") /\ b = On(found, "open") /\ c = On(found, "invalid")
  OBVIOUS
<1>2. a \in Seq(Listed) /\ b \in Seq(Listed) /\ c \in Seq(Listed)
  BY <1>1, OnType
<1>3. PICK all \in Seq(Listed) : all = a \o b \o c
  BY <1>2, ConcatType
<1>4. PICK I : I = {i \in DOMAIN all : all[i][1] \notin seen \/ all[i][2] = "fixed"}
  OBVIOUS
<1>5. I \in SUBSET (DOMAIN all)
  BY <1>4
<1>6. PICK new \in Seq(Listed) : new = Part(all, I)
  BY <1>5, PartType
<1>7. Work(found) = Slice(new, 0, MaxPerRun)
  BY <1>1, <1>3, <1>4, <1>6 DEF Work
<1>8. 0 \in Nat /\ MaxPerRun \in Nat
  BY Sizes
<1>9. Slice(new, 0, MaxPerRun) \in Seq(Listed)
  BY <1>6, <1>8, SliceIs
<1> QED
  BY <1>7, <1>9

(* A dashboard adds crashes of this world to the run's list.               *)
LEMMA ReadBoardKeeps ==
  ASSUME SyzInv, ReadBoard
  PROVE  SyzInv'
<1>1. PICK b : b = Boards[syz.next]
  OBVIOUS
<1>2. PICK got \in SUBSET world.crashes :
        LET found == syz.found \o [i \in 1..Cardinality(got) |-> <<InOrder(got)[i], b>>]
        IN syz' = IF syz.next < Len(Boards)
                  THEN [syz EXCEPT !.next = @ + 1, !.found = found]
                  ELSE [syz EXCEPT !.at = "fetch", !.found = Work(found)]
  <2>1. PICK listed : listed = {c \in world.crashes :
                                board[c] = b /\ c \notin {p[1] : p \in ToSet(syz.found)}}
    OBVIOUS
  <2>2. listed \subseteq world.crashes /\ {} \subseteq world.crashes
    BY <2>1
  <2>3. \E got \in {listed, {}} :
          LET found == syz.found \o [i \in 1..Cardinality(got) |-> <<InOrder(got)[i], b>>]
          IN syz' = IF syz.next < Len(Boards)
                    THEN [syz EXCEPT !.next = @ + 1, !.found = found]
                    ELSE [syz EXCEPT !.at = "fetch", !.found = Work(found)]
    BY <1>1, <2>1 DEF ReadBoard
  <2> QED
    BY <2>2, <2>3
<1>3. syz \in SyzRun /\ syz.at = "list" /\ UNCHANGED <<world, crashFix, seen, quarantined>>
  BY DEF ReadBoard, SyzInv
<1>4. PICK f : f = [i \in 1..Cardinality(got) |-> <<InOrder(got)[i], b>>]
  OBVIOUS
<1>5. f \in Seq(Listed)
  <2>1. got \in SUBSET Nat /\ IsFiniteSet(got)
    BY FS_Subset DEF SyzInv
  <2>2. Cardinality(got) \in Nat /\ \A i \in 1..Cardinality(got) : InOrder(got)[i] \in world.crashes
    BY <2>1, InOrderLists, FS_CardinalityType
  <2>3. b \in {"open", "fixed", "invalid"}
    <3>1. syz.next \in 1..3
      BY <1>3, SyzFields
    <3> QED
      BY <1>1, <3>1 DEF Boards
  <2> QED
    BY <1>4, <2>2, <2>3 DEF Listed
<1>6. PICK found \in Seq(Listed) : found = syz.found \o f
  BY <1>3, <1>5, SyzFields, ConcatType
<1>7. PICK work \in Seq(Listed) : work = Work(found)
  BY <1>6, WorkType
<1>8. Len(Boards) = 3
  BY DEF Boards
<1>9. \/ syz.next < 3 /\ syz' = [syz EXCEPT !.next = @ + 1, !.found = found]
      \/ syz' = [syz EXCEPT !.at = "fetch", !.found = work]
  BY <1>2, <1>4, <1>6, <1>7, <1>8
<1>10. syz' \in SyzRun /\ syz'.seen = syz.seen
  <2>1. CASE syz' = [syz EXCEPT !.at = "fetch", !.found = work]
    BY <1>3, <2>1 DEF SyzRun
  <2>2. CASE syz.next < 3 /\ syz' = [syz EXCEPT !.next = @ + 1, !.found = found]
    <3>1. PICK n \in 1..3 : n = syz.next + 1
      BY <1>3, <2>2, SyzFields
    <3>2. syz' = [syz EXCEPT !.next = n, !.found = found]
      BY <2>2, <3>1
    <3> QED
      BY <1>3, <3>2 DEF SyzRun
  <2> QED
    BY <1>9, <2>1, <2>2
<1>11. syz'.at \in {"list", "fetch"}
  BY <1>10 DEF SyzRun
<1>12. SyzRun' = SyzRun /\ \A c : Kept(c)' = Kept(c)
  BY <1>3 DEF SyzRun, Listed, Kept
<1> QED
  BY <1>3, <1>10, <1>11, <1>12 DEF SyzInv

(* What was kept is kept, and so is what a run adds to what it has seen.   *)
LEMMA SyzProceeds ==
  ASSUME SyzInv, NEW c, NEW s, syz.at = "fetch", syz.found # <<>>, c = Head(syz.found)[1],
         s = syz.seen \/ s = syz.seen \cup {c},
         syz' = [syz EXCEPT !.found = Tail(@), !.seen = s],
         UNCHANGED <<world, seen>>, quarantined \subseteq quarantined',
         DOMAIN crashFix \subseteq DOMAIN crashFix', DOMAIN crashFix' \subseteq world.crashes,
         Kept(c)'
  PROVE  SyzInv'
<1>1. syz \in SyzRun
  BY DEF SyzInv
<1>2. PICK found \in Seq(Listed) : found = Tail(syz.found)
  BY <1>1, SyzFields, TailType
<1>3. c \in world.crashes
  <2>1. Head(syz.found) \in Listed
    BY <1>1, SyzFields
  <2> QED
    BY <2>1 DEF Listed
<1>4. s \in SUBSET world.crashes
  BY <1>1, <1>3, SyzFields
<1>5. syz' \in SyzRun /\ syz'.seen = s /\ syz'.at = "fetch"
  <2>1. syz' = [syz EXCEPT !.found = found, !.seen = s]
    BY <1>2
  <2> QED
    BY <1>1, <1>4, <2>1 DEF SyzRun
<1>6. \A d : Kept(d) => Kept(d)'
  BY DEF Kept
<1>7. \A d \in s : Kept(d)'
  BY <1>6 DEF SyzInv
<1>8. SyzRun' = SyzRun
  BY DEF SyzRun, Listed
<1> QED
  BY <1>5, <1>6, <1>7, <1>8 DEF SyzInv

(* A run begins with what the checkpoint has seen, and ends or dies.       *)
LEMMA SyzResets ==
  ASSUME SyzInv, UNCHANGED <<world, crashFix, quarantined>>,
         seen' = seen \/ (syz.at # "idle" /\ seen' = syz.seen),
         syz'.at = "idle" \/ (syz' \in SyzRun /\ syz'.at = "list" /\ syz'.seen = seen)
  PROVE  SyzInv'
<1>1. \A c : Kept(c)' = Kept(c)
  BY DEF Kept
<1>2. SyzRun' = SyzRun
  BY DEF SyzRun, Listed
<1>3. seen' \subseteq world.crashes /\ \A c \in seen' : Kept(c)
  BY SyzFields DEF SyzInv
<1> QED
  BY <1>1, <1>2, <1>3 DEF SyzInv

LEMMA SyzKeeps ==
  ASSUME SyzInv, Syzbot
  PROVE  SyzInv'
<1>1. CASE StartSyzbot
  <2>1. syz' = [at |-> "list", next |-> 1, found |-> <<>>, seen |-> seen]
        /\ UNCHANGED <<world, crashFix, quarantined, seen>>
    BY <1>1 DEF StartSyzbot
  <2>2. seen \in SUBSET world.crashes /\ <<>> \in Seq(Listed) /\ 1 \in 1..3
    BY DEF SyzInv
  <2>3. syz' \in SyzRun /\ syz'.at = "list" /\ syz'.seen = seen
    BY <2>1, <2>2 DEF SyzRun
  <2> QED
    BY <2>1, <2>3, SyzResets
<1>2. CASE ReadBoard
  BY <1>2, ReadBoardKeeps
<1>3. CASE StoreCrash
  <2>1. PICK c : c = Head(syz.found)[1]
    OBVIOUS
  <2>2. PICK s : s = syz.seen \cup {c}
    OBVIOUS
  <2>3. /\ syz.at = "fetch" /\ syz.found # <<>> /\ UNCHANGED <<world, seen, quarantined>>
        /\ DOMAIN crashFix' = DOMAIN crashFix \cup {c}
    BY <1>3, <2>1 DEF StoreCrash
  <2>4. syz' = [syz EXCEPT !.found = Tail(@), !.seen = @ \cup {c}]
    BY <1>3, <2>1 DEF StoreCrash
  <2>5. syz' = [syz EXCEPT !.found = Tail(@), !.seen = s]
    <3>1. syz \in SyzRun
      BY <2>3 DEF SyzInv
    <3> QED
      BY <2>2, <2>4, <3>1 DEF SyzRun
  <2>6. c \in world.crashes
    <3>1. syz \in SyzRun
      BY <2>3 DEF SyzInv
    <3>2. Head(syz.found) \in Listed
      BY <2>3, <3>1, SyzFields
    <3> QED
      BY <2>1, <3>2 DEF Listed
  <2>7. Kept(c)' /\ DOMAIN crashFix' \subseteq world.crashes /\ DOMAIN crashFix \subseteq DOMAIN crashFix'
    BY <2>3, <2>6 DEF SyzInv, Kept
  <2>8. quarantined \subseteq quarantined' /\ UNCHANGED <<world, seen>>
    BY <2>3
  <2> QED
    BY <2>1, <2>2, <2>3, <2>5, <2>7, <2>8, SyzProceeds
<1>4. CASE StoreCrashFails
  <2>1. PICK c : c = Head(syz.found)[1]
    OBVIOUS
  <2>2. /\ syz.at = "fetch" /\ syz.found # <<>> /\ UNCHANGED <<world, seen, crashFix>>
        /\ quarantined' = quarantined \cup {<<"syzbot", c>>}
    BY <1>4, <2>1 DEF StoreCrashFails
  <2>3. PICK s \in {syz.seen, syz.seen \cup {c}} : syz' = [syz EXCEPT !.found = Tail(@), !.seen = s]
    BY <1>4, <2>1 DEF StoreCrashFails
  <2>4. /\ Kept(c)' /\ quarantined \subseteq quarantined'
        /\ DOMAIN crashFix' \subseteq world.crashes /\ DOMAIN crashFix \subseteq DOMAIN crashFix'
    BY <2>2 DEF SyzInv, Kept
  <2> QED
    BY <2>1, <2>2, <2>3, <2>4, SyzProceeds
<1>5. CASE EndSyzbot
  BY <1>5, SyzResets DEF EndSyzbot, Idle
<1>6. CASE SyzbotDies
  BY <1>6, SyzResets DEF SyzbotDies, Idle
<1> QED
  BY <1>1, <1>2, <1>3, <1>4, <1>5, <1>6 DEF Syzbot

LEMMA SyzRests ==
  ASSUME SyzInv, UNCHANGED <<world, crashFix, seen, syz>>, quarantined \subseteq quarantined'
  PROVE  SyzInv'
<1>1. \A c : Kept(c) => Kept(c)'
  BY DEF Kept
<1>2. SyzRun' = SyzRun
  BY DEF SyzRun, Listed
<1> QED
  BY <1>1, <1>2 DEF SyzInv

LEMMA InitKept == TrackerInit => IssuesInv /\ SyzInv
<1> SUFFICES ASSUME TrackerInit PROVE IssuesInv /\ SyzInv
  OBVIOUS
<1>1. IssuesInv
  BY DEF TrackerInit, IssuesInv, TrueRecord, NoFile, Idle
<1>2. world.crashes \in SUBSET Nat /\ IsFiniteSet(world.crashes)
  BY WorldIsFinite DEF TrackerInit
<1>3. DOMAIN crashFix = {} /\ seen = {} /\ syz.at = "idle"
  BY DEF TrackerInit, Idle
<1>4. SyzInv
  BY <1>2, <1>3 DEF SyzInv
<1> QED
  BY <1>1, <1>4

----------------------------------------------------------------------------
(* The ingesters together.                                                 *)

TrackersInv == CrawlInv /\ IssuesInv /\ SyzInv

(* What the steps of the three kinds of ingester have in common.           *)
LEMMA CrawlKeeps ==
  ASSUME CrawlInv, NEW s \in Crawled, Crawl(s)
  PROVE  CrawlInv'
BY StartCrawlKeeps, FetchPageKeeps, StoreEntryKeeps, NextPageKeeps, NextWindowKeeps, EndCrawlKeeps,
   CrawlDiesKeeps DEF Crawl

LEMMA CrawlsApart ==
  ASSUME NEW s \in Crawled, Crawl(s)
  PROVE  UNCHANGED <<world, issues, crashes>> /\ quarantined \subseteq quarantined'
<1>1. CASE StartCrawl(s) \/ FetchPage(s) \/ StoreEntry(s) \/ StoreEntryFails(s)
  BY <1>1 DEF StartCrawl, FetchPage, StoreEntry, StoreEntryFails
<1>2. CASE NextPage(s) \/ NextWindow(s) \/ EndCrawl(s) \/ CrawlDies(s)
  BY <1>2 DEF NextPage, NextWindow, EndCrawl, CrawlDies
<1> QED
  BY <1>1, <1>2 DEF Crawl

LEMMA IssuesApart ==
  ASSUME NEW t \in Trackers, Issues(t)
  PROVE  UNCHANGED <<world, external, crawled, crashes, quarantined>>
<1>1. CASE StartIssues(t) \/ IssueNotFound(t) \/ IssueServerError(t) \/ StoreIssue(t)
  BY <1>1 DEF StartIssues, IssueNotFound, IssueServerError, StoreIssue
<1>2. CASE IssueFails(t) \/ EndIssues(t) \/ IssuesDie(t)
  BY <1>2 DEF IssueFails, EndIssues, IssuesDie
<1> QED
  BY <1>1, <1>2 DEF Issues

LEMMA SyzbotApart ==
  ASSUME Syzbot
  PROVE  UNCHANGED <<world, external, crawled, issues, bug>> /\ quarantined \subseteq quarantined'
BY DEF Syzbot, StartSyzbot, ReadBoard, StoreCrash, StoreCrashFails, EndSyzbot, SyzbotDies

(* Each kind of ingester keeps its part, and leaves the other two parts    *)
(* alone.                                                                  *)
LEMMA TrackersKeep ==
  ASSUME TablesInv, TrackersInv, TrackerNext
  PROVE  TrackersInv'
<1> USE DEF TrackersInv
<1>1. ToSet(bug) \subseteq ToSet(bug')
  BY TrackersGrow, GrowsKeepsBugs
<1>2. CASE Tick
  <2>1. UNCHANGED <<world, crashFix, seen, syz, file, issue, quarantined>>
    BY <1>2 DEF Tick, issues, crashes
  <2> QED
    BY <1>1, <1>2, <2>1, TickKeeps, IssuesRest, SyzRests
<1>3. ASSUME NEW s \in Crawled, NEW x \in Entries(s), Change(s, x) PROVE TrackersInv'
  <2>1. UNCHANGED <<world, crashFix, seen, syz, file, issue, quarantined>>
    BY <1>3 DEF Change, issues, crashes
  <2> QED
    BY <1>1, <1>3, <2>1, ChangeKeeps, IssuesRest, SyzRests
<1>4. CASE MoveCrash \/ MergeProject
  <2>1. /\ UNCHANGED <<world, clock, remote, stored, cursor, crawl, missed>>
        /\ UNCHANGED <<crashFix, seen, syz, file, issue, quarantined>>
    BY <1>4 DEF MoveCrash, MergeProject, external, crawled, issues, crashes
  <2> QED
    BY <1>1, <2>1, CrawlRests, IssuesRest, SyzRests
<1>5. CASE Syzbot
  <2>1. /\ UNCHANGED <<world, clock, remote, stored, cursor, crawl, missed, file, issue>>
        /\ quarantined \subseteq quarantined'
    BY <1>5, SyzbotApart DEF external, crawled, issues
  <2> QED
    BY <1>1, <1>5, <2>1, CrawlRests, IssuesRest, SyzKeeps
<1>6. ASSUME NEW s \in Crawled, Crawl(s) PROVE TrackersInv'
  <2>1. /\ UNCHANGED <<world, crashFix, seen, syz, file, issue>>
        /\ quarantined \subseteq quarantined'
    BY <1>6, CrawlsApart DEF issues, crashes
  <2> QED
    BY <1>1, <1>6, <2>1, CrawlKeeps, IssuesRest, SyzRests
<1>7. ASSUME NEW t \in Trackers, Issues(t) PROVE TrackersInv'
  <2>1. /\ UNCHANGED <<world, clock, remote, stored, cursor, crawl, missed>>
        /\ UNCHANGED <<crashFix, seen, syz, quarantined>>
    BY <1>7, IssuesApart DEF external, crawled, crashes
  <2> QED
    BY <1>7, <2>1, CrawlRests, IssuesKeep, SyzRests
<1> QED
  BY <1>2, <1>3, <1>4, <1>5, <1>6, <1>7 DEF TrackerNext, Remote

(* The jobs and the other ingesters leave what the trackers own.           *)
GraphStep == \/ IngestCommit \/ IngestMail \/ LinkNvd \/ LinkSyzbot \/ ImportPairs \/ ImportCommits
             \/ Job

(* None of them touches what an ingester of bugs, CVEs or crashes owns.    *)
LEMMA JobsApart ==
  ASSUME GraphStep \/ UNCHANGED vars
  PROVE  UNCHANGED <<tables, bug>>
<1>1. CASE IngestCommit \/ IngestMail \/ LinkNvd \/ LinkSyzbot \/ ImportPairs \/ ImportCommits
  BY <1>1 DEF IngestCommit, IngestMail, LinkNvd, LinkSyzbot, ImportPairs, ImportCommits, trackerVars, tables
<1>2. CASE StartLinker \/ Linker
  BY <1>2 DEF StartLinker, Linker, LinkBugs, LinkMail, LinkStubs, LinkerFails, trackerVars, tables
<1>3. CASE StartIssueLinker \/ IssueLinker
  BY <1>3 DEF StartIssueLinker, IssueLinker, ReadIssuePairs, InsertIssueLinks, trackerVars, tables
<1>4. CASE Tagger
  BY <1>4 DEF Tagger, StartTagger, TagPage, EndTagger, TaggerDies, trackerVars, tables
<1>5. CASE Neo4j
  BY <1>5 DEF Neo4j, ClearGraph, LoadCommits, LoadBugsRaises, StartReconcile, Compare, EndReconcile,
              trackerVars, tables
<1>6. CASE UNCHANGED vars
  BY <1>6 DEF vars, trackerVars, tables
<1> QED
  BY <1>1, <1>2, <1>3, <1>4, <1>5, <1>6 DEF GraphStep, Job

LEMMA NextTrackers == TruthInv /\ TrackersInv /\ [Next]_vars => TrackersInv'
<1> SUFFICES ASSUME TruthInv, TrackersInv, [Next]_vars PROVE TrackersInv'
  OBVIOUS
<1>1. CASE TrackerNext
  BY <1>1, TrackersKeep DEF TruthInv
<1>2. CASE GraphStep \/ UNCHANGED vars
  <2>1. /\ UNCHANGED <<world, clock, remote, stored, cursor, crawl, missed>>
        /\ UNCHANGED <<crashFix, seen, syz, file, issue, quarantined, bug>>
    BY <1>2, JobsApart DEF tables, external, crawled, issues, crashes
  <2> QED
    BY <2>1, CrawlRests, IssuesRest, SyzRests DEF TrackersInv
<1> QED
  BY <1>1, <1>2 DEF Next, GraphStep

(* What the saved cursor of Bugzilla or NVD has passed is in the tables in *)
(* its last version or in quarantine, but for the two exceptions the code  *)
(* has: the pages of src/ingest/bugzilla/ingester.py and                   *)
(* src/ingest/nvd/ingester.py shift while they are read, entries fail,     *)
(* runs die, and the cursor is the newest change seen.                     *)
THEOREM CursorIsCovered == Spec => []CursorCoversChanges
<1>1. Init => TruthInv /\ TrackersInv
  BY InitTruth, InitCrawl, InitKept DEF Init, TrackersInv
<1>2. TrackersInv => CursorCoversChanges
  BY DEF TrackersInv, CrawlInv, RowsInv, CursorCoversChanges, Covered
<1> QED
  BY <1>1, <1>2, NextTruth, NextTrackers, PTL DEF Spec

(* What the file of an issue run lists as fetched is a row, and what the   *)
(* checkpoint of syzbot lists as seen is a row or in quarantine, wherever  *)
(* a run failed, was killed or lost its file (backfill.py of               *)
(* src/ingest/gitee and atomgit, src/ingest/syzbot/ingester.py).           *)
THEOREM CheckpointIsKept == Spec => []CheckpointMeansKept
<1>1. Init => TruthInv /\ TrackersInv
  BY InitTruth, InitCrawl, InitKept DEF Init, TrackersInv
<1>2. TrackersInv => CheckpointMeansKept
  BY DEF TrackersInv, IssuesInv, TrueRecord, SyzInv, Kept, CheckpointMeansKept
<1> QED
  BY <1>1, <1>2, NextTruth, NextTrackers, PTL DEF Spec

----------------------------------------------------------------------------
(* The tagger.                                                             *)

(* A matching commit that a tagger has promised is tagged, or on a page to *)
(* come.                                                                   *)
TagInv ==
  /\ TaggerSkipsNone
  /\ job.at = "page" =>
       /\ DOMAIN job = {"at", "offset", "promised"} /\ job.offset \in Nat
       /\ job.promised \subseteq Bodies
       /\ \A c \in job.promised \cap Tagged :
            c \in domains \/ job.offset <= Cardinality(Before(Bodies, c))

LEMMA BodiesFinite == Bodies \in SUBSET Nat /\ IsFiniteSet(Bodies)
<1>1. Bodies \subseteq Commits
  BY DEF Bodies
<1> QED
  BY <1>1, Sizes, FS_Subset

(* Commits that arrive push the others back, never forward.                *)
LEMMA TagRests ==
  ASSUME TagInv, Grows, UNCHANGED domains, job' = job \/ job'.at \notin {"page", "tagged"}
  PROVE  TagInv'
<1>1. CASE job'.at \notin {"page", "tagged"}
  BY <1>1 DEF TagInv, TaggerSkipsNone
<1>2. CASE job' = job
  <2>1. Bodies \subseteq Bodies'
    BY DEF Grows, Bodies
  <2>2. Bodies' \in SUBSET Nat /\ IsFiniteSet(Bodies')
    <3>1. Bodies' \subseteq Commits
      BY DEF Bodies
    <3> QED
      BY <3>1, Sizes, FS_Subset
  <2>3. ASSUME NEW c \in Bodies, NEW o \in Nat, o <= Cardinality(Before(Bodies, c))
        PROVE  o <= Cardinality(Before(Bodies', c))
    <3>1. PICK T : T = Bodies'
      OBVIOUS
    <3>2. c \in Nat /\ Bodies \in SUBSET Nat
      BY BodiesFinite
    <3>3. /\ Cardinality(Before(Bodies, c)) \in Nat /\ Cardinality(Before(T, c)) \in Nat
          /\ Cardinality(Before(Bodies, c)) <= Cardinality(Before(T, c))
      BY <2>1, <2>2, <3>1, <3>2, RankOfMore
    <3> QED
      BY <2>3, <3>1, <3>3
  <2>4. job.at = "page" => \A c \in job.promised \cap Tagged :
                             c \in domains \/ job.offset <= Cardinality(Before(Bodies', c))
    BY <2>3 DEF TagInv
  <2>5. Before(Bodies, 0)' = Before(Bodies', 0) /\ \A c : Before(Bodies, c)' = Before(Bodies', c)
    BY DEF Before
  <2> QED
    BY <1>2, <2>1, <2>4, <2>5 DEF TagInv, TaggerSkipsNone
<1> QED
  BY <1>1, <1>2

(* A page tags what it holds, and is the last one only when nobody is      *)
(* ahead.                                                                  *)
LEMMA TagPageKeeps ==
  ASSUME TagInv, TagPage
  PROVE  TagInv'
<1>1. PICK page, o, promised : page = Page(job.offset) /\ o = job.offset /\ promised = job.promised
  OBVIOUS
<1>2. /\ DOMAIN job = {"at", "offset", "promised"} /\ o \in Nat /\ promised \subseteq Bodies
      /\ job.at = "page"
      /\ \A c \in promised \cap Tagged : c \in domains \/ o <= Cardinality(Before(Bodies, c))
  BY <1>1 DEF TagInv, TagPage
<1>3. /\ domains' = domains \cup (ToSet(page) \cap Tagged)
      /\ job' = IF Len(page) < TagBatch THEN [at |-> "tagged", promised |-> promised]
                ELSE [job EXCEPT !.offset = @ + TagBatch]
      /\ Bodies' = Bodies
  BY <1>1 DEF TagPage, trackerVars, Bodies
<1>4. TagBatch \in Nat \ {0}
  BY GraphAssumption DEF GraphAssumption
<1>5. ASSUME NEW c \in promised \cap Tagged, c \notin domains'
      PROVE  Len(page) = TagBatch /\ o + TagBatch <= Cardinality(Before(Bodies, c))
  <2>1. c \notin domains /\ c \notin ToSet(page)
    BY <1>3, <1>5
  <2>2. page = Slice(InOrder(Bodies), o, TagBatch)
    BY <1>1 DEF Page
  <2>3. c \in Bodies /\ o <= Cardinality(Before(Bodies, c))
    BY <1>2, <2>1
  <2>4. Bodies \in SUBSET Nat /\ IsFiniteSet(Bodies) /\ TagBatch \in Nat
    BY <1>4, BodiesFinite
  <2> QED
    BY <1>2, <2>1, <2>2, <2>3, <2>4, PageHolds
<1>6. CASE Len(page) < TagBatch
  <2>1. promised \cap Tagged \subseteq domains'
    BY <1>4, <1>5, <1>6
  <2>2. job' = [at |-> "tagged", promised |-> promised]
    BY <1>3, <1>6
  <2> QED
    BY <2>1, <2>2 DEF TagInv, TaggerSkipsNone
<1>7. CASE ~ (Len(page) < TagBatch)
  <2>1. PICK n \in Nat : n = o + TagBatch
    BY <1>2, <1>4
  <2>2. job' = [job EXCEPT !.offset = n]
    BY <1>1, <1>3, <1>7, <2>1
  <2>3. /\ DOMAIN job' = {"at", "offset", "promised"} /\ job'.at = "page"
        /\ job'.offset = n /\ job'.promised = promised
    BY <1>1, <1>2, <2>2
  <2>4. \A c \in promised \cap Tagged : c \in domains' \/ n <= Cardinality(Before(Bodies, c))
    BY <1>5, <2>1
  <2>5. \A c : Before(Bodies, c)' = Before(Bodies, c)
    BY <1>3 DEF Before
  <2> QED
    BY <1>2, <1>3, <2>3, <2>4, <2>5 DEF TagInv, TaggerSkipsNone
<1> QED
  BY <1>6, <1>7

LEMMA StartTaggerKeeps ==
  ASSUME StartTagger
  PROVE  TagInv'
<1>1. PICK promised : promised = Bodies
  OBVIOUS
<1>2. job' = [at |-> "page", offset |-> 0, promised |-> promised] /\ Bodies' = promised
  BY <1>1 DEF StartTagger, trackerVars, Bodies
<1>3. \A c \in promised : 0 <= Cardinality(Before(promised, c))
  <2>1. promised \in SUBSET Nat /\ IsFiniteSet(promised)
    BY <1>1, BodiesFinite
  <2>2. \A c \in promised : Cardinality(Before(promised, c)) \in Nat
    BY <2>1, RankType
  <2> QED
    BY <2>2
<1>4. \A c : Before(Bodies, c)' = Before(promised, c)
  BY <1>2 DEF Before
<1> QED
  BY <1>2, <1>3, <1>4 DEF TagInv, TaggerSkipsNone

(* No step takes from the tables what the links and the tagger rest on.    *)
LEMMA NextGrows ==
  ASSUME TruthInv, [Next]_vars
  PROVE  /\ Grows /\ mail \subseteq mail' /\ Rows \subseteq Rows'
         /\ DOMAIN crashFix \subseteq DOMAIN crashFix'
<1>1. CASE TrackerNext /\ UNCHANGED graphVars
  <2>1. Grows /\ Rows' = Rows /\ mail' = mail
    BY <1>1, TrackersGrow DEF TruthInv, Rows, graphVars
  <2>2. CASE StoreCrash
    BY <2>1, <2>2 DEF StoreCrash
  <2>3. CASE StartSyzbot \/ ReadBoard \/ StoreCrashFails \/ EndSyzbot \/ SyzbotDies
    BY <2>1, <2>3 DEF StartSyzbot, ReadBoard, StoreCrashFails, EndSyzbot, SyzbotDies
  <2>4. CASE MergeProject \/ Remote
    BY <2>1, <2>4 DEF MergeProject, Remote, Tick, MoveCrash, Change, crashes
  <2>5. ASSUME NEW s \in Crawled, Crawl(s) PROVE crashFix' = crashFix
    BY <2>5, CrawlsApart DEF crashes
  <2>6. ASSUME NEW t \in Trackers, Issues(t) PROVE crashFix' = crashFix
    BY <2>6, IssuesApart DEF crashes
  <2> QED
    BY <1>1, <2>1, <2>2, <2>3, <2>4, <2>5, <2>6 DEF TrackerNext, Syzbot
<1>2. CASE GraphStep \/ UNCHANGED vars
  <2>1. UNCHANGED <<world, bug, crashFix>>
    BY <1>2, JobsApart DEF tables, crashes
  <2>2. mail \subseteq mail'
    BY <1>2 DEF GraphStep, IngestCommit, IngestMail, LinkNvd, LinkSyzbot, ImportPairs, ImportCommits, Job,
         StartLinker, Linker, LinkBugs, LinkMail, LinkStubs, LinkerFails, StartIssueLinker, IssueLinker,
         ReadIssuePairs, InsertIssueLinks, Tagger, StartTagger, TagPage, EndTagger, TaggerDies, Neo4j,
         ClearGraph, LoadCommits, LoadBugsRaises, StartReconcile, Compare, EndReconcile, vars, graphVars
  <2>3. /\ Rows \subseteq Rows'
        /\ \A c \in Commits : commitRow[c] \in {"full", "bare"} => commitRow'[c] = commitRow[c]
    <3>1. CASE IngestCommit \/ LinkStubs \/ ImportCommits
      BY <3>1 DEF IngestCommit, LinkStubs, ImportCommits, Rows, TruthInv, TablesInv
    <3>2. CASE ~ (IngestCommit \/ LinkStubs \/ ImportCommits)
      <4>1. commitRow' = commitRow
        BY <1>2, <3>2 DEF GraphStep, IngestMail, LinkNvd, LinkSyzbot, ImportPairs, Job,
         StartLinker, Linker, LinkBugs, LinkMail, LinkerFails, StartIssueLinker, IssueLinker,
         ReadIssuePairs, InsertIssueLinks, Tagger, StartTagger, TagPage, EndTagger, TaggerDies, Neo4j,
         ClearGraph, LoadCommits, LoadBugsRaises, StartReconcile, Compare, EndReconcile, vars, trackerVars
      <4> QED
        BY <4>1 DEF Rows
    <3> QED
      BY <3>1, <3>2
  <2> QED
    BY <2>1, <2>2, <2>3 DEF Grows
<1> QED
  BY <1>1, <1>2 DEF Next, GraphStep

LEMMA NextTags ==
  ASSUME TruthInv, TagInv, [Next]_vars
  PROVE  TagInv'
<1>1. Grows
  BY NextGrows
<1>2. CASE TagPage \/ StartTagger
  BY <1>2, TagPageKeeps, StartTaggerKeeps
<1>3. CASE ~ (TagPage \/ StartTagger)
  <2>1. UNCHANGED domains /\ (job' = job \/ job'.at \notin {"page", "tagged"})
    <3>1. CASE (TrackerNext /\ UNCHANGED graphVars) \/ UNCHANGED vars
      BY <3>1 DEF vars, graphVars
    <3>2. CASE IngestCommit \/ IngestMail \/ LinkNvd \/ LinkSyzbot \/ ImportPairs \/ ImportCommits
      BY <3>2 DEF IngestCommit, IngestMail, LinkNvd, LinkSyzbot, ImportPairs, ImportCommits, graphVars
    <3>3. CASE StartLinker \/ StartIssueLinker
      <4>1. \E x : \/ job' = [at |-> "bugs", index |-> x, bugs |-> {}, mail |-> {}]
                   \/ job' = [at |-> "issues", index |-> x, pairs |-> {}]
        BY <3>3 DEF StartLinker, StartIssueLinker
      <4>2. UNCHANGED domains
        BY <3>3 DEF StartLinker, StartIssueLinker
      <4> QED
        BY <4>1, <4>2
    <3>4. CASE LinkBugs \/ LinkMail \/ ReadIssuePairs
      <4>1. job.at \in {"bugs", "mail", "issues"} /\ UNCHANGED domains
            /\ \E x : \/ job' = [job EXCEPT !.at = "mail", !.bugs = x]
                     \/ job' = [job EXCEPT !.at = "stubs", !.mail = x]
                     \/ job' = [job EXCEPT !.at = "insert", !.pairs = x]
        BY <3>4 DEF LinkBugs, LinkMail, ReadIssuePairs
      <4>2. "at" \in DOMAIN job
        BY DEF TruthInv, JobInv
      <4> QED
        BY <4>1, <4>2
    <3>5. CASE LinkStubs \/ LinkerFails \/ InsertIssueLinks \/ EndTagger \/ TaggerDies
      BY <3>5 DEF LinkStubs, LinkerFails, InsertIssueLinks, EndTagger, TaggerDies, Idle
    <3>6. CASE Compare
      BY <3>6 DEF Compare, TruthInv, JobInv
    <3>7. CASE ClearGraph \/ LoadCommits \/ LoadBugsRaises \/ StartReconcile \/ EndReconcile
      BY <3>7 DEF ClearGraph, LoadCommits, LoadBugsRaises, StartReconcile, EndReconcile, Idle
    <3> QED
      BY <1>3, <3>1, <3>2, <3>3, <3>4, <3>5, <3>6, <3>7
         DEF Next, Job, Linker, IssueLinker, Tagger, Neo4j
  <2> QED
    BY <1>1, <2>1, TagRests
<1> QED
  BY <1>2, <1>3

(* A tagger that ends has tagged every matching commit that had a body     *)
(* when it started, though commits that arrive shift its pages: they push  *)
(* the others back, and a full page is followed by another one             *)
(* (src/graph/fault_domain_tagger.py).                                     *)
THEOREM NoneIsSkipped == Spec => []TaggerSkipsNone
<1>1. Init => TruthInv /\ TagInv
  BY InitTruth DEF Init, Idle, TagInv, TaggerSkipsNone
<1>2. TagInv => TaggerSkipsNone
  BY DEF TagInv
<1> QED
  BY <1>1, <1>2, NextTruth, NextTags, PTL DEF Spec

----------------------------------------------------------------------------
(* Types.                                                                  *)

OneKeyEach == \A i, j \in DOMAIN bug : bug[i] = bug[j] => i = j

LinksTyped ==
  /\ mailLinks \subseteq Commits \X mail
  /\ \A l \in bugLinks : l.bug \in DOMAIN bug /\ l.commit \in Rows
  /\ cveLinks \subseteq Commits \X world.nvd
  /\ crashLinks \subseteq (DOMAIN crashFix) \X Commits

Places == {"idle", "bugs", "mail", "stubs", "issues", "insert", "page", "tagged", "cleared", "loaded",
           "compare", "compared"}

TypeInv ==
  /\ OneKeyEach /\ LinksTyped
  /\ faults \in 0..MaxFaults
  /\ domains \subseteq Commits
  /\ job.at \in Places
  /\ job.at = "stubs" => job.mail \subseteq Commits \X mail

(* A row is inserted only when it is not there.                            *)
LEMMA WithBugOneKey ==
  ASSUME TablesInv, OneKeyEach, bug' = bug \/ \E r : bug' = WithBug(r)
  PROVE  OneKeyEach'
<1>1. CASE bug' = bug
  BY <1>1 DEF OneKeyEach
<1>2. ASSUME NEW r, bug' = WithBug(r), r \notin ToSet(bug) PROVE OneKeyEach'
  <2>1. bug' = Append(bug, r)
    BY <1>2 DEF WithBug
  <2>2. /\ Len(bug) \in Nat /\ DOMAIN bug = 1..Len(bug) /\ DOMAIN bug' = 1..(Len(bug) + 1)
        /\ \A i \in 1..Len(bug) : bug'[i] = bug[i] /\ bug[i] # r
        /\ bug'[Len(bug) + 1] = r
    <3>1. bug \in Seq(ToSet(bug) \cup {r})
      BY DEF TablesInv
    <3> QED
      BY <1>2, <2>1, <3>1 DEF ToSet
  <2>3. ASSUME NEW i \in 1..(Len(bug) + 1), NEW j \in 1..(Len(bug) + 1), bug'[i] = bug'[j]
        PROVE  i = j
    <3>1. CASE i \in 1..Len(bug) /\ j \in 1..Len(bug)
      BY <2>2, <2>3, <3>1 DEF OneKeyEach
    <3>2. i \in 1..Len(bug) \/ i = Len(bug) + 1
      BY <2>2
    <3>3. j \in 1..Len(bug) \/ j = Len(bug) + 1
      BY <2>2
    <3> QED
      BY <2>2, <2>3, <3>1, <3>2, <3>3
  <2> QED
    BY <2>2, <2>3 DEF OneKeyEach
<1>3. ASSUME NEW r, bug' = WithBug(r), r \in ToSet(bug) PROVE OneKeyEach'
  BY <1>1, <1>3 DEF WithBug
<1> QED
  BY <1>1, <1>2, <1>3

LEMMA LinksStayTyped ==
  ASSUME LinksTyped, Grows, mail \subseteq mail', Rows \subseteq Rows',
         DOMAIN crashFix \subseteq DOMAIN crashFix', UNCHANGED links
  PROVE  LinksTyped'
<1>1. UNCHANGED <<bugLinks, mailLinks, cveLinks, crashLinks, world>>
  BY DEF links, Grows
<1>2. mailLinks' \subseteq Commits \X mail'
  BY <1>1 DEF LinksTyped
<1>3. \A l \in bugLinks' : l.bug \in DOMAIN bug' /\ l.commit \in Rows'
  BY <1>1 DEF LinksTyped, Grows
<1>4. cveLinks' \subseteq Commits \X world'.nvd /\ crashLinks' \subseteq (DOMAIN crashFix') \X Commits
  BY <1>1 DEF LinksTyped
<1> QED
  BY <1>2, <1>3, <1>4 DEF LinksTyped

(* Links that are inserted are between rows.                               *)
LEMMA InsertsTyped ==
  ASSUME TruthInv, LinksTyped, LinkStubs \/ InsertIssueLinks \/ ImportPairs,
         job.at = "stubs" => job.mail \subseteq Commits \X mail,
         Grows, Rows \subseteq Rows'
  PROVE  LinksTyped'
<1>1. /\ DOMAIN bug \subseteq DOMAIN bug'
      /\ UNCHANGED <<mail, cveLinks, crashLinks, world, crashFix>>
  BY DEF LinkStubs, InsertIssueLinks, ImportPairs, tables, trackerVars, crashes, Grows
<1>2. mailLinks' \subseteq Commits \X mail'
  BY <1>1 DEF LinkStubs, InsertIssueLinks, ImportPairs, LinksTyped
<1>3. ASSUME NEW l \in bugLinks', l \notin bugLinks PROVE l.bug \in DOMAIN bug /\ l.commit \in Rows
  <2>1. CASE LinkStubs
    <3>1. l \in job.bugs /\ job.at = "stubs"
      BY <1>3, <2>1, InsertAdds DEF LinkStubs
    <3>2. TrueLink(l)
      BY <3>1 DEF TruthInv, JobInv
    <3> QED
      BY <3>2 DEF TrueLink, PassesAudit, Rows
  <2>2. CASE InsertIssueLinks
    <3>1. l \in {Link(p[1], job.index[p[2]], "trailer", p[2][1]) :
                   p \in {q \in job.pairs : q[2] \in DOMAIN job.index}} /\ job.at = "insert"
      BY <1>3, <2>2, InsertAdds DEF InsertIssueLinks
    <3>2. PICK p \in job.pairs : /\ p[2] \in DOMAIN job.index
                                 /\ l = Link(p[1], job.index[p[2]], "trailer", p[2][1])
      BY <3>1
    <3>3. job.index[p[2]] \in DOMAIN bug /\ TruePair(p)
      BY <3>1, <3>2 DEF TruthInv, JobInv, TrueIndex
    <3> QED
      BY <3>2, <3>3 DEF Link, TruePair, Rows
  <2>3. CASE ImportPairs
    <3>1. l \in {Link(m[1][1], m[2], "fixes", "zenodo_dataset") :
                  m \in {q \in world.pairs \X (DOMAIN bug) :
                            bug[q[2]][2] = q[1][2] /\ q[1][1] \in Rows}}
      BY <1>3, <2>3, InsertAdds DEF ImportPairs
    <3> QED
      BY <3>1 DEF Link
  <2> QED
    BY <2>1, <2>2, <2>3
<1>4. \A l \in bugLinks' : l.bug \in DOMAIN bug' /\ l.commit \in Rows'
  BY <1>1, <1>3 DEF LinksTyped
<1> QED
  BY <1>1, <1>2, <1>4 DEF LinksTyped

LEMMA StatementsTyped ==
  ASSUME LinksTyped, LinkNvd \/ LinkSyzbot
  PROVE  LinksTyped'
<1>1. UNCHANGED <<mail, mailLinks, bugLinks, world, crashFix, bug, commitRow>> /\ Rows' = Rows
  BY DEF LinkNvd, LinkSyzbot, trackerVars, crashes, Rows
<1>2. \A l \in bugLinks' : l.bug \in DOMAIN bug' /\ l.commit \in Rows'
  BY <1>1 DEF LinksTyped
<1>3. cveLinks' \subseteq Commits \X world.nvd /\ crashLinks' \subseteq (DOMAIN crashFix) \X Commits
  BY DEF LinkNvd, LinkSyzbot, LinksTyped, Rows
<1> QED
  BY <1>1, <1>2, <1>3 DEF LinksTyped

(* The bound on failures.                                                  *)
LEMMA FaultsCounted ==
  ASSUME faults \in 0..MaxFaults, [Next]_vars
  PROVE  faults' \in 0..MaxFaults
<1>1. faults' = faults \/ Fault
  <2>1. CASE UNCHANGED vars
    BY <2>1 DEF vars, trackerVars
  <2>2. CASE Remote \/ MergeProject \/ Syzbot
    BY <2>2 DEF Remote, Tick, MoveCrash, Change, MergeProject, Syzbot, StartSyzbot, ReadBoard, StoreCrash,
                StoreCrashFails, EndSyzbot, SyzbotDies
  <2>3. ASSUME NEW s \in Crawled, Crawl(s) PROVE faults' = faults \/ Fault
    BY <2>3 DEF Crawl, StartCrawl, FetchPage, StoreEntry, StoreEntryFails, NextPage, NextWindow, EndCrawl,
                CrawlDies
  <2>4. ASSUME NEW t \in Trackers, Issues(t) PROVE faults' = faults \/ Fault
    BY <2>4 DEF Issues, StartIssues, IssueNotFound, IssueServerError, StoreIssue, IssueFails, EndIssues,
                IssuesDie
  <2>5. CASE IngestCommit \/ IngestMail \/ LinkNvd \/ LinkSyzbot \/ ImportPairs \/ ImportCommits
    BY <2>5 DEF IngestCommit, IngestMail, LinkNvd, LinkSyzbot, ImportPairs, ImportCommits, trackerVars
  <2>6. CASE StartLinker \/ Linker \/ StartIssueLinker \/ IssueLinker
    BY <2>6 DEF StartLinker, Linker, LinkBugs, LinkMail, LinkStubs, LinkerFails, StartIssueLinker,
                IssueLinker, ReadIssuePairs, InsertIssueLinks, trackerVars
  <2>7. CASE Tagger \/ Neo4j
    BY <2>7 DEF Tagger, StartTagger, TagPage, EndTagger, TaggerDies, Neo4j, ClearGraph, LoadCommits,
                LoadBugsRaises, StartReconcile, Compare, EndReconcile, trackerVars
  <2> QED
    BY <2>1, <2>2, <2>3, <2>4, <2>5, <2>6, <2>7 DEF Next, TrackerNext, Job
<1>2. MaxFaults \in Nat
  BY TrackerAssumption DEF TrackerAssumption
<1> QED
  BY <1>1, <1>2 DEF Fault

(* Where a job is, and what the linker has read of the mail.               *)
LEMMA JobsPlaced ==
  ASSUME TruthInv, TypeInv, [Next]_vars, mail \subseteq mail'
  PROVE  job'.at \in Places /\ (job'.at = "stubs" => job'.mail \subseteq Commits \X mail')
<1> "at" \in DOMAIN job
  BY DEF TruthInv, JobInv
<1>1. CASE job' = job
  BY <1>1 DEF TypeInv
<1>2. CASE job' = Idle
  BY <1>2 DEF Idle, Places
<1>3. CASE LinkMail
  <2>1. PICK found : found = UNION {{<<c, m>> : m \in {n \in mail : <<"lore", n>> \in world.cites[c]}}
                                    : c \in Bodies}
    OBVIOUS
  <2>2. found \subseteq Commits \X mail
    <3>1. ASSUME NEW p \in found PROVE p \in Commits \X mail
      <4>1. PICK c \in Bodies : p \in {<<c, m>> : m \in {n \in mail : <<"lore", n>> \in world.cites[c]}}
        BY <2>1
      <4>2. PICK m \in mail : p = <<c, m>>
        BY <4>1
      <4> QED
        BY <4>2 DEF Bodies
    <3> QED
      BY <3>1
  <2>3. DOMAIN job = {"at", "index", "bugs", "mail"} /\ job' = [job EXCEPT !.at = "stubs", !.mail = found]
    BY <1>3, <2>1 DEF LinkMail, TruthInv, JobInv
  <2>4. job'.at = "stubs" /\ job'.mail = found
    BY <2>3
  <2> QED
    BY <2>2, <2>4 DEF Places
<1>4. CASE LinkBugs \/ ReadIssuePairs
  <2>1. \E x : \/ job' = [job EXCEPT !.at = "mail", !.bugs = x]
               \/ job' = [job EXCEPT !.at = "insert", !.pairs = x]
    BY <1>4 DEF LinkBugs, ReadIssuePairs
  <2>2. job'.at \in {"mail", "insert"}
    BY <2>1
  <2> QED
    BY <2>2 DEF Places
<1>5. CASE StartLinker \/ StartIssueLinker
  <2>1. \E x : \/ job' = [at |-> "bugs", index |-> x, bugs |-> {}, mail |-> {}]
               \/ job' = [at |-> "issues", index |-> x, pairs |-> {}]
    BY <1>5 DEF StartLinker, StartIssueLinker
  <2> QED
    BY <2>1 DEF Places
<1>6. CASE StartTagger \/ TagPage
  <2>1. job'.at \in {"page", "tagged"}
    BY <1>6 DEF StartTagger, TagPage
  <2> QED
    BY <2>1 DEF Places
<1>7. CASE ClearGraph \/ LoadCommits \/ StartReconcile \/ Compare
  <2>1. job'.at \in {"cleared", "loaded", "compare", "compared"}
    <3>1. CASE Compare
      <4>1. job.at = "compare" /\ \E table, ok : \/ job' = [job EXCEPT !.table = table, !.ok = ok]
                                               \/ job' = [at |-> "compared", ok |-> ok]
        BY <3>1 DEF Compare
      <4>2. ASSUME NEW table, NEW ok, job' = [job EXCEPT !.table = table, !.ok = ok]
            PROVE  job'.at = "compare"
        BY <4>1, <4>2
      <4>3. ASSUME NEW ok, job' = [at |-> "compared", ok |-> ok] PROVE job'.at = "compared"
        BY <4>3
      <4> QED
        BY <4>1, <4>2, <4>3
    <3>2. CASE ClearGraph \/ LoadCommits \/ StartReconcile
      BY <3>2 DEF ClearGraph, LoadCommits, StartReconcile
    <3> QED
      BY <1>7, <3>1, <3>2
  <2> QED
    BY <2>1 DEF Places
<1>8. CASE (TrackerNext /\ UNCHANGED graphVars) \/ UNCHANGED vars
  BY <1>1, <1>8 DEF vars, graphVars
<1>9. CASE IngestCommit \/ IngestMail \/ LinkNvd \/ LinkSyzbot \/ ImportPairs \/ ImportCommits
  BY <1>1, <1>9 DEF IngestCommit, IngestMail, LinkNvd, LinkSyzbot, ImportPairs, ImportCommits, graphVars
<1>10. CASE LinkStubs \/ LinkerFails \/ InsertIssueLinks \/ EndTagger \/ TaggerDies \/ LoadBugsRaises
            \/ EndReconcile
  BY <1>2, <1>10 DEF LinkStubs, LinkerFails, InsertIssueLinks, EndTagger, TaggerDies, LoadBugsRaises,
                     EndReconcile
<1> QED
  BY <1>3, <1>4, <1>5, <1>6, <1>7, <1>8, <1>9, <1>10 DEF Next, Job, Linker, IssueLinker, Tagger, Neo4j

(* The types, step by step.                                                *)
LEMMA NextTyped ==
  ASSUME TruthInv, TypeInv, [Next]_vars
  PROVE  TypeInv'
<1>1. Grows /\ mail \subseteq mail' /\ Rows \subseteq Rows' /\ DOMAIN crashFix \subseteq DOMAIN crashFix'
  BY NextGrows
<1>2. OneKeyEach'
  <2>1. CASE TrackerNext
    <3>1. bug' = bug \/ \E r : bug' = WithBug(r)
      BY <2>1, TrackersAddBugs DEF TruthInv
    <3> QED
      BY <3>1, WithBugOneKey DEF TruthInv, TypeInv
  <2>2. CASE GraphStep \/ UNCHANGED vars
    <3>1. bug' = bug
      BY <2>2, JobsApart
    <3> QED
      BY <3>1 DEF TypeInv, OneKeyEach
  <2> QED
    BY <2>1, <2>2 DEF Next, GraphStep
<1>3. LinksTyped'
  <2>1. CASE LinkStubs \/ InsertIssueLinks \/ ImportPairs
    BY <1>1, <2>1, InsertsTyped DEF TypeInv
  <2>2. CASE LinkNvd \/ LinkSyzbot
    BY <2>2, StatementsTyped DEF TypeInv
  <2>3. CASE ~ (LinkStubs \/ InsertIssueLinks \/ ImportPairs \/ LinkNvd \/ LinkSyzbot)
    <3>1. UNCHANGED links
      BY <2>3 DEF Next, Job, Linker, IssueLinker, Tagger, Neo4j, IngestCommit, IngestMail, ImportCommits,
         StartLinker, LinkBugs, LinkMail, LinkerFails, StartIssueLinker, ReadIssuePairs,
         StartTagger, TagPage, EndTagger, TaggerDies,
         ClearGraph, LoadCommits, LoadBugsRaises, StartReconcile, Compare, EndReconcile, vars, graphVars
    <3> QED
      BY <1>1, <3>1, LinksStayTyped DEF TypeInv
  <2> QED
    BY <2>1, <2>2, <2>3
<1>4. domains' \subseteq Commits
  <2>1. domains' = domains \/ domains' \subseteq domains \cup Tagged
    BY DEF Next, Job, Linker, IssueLinker, Tagger, Neo4j, IngestCommit, IngestMail, ImportCommits,
         LinkNvd, LinkSyzbot, ImportPairs, LinkStubs, InsertIssueLinks,
         StartLinker, LinkBugs, LinkMail, LinkerFails, StartIssueLinker, ReadIssuePairs,
         StartTagger, TagPage, EndTagger, TaggerDies,
         ClearGraph, LoadCommits, LoadBugsRaises, StartReconcile, Compare, EndReconcile, vars, graphVars
  <2> QED
    BY <2>1, GraphAssumption DEF GraphAssumption, TypeInv
<1>5. faults' \in 0..MaxFaults
  BY FaultsCounted DEF TypeInv
<1>6. job'.at \in Places /\ (job'.at = "stubs" => job'.mail \subseteq Commits \X mail')
  BY <1>1, JobsPlaced
<1> QED
  BY <1>2, <1>3, <1>4, <1>5, <1>6 DEF TypeInv

LEMMA InitTyped == Init => TypeInv
<1> SUFFICES ASSUME Init PROVE TypeInv
  OBVIOUS
<1>1. MaxFaults \in Nat
  BY TrackerAssumption DEF TrackerAssumption
<1>2. OneKeyEach /\ faults \in 0..MaxFaults
  BY <1>1 DEF Init, TrackerInit, OneKeyEach
<1>3. LinksTyped
  BY DEF Init, LinksTyped
<1> QED
  BY <1>2, <1>3 DEF Init, TypeInv, Idle, Places

(* What TypeOK asks is what the invariants say.                            *)
LEMMA TypesAreRight == TruthInv /\ TrackersInv /\ TypeInv => TypeOK
<1> SUFFICES ASSUME TruthInv, TrackersInv, TypeInv PROVE TypeOK
  OBVIOUS
<1>1. ASSUME NEW s \in Crawled
      PROVE  /\ DOMAIN stored[s] = Entries(s)
             /\ \A x \in Entries(s) : stored[s][x] <= remote[s][x].ver
             /\ cursor[s] <= clock
             /\ crawl[s].at \in {"idle", "fetch", "store"}
  <2>1. RowsInv(s) /\ (crawl[s].at = "idle" \/ RunInv(s, crawl[s]))
    BY DEF TrackersInv, CrawlInv
  <2>2. crawl[s].at \in {"idle", "fetch", "store"}
    BY <2>1, RunFields DEF RunInv
  <2> QED
    BY <2>1, <2>2 DEF RowsInv
<1>2. \A t \in Trackers : issue[t].at \in {"idle", "run"}
  BY DEF TrackersInv, IssuesInv
<1>3. /\ DOMAIN crashFix \subseteq world.crashes /\ seen \subseteq world.crashes
      /\ syz.at \in {"idle", "list", "fetch"}
  BY DEF TrackersInv, SyzInv
<1>4. clock \in 0..world.span
  <2>1. world.span \in Nat /\ clock \in Nat /\ clock <= world.span
    BY WorldIsFinite DEF TrackersInv, CrawlInv
  <2> QED
    BY <2>1
<1>5. TrackerTypeOK
  BY <1>1, <1>2, <1>3, <1>4 DEF TrackerTypeOK, TruthInv, TablesInv, TypeInv, OneKeyEach
<1>6. \A l \in bugLinks : l.bug \in DOMAIN bug /\ commitRow[l.commit] # "none"
  BY DEF TypeInv, LinksTyped, Rows
<1> QED
  BY <1>5, <1>6 DEF TypeOK, TypeInv, LinksTyped, TruthInv, LinksInv, Places

(* The types, in which most is about keys: a bug has one primary key, a    *)
(* link is between rows that exist, no row is ever newer than its tracker  *)
(* and no cursor later than the clock (src/graph/linker.py and the         *)
(* ingesters under src/ingest).                                            *)
THEOREM GraphIsTyped == Spec => []TypeOK
<1>1. Init => TruthInv /\ TrackersInv /\ TypeInv
  BY InitTruth, InitCrawl, InitKept, InitTyped DEF Init, TrackersInv
<1> QED
  BY <1>1, TypesAreRight, NextTruth, NextTrackers, NextTyped, PTL DEF Spec
=============================================================================

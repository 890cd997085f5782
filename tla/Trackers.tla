------------------------------ MODULE Trackers ------------------------------
(***************************************************************************)
(* The ingesters of bugs, CVEs and crashes, and what each believes it has  *)
(* done already:                                                           *)
(*   bugzilla, nvd    page through what changed since a cursor;            *)
(*   gitee, atomgit   fetch the issues that stored commits cite, with a    *)
(*                    checkpoint file;                                     *)
(*   syzbot           read three dashboards, then a capped number of pages.*)
(* They share no row: what they have in common is the commit table, which  *)
(* decides what the issue trackers are asked for.  The trackers themselves *)
(* (remote, board) are external and change while they are read.            *)
(***************************************************************************)
EXTENDS Naturals, Sequences, FiniteSets, SequencesExt, FiniteSetsExt, Order

CONSTANTS
    Commits,        \* a set of naturals: the order of their hashes
    Worlds,         \* what there is to ingest; see WorldType
    Ticks,          \* clock ticks in a day
    Window,         \* ticks in the widest range NVD answers
    PageSize,
    SaveEvery,      \* an issue run writes its file every SaveEvery issues
    MaxPerRun,      \* crash pages fetched per run
    MaxChanges, MaxFaults   \* bounds, as is the span of a world

Crawled == {"bugzilla", "nvd"}
Trackers == {"gitee", "atomgit"}
Refs == {"bugzilla", "gitee", "atomgit", "lore"} \X Nat

WorldType ==
    [bugzilla: SUBSET Nat, nvd: SUBSET Nat, crashes: SUBSET Nat,
     span: Nat,                             \* the last tick of the clock
     cites: UNION {[C -> SUBSET Refs] : C \in SUBSET Commits},  \* in the bodies of its commits
     upstream: [Commits -> Commits \cup {0}], \* 0 for none
     gone: SUBSET Refs,                     \* issues answered 404
     broken: SUBSET Refs,                   \* issues answered 5xx, always
     fixes: [Nat -> SUBSET Commits],        \* of a CVE in NVD, of a crash
     project: [Nat -> SUBSET Commits],      \* of a CVE in the kernel project
     pairs: SUBSET (Commits \X Nat),        \* fix pairs of the dataset
     jobs: SUBSET {"linker", "issue linker", "tagger", "neo4j"}]     \* what is run

ASSUME TrackerAssumption ==
    /\ Commits \subseteq Nat \ {0} /\ IsFiniteSet(Commits)
    /\ {Ticks, Window, PageSize, SaveEvery, MaxPerRun} \subseteq Nat \ {0}
    /\ {MaxChanges, MaxFaults} \subseteq Nat
    /\ \A w \in Worlds:
         /\ DOMAIN w = {"bugzilla", "nvd", "crashes", "span", "cites", "upstream", "gone",
                        "broken", "fixes", "project", "pairs", "jobs"}
         /\ \A S \in {w.bugzilla, w.nvd, w.crashes}: S \subseteq Nat /\ IsFiniteSet(S)
         /\ w.span \in Nat /\ DOMAIN w.cites \subseteq Commits

VARIABLES
    world,          \* the one of Worlds this behaviour is about
    clock, changes,
    remote,         \* bugzilla and NVD: version and time of change of each entry
    board,          \* syzbot: the dashboard of each crash
    commitRow,      \* kernel_commit: "none", "full", or without a body "stub", "bare"
    bug,            \* the rows of bug by primary key: <<source, external_id>>
    stored,         \* the version of each entry in bug and cve, 0 for none
    cveFix,         \* cve.fix_commits
    crashFix,       \* syzbot_crash.fix_commits, by the crashes that have a row
    quarantined,
    cursor,         \* last checkpoint of bugzilla and nvd
    file,           \* checkpoint file of gitee and atomgit
    seen,           \* last checkpoint of syzbot
    crawl, issue, syz,      \* locals of the runs
    missed,         \* history: what a crawl may have passed over
    faults

external == <<clock, changes, remote, board>>
crawled  == <<stored, cveFix, cursor, crawl, missed>>
issues   == <<file, issue>>
crashes  == <<crashFix, seen, syz>>
trackerVars == <<world, external, commitRow, bug, crawled, issues, crashes, quarantined, faults>>

Idle       == [at |-> "idle"]
NoFile     == [fetched |-> {}, notFound |-> {}, serverError |-> {}]
Entries(s) == world[s]

TrackerTypeOK ==
    /\ commitRow \in [Commits -> {"none", "full", "stub", "bare"}]
    /\ \A i, j \in DOMAIN bug: bug[i] = bug[j] => i = j
    /\ \A s \in Crawled: /\ DOMAIN stored[s] = Entries(s)
                         /\ \A x \in Entries(s): stored[s][x] <= remote[s][x].ver
                         /\ cursor[s] <= clock
                         /\ crawl[s].at \in {"idle", "fetch", "store"}
    /\ \A t \in Trackers: issue[t].at \in {"idle", "run"}
    /\ DOMAIN crashFix \subseteq world.crashes /\ seen \subseteq world.crashes
    /\ syz.at \in {"idle", "list", "fetch"}
    /\ faults \in 0..MaxFaults /\ clock \in 0..world.span

TrackerInit ==
    /\ world \in Worlds
    /\ clock = 0 /\ changes = 0
    /\ remote = [s \in Crawled |-> [x \in Entries(s) |-> [ver |-> 1, at |-> 0]]]
    /\ board = [c \in world.crashes |-> "open"]
    /\ commitRow = [c \in Commits |-> "none"]
    /\ bug = <<>>
    /\ stored = [s \in Crawled |-> [x \in Entries(s) |-> 0]]
    /\ cveFix = [x \in world.nvd |-> {}]
    /\ crashFix = <<>> /\ quarantined = {}
    /\ cursor = [s \in Crawled |-> 0]
    /\ file = [t \in Trackers |-> NoFile]
    /\ seen = {}
    /\ crawl = [s \in Crawled |-> Idle]
    /\ issue = [t \in Trackers |-> Idle]
    /\ syz = Idle
    /\ missed = {} /\ faults = 0

Fault == faults < MaxFaults /\ faults' = faults + 1
AllIdle == /\ \A s \in Crawled: crawl[s].at = "idle"
           /\ \A t \in Trackers: issue[t].at = "idle"
           /\ syz.at = "idle"

\* A row is inserted once: its primary key is its place in the order of arrival.
WithBug(r) == IF r \in ToSet(bug) THEN bug ELSE Append(bug, r)

\* At most size of a list's elements, from the one behind offset.
Slice(list, offset, size) == SubSeq(list, offset + 1, Min({offset + size, Len(list)}))

----------------------------------------------------------------------------
\* bugzilla and nvd

\* Mutant: the day of the cursor is taken as read.
SinceNextDay(s, t) == IF s = "bugzilla" /\ t > 0 THEN (t \div Ticks) * Ticks + Ticks ELSE t

\* Bugzilla is asked with a date, NVD with a time.
Since(s, t) == IF s = "bugzilla" THEN (t \div Ticks) * Ticks ELSE t

Changed(s, c) ==
    {x \in Entries(s): remote[s][x].at >= Since(s, c.from) /\ remote[s][x].at <= c.to}

Listing(s, c) == InOrder(Changed(s, c))

\* Entries change while they are paged.  An NVD entry that changes leaves the
\* window being read and the entries behind it move up.
Change(s, x) ==
    /\ changes < MaxChanges /\ changes' = changes + 1
    /\ remote' = [remote EXCEPT ![s][x] = [ver |-> @.ver + 1, at |-> clock]]
    /\ missed' = IF s = "nvd" /\ crawl[s].at # "idle" /\ x \in Changed(s, crawl[s])
                 THEN missed \cup {<<s, y>> : y \in Changed(s, crawl[s]) \ {x}} ELSE missed
    /\ UNCHANGED <<world, clock, board, commitRow, bug, stored, cveFix, cursor, crawl,
                   issues, crashes, quarantined, faults>>

\* At midnight, what changed on the day before while Bugzilla was paged may be
\* behind the newest change the run will see.
Tick ==
    /\ clock < world.span /\ clock' = clock + 1
    /\ missed' = IF crawl["bugzilla"].at = "idle" \/ clock' % Ticks # 0 THEN missed
                 ELSE missed \cup {<<"bugzilla", x>> :
                        x \in {y \in world.bugzilla : remote["bugzilla"][y].at >= crawl["bugzilla"].start}}
    /\ UNCHANGED <<world, changes, remote, board, commitRow, bug, stored, cveFix, cursor, crawl,
                   issues, crashes, quarantined, faults>>

CrawlStep(s, c) == crawl' = [crawl EXCEPT ![s] = c]
WindowEnd(s, t, now) == IF s = "bugzilla" THEN world.span ELSE Min({t + Window, now})

\* NVD asks for nothing when its cursor is the present; an entry that changes
\* after the start of a run is dated after the run's last window.
StartCrawl(s) ==
    /\ AllIdle /\ Entries(s) # {}
    /\ s = "nvd" => cursor[s] < clock /\ clock < world.span
    /\ clock' = IF s = "nvd" THEN clock + 1 ELSE clock
    /\ CrawlStep(s, [at |-> "fetch", from |-> cursor[s], to |-> WindowEnd(s, cursor[s], clock),
                     start |-> clock, offset |-> 0, newest |-> cursor[s],
                     batch |-> <<>>, last |-> FALSE])
    /\ UNCHANGED <<world, changes, remote, board, commitRow, bug, stored, cveFix, cursor, missed,
                   issues, crashes, quarantined, faults>>

\* A page, as the tracker is now.  Bugzilla's last page is a short one; NVD says
\* how many entries there are.
FetchPage(s) ==
    LET c == crawl[s]
        list == Listing(s, c)
        page == Slice(list, c.offset, PageSize)
    IN /\ c.at = "fetch"
       /\ CrawlStep(s, [c EXCEPT !.at = "store", !.offset = @ + Len(page),
                !.batch = [i \in DOMAIN page |-> <<page[i], remote[s][page[i]]>>],
                !.last = IF s = "bugzilla" THEN Len(page) < PageSize
                         ELSE c.offset + Len(page) >= Len(list)])
       /\ UNCHANGED <<world, external, commitRow, bug, stored, cveFix, cursor, missed,
                      issues, crashes, quarantined, faults>>

\* NVD's list of fixes replaces the one the row had: an empty list is not NULL.
StoreEntry(s) ==
    LET c == crawl[s]
        x == Head(c.batch)[1]
        e == Head(c.batch)[2]
    IN /\ c.at = "store" /\ c.batch # <<>>
       /\ stored' = [stored EXCEPT ![s][x] = e.ver]
       /\ bug' = IF s = "bugzilla" THEN WithBug(<<"bugzilla", x>>) ELSE bug
       /\ cveFix' = IF s = "nvd" THEN [cveFix EXCEPT ![x] = world.fixes[x]] ELSE cveFix
       /\ CrawlStep(s, [c EXCEPT !.batch = Tail(@), !.newest = Max({@, e.at})])
       /\ UNCHANGED <<world, external, commitRow, cursor, missed, issues, crashes,
                      quarantined, faults>>

\* A failed upsert is quarantined and counts as read; a failed normalisation is
\* quarantined and leaves the newest change as it was.
StoreEntryFails(s) ==
    LET c == crawl[s]
        x == Head(c.batch)[1]
        e == Head(c.batch)[2]
    IN /\ c.at = "store" /\ c.batch # <<>> /\ Fault
       /\ quarantined' = quarantined \cup {<<s, x, e.ver>>}
       /\ \E newest \in {c.newest, Max({c.newest, e.at})}:
             CrawlStep(s, [c EXCEPT !.batch = Tail(@), !.newest = newest])
       /\ UNCHANGED <<world, external, commitRow, bug, stored, cveFix, cursor, missed,
                      issues, crashes>>

NextPage(s) ==
    LET c == crawl[s]
    IN /\ c.at = "store" /\ c.batch = <<>> /\ ~ c.last
       /\ CrawlStep(s, [c EXCEPT !.at = "fetch"])
       /\ UNCHANGED <<world, external, commitRow, bug, stored, cveFix, cursor, missed,
                      issues, crashes, quarantined, faults>>

NextWindow(s) ==
    LET c == crawl[s]
    IN /\ c.at = "store" /\ c.batch = <<>> /\ c.last
       /\ s = "nvd" /\ c.to < c.start
       /\ CrawlStep(s, [c EXCEPT !.at = "fetch", !.offset = 0, !.from = c.to,
                                 !.to = WindowEnd(s, c.to, c.start)])
       /\ UNCHANGED <<world, external, commitRow, bug, stored, cveFix, cursor, missed,
                      issues, crashes, quarantined, faults>>

EndCrawl(s) ==
    LET c == crawl[s]
    IN /\ c.at = "store" /\ c.batch = <<>> /\ c.last
       /\ s = "nvd" => c.to = c.start
       /\ cursor' = [cursor EXCEPT ![s] = c.newest]
       /\ CrawlStep(s, Idle)
       /\ UNCHANGED <<world, external, commitRow, bug, stored, cveFix, missed,
                      issues, crashes, quarantined, faults>>

\* A page that fails three times, a kill, or a checkpoint that cannot be saved.
CrawlDies(s) ==
    /\ crawl[s].at # "idle" /\ Fault
    /\ CrawlStep(s, Idle)
    /\ UNCHANGED <<world, external, commitRow, bug, stored, cveFix, cursor, missed,
                   issues, crashes, quarantined>>

\* The kernel's own CVE project, by hand: its commits are added to the lists.
MergeProject ==
    /\ \E x \in world.nvd: ~ world.project[x] \subseteq cveFix[x]
    /\ cveFix' = [x \in world.nvd |-> cveFix[x] \cup world.project[x]]
    /\ UNCHANGED <<world, external, commitRow, bug, stored, cursor, crawl, missed,
                   issues, crashes, quarantined, faults>>

----------------------------------------------------------------------------
\* gitee and atomgit

Cited(t) == {r[2] : r \in {q \in UNION {world.cites[c] : c \in {d \in Commits : commitRow[d] = "full"}} :
                             q[1] = t}}
Done(f) == f.fetched \cup f.notFound \cup f.serverError

StartIssues(t) ==
    /\ AllIdle
    /\ Cited(t) \ Done(file[t]) # {}
    /\ issue' = [issue EXCEPT ![t] = [at |-> "run", i |-> 0, done |-> file[t],
                                      todo |-> Cited(t) \ Done(file[t])]]
    /\ UNCHANGED <<world, external, commitRow, bug, crawled, file, crashes, quarantined, faults>>

\* Every SaveEvery issues the file is rewritten.
Proceed(t, done) ==
    LET r == issue[t]
    IN /\ issue' = [issue EXCEPT ![t] = [r EXCEPT !.i = (@ + 1) % SaveEvery, !.done = done,
                                                  !.todo = @ \ {Min(r.todo)}]]
       /\ file' = IF (r.i + 1) % SaveEvery = 0 THEN [file EXCEPT ![t] = done] ELSE file

Running(t) == issue[t].at = "run" /\ issue[t].todo # {}

IssueNotFound(t) ==
    LET id == Min(issue[t].todo)
    IN /\ Running(t) /\ <<t, id>> \in world.gone
       /\ Proceed(t, [issue[t].done EXCEPT !.notFound = @ \cup {id}])
       /\ UNCHANGED <<world, external, commitRow, bug, crawled, crashes, quarantined, faults>>

IssueServerError(t) ==
    LET id == Min(issue[t].todo)
    IN /\ Running(t) /\ <<t, id>> \in world.broken
       /\ Proceed(t, [issue[t].done EXCEPT !.serverError = @ \cup {id}])
       /\ UNCHANGED <<world, external, commitRow, bug, crawled, crashes, quarantined, faults>>

StoreIssue(t) ==
    LET id == Min(issue[t].todo)
    IN /\ Running(t) /\ <<t, id>> \notin world.gone \cup world.broken
       /\ bug' = WithBug(<<t, id>>)
       /\ Proceed(t, [issue[t].done EXCEPT !.fetched = @ \cup {id}])
       /\ UNCHANGED <<world, external, commitRow, crawled, crashes, quarantined, faults>>

\* Mutant: the issue is listed before the upsert is known to have worked.
IssueFailsListed(t) ==
    LET id == Min(issue[t].todo)
    IN /\ Running(t) /\ <<t, id>> \notin world.gone \cup world.broken /\ Fault
       /\ Proceed(t, [issue[t].done EXCEPT !.fetched = @ \cup {id}])
       /\ UNCHANGED <<world, external, commitRow, bug, crawled, crashes, quarantined>>

\* A transient error of the fetch or of the upsert: left for the next run, and
\* the file is not written at this position.
IssueFails(t) ==
    LET r == issue[t]
    IN /\ Running(t) /\ Fault
       /\ issue' = [issue EXCEPT ![t] = [r EXCEPT !.i = (@ + 1) % SaveEvery,
                                                  !.todo = @ \ {Min(r.todo)}]]
       /\ UNCHANGED <<world, external, commitRow, bug, crawled, file, crashes, quarantined>>

EndIssues(t) ==
    /\ issue[t].at = "run" /\ issue[t].todo = {}
    /\ file' = [file EXCEPT ![t] = issue[t].done]
    /\ issue' = [issue EXCEPT ![t] = Idle]
    /\ UNCHANGED <<world, external, commitRow, bug, crawled, crashes, quarantined, faults>>

\* A kill, or an answer parse_issue cannot read.  The file is written in place:
\* dying in the write leaves one the next run cannot read.
IssuesDie(t) ==
    /\ issue[t].at = "run" /\ Fault
    /\ \E f \in {file[t], NoFile}: file' = [file EXCEPT ![t] = f]
    /\ issue' = [issue EXCEPT ![t] = Idle]
    /\ UNCHANGED <<world, external, commitRow, bug, crawled, crashes, quarantined>>

----------------------------------------------------------------------------
\* syzbot

Boards == <<"open", "fixed", "invalid">>

\* Developers fix or dismiss a crash at any time.
MoveCrash ==
    \E c \in world.crashes:
        /\ changes < MaxChanges /\ changes' = changes + 1
        /\ board[c] = "open"
        /\ \E b \in {"fixed", "invalid"}: board' = [board EXCEPT ![c] = b]
        /\ UNCHANGED <<world, clock, remote, commitRow, bug, crawled, issues, crashes,
                       quarantined, faults>>

StartSyzbot ==
    /\ AllIdle /\ world.crashes # {}
    /\ syz' = [at |-> "list", next |-> 1, found |-> <<>>, seen |-> seen]
    /\ UNCHANGED <<world, external, commitRow, bug, crawled, issues, crashFix, seen,
                   quarantined, faults>>

On(found, b) == Part(found, {i \in DOMAIN found : found[i][2] = b})

\* Fixed crashes come first and are fetched again in every run, so that the
\* commit that fixed them is seen; the others only once.
Work(found) ==
    LET all == On(found, "fixed") \o On(found, "open") \o On(found, "invalid")
        new == Part(all, {i \in DOMAIN all : all[i][1] \notin seen \/ all[i][2] = "fixed"})
    IN Slice(new, 0, MaxPerRun)

\* The dashboards are read one by one; a crash on two of them is kept as on the
\* first, one that moves behind the reader is on none, and a dashboard that
\* cannot be read is passed over.
ReadBoard ==
    /\ syz.at = "list"
    /\ LET b == Boards[syz.next]
           listed == {c \in world.crashes : board[c] = b /\ c \notin {p[1] : p \in ToSet(syz.found)}}
       IN \E got \in {listed, {}}:
            /\ IF got = listed THEN UNCHANGED faults ELSE Fault
            /\ LET found == syz.found \o [i \in 1..Cardinality(got) |-> <<InOrder(got)[i], b>>]
               IN syz' = IF syz.next < Len(Boards)
                         THEN [syz EXCEPT !.next = @ + 1, !.found = found]
                         ELSE [syz EXCEPT !.at = "fetch", !.found = Work(found)]
    /\ UNCHANGED <<world, external, commitRow, bug, crawled, issues, crashFix, seen, quarantined>>

\* The page shows the fixes of a fixed crash, unless its links are not
\* recognised; an empty list leaves the row's fixes as they were.
StoreCrash ==
    /\ syz.at = "fetch" /\ syz.found # <<>>
    /\ LET c == Head(syz.found)[1]
           known == IF c \in DOMAIN crashFix THEN crashFix[c] ELSE {}
       IN /\ \E shown \in {IF board[c] = "fixed" THEN world.fixes[c] ELSE {}, {}}:
                crashFix' = [d \in DOMAIN crashFix \cup {c} |->
                               IF d # c THEN crashFix[d] ELSE IF shown = {} THEN known ELSE shown]
          /\ syz' = [syz EXCEPT !.found = Tail(@), !.seen = @ \cup {c}]
    /\ UNCHANGED <<world, external, commitRow, bug, crawled, issues, seen, quarantined, faults>>

\* A page that cannot be fetched leaves the crash unseen; a failed upsert counts
\* as seen.  Both are quarantined.
StoreCrashFails ==
    /\ syz.at = "fetch" /\ syz.found # <<>> /\ Fault
    /\ LET c == Head(syz.found)[1]
       IN /\ quarantined' = quarantined \cup {<<"syzbot", c>>}
          /\ \E s \in {syz.seen, syz.seen \cup {c}}:
                syz' = [syz EXCEPT !.found = Tail(@), !.seen = s]
    /\ UNCHANGED <<world, external, commitRow, bug, crawled, issues, crashFix, seen>>

EndSyzbot ==
    /\ syz.at = "fetch" /\ syz.found = <<>>
    /\ seen' = syz.seen
    /\ syz' = Idle
    /\ UNCHANGED <<world, external, commitRow, bug, crawled, issues, crashFix, quarantined, faults>>

\* A kill, a crash directory that cannot be written, a checkpoint not saved.
SyzbotDies ==
    /\ syz.at # "idle" /\ Fault
    /\ syz' = Idle
    /\ UNCHANGED <<world, external, commitRow, bug, crawled, issues, crashFix, seen, quarantined>>

----------------------------------------------------------------------------
Crawl(s)  == \/ StartCrawl(s) \/ FetchPage(s) \/ StoreEntry(s) \/ StoreEntryFails(s)
             \/ NextPage(s) \/ NextWindow(s) \/ EndCrawl(s) \/ CrawlDies(s)
Issues(t) == \/ StartIssues(t) \/ IssueNotFound(t) \/ IssueServerError(t) \/ StoreIssue(t)
             \/ IssueFails(t) \/ EndIssues(t) \/ IssuesDie(t)
Syzbot    == StartSyzbot \/ ReadBoard \/ StoreCrash \/ StoreCrashFails \/ EndSyzbot \/ SyzbotDies
Remote    == Tick \/ MoveCrash \/ \E s \in Crawled: \E x \in Entries(s): Change(s, x)

TrackerNext ==
    \/ Remote \/ MergeProject \/ Syzbot
    \/ \E s \in Crawled: Crawl(s)
    \/ \E t \in Trackers: Issues(t)

----------------------------------------------------------------------------
\* What the saved cursor of Bugzilla or NVD has passed is in the tables in its
\* last version or is in quarantine, with two exceptions the code has: an NVD
\* entry behind another that left the window while it was paged, and a bug that
\* changed before a midnight that its run lived through.
CursorCoversChanges ==
    \A s \in Crawled: \A x \in Entries(s):
        remote[s][x].at < Since(s, cursor[s]) =>
            \/ stored[s][x] = remote[s][x].ver
            \/ <<s, x, remote[s][x].ver>> \in quarantined
            \/ <<s, x>> \in missed

\* What an issue tracker's file lists as fetched, and what syzbot's checkpoint
\* lists as seen, is a row, or is in quarantine, whatever failed or died.
CheckpointMeansKept ==
    /\ \A t \in Trackers: \A id \in file[t].fetched: <<t, id>> \in ToSet(bug)
    /\ \A c \in seen: c \in DOMAIN crashFix \/ <<"syzbot", c>> \in quarantined
=============================================================================

---------------------------- MODULE KernelCommit ----------------------------
(***************************************************************************)
(* The ingestion of kernel commits: BaseIngester.run (ingest/base.py)      *)
(* around KernelCommitIngester.incremental (ingest/kernel_commit), reading *)
(* the git clones and writing the kernel_commit table, and the linker step *)
(* that bridges an OLK backport to its upstream commit with a stub row     *)
(* (graph/linker.py, _link_olk_upstream).                                  *)
(*                                                                         *)
(* A history is the sequence of the commits of one branch, oldest first; a *)
(* sha in a checkpoint is the position of its commit.  weekly_sync.sh      *)
(* holds a lock, but a run started by hand does not take it, so two may    *)
(* overlap; each step may fail as the code expects it to, and a run may be *)
(* killed at any point.                                                    *)
(***************************************************************************)
EXTENDS Naturals, Sequences, FiniteSets

CONSTANTS
  Hash,         \* commits
  Sources,      \* the branches in the order they are read, "mainline" last
  History,      \* [Source -> Seq(Hash)], what each branch will ever hold
  Merge,        \* merge commits of an OLK branch, which are not ingested
  Upstream,     \* [Hash -> Hash or None], the upstream sha a backport names
  Run,          \* the ingester processes
  BatchSize,    \* _BATCH_SIZE
  MaxFailures,  \* bound on the steps that fail
  None

Mainline == "mainline"
Source == {Sources[i] : i \in DOMAIN Sources}
Published(s, n) == {History[s][i] : i \in 1..n}

ASSUME KernelCommitAssumption ==
  /\ Sources \in Seq(STRING) /\ Sources # <<>>
  /\ Sources[Len(Sources)] = Mainline
  /\ \A i, j \in DOMAIN Sources : Sources[i] = Sources[j] => i = j
  /\ History \in [Source -> Seq(Hash)]
  /\ Merge \subseteq Hash
  /\ Upstream \in [Hash -> Hash \cup {None}] /\ None \notin Hash
  /\ BatchSize \in Nat \ {0}
  /\ MaxFailures \in Nat

VARIABLES
  remote,       \* how much of each history is published
  tracked,      \* how much of it the local origin/<branch> has
  rows,         \* the kernel_commit table
  quarantined,  \* the commits put in quarantine
  saved,        \* the checkpoint of the last run with status ok
  run,          \* the state of each process, see RunState
  failures,     \* steps that failed so far, a bound only
  unread        \* history: commits a checkpoint passed without git log

vars == <<remote, tracked, rows, quarantined, saved, run, failures, unread>>

Position == [Source -> Nat]
Row == [origin : {"olk", Mainline}, stub : BOOLEAN,
        versions : SUBSET Source, upstream : Hash \cup {None}]

ASSUME RowAssumption == None \notin Row

(* What a run holds: the step it is at, the branch it reads, the checkpoint *)
(* it loaded and the one it builds, the commit to handle next and the first *)
(* of its batch (newest first), and how far git log read.                   *)
RunState ==
  [pc : {"idle", "source", "log", "commits", "head"},
   at : 1..(Len(Sources) + 1), last : Position, new : Position,
   next : Nat, top : Nat, read : Nat]

Nowhere == [s \in Source |-> 0]
Idle == [pc |-> "idle", at |-> 1, last |-> Nowhere, new |-> Nowhere,
         next |-> 0, top |-> 0, read |-> 0]

Init ==
  /\ remote = Nowhere
  /\ tracked = Nowhere
  /\ rows = [h \in Hash |-> None]
  /\ quarantined = {}
  /\ saved = Nowhere
  /\ run = [r \in Run |-> Idle]
  /\ failures = 0
  /\ unread = [s \in Source |-> {}]

-----------------------------------------------------------------------------
(* A step that fails, at most MaxFailures times. *)
Fails == failures < MaxFailures /\ failures' = failures + 1

At(r) == Sources[run[r].at]
Is(r, pc) == run[r].pc = pc /\ run[r].at <= Len(Sources)
Update(r, new) == run' = [run EXCEPT ![r] = new]

(* Commits are pushed to a branch. *)
Publish(s) ==
  /\ remote[s] < Len(History[s])
  /\ remote' = [remote EXCEPT ![s] = @ + 1]
  /\ UNCHANGED <<tracked, rows, quarantined, saved, run, failures, unread>>

(* A run loads the checkpoint of the last successful run. *)
Start(r) ==
  /\ run[r].pc = "idle"
  /\ Update(r, [Idle EXCEPT !.pc = "source", !.last = saved, !.new = saved])
  /\ UNCHANGED <<remote, tracked, rows, quarantined, saved, failures, unread>>

NextSource(r) ==
  [run[r] EXCEPT !.pc = "source", !.at = @ + 1, !.next = 0, !.top = 0,
                 !.read = 0]

(* git fetch moves the local ref. *)
Fetch(r) ==
  /\ Is(r, "source")
  /\ tracked' = [tracked EXCEPT ![At(r)] = remote[At(r)]]
  /\ Update(r, [run[r] EXCEPT !.pc = "log"])
  /\ UNCHANGED <<remote, rows, quarantined, saved, failures, unread>>

(* There is no clone: the branch is left out. *)
SkipRepo(r) ==
  /\ Is(r, "source")
  /\ Fails
  /\ Update(r, NextSource(r))
  /\ UNCHANGED <<remote, tracked, rows, quarantined, saved, unread>>

(* The fetch fails: an OLK branch is left out, mainline is read as it is. *)
FetchFails(r) ==
  /\ Is(r, "source")
  /\ Fails
  /\ Update(r, IF At(r) = Mainline THEN [run[r] EXCEPT !.pc = "log"]
                                   ELSE NextSource(r))
  /\ UNCHANGED <<remote, tracked, rows, quarantined, saved, unread>>

(* git log last..origin/<branch>, newest first. *)
Log(r) ==
  /\ Is(r, "log")
  /\ LET n == tracked[At(r)] IN
     Update(r, [run[r] EXCEPT
       !.pc = IF n > run[r].last[At(r)] THEN "commits" ELSE "head",
       !.next = n, !.top = n, !.read = n])
  /\ UNCHANGED <<remote, tracked, rows, quarantined, saved, failures, unread>>

(* git log fails: log_range logs the error and yields no batch. *)
LogFails(r) ==
  /\ Is(r, "log")
  /\ Fails
  /\ Update(r, [run[r] EXCEPT !.pc = "head", !.read = run[r].last[At(r)]])
  /\ UNCHANGED <<remote, tracked, rows, quarantined, saved, unread>>

(* git log runs into its timeout, which log_range does not catch: the run  *)
(* ends with status error, and its checkpoint is never loaded.             *)
LogTimesOut(r) ==
  /\ Is(r, "log")
  /\ Fails
  /\ Update(r, Idle)
  /\ UNCHANGED <<remote, tracked, rows, quarantined, saved, unread>>

-----------------------------------------------------------------------------
Skipped(h, s) == s # Mainline /\ h \in Merge

(* Mutant of Upserted: the name of the git branch instead of the label. *)
UpsertedGitBranch(h, s) ==
  [origin |-> IF s = Mainline THEN Mainline ELSE "olk",
   stub |-> FALSE, versions |-> {IF s = Mainline THEN "master" ELSE s},
   upstream |-> IF s = Mainline THEN None ELSE Upstream[h]]

(* Mutant of Upserted: every branch recorded as mainline. *)
UpsertedAsMainline(h, s) ==
  [origin |-> Mainline, stub |-> FALSE, versions |-> {Mainline},
   upstream |-> IF s = Mainline THEN None ELSE Upstream[h]]

(* INSERT ... ON CONFLICT (hash) DO UPDATE: an existing row keeps its      *)
(* origin, subject and body, gains the branch and maybe the upstream sha.  *)
Upserted(h, s) ==
  LET upstream == IF s = Mainline THEN None ELSE Upstream[h] IN
  IF rows[h] = None
  THEN [origin |-> IF s = Mainline THEN Mainline ELSE "olk",
        stub |-> FALSE, versions |-> {s}, upstream |-> upstream]
  ELSE [rows[h] EXCEPT !.versions = @ \cup {s},
                       !.upstream = IF upstream # None THEN upstream ELSE @]

(* One commit is handled.  The first commit of a batch becomes the new     *)
(* checkpoint when its batch is done.                                      *)
Handled(r) ==
  LET me == run[r]
      below == me.next - 1
      done == below = me.last[At(r)]
      batchDone == done \/ me.top - below = BatchSize
  IN [me EXCEPT !.next = below,
                !.pc = IF done THEN "head" ELSE "commits",
                !.new[At(r)] = IF batchDone THEN me.top ELSE @,
                !.top = IF batchDone THEN below ELSE @]

UpsertCommit(r) ==
  /\ Is(r, "commits")
  /\ LET h == History[At(r)][run[r].next] IN
     rows' = IF Skipped(h, At(r)) THEN rows
             ELSE [rows EXCEPT ![h] = Upserted(h, At(r))]
  /\ Update(r, Handled(r))
  /\ UNCHANGED <<remote, tracked, quarantined, saved, failures, unread>>

(* Mutant of UpsertFails: a commit that fails is dropped. *)
UpsertFailsSilently(r) ==
  /\ Is(r, "commits")
  /\ ~Skipped(History[At(r)][run[r].next], At(r))
  /\ Fails
  /\ Update(r, Handled(r))
  /\ UNCHANGED <<remote, tracked, rows, quarantined, saved, unread>>

(* The parser or the database fails on a commit: it goes to quarantine. *)
UpsertFails(r) ==
  /\ Is(r, "commits")
  /\ ~Skipped(History[At(r)][run[r].next], At(r))
  /\ Fails
  /\ quarantined' = quarantined \cup {History[At(r)][run[r].next]}
  /\ Update(r, Handled(r))
  /\ UNCHANGED <<remote, tracked, rows, saved, unread>>

(* The checkpoint of the branch becomes origin/<branch> as it is now. *)
RevParse(r) ==
  /\ Is(r, "head")
  /\ Update(r, [NextSource(r) EXCEPT !.new[At(r)] = tracked[At(r)]])
  /\ unread' = [unread EXCEPT ![At(r)] =
                  @ \cup (run[r].read + 1)..tracked[At(r)]]
  /\ UNCHANGED <<remote, tracked, rows, quarantined, saved, failures>>

(* rev-parse fails: the checkpoint stays at the first commit of the last   *)
(* batch.                                                                  *)
RevParseFails(r) ==
  /\ Is(r, "head")
  /\ Fails
  /\ Update(r, NextSource(r))
  /\ UNCHANGED <<remote, tracked, rows, quarantined, saved, unread>>

(* The run is over: its ingest_runs row is written with status ok. *)
SaveReport(r) ==
  /\ run[r].pc = "source"
  /\ run[r].at = Len(Sources) + 1
  /\ saved' = run[r].new
  /\ Update(r, Idle)
  /\ UNCHANGED <<remote, tracked, rows, quarantined, failures, unread>>

(* The row cannot be written: only logged. *)
SaveFails(r) ==
  /\ run[r].pc = "source"
  /\ run[r].at = Len(Sources) + 1
  /\ Fails
  /\ Update(r, Idle)
  /\ UNCHANGED <<remote, tracked, rows, quarantined, saved, unread>>

(* Mutant of Crash: the checkpoint built so far survives. *)
CrashSavesProgress(r) ==
  /\ run[r].pc # "idle"
  /\ Fails
  /\ saved' = run[r].new
  /\ Update(r, Idle)
  /\ UNCHANGED <<remote, tracked, rows, quarantined, unread>>

(* The process is killed: no row is written; what was upserted stays. *)
Crash(r) ==
  /\ run[r].pc # "idle"
  /\ Fails
  /\ Update(r, Idle)
  /\ UNCHANGED <<remote, tracked, rows, quarantined, saved, unread>>

-----------------------------------------------------------------------------
Dangling ==
  {rows[h].upstream : h \in {g \in Hash : /\ rows[g] # None
                                          /\ rows[g].origin = "olk"
                                          /\ rows[g].upstream # None}}

Stub == [origin |-> Mainline, stub |-> TRUE, versions |-> {Mainline},
         upstream |-> None]

(* Mutant of LinkUpstream: an existing row is overwritten. *)
LinkUpstreamOverwriting ==
  /\ Dangling # {}
  /\ rows' = [h \in Hash |-> IF h \in Dangling THEN Stub ELSE rows[h]]
  /\ UNCHANGED <<remote, tracked, quarantined, saved, run, failures, unread>>

(* One statement of the linker: a stub for every upstream sha without row. *)
LinkUpstream ==
  /\ \E h \in Dangling : rows[h] = None
  /\ rows' = [h \in Hash |-> IF h \in Dangling /\ rows[h] = None THEN Stub
                                                                 ELSE rows[h]]
  /\ UNCHANGED <<remote, tracked, quarantined, saved, run, failures, unread>>

RunStep(r) ==
  \/ Start(r) \/ SkipRepo(r) \/ Fetch(r) \/ FetchFails(r) \/ Log(r)
  \/ LogFails(r) \/ LogTimesOut(r) \/ UpsertCommit(r) \/ UpsertFails(r)
  \/ RevParse(r) \/ RevParseFails(r) \/ SaveReport(r) \/ SaveFails(r)

Next ==
  \/ \E s \in Source : Publish(s)
  \/ \E r \in Run : RunStep(r) \/ Crash(r)
  \/ LinkUpstream

(* The weekly timer starts the ingester again and again, and a run that    *)
(* was started goes on: its subprocesses have timeouts.                    *)
Fairness == \A r \in Run : WF_vars(RunStep(r))

Spec == Init /\ [][Next]_vars
FairSpec == Spec /\ Fairness

-----------------------------------------------------------------------------
(* The table, the checkpoints and the runs have the shape the code gives   *)
(* them.                                                                   *)
TypeOK ==
  /\ remote \in Position /\ tracked \in Position /\ saved \in Position
  /\ \A s \in Source : tracked[s] <= remote[s] /\ remote[s] <= Len(History[s])
  /\ rows \in [Hash -> Row \cup {None}]
  /\ quarantined \subseteq Hash
  /\ run \in [Run -> RunState]
  /\ failures \in 0..MaxFailures
  /\ unread \in [Source -> SUBSET Nat]

(* Commit i of branch s needs no further run. *)
Settled(s, i) ==
  LET h == History[s][i] IN
  \/ rows[h] # None /\ s \in rows[h].versions
  \/ h \in quarantined
  \/ Skipped(h, s)

(* A commit the checkpoint has passed is in the table with its branch, in  *)
(* quarantine, or a merge; the one exception is a commit git log never     *)
(* showed to a run that then took origin/<branch> as its checkpoint        *)
(* (ingester.py:61-78).  It holds across kills, overlapping runs, failed   *)
(* saves and checkpoints that go back.                                     *)
CheckpointAccounted ==
  \A s \in Source : \A i \in 1..saved[s] : Settled(s, i) \/ i \in unread[s]

(* A row names only branches that published the commit.  A stub, which     *)
(* claims mainline for whatever sha a backport named, may be wrong.        *)
VersionsAreTrue ==
  \A h \in Hash :
    rows[h] # None =>
      \A s \in rows[h].versions :
        \/ h \in Published(s, remote[s])
        \/ rows[h].stub /\ s = Mainline

(* No run, rerun or linker takes away what the table knows of a commit:    *)
(* its branches, its upstream sha, and that it is no stub.                 *)
TableOnlyGrows ==
  [][\A h \in Hash :
       rows[h] # None =>
         /\ rows'[h] # None
         /\ rows[h].versions \subseteq rows'[h].versions
         /\ rows[h].upstream # None => rows'[h].upstream = rows[h].upstream
         /\ rows'[h].stub => rows[h].stub]_vars

(* Every published commit is settled in the end, though runs fail and are  *)
(* killed, unless a checkpoint passed it unread.                           *)
EventuallySettled ==
  \A s \in Source : \A i \in 1..Len(History[s]) :
    [](remote[s] >= i => <>(Settled(s, i) \/ i \in unread[s]))

(* docs/v1/modules/M3_ingestion.md:331: the checkpoint records the newest  *)
(* sha that was processed, and with it every older one.                    *)
CheckpointIsProcessed ==
  \A s \in Source : \A i \in 1..saved[s] : Settled(s, i)

(* delivery/10_MODULE_SPECS/M4_cross_graph_linker.md:218: a mainline       *)
(* commit that is really ingested replaces its stub.                       *)
StubReplaced ==
  \A i \in 1..saved[Mainline] :
    LET h == History[Mainline][i] IN
    rows[h] # None /\ h \notin quarantined /\ i \notin unread[Mainline]
      => ~rows[h].stub
=============================================================================

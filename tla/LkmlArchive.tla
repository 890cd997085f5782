---------------------------- MODULE LkmlArchive ----------------------------
(***************************************************************************)
(* The mail archive: the tables lkml_message, lkml_thread and lkml_patch,  *)
(* filled by three writers that share no lock.                             *)
(*   "ingest"    LkmlIngester.incremental, list by list, with a cursor per *)
(*               list in its checkpoint, then a few thread summaries;      *)
(*   "backfill"  backfill_referenced, the messages commits link to, with   *)
(*               its own checkpoint file;                                  *)
(*   "reader"    the read-through calls of a diagnosis, get_message and    *)
(*               get_thread_summary.                                       *)
(* Each of them stores a message through the same transactions: find or    *)
(* create its thread and count it there, insert it, insert its patch row.  *)
(* lore (archive) is external: late messages appear there at any time.     *)
(***************************************************************************)
EXTENDS Naturals, Sequences, FiniteSets, SequencesExt, FiniteSetsExt, TLC

CONSTANTS
    Lists,          \* the mailing lists, in the order they are read
    Messages,
    ListOf,         \* [Messages -> list]
    Day,            \* [Messages -> Nat], what lore's d: query compares
    Ancestors,      \* [Messages -> Seq(Messages)]: In-Reply-To, then the
                    \* References from the last to the first
    Patches,        \* messages whose subject carries [PATCH ...]
    Malformed,      \* messages the parser drops
    Referenced,     \* messages that commit bodies link to
    Asked,          \* messages, and threads by their root, that diagnoses ask for
    Late,           \* messages that may reach lore while the writers work
    SaveEvery,      \* backfill writes its checkpoint every SaveEvery messages
    MinMessages,    \* threads shorter than this are never summarised
    SummaryCap,     \* summaries per run
    MaxRuns,        \* bound on the runs of the ingester
    MaxFaults,      \* bound on failed calls and crashes
    None

ASSUME ArchiveAssumption ==
    /\ Patches \subseteq Messages /\ Malformed \subseteq Messages
    /\ Referenced \subseteq Messages /\ Asked \subseteq Messages /\ Late \subseteq Messages
    /\ ListOf \in [Messages -> ToSet(Lists)]
    /\ Day \in [Messages -> Nat \ {0}]
    /\ Ancestors \in [Messages -> Seq(Messages)]
    /\ {SaveEvery, SummaryCap} \subseteq Nat \ {0}
    /\ {MaxRuns, MaxFaults} \subseteq Nat
    /\ IsFiniteSet(Messages) /\ None \notin Messages
    /\ Lists \in Seq(ToSet(Lists)) \ {<<>>} /\ IsInjective(Lists)

Writers == {"ingest", "backfill", "reader"}

VARIABLES
    archive,        \* messages that lore has
    thread,         \* lkml_message: its thread's root, None when not stored
    roots,          \* lkml_thread: the roots that have a row
    count,          \* lkml_thread.message_count
    patchRows,      \* lkml_patch
    quarantined,    \* messages written to a quarantine file
    summary,        \* lkml_thread.summary_problem
    saved,          \* the ingester's last checkpoint
    file,           \* the backfill's checkpoint file
    job,            \* the message each writer is storing
    ing, bf, rd,    \* locals of the three writers
    offered,        \* history: messages downloaded when they were last listed
    runs, faults

tables == <<thread, roots, count, patchRows, quarantined>>
vars == <<archive, tables, summary, saved, file, job, ing, bf, rd, offered, runs, faults>>

Idle    == [at |-> "idle", msg |-> None, tid |-> None]
IngIdle == [at |-> "idle", next |-> 1, queue |-> {}, newest |-> 0,
            cursor |-> [l \in ToSet(Lists) |-> 0], work |-> <<>>, deferred |-> <<>>]
BfIdle  == [at |-> "idle", todo |-> {}, i |-> 0, fetched |-> {}, notFound |-> {}]
RdIdle  == [at |-> "idle", tid |-> None, answer |-> None]
NoFile  == [fetched |-> {}, notFound |-> {}]

TypeOK ==
    /\ archive \subseteq Messages
    /\ thread \in [Messages -> Messages \cup {None}]
    /\ roots \subseteq Messages
    /\ count \in [Messages -> Nat]
    /\ patchRows \subseteq Messages /\ quarantined \subseteq Messages
    /\ summary \in [Messages -> {"null", "text", "failed"}]
    /\ saved \in [cursor: [ToSet(Lists) -> Nat], deferred: Seq(Messages)]
    /\ file \in [fetched: SUBSET Messages, notFound: SUBSET Messages]
    /\ \A w \in Writers:
          /\ job[w].at \in {"idle", "thread", "insert", "patch"}
          /\ job[w].msg \in Messages \cup {None}
    /\ ing.at \in {"idle", "fetch", "persist", "select", "summarise"}
    /\ ing.queue \subseteq Messages
    /\ bf.at \in {"idle", "run"} /\ bf.todo \subseteq Messages
    /\ rd.at \in {"idle", "message", "decide", "generate", "recheck", "answered"}
    /\ faults \in 0..MaxFaults /\ runs \in 0..MaxRuns

Init ==
    /\ archive = Messages \ Late
    /\ thread = [m \in Messages |-> None]
    /\ roots = {}
    /\ count = [m \in Messages |-> 0]
    /\ patchRows = {} /\ quarantined = {}
    /\ summary = [m \in Messages |-> "null"]
    /\ saved = [cursor |-> [l \in ToSet(Lists) |-> 0], deferred |-> <<>>]
    /\ file = NoFile
    /\ job = [w \in Writers |-> Idle]
    /\ ing = IngIdle /\ bf = BfIdle /\ rd = RdIdle
    /\ offered = {}
    /\ runs = 0 /\ faults = 0

Fault == faults < MaxFaults /\ faults' = faults + 1

\* A late message reaches lore, at any time and whatever its date.
Arrive ==
    \E m \in Late \ archive:
        /\ archive' = archive \cup {m}
        /\ UNCHANGED <<tables, summary, saved, file, job, ing, bf, rd, offered, runs, faults>>

----------------------------------------------------------------------------
\* Storing one message: get_or_create_thread, then _upsert_message.

\* parse_mbox_bytes leaves out, silently, what it cannot parse and messages
\* without a Message-ID.
Parsed(got) == got \ Malformed

Fetched(m) == [at |-> "thread", msg |-> m, tid |-> None]

Step(w, j) == job' = [job EXCEPT ![w] = j]
Elsewhere == UNCHANGED <<archive, summary, saved, offered, runs>>
Inside(w, at) == Step(w, [job[w] EXCEPT !.at = at]) /\ UNCHANGED <<file, ing, bf, rd>>

\* After a message the backfill rewrites its file when the position asks for it.
Advance(b) ==
    /\ bf' = [b EXCEPT !.i = (@ + 1) % SaveEvery]
    /\ file' = IF bf'.i = 0 THEN [fetched |-> b.fetched, notFound |-> b.notFound] ELSE file

\* Control goes back to the caller: the ingester takes the newest date from the
\* messages that reached _upsert_message, the backfill lists them as fetched.
Returns(w) ==
    LET m == job[w].msg IN
    /\ Step(w, Idle)
    /\ CASE w = "ingest"   -> /\ ing' = [ing EXCEPT !.newest = Max({@, Day[m]})]
                              /\ UNCHANGED <<file, bf, rd>>
         [] w = "backfill" -> /\ Advance([bf EXCEPT !.fetched = @ \cup {m}])
                              /\ UNCHANGED <<ing, rd>>
         [] w = "reader"   -> rd' = RdIdle /\ UNCHANGED <<file, ing, bf>>

StoredAncestors(m) == {i \in DOMAIN Ancestors[m] : thread[Ancestors[m][i]] # None}
Nearest(m, i) == i \in StoredAncestors(m) /\ \A j \in StoredAncestors(m): i <= j

\* Mutant: the ancestor's own thread row is taken when there is one.
JoinThreadByRoot(w) ==
    LET m == job[w].msg IN
    /\ job[w].at = "thread"
    /\ \E i \in DOMAIN Ancestors[m]:
         LET a   == Ancestors[m][i]
             tid == IF a \in roots THEN a ELSE thread[a]
         IN /\ Nearest(m, i)
            /\ count' = [count EXCEPT ![tid] = @ + 1]
            /\ Step(w, [job[w] EXCEPT !.at = "insert", !.tid = tid])
    /\ UNCHANGED <<thread, roots, patchRows, quarantined, faults, file, ing, bf, rd>>
    /\ Elsewhere

\* Mutant: only a direct parent's thread is counted, not a reference's.
JoinThreadCountsParent(w) ==
    LET m == job[w].msg IN
    /\ job[w].at = "thread"
    /\ \E i \in DOMAIN Ancestors[m]:
         LET tid == thread[Ancestors[m][i]]
         IN /\ Nearest(m, i)
            /\ count' = IF i = 1 THEN [count EXCEPT ![tid] = @ + 1] ELSE count
            /\ Step(w, [job[w] EXCEPT !.at = "insert", !.tid = tid])
    /\ UNCHANGED <<thread, roots, patchRows, quarantined, faults, file, ing, bf, rd>>
    /\ Elsewhere

\* The thread of the nearest ancestor that is stored; its count goes up before
\* the insert, and also for a message stored already.  (No row of lkml_thread is
\* ever removed, so the search and the increment may be taken as one step.)
JoinThread(w) ==
    LET m == job[w].msg IN
    /\ job[w].at = "thread"
    /\ \E i \in DOMAIN Ancestors[m]:
         LET tid == thread[Ancestors[m][i]]
         IN /\ Nearest(m, i)
            /\ count' = [count EXCEPT ![tid] = @ + 1]
            /\ Step(w, [job[w] EXCEPT !.at = "insert", !.tid = tid])
    /\ UNCHANGED <<thread, roots, patchRows, quarantined, faults, file, ing, bf, rd>>
    /\ Elsewhere

\* Mutant: the row is created under the id the search returned.
CreateThreadUnderNone(w) ==
    LET m == job[w].msg IN
    /\ job[w].at = "thread" /\ StoredAncestors(m) = {}
    /\ roots' = roots \cup {job[w].tid}
    /\ Step(w, [job[w] EXCEPT !.at = "insert", !.tid = m])
    /\ UNCHANGED <<thread, count, patchRows, quarantined, faults, file, ing, bf, rd>>
    /\ Elsewhere

\* A message none of whose ancestors is stored starts a thread of its own.
CreateThread(w) ==
    LET m == job[w].msg IN
    /\ job[w].at = "thread" /\ StoredAncestors(m) = {}
    /\ roots' = roots \cup {m}
    /\ Step(w, [job[w] EXCEPT !.at = "insert", !.tid = m])
    /\ UNCHANGED <<thread, count, patchRows, quarantined, faults, file, ing, bf, rd>>
    /\ Elsewhere

\* ON CONFLICT DO NOTHING: the first thread a message is put in stays.
InsertMessage(w) ==
    LET j == job[w] IN
    /\ j.at = "insert"
    /\ thread' = IF thread[j.msg] = None THEN [thread EXCEPT ![j.msg] = j.tid] ELSE thread
    /\ IF j.msg \in Patches THEN Inside(w, "patch") ELSE Returns(w)
    /\ UNCHANGED <<roots, count, patchRows, quarantined, faults>> /\ Elsewhere

InsertPatch(w) ==
    /\ job[w].at = "patch"
    /\ patchRows' = patchRows \cup {job[w].msg}
    /\ Returns(w)
    /\ UNCHANGED <<thread, roots, count, quarantined, faults>> /\ Elsewhere

\* Mutant: the error is logged and the message dropped.
InsertFailsSilently(w) ==
    /\ job[w].at \in {"insert", "patch"}
    /\ Fault
    /\ Returns(w)
    /\ UNCHANGED <<thread, roots, count, patchRows, quarantined>> /\ Elsewhere

\* _upsert_message swallows a database error: the message goes to quarantine
\* and the caller is told nothing.
InsertFails(w) ==
    /\ job[w].at \in {"insert", "patch"}
    /\ Fault
    /\ quarantined' = quarantined \cup {job[w].msg}
    /\ Returns(w)
    /\ UNCHANGED <<thread, roots, count, patchRows>> /\ Elsewhere

\* Mutant: the ingester skips the message without a trace.
ThreadFailsSilently(w) ==
    /\ job[w].at = "thread"
    /\ Fault
    /\ Step(w, Idle)
    /\ IF w = "backfill" THEN Advance(bf) ELSE UNCHANGED <<bf, file>>
    /\ IF w = "reader" THEN rd' = RdIdle ELSE UNCHANGED rd
    /\ UNCHANGED <<thread, roots, count, patchRows, quarantined, ing>> /\ Elsewhere

\* An error while the thread is looked up, counted or created is raised: the
\* ingester and the backfill put the message in quarantine, the reader does not.
ThreadFails(w) ==
    LET m == job[w].msg IN
    /\ job[w].at = "thread"
    /\ Fault
    /\ Step(w, Idle)
    /\ quarantined' = IF w = "reader" THEN quarantined ELSE quarantined \cup {m}
    /\ IF w = "backfill" THEN Advance(bf) ELSE UNCHANGED <<bf, file>>
    /\ IF w = "reader" THEN rd' = RdIdle ELSE UNCHANGED rd
    /\ UNCHANGED <<thread, roots, count, patchRows, ing>> /\ Elsewhere

Persist(w) ==
    \/ JoinThread(w) \/ CreateThread(w)
    \/ InsertMessage(w) \/ InsertPatch(w) \/ InsertFails(w) \/ ThreadFails(w)

----------------------------------------------------------------------------
\* LkmlIngester.incremental

Current == Lists[ing.next]
\* What lore lists for the day of the cursor and later.
Listing(l) == {m \in archive : ListOf[m] = l /\ Day[m] >= saved.cursor[l]}

NextList(c) ==
    ing' = [ing EXCEPT !.at = IF ing.next = Len(Lists) THEN "select" ELSE "fetch",
                       !.next = @ + 1, !.queue = {}, !.newest = 0,
                       !.cursor[Current] = c]

StartIngest ==
    /\ ing.at = "idle" /\ runs < MaxRuns
    /\ runs' = runs + 1
    /\ ing' = [IngIdle EXCEPT !.at = "fetch"]
    /\ UNCHANGED <<archive, tables, summary, saved, file, job, bf, rd, offered, faults>>

\* A download that fails is skipped, and a page that does not parse ends the
\* listing: the run goes on with the messages it has (got).
FetchList ==
    /\ ing.at = "fetch"
    /\ \E got \in SUBSET Listing(Current):
          /\ \/ got = Listing(Current) /\ UNCHANGED faults
             \/ got # Listing(Current) /\ Fault
          /\ offered' = (offered \ Listing(Current)) \cup Parsed(got)
          /\ IF got = {} THEN NextList(saved.cursor[Current])
             ELSE ing' = [ing EXCEPT !.at = "persist", !.queue = Parsed(got)]
    /\ UNCHANGED <<archive, tables, summary, saved, file, job, bf, rd, runs>>

PersistNext ==
    /\ ing.at = "persist" /\ job["ingest"].at = "idle"
    /\ \E m \in ing.queue:
          /\ ing' = [ing EXCEPT !.queue = @ \ {m}]
          /\ Step("ingest", Fetched(m))
    /\ UNCHANGED <<archive, tables, summary, saved, file, bf, rd, offered, runs, faults>>

EndList ==
    /\ ing.at = "persist" /\ job["ingest"].at = "idle" /\ ing.queue = {}
    /\ NextList(IF ing.newest # 0 THEN ing.newest ELSE saved.cursor[Current])
    /\ UNCHANGED <<archive, tables, summary, saved, file, job, bf, rd, offered, runs, faults>>

\* An exception of the fetch, or of save_mbox after the messages are stored:
\* the list keeps the cursor it had.
ListFails ==
    /\ \/ ing.at = "fetch"
       \/ ing.at = "persist" /\ job["ingest"].at = "idle" /\ ing.queue = {}
    /\ Fault
    /\ NextList(saved.cursor[Current])
    /\ UNCHANGED <<archive, tables, summary, saved, file, job, bf, rd, offered, runs>>

\* find_threads_needing_summary: long, silent, without a summary, longest first;
\* the query says nothing of the order of threads of one length.
NeedSummary == {t \in roots : count[t] >= MinMessages /\ summary[t] = "null"}
LongestFirst(S) ==
    {s \in SetToSeqs(S) : \A i, j \in DOMAIN s : i < j => count[s[i]] >= count[s[j]]}
SelectThreads ==
    /\ ing.at = "select"
    /\ \E silent \in SUBSET NeedSummary: \E found \in LongestFirst(silent):
         LET all == saved.deferred \o found
         IN ing' = [ing EXCEPT !.at = "summarise",
                               !.work = SubSeq(all, 1, Min({Len(all), SummaryCap}))]
    /\ UNCHANGED <<archive, tables, summary, saved, file, job, bf, rd, offered, runs, faults>>

Members(t) == {m \in Messages : thread[m] = t}

\* summarize_thread: nothing to do for a thread without messages, else the
\* summary or, when the model or its answer fails, a marker.
Summarise(t, result) ==
    /\ result \in IF Members(t) = {} THEN {"skipped"} ELSE {"text", "failed"}
    /\ IF result = "failed" THEN Fault ELSE UNCHANGED faults
    /\ summary' = IF result = "skipped" THEN summary ELSE [summary EXCEPT ![t] = result]

SummariseNext ==
    /\ ing.at = "summarise" /\ ing.work # <<>>
    /\ \E result \in {"text", "failed", "skipped"}:
          /\ Summarise(Head(ing.work), result)
          /\ ing' = [ing EXCEPT !.work = Tail(@),
                                !.deferred = IF result = "text" THEN @
                                             ELSE Append(@, Head(ing.work))]
    /\ UNCHANGED <<archive, tables, saved, file, job, bf, rd, offered, runs>>

SaveCursors ==
    /\ ing.at = "summarise" /\ ing.work = <<>>
    /\ saved' = [cursor |-> ing.cursor, deferred |-> ing.deferred]
    /\ ing' = IngIdle
    /\ UNCHANGED <<archive, tables, summary, file, job, bf, rd, offered, runs, faults>>

----------------------------------------------------------------------------
\* backfill_referenced

StartBackfill ==
    /\ bf.at = "idle"
    /\ bf' = [at |-> "run", todo |-> Referenced \ (file.fetched \cup file.notFound),
              i |-> 0, fetched |-> file.fetched, notFound |-> file.notFound]
    /\ UNCHANGED <<archive, tables, summary, saved, file, job, ing, rd, offered, runs, faults>>

\* Not in lore's archive, or nothing the parser can use: never asked again.
BackfillNotFound ==
    /\ bf.at = "run" /\ job["backfill"].at = "idle"
    /\ \E m \in bf.todo:
          /\ m \notin Parsed(archive)
          /\ Advance([bf EXCEPT !.todo = @ \ {m}, !.notFound = @ \cup {m}])
    /\ UNCHANGED <<archive, tables, summary, saved, job, ing, rd, offered, runs, faults>>

BackfillFetch ==
    /\ bf.at = "run" /\ job["backfill"].at = "idle"
    /\ \E m \in bf.todo:
          /\ m \in Parsed(archive)
          /\ bf' = [bf EXCEPT !.todo = @ \ {m}]
          /\ Step("backfill", Fetched(m))
    /\ UNCHANGED <<archive, tables, summary, saved, file, ing, rd, offered, runs, faults>>

\* Three transport errors in a row: quarantined, tried again by the next run.
BackfillFetchFails ==
    /\ bf.at = "run" /\ job["backfill"].at = "idle"
    /\ Fault
    /\ \E m \in bf.todo:
          /\ quarantined' = quarantined \cup {m}
          /\ Advance([bf EXCEPT !.todo = @ \ {m}])
    /\ UNCHANGED <<archive, thread, roots, count, patchRows, summary, saved, job, ing, rd,
                   offered, runs>>

\* Mutant: the file is written every SaveEvery messages only.
EndBackfillUnsaved ==
    /\ bf.at = "run" /\ bf.todo = {} /\ job["backfill"].at = "idle"
    /\ bf' = BfIdle
    /\ UNCHANGED <<archive, tables, summary, saved, file, job, ing, rd, offered, runs, faults>>

EndBackfill ==
    /\ bf.at = "run" /\ bf.todo = {} /\ job["backfill"].at = "idle"
    /\ file' = [fetched |-> bf.fetched, notFound |-> bf.notFound]
    /\ bf' = BfIdle
    /\ UNCHANGED <<archive, tables, summary, saved, job, ing, rd, offered, runs, faults>>

----------------------------------------------------------------------------
\* get_message and get_thread_summary, called by a diagnosis

\* A miss goes to lore; a message lore does not have, or a failed fetch, is None.
GetMessage ==
    /\ rd.at = "idle"
    /\ \E m \in Asked \cap Parsed(archive):
          /\ thread[m] = None
          /\ Step("reader", Fetched(m))
    /\ rd' = [rd EXCEPT !.at = "message"]
    /\ UNCHANGED <<archive, tables, summary, saved, file, ing, bf, offered, runs, faults>>

AskSummary ==
    /\ rd.at = "idle"
    /\ \E t \in roots \cap Asked: rd' = [at |-> "decide", tid |-> t, answer |-> None]
    /\ UNCHANGED <<archive, tables, summary, saved, file, job, ing, bf, offered, runs, faults>>

\* _summary_decision: a short thread is not summarised, a marker is no summary.
SummaryDecision(t) ==
    CASE count[t] < MinMessages -> "none"
      [] summary[t] = "text"    -> "cached"
      [] OTHER                  -> "generate"

\* Mutant: whatever the row holds is handed out.
AnsweredUnchecked(t) ==
    [at |-> "answered", tid |-> t,
     answer |-> IF SummaryDecision(t) = "none" THEN None ELSE summary[t]]

Answered(t) ==
    [at |-> "answered", tid |-> t,
     answer |-> IF SummaryDecision(t) = "cached" THEN summary[t] ELSE None]

Decide ==
    /\ rd.at = "decide"
    /\ rd' = IF SummaryDecision(rd.tid) = "generate" THEN [rd EXCEPT !.at = "generate"]
             ELSE Answered(rd.tid)
    /\ UNCHANGED <<archive, tables, summary, saved, file, job, ing, bf, offered, runs, faults>>

Generate ==
    /\ rd.at = "generate"
    /\ \E result \in {"text", "failed", "skipped"}: Summarise(rd.tid, result)
    /\ rd' = [rd EXCEPT !.at = "recheck"]
    /\ UNCHANGED <<archive, tables, saved, file, job, ing, bf, offered, runs>>

\* The row is read again: another writer may have replaced the summary.
Recheck ==
    /\ rd.at = "recheck"
    /\ rd' = Answered(rd.tid)
    /\ UNCHANGED <<archive, tables, summary, saved, file, job, ing, bf, offered, runs, faults>>

UseAnswer ==
    /\ rd.at = "answered"
    /\ rd' = RdIdle
    /\ UNCHANGED <<archive, tables, summary, saved, file, job, ing, bf, offered, runs, faults>>

----------------------------------------------------------------------------
\* A run of the ingester that dies, or cannot save, leaves its old checkpoint.
IngestDies ==
    /\ ing.at # "idle" /\ Fault
    /\ ing' = IngIdle /\ Step("ingest", Idle)
    /\ UNCHANGED <<archive, tables, summary, saved, file, bf, rd, offered, runs>>

\* The file is written in place: dying during the write leaves no readable
\* file, and the next run starts fresh.
BackfillDies ==
    /\ bf.at # "idle" /\ Fault
    /\ file' \in {file, NoFile}
    /\ bf' = BfIdle /\ Step("backfill", Idle)
    /\ UNCHANGED <<archive, tables, summary, saved, ing, rd, offered, runs>>

Ingest   == \/ StartIngest \/ FetchList \/ PersistNext \/ EndList \/ ListFails
            \/ SelectThreads \/ SummariseNext \/ SaveCursors \/ Persist("ingest")
Backfill == \/ StartBackfill \/ BackfillNotFound \/ BackfillFetch \/ BackfillFetchFails
            \/ EndBackfill \/ Persist("backfill")
Reader   == \/ GetMessage \/ AskSummary \/ Decide \/ Generate \/ Recheck
            \/ UseAnswer \/ Persist("reader")

Next == Arrive \/ Ingest \/ Backfill \/ Reader \/ IngestDies \/ BackfillDies

\* The weekly script starts the backfill again and again, and each of its steps
\* is a bounded call; nothing obliges anyone to run the ingester or a diagnosis.
Spec == Init /\ [][Next]_vars /\ WF_vars(Backfill)

----------------------------------------------------------------------------
Complete(m) == thread[m] # None /\ (m \in Patches => m \in patchRows)

\* Once the saved cursor of a list has passed the day of a message that was
\* downloaded when it was last listed, no run reads it again; by then it is stored
\* with its patch row or is in quarantine, whatever failed or died on the way.
CursorCoversOffered ==
    \A m \in offered:
        Day[m] < saved.cursor[ListOf[m]] => Complete(m) \/ m \in quarantined

\* The backfill's file never claims a message the tables do not have: what it
\* lists as fetched is stored with its patch row, or is in quarantine because
\* _upsert_message swallowed the error.
FetchedMeansKept ==
    \A m \in file.fetched: Complete(m) \/ m \in quarantined

\* Whoever stores them and in whatever order, a message is in the thread of one
\* of its stored ancestors or starts its own: replies never land in a thread
\* that none of the messages they answer is in.
ThreadsFollowReplies ==
    \A m \in Messages: thread[m] \notin {None, m} =>
        \E a \in ToSet(Ancestors[m]): thread[a] = thread[m]

\* message_count, which decides whether a thread is long enough to summarise,
\* never falls below the replies that are stored in the thread.
CountCoversReplies ==
    \A t \in Messages: count[t] >= Cardinality(Members(t) \ {t})

\* A reader is never handed the marker of a failed summary, even when another
\* writer replaced the summary between its generation and the second read.
MarkerNeverServed == rd.answer \in {None, "text"}

\* The weekly backfill comes to an end: every message a commit links to is in
\* the end listed as fetched or as not found.
BackfillSettles ==
    \A m \in Referenced: <>[](m \in file.fetched \cup file.notFound)
============================================================================

------------------------- MODULE LkmlArchiveProofs -------------------------
(***************************************************************************)
(* Theorems on LkmlArchive, for any lists, messages and replies, any       *)
(* number of runs, failures and kills.                                     *)
(***************************************************************************)
EXTENDS LkmlArchive, FiniteSetTheorems, TLAPS

LEMMA ConstantsFacts ==
  /\ Patches \subseteq Messages /\ Referenced \subseteq Messages
  /\ Asked \subseteq Messages /\ Late \subseteq Messages
  /\ ListOf \in [Messages -> ToSet(Lists)] /\ Day \in [Messages -> Nat]
  /\ Lists \in Seq(ToSet(Lists)) \ {<<>>} /\ IsInjective(Lists)
  /\ \A m \in Messages : Ancestors[m] \in Seq(Messages)
  /\ IsFiniteSet(Messages) /\ None \notin Messages
BY ArchiveAssumption

(* The locals of the writers are records with messages in them. *)
IsBf(b)  == /\ b = [at |-> b.at, todo |-> b.todo, i |-> b.i, fetched |-> b.fetched,
                    notFound |-> b.notFound]
            /\ b.todo \subseteq Messages
IsIng(g) == /\ g = [at |-> g.at, next |-> g.next, queue |-> g.queue, newest |-> g.newest,
                    cursor |-> g.cursor, work |-> g.work, deferred |-> g.deferred]
            /\ g.queue \subseteq Messages
IsRd(r)  == r = [at |-> r.at, tid |-> r.tid, answer |-> r.answer]

JobState == [at : {"idle", "thread", "insert", "patch"},
             msg : Messages \cup {None}, tid : Messages \cup {None}]

LocalInv ==
  /\ archive \subseteq Messages
  /\ IsBf(bf) /\ IsIng(ing) /\ IsRd(rd)
  /\ job \in [Writers -> JobState]
  /\ \A w \in Writers : job[w].at # "idle" => job[w].msg \in Messages

TablesTyped ==
  /\ thread \in [Messages -> Messages \cup {None}]
  /\ count \in [Messages -> Nat]

(* What a step does to the job of a writer and to the tables of threads. *)
Storing ==
  \/ job' = job /\ thread' = thread /\ count' = count
  \/ \E w \in Writers : Step(w, Idle) /\ thread' = thread /\ count' = count
  \/ \E w \in Writers, m \in Messages :
       Step(w, Fetched(m)) /\ thread' = thread /\ count' = count
  \/ \E w \in Writers : JoinThread(w) \/ CreateThread(w) \/ InsertMessage(w)

LEMMA ReturnsStep == \A w : Returns(w) => Step(w, Idle)
BY DEF Returns

LEMMA StepStores ==
  ASSUME LocalInv, [Next]_vars
  PROVE  Storing
<1>1. ASSUME NEW w \in Writers, Persist(w) PROVE Storing
  <2>1. CASE InsertPatch(w)
    BY <2>1, ReturnsStep DEF InsertPatch, Storing
  <2>2. CASE InsertFails(w)
    BY <2>2, ReturnsStep DEF InsertFails, Storing
  <2>3. CASE ThreadFails(w)
    BY <2>3 DEF ThreadFails, Storing
  <2>4. CASE JoinThread(w) \/ CreateThread(w) \/ InsertMessage(w)
    BY <2>4 DEF Storing
  <2> QED
    BY <1>1, <2>1, <2>2, <2>3, <2>4 DEF Persist
<1>2. ASSUME Ingest PROVE Storing
  <2>1. CASE PersistNext
    <3>1. PICK m \in ing.queue : Step("ingest", Fetched(m))
      BY <2>1 DEF PersistNext
    <3>2. thread' = thread /\ count' = count
      BY <2>1 DEF PersistNext, tables
    <3>3. m \in Messages /\ "ingest" \in Writers
      BY <3>1 DEF LocalInv, IsIng, Writers
    <3> QED
      BY <3>1, <3>2, <3>3 DEF Storing
  <2>2. CASE Persist("ingest")
    BY <1>1, <2>2 DEF Writers
  <2>3. CASE StartIngest \/ FetchList \/ EndList \/ ListFails \/ SelectThreads
             \/ SummariseNext \/ SaveCursors
    BY <2>3 DEF StartIngest, FetchList, EndList, ListFails, SelectThreads, SummariseNext,
                SaveCursors, tables, Storing
  <2> QED
    BY <1>2, <2>1, <2>2, <2>3 DEF Ingest
<1>3. ASSUME Backfill PROVE Storing
  <2>1. CASE BackfillFetch
    <3>1. PICK m \in bf.todo : Step("backfill", Fetched(m))
      BY <2>1 DEF BackfillFetch
    <3>2. thread' = thread /\ count' = count
      BY <2>1 DEF BackfillFetch, tables
    <3>3. m \in Messages /\ "backfill" \in Writers
      BY <3>1 DEF LocalInv, IsBf, Writers
    <3> QED
      BY <3>1, <3>2, <3>3 DEF Storing
  <2>2. CASE Persist("backfill")
    BY <1>1, <2>2 DEF Writers
  <2>3. CASE StartBackfill \/ BackfillNotFound \/ BackfillFetchFails \/ EndBackfill
    BY <2>3 DEF StartBackfill, BackfillNotFound, BackfillFetchFails, EndBackfill, tables,
                Storing
  <2> QED
    BY <1>3, <2>1, <2>2, <2>3 DEF Backfill
<1>4. ASSUME Reader PROVE Storing
  <2>1. CASE GetMessage
    <3>1. PICK m \in Asked : Step("reader", Fetched(m))
      BY <2>1 DEF GetMessage
    <3>2. thread' = thread /\ count' = count
      BY <2>1 DEF GetMessage, tables
    <3>3. m \in Messages /\ "reader" \in Writers
      BY <3>1, ConstantsFacts DEF Writers
    <3> QED
      BY <3>1, <3>2, <3>3 DEF Storing
  <2>2. CASE Persist("reader")
    BY <1>1, <2>2 DEF Writers
  <2>3. CASE AskSummary \/ Decide \/ Generate \/ Recheck \/ UseAnswer
    BY <2>3 DEF AskSummary, Decide, Generate, Recheck, UseAnswer, tables, Storing
  <2> QED
    BY <1>4, <2>1, <2>2, <2>3 DEF Reader
<1>5. CASE IngestDies \/ BackfillDies
  BY <1>5 DEF IngestDies, BackfillDies, tables, Storing, Writers
<1>6. CASE Arrive \/ UNCHANGED vars
  BY <1>6 DEF Arrive, vars, tables, Storing
<1> QED
  BY <1>2, <1>3, <1>4, <1>5, <1>6 DEF Next

(* The jobs after a step. *)
LEMMA JobsAfter ==
  ASSUME LocalInv, TablesTyped, Storing
  PROVE  /\ job' \in [Writers -> JobState]
         /\ \A w \in Writers : job'[w].at # "idle" => job'[w].msg \in Messages
         /\ TablesTyped'
<1>1. /\ job \in [Writers -> JobState]
      /\ \A w \in Writers : job[w].at # "idle" => job[w].msg \in Messages
      /\ thread \in [Messages -> Messages \cup {None}] /\ count \in [Messages -> Nat]
  BY DEF LocalInv, TablesTyped
<1>2. ASSUME NEW w \in Writers, NEW j \in JobState, Step(w, j),
             j.at # "idle" => j.msg \in Messages
      PROVE  /\ job' \in [Writers -> JobState]
             /\ \A v \in Writers : job'[v].at # "idle" => job'[v].msg \in Messages
  BY <1>1, <1>2 DEF Step
<1>3. Idle \in JobState /\ Idle.at = "idle"
  BY DEF Idle, JobState
<1>4. \A m \in Messages : Fetched(m) \in JobState /\ Fetched(m).msg = m
  BY DEF Fetched, JobState
<1>5. ASSUME NEW w \in Writers, JoinThread(w)
      PROVE  /\ \E j \in JobState : Step(w, j) /\ j.msg \in Messages
             /\ TablesTyped'
  <2>1. job[w].at = "thread" /\ job[w] \in JobState /\ job[w].msg \in Messages
    BY <1>1, <1>5 DEF JoinThread
  <2>2. PICK i \in DOMAIN Ancestors[job[w].msg] :
          /\ Nearest(job[w].msg, i)
          /\ count' = [count EXCEPT ![thread[Ancestors[job[w].msg][i]]] = @ + 1]
          /\ Step(w, [job[w] EXCEPT !.at = "insert",
                                    !.tid = thread[Ancestors[job[w].msg][i]]])
    BY <1>5 DEF JoinThread
  <2>3. Ancestors[job[w].msg][i] \in Messages
    BY <2>1, <2>2, ConstantsFacts
  <2> DEFINE t == thread[Ancestors[job[w].msg][i]]
  <2>4. t \in Messages
    BY <1>1, <2>2, <2>3 DEF Nearest, StoredAncestors
  <2> HIDE DEF t
  <2>5. [job[w] EXCEPT !.at = "insert", !.tid = t] \in JobState
        /\ [job[w] EXCEPT !.at = "insert", !.tid = t].msg = job[w].msg
    BY <2>1, <2>4 DEF JobState
  <2>6. thread' = thread /\ count' \in [Messages -> Nat]
    BY <1>1, <1>5, <2>2, <2>4 DEF JoinThread, t
  <2> QED
    BY <1>1, <2>1, <2>2, <2>5, <2>6 DEF t, TablesTyped
<1>6. ASSUME NEW w \in Writers, CreateThread(w)
      PROVE  /\ \E j \in JobState : Step(w, j) /\ j.msg \in Messages
             /\ TablesTyped'
  <2>1. job[w].at = "thread" /\ job[w] \in JobState /\ job[w].msg \in Messages
    BY <1>1, <1>6 DEF CreateThread
  <2>2. Step(w, [job[w] EXCEPT !.at = "insert", !.tid = job[w].msg])
        /\ thread' = thread /\ count' = count
    BY <1>6 DEF CreateThread
  <2>3. /\ [job[w] EXCEPT !.at = "insert", !.tid = job[w].msg] \in JobState
        /\ [job[w] EXCEPT !.at = "insert", !.tid = job[w].msg].msg = job[w].msg
    BY <2>1 DEF JobState
  <2> QED
    BY <1>1, <2>1, <2>2, <2>3 DEF TablesTyped
<1>7. ASSUME NEW w \in Writers, InsertMessage(w)
      PROVE  /\ \E j \in JobState : Step(w, j) /\ (j.at # "idle" => j.msg \in Messages)
             /\ TablesTyped'
  <2>1. job[w].at = "insert" /\ job[w] \in JobState /\ job[w].msg \in Messages
    BY <1>1, <1>7 DEF InsertMessage
  <2>2. Step(w, Idle) \/ Step(w, [job[w] EXCEPT !.at = "patch"])
    BY <1>7, ReturnsStep DEF InsertMessage, Inside
  <2>3. /\ [job[w] EXCEPT !.at = "patch"] \in JobState
        /\ [job[w] EXCEPT !.at = "patch"].msg = job[w].msg
    BY <2>1 DEF JobState
  <2>4. count' = count
        /\ (thread' = thread \/ thread' = [thread EXCEPT ![job[w].msg] = job[w].tid])
    BY <1>7 DEF InsertMessage
  <2>5. job[w].tid \in Messages \cup {None}
    BY <2>1 DEF JobState
  <2> QED
    BY <1>1, <1>3, <2>1, <2>2, <2>3, <2>4, <2>5 DEF TablesTyped
<1> QED
  BY <1>1, <1>2, <1>3, <1>4, <1>5, <1>6, <1>7 DEF Storing, TablesTyped
-----------------------------------------------------------------------------
(* Only its own steps touch the locals of a writer. *)
LEMMA AdvanceKeeps ==
  ASSUME NEW b, IsBf(b), Advance(b)
  PROVE  /\ IsBf(bf') /\ bf'.fetched = b.fetched /\ bf'.at = b.at
         /\ file' = file \/ file'.fetched = b.fetched
BY DEF Advance, IsBf

(* Giving control back, and failing, in the three writers. *)
LEMMA ReturnsLocals ==
  ASSUME LocalInv, NEW w \in Writers, Returns(w)
  PROVE  /\ IsBf(bf') /\ IsIng(ing') /\ IsRd(rd')
         /\ ing' = ing \/ (w = "ingest" /\ ing' = [ing EXCEPT !.newest = Max({@, Day[job[w].msg]})])
         /\ \/ bf'.fetched = bf.fetched
            \/ w = "backfill" /\ bf'.fetched = bf.fetched \cup {job[w].msg}
         /\ file' = file \/ file'.fetched = bf'.fetched
         /\ rd' = rd \/ rd' = RdIdle
<1> DEFINE m == job[w].msg
<1>1. IsBf(bf) /\ IsIng(ing) /\ IsRd(rd)
  BY DEF LocalInv
<1>2. IsRd(RdIdle)
  BY DEF IsRd, RdIdle
<1>3. CASE w = "ingest"
  <2>1. ing' = [ing EXCEPT !.newest = Max({@, Day[m]})] /\ UNCHANGED <<file, bf, rd>>
    BY <1>3 DEF Returns
  <2>2. IsIng(ing')
    BY <1>1, <2>1 DEF IsIng
  <2> QED
    BY <1>1, <1>3, <2>1, <2>2
<1>4. CASE w = "backfill"
  <2>1. Advance([bf EXCEPT !.fetched = @ \cup {m}]) /\ UNCHANGED <<ing, rd>>
    BY <1>4 DEF Returns
  <2>2. /\ IsBf([bf EXCEPT !.fetched = @ \cup {m}])
        /\ [bf EXCEPT !.fetched = @ \cup {m}].fetched = bf.fetched \cup {m}
    BY <1>1 DEF IsBf
  <2> HIDE DEF m
  <2>3. /\ IsBf(bf') /\ bf'.fetched = bf.fetched \cup {m}
        /\ file' = file \/ file'.fetched = bf'.fetched
    BY <2>1, <2>2, AdvanceKeeps
  <2> QED
    BY <1>1, <1>4, <2>1, <2>3 DEF m
<1>5. CASE w = "reader"
  <2>1. rd' = RdIdle /\ UNCHANGED <<file, ing, bf>>
    BY <1>5 DEF Returns
  <2> QED
    BY <1>1, <1>2, <2>1
<1> QED
  BY <1>3, <1>4, <1>5 DEF Writers

LEMMA PersistLocals ==
  ASSUME LocalInv, NEW w \in Writers, Persist(w)
  PROVE  /\ IsBf(bf') /\ IsIng(ing') /\ IsRd(rd')
         /\ archive' = archive
<1>1. IsBf(bf) /\ IsIng(ing) /\ IsRd(rd)
  BY DEF LocalInv
<1>2. CASE JoinThread(w) \/ CreateThread(w)
  BY <1>1, <1>2 DEF JoinThread, CreateThread, Elsewhere
<1>3. CASE InsertMessage(w) \/ InsertPatch(w) \/ InsertFails(w)
  <2>1. archive' = archive
    BY <1>3 DEF InsertMessage, InsertPatch, InsertFails, Elsewhere
  <2>2. Returns(w) \/ UNCHANGED <<file, ing, bf, rd>>
    BY <1>3 DEF InsertMessage, InsertPatch, InsertFails, Inside
  <2> QED
    BY <1>1, <2>1, <2>2, ReturnsLocals
<1>4. CASE ThreadFails(w)
  <2>1. /\ Advance(bf) \/ UNCHANGED <<bf, file>>
        /\ rd' = rd \/ rd' = RdIdle
        /\ ing' = ing /\ archive' = archive
    BY <1>4 DEF ThreadFails, Elsewhere
  <2>2. IsBf(bf')
    BY <1>1, <2>1, AdvanceKeeps
  <2> QED
    BY <1>1, <2>1, <2>2 DEF IsRd, RdIdle
<1> QED
  BY <1>2, <1>3, <1>4 DEF Persist

LEMMA LocalUpdates ==
  /\ \A g, q : IsIng(g) /\ q \subseteq Messages
        => IsIng([g EXCEPT !.at = "persist", !.queue = q])
  /\ \A b, m, s : IsBf(b)
        => IsBf([b EXCEPT !.todo = @ \ {m}, !.notFound = s])
  /\ \A g, a : IsIng(g) => IsIng([g EXCEPT !.at = a])
<1>1. ASSUME NEW g, NEW q, IsIng(g), q \subseteq Messages
      PROVE  IsIng([g EXCEPT !.at = "persist", !.queue = q])
  <2>1. IsIng([g EXCEPT !.at = "persist"])
    BY <1>1 DEF IsIng
  <2>2. \A h : IsIng(h) => IsIng([h EXCEPT !.queue = q])
    BY <1>1 DEF IsIng
  <2>3. [g EXCEPT !.at = "persist", !.queue = q]
          = [[g EXCEPT !.at = "persist"] EXCEPT !.queue = q]
    OBVIOUS
  <2> QED
    BY <2>1, <2>2, <2>3
<1>2. ASSUME NEW b, NEW m, NEW s, IsBf(b)
      PROVE  IsBf([b EXCEPT !.todo = @ \ {m}, !.notFound = s])
  <2>1. IsBf([b EXCEPT !.todo = @ \ {m}])
    BY <1>2 DEF IsBf
  <2>2. \A h : IsBf(h) => IsBf([h EXCEPT !.notFound = s])
    BY DEF IsBf
  <2>3. [b EXCEPT !.todo = @ \ {m}, !.notFound = s]
          = [[b EXCEPT !.todo = @ \ {m}] EXCEPT !.notFound = s]
    OBVIOUS
  <2> QED
    BY <2>1, <2>2, <2>3
<1>3. \A g, a : IsIng(g) => IsIng([g EXCEPT !.at = a])
  BY DEF IsIng
<1> QED
  BY <1>1, <1>2, <1>3

LEMMA NextLocals ==
  ASSUME LocalInv, [Next]_vars
  PROVE  archive' \subseteq Messages /\ IsBf(bf') /\ IsIng(ing') /\ IsRd(rd')
<1>1. archive \subseteq Messages /\ IsBf(bf) /\ IsIng(ing) /\ IsRd(rd)
  BY DEF LocalInv
<1>2. IsIng(IngIdle) /\ IsBf(BfIdle) /\ IsRd(RdIdle)
  BY DEF IsIng, IsBf, IsRd, IngIdle, BfIdle, RdIdle
<1>3. CASE Arrive
  BY <1>1, <1>3, ConstantsFacts DEF Arrive
<1>4. CASE Ingest
  <2>1. CASE Persist("ingest")
    BY <1>1, <2>1, PersistLocals DEF Writers
  <2>2. CASE ~Persist("ingest")
    <3>1. UNCHANGED <<archive, bf, rd>>
      BY <1>4, <2>2 DEF Ingest, StartIngest, FetchList, PersistNext, EndList, ListFails,
                       SelectThreads, SummariseNext, SaveCursors, tables
    <3>2. \A c : NextList(c) => IsIng(ing')
      BY <1>1 DEF NextList, IsIng
    <3>3. CASE StartIngest \/ SaveCursors
      <4>1. IsIng([IngIdle EXCEPT !.at = "fetch"])
        BY <1>2, LocalUpdates
      <4> QED
        BY <1>1, <1>2, <3>1, <3>3, <4>1 DEF StartIngest, SaveCursors
    <3>4. CASE FetchList
      <4>1. PICK got \in SUBSET Listing(Current) :
              \/ NextList(saved.cursor[Current])
              \/ ing' = [ing EXCEPT !.at = "persist", !.queue = Parsed(got)]
        BY <3>4 DEF FetchList
      <4>2. Parsed(got) \subseteq Messages
        BY <1>1 DEF Parsed, Listing
      <4>3. IsIng([ing EXCEPT !.at = "persist", !.queue = Parsed(got)])
        BY <1>1, <4>2, LocalUpdates
      <4> QED
        BY <1>1, <3>1, <3>2, <4>1, <4>3
    <3>5. CASE PersistNext
      BY <1>1, <3>1, <3>5 DEF PersistNext, IsIng
    <3>6. CASE EndList \/ ListFails
      BY <1>1, <3>1, <3>2, <3>6 DEF EndList, ListFails
    <3>7. CASE SelectThreads
      <4>1. PICK work : ing' = [ing EXCEPT !.at = "summarise", !.work = work]
        BY <3>7 DEF SelectThreads
      <4> QED
        BY <1>1, <3>1, <4>1 DEF IsIng
    <3>8. CASE SummariseNext
      <4>1. PICK work, deferred :
              ing' = [ing EXCEPT !.work = work, !.deferred = deferred]
        BY <3>8 DEF SummariseNext
      <4> QED
        BY <1>1, <3>1, <4>1 DEF IsIng
    <3> QED
      BY <1>4, <2>2, <3>3, <3>4, <3>5, <3>6, <3>7, <3>8 DEF Ingest
  <2> QED
    BY <2>1, <2>2
<1>5. CASE Backfill
  <2>1. CASE Persist("backfill")
    BY <1>1, <2>1, PersistLocals DEF Writers
  <2>2. CASE ~Persist("backfill")
    <3>1. UNCHANGED <<archive, ing, rd>>
      BY <1>5, <2>2 DEF Backfill, StartBackfill, BackfillNotFound, BackfillFetch,
                        BackfillFetchFails, EndBackfill, tables
    <3>2. CASE StartBackfill \/ EndBackfill
      BY <1>1, <1>2, <3>1, <3>2, ConstantsFacts DEF StartBackfill, EndBackfill, IsBf
    <3>3. CASE BackfillFetch
      BY <1>1, <3>1, <3>3 DEF BackfillFetch, IsBf
    <3>4. CASE BackfillNotFound
      <4>1. PICK m \in bf.todo :
              Advance([bf EXCEPT !.todo = @ \ {m}, !.notFound = @ \cup {m}])
        BY <3>4 DEF BackfillNotFound
      <4>2. IsBf([bf EXCEPT !.todo = @ \ {m}, !.notFound = @ \cup {m}])
        BY <1>1, LocalUpdates
      <4> QED
        BY <1>1, <3>1, <4>1, <4>2, AdvanceKeeps
    <3>5. CASE BackfillFetchFails
      <4>1. PICK m \in bf.todo : Advance([bf EXCEPT !.todo = @ \ {m}])
        BY <3>5 DEF BackfillFetchFails
      <4>2. IsBf([bf EXCEPT !.todo = @ \ {m}])
        BY <1>1 DEF IsBf
      <4> QED
        BY <1>1, <3>1, <4>1, <4>2, AdvanceKeeps
    <3> QED
      BY <1>5, <2>2, <3>2, <3>3, <3>4, <3>5 DEF Backfill
  <2> QED
    BY <2>1, <2>2
<1>6. CASE Reader
  <2>1. CASE Persist("reader")
    BY <1>1, <2>1, PersistLocals DEF Writers
  <2>2. CASE ~Persist("reader")
    <3>1. UNCHANGED <<archive, ing, bf>>
      BY <1>6, <2>2 DEF Reader, GetMessage, AskSummary, Decide, Generate, Recheck,
                        UseAnswer, tables
    <3>2. IsRd(rd')
      BY <1>1, <1>2, <1>6, <2>2 DEF Reader, GetMessage, AskSummary, Decide, Generate,
            Recheck, UseAnswer, Answered, IsRd
    <3> QED
      BY <1>1, <3>1, <3>2
  <2> QED
    BY <2>1, <2>2
<1>7. CASE IngestDies \/ BackfillDies
  BY <1>1, <1>2, <1>7 DEF IngestDies, BackfillDies
<1>8. CASE UNCHANGED vars
  BY <1>1, <1>8 DEF vars
<1> QED
  BY <1>3, <1>4, <1>5, <1>6, <1>7, <1>8 DEF Next

LEMMA InitLocalInv == Init => LocalInv /\ TablesTyped
<1> SUFFICES ASSUME Init PROVE LocalInv /\ TablesTyped
  OBVIOUS
<1>1. IsIng(IngIdle) /\ IsBf(BfIdle) /\ IsRd(RdIdle) /\ Idle \in JobState /\ Idle.at = "idle"
  BY DEF IsIng, IsBf, IsRd, IngIdle, BfIdle, RdIdle, Idle, JobState
<1> QED
  BY <1>1 DEF Init, LocalInv, TablesTyped

LEMMA NextLocalInv ==
  LocalInv /\ TablesTyped /\ [Next]_vars => LocalInv' /\ TablesTyped'
<1> SUFFICES ASSUME LocalInv, TablesTyped, [Next]_vars PROVE LocalInv' /\ TablesTyped'
  OBVIOUS
<1>1. Storing
  BY StepStores
<1>2. /\ job' \in [Writers -> JobState] /\ TablesTyped'
      /\ \A w \in Writers : job'[w].at # "idle" => job'[w].msg \in Messages
  BY <1>1, JobsAfter
<1>3. archive' \subseteq Messages /\ IsBf(bf') /\ IsIng(ing') /\ IsRd(rd')
  BY NextLocals
<1>4. IsBf(bf)' /\ IsIng(ing)' /\ IsRd(rd)'
  BY <1>3 DEF IsBf, IsIng, IsRd
<1> QED
  BY <1>2, <1>3, <1>4 DEF LocalInv, IsBf, IsIng, IsRd
-----------------------------------------------------------------------------
(* What is stored stays stored, and what is in quarantine stays there. *)
Kept == {m \in Messages : Complete(m) \/ m \in quarantined}

LEMMA TablesGrow ==
  ASSUME LocalInv, TablesTyped, [Next]_vars
  PROVE  /\ \A m \in Messages : thread[m] # None => thread'[m] = thread[m]
         /\ patchRows \subseteq patchRows' /\ quarantined \subseteq quarantined'
         /\ Kept \subseteq Kept'
<1>1. \A m \in Messages : thread[m] # None => thread'[m] = thread[m]
  <2>1. CASE thread' = thread
    BY <2>1
  <2>2. ASSUME NEW w \in Writers, InsertMessage(w)
        PROVE  \A m \in Messages : thread[m] # None => thread'[m] = thread[m]
    BY <2>2 DEF InsertMessage, TablesTyped
  <2>3. \A w \in Writers : JoinThread(w) \/ CreateThread(w) => thread' = thread
    BY DEF JoinThread, CreateThread
  <2>4. Storing
    BY StepStores
  <2> QED
    BY <2>1, <2>2, <2>3, <2>4 DEF Storing
<1>2. patchRows \subseteq patchRows' /\ quarantined \subseteq quarantined'
  <2>1. ASSUME NEW w \in Writers, Persist(w)
        PROVE  patchRows \subseteq patchRows' /\ quarantined \subseteq quarantined'
    BY <2>1 DEF Persist, JoinThread, CreateThread, InsertMessage, InsertPatch, InsertFails,
                ThreadFails
  <2>2. CASE Persist("ingest") \/ Persist("backfill") \/ Persist("reader")
    BY <2>1, <2>2 DEF Writers
  <2>3. CASE BackfillFetchFails
    BY <2>3 DEF BackfillFetchFails
  <2>4. CASE UNCHANGED tables
    BY <2>4 DEF tables
  <2>5. ASSUME Ingest, ~Persist("ingest") PROVE UNCHANGED tables
    BY <2>5 DEF Ingest, StartIngest, FetchList, PersistNext, EndList, ListFails,
                SelectThreads, SummariseNext, SaveCursors, tables
  <2>6. ASSUME Backfill, ~Persist("backfill"), ~BackfillFetchFails PROVE UNCHANGED tables
    BY <2>6 DEF Backfill, StartBackfill, BackfillNotFound, BackfillFetch, EndBackfill, tables
  <2>7. ASSUME Reader, ~Persist("reader") PROVE UNCHANGED tables
    BY <2>7 DEF Reader, GetMessage, AskSummary, Decide, Generate, Recheck, UseAnswer, tables
  <2>8. Arrive \/ IngestDies \/ BackfillDies \/ UNCHANGED vars => UNCHANGED tables
    BY DEF Arrive, IngestDies, BackfillDies, vars, tables
  <2> QED
    BY <2>2, <2>3, <2>4, <2>5, <2>6, <2>7, <2>8 DEF Next
<1> QED
  BY <1>1, <1>2 DEF Kept, Complete

-----------------------------------------------------------------------------
(* A message about to be inserted goes to its own thread or to one that an *)
(* ancestor is in; one whose patch row is next is stored.                   *)
Homes == [m \in Messages |-> {m} \cup {thread[a] : a \in ToSet(Ancestors[m])}]

JobInv ==
  \A w \in Writers :
     /\ job[w].at = "insert" => job[w].tid \in Messages \cap Homes[job[w].msg]
     /\ job[w].at = "patch"  => thread[job[w].msg] # None

ThreadInv == LocalInv /\ TablesTyped /\ JobInv /\ ThreadsFollowReplies

LEMMA HomesStay ==
  ASSUME LocalInv, TablesTyped, [Next]_vars, NEW m \in Messages
  PROVE  Messages \cap Homes[m] \subseteq Homes'[m]
<1>1. \A a \in ToSet(Ancestors[m]) : a \in Messages
  BY ConstantsFacts DEF ToSet
<1> QED
  BY <1>1, TablesGrow, ConstantsFacts DEF Homes

LEMMA NextThreadInv == ThreadInv /\ [Next]_vars => ThreadInv'
<1> SUFFICES ASSUME ThreadInv, [Next]_vars PROVE JobInv' /\ ThreadsFollowReplies'
  BY NextLocalInv DEF ThreadInv
<1>1. LocalInv /\ TablesTyped /\ JobInv /\ ThreadsFollowReplies /\ Storing
  BY StepStores DEF ThreadInv
<1>2. /\ job \in [Writers -> JobState] /\ thread \in [Messages -> Messages \cup {None}]
      /\ \A w \in Writers : job[w].at # "idle" => job[w].msg \in Messages
      /\ \A m \in Messages : thread[m] # None => thread'[m] = thread[m]
  BY <1>1, TablesGrow DEF LocalInv, TablesTyped
<1>3. \A m \in Messages : Messages \cap Homes[m] \subseteq Homes'[m]
  BY <1>1, HomesStay
(* A writer that did not move, and one whose job is now j. *)
<1>4. ASSUME NEW v \in Writers, job'[v] = job[v]
      PROVE  /\ job'[v].at = "insert" => job'[v].tid \in Messages \cap Homes'[job'[v].msg]
             /\ job'[v].at = "patch"  => thread'[job'[v].msg] # None
  BY <1>1, <1>2, <1>3, <1>4, ConstantsFacts DEF JobInv
<1>5. ASSUME NEW w \in Writers, NEW j, Step(w, j),
             j.at = "insert" => j.tid \in Messages \cap Homes'[j.msg],
             j.at = "patch"  => thread'[j.msg] # None
      PROVE  JobInv'
  <2>1. job'[w] = j /\ \A v \in Writers \ {w} : job'[v] = job[v]
    BY <1>2, <1>5 DEF Step
  <2> QED
    BY <1>4, <1>5, <2>1 DEF JobInv
<1>6. ASSUME thread' = thread PROVE ThreadsFollowReplies' /\ Homes' = Homes
  BY <1>1, <1>6 DEF ThreadsFollowReplies, Homes
<1>7. CASE job' = job /\ thread' = thread
  BY <1>4, <1>6, <1>7 DEF JobInv
<1>8. Idle.at = "idle" /\ \A m \in Messages : Fetched(m).at = "thread"
  BY DEF Idle, Fetched
<1>9. ASSUME NEW w \in Writers, thread' = thread,
             Step(w, Idle) \/ \E m \in Messages : Step(w, Fetched(m))
      PROVE  JobInv' /\ ThreadsFollowReplies'
  BY <1>5, <1>6, <1>8, <1>9
<1>10. ASSUME NEW w \in Writers, JoinThread(w)
       PROVE  JobInv' /\ ThreadsFollowReplies'
  <2>1. job[w].at = "thread" /\ job[w] \in JobState /\ job[w].msg \in Messages
        /\ thread' = thread
    BY <1>2, <1>10 DEF JoinThread
  <2>2. PICK i \in DOMAIN Ancestors[job[w].msg] :
          /\ Nearest(job[w].msg, i)
          /\ Step(w, [job[w] EXCEPT !.at = "insert",
                                    !.tid = thread[Ancestors[job[w].msg][i]]])
    BY <1>10 DEF JoinThread
  <2>3. /\ Ancestors[job[w].msg][i] \in Messages
        /\ Ancestors[job[w].msg][i] \in ToSet(Ancestors[job[w].msg])
    BY <2>1, <2>2, ConstantsFacts DEF ToSet
  <2> DEFINE t == thread[Ancestors[job[w].msg][i]]
  <2>4. t \in Messages \cap Homes'[job[w].msg]
    BY <1>2, <1>6, <2>1, <2>2, <2>3 DEF Nearest, StoredAncestors, Homes
  <2> HIDE DEF t
  <2>5. /\ [job[w] EXCEPT !.at = "insert", !.tid = t].tid = t
        /\ [job[w] EXCEPT !.at = "insert", !.tid = t].at = "insert"
        /\ [job[w] EXCEPT !.at = "insert", !.tid = t].msg = job[w].msg
    BY <2>1 DEF JobState
  <2>6. Step(w, [job[w] EXCEPT !.at = "insert", !.tid = t])
    BY <2>2 DEF t
  <2> QED
    BY <1>5, <1>6, <2>1, <2>4, <2>5, <2>6
<1>11. ASSUME NEW w \in Writers, CreateThread(w)
       PROVE  JobInv' /\ ThreadsFollowReplies'
  <2>1. job[w].at = "thread" /\ job[w] \in JobState /\ job[w].msg \in Messages
        /\ thread' = thread /\ Step(w, [job[w] EXCEPT !.at = "insert", !.tid = job[w].msg])
    BY <1>2, <1>11 DEF CreateThread
  <2>2. /\ [job[w] EXCEPT !.at = "insert", !.tid = job[w].msg].tid = job[w].msg
        /\ [job[w] EXCEPT !.at = "insert", !.tid = job[w].msg].at = "insert"
        /\ [job[w] EXCEPT !.at = "insert", !.tid = job[w].msg].msg = job[w].msg
    BY <2>1 DEF JobState
  <2>3. job[w].msg \in Homes'[job[w].msg]
    BY <2>1 DEF Homes
  <2> QED
    BY <1>5, <1>6, <2>1, <2>2, <2>3
<1>12. ASSUME NEW w \in Writers, InsertMessage(w)
       PROVE  JobInv' /\ ThreadsFollowReplies'
  <2> DEFINE m == job[w].msg
             t == job[w].tid
  <2>1. /\ job[w].at = "insert" /\ job[w] \in JobState /\ m \in Messages
        /\ t \in Messages \cap Homes[m]
        /\ thread' = IF thread[m] = None THEN [thread EXCEPT ![m] = t] ELSE thread
    BY <1>1, <1>2, <1>12 DEF InsertMessage, JobInv
  <2>2. Step(w, Idle) \/ Step(w, [job[w] EXCEPT !.at = "patch"])
    BY <1>12, ReturnsStep DEF InsertMessage, Inside
  <2>3. /\ [job[w] EXCEPT !.at = "patch"].at = "patch"
        /\ [job[w] EXCEPT !.at = "patch"].msg = m
    BY <2>1 DEF JobState
  <2>4. thread'[m] # None
    BY <1>2, <2>1, ConstantsFacts
  <2>5. JobInv'
    BY <1>5, <1>8, <2>2, <2>3, <2>4
  <2>6. ASSUME NEW n \in Messages, thread'[n] \notin {None, n}
        PROVE  \E a \in ToSet(Ancestors[n]) : thread'[a] = thread'[n]
    <3>1. \A a \in ToSet(Ancestors[n]) : a \in Messages
      BY ConstantsFacts DEF ToSet
    <3>2. CASE thread[n] # None
      BY <1>1, <1>2, <2>6, <3>1, <3>2 DEF ThreadsFollowReplies
    <3>3. CASE thread[n] = None
      <4>1. n = m /\ thread'[n] = t /\ t \in Homes'[n]
        BY <1>2, <1>3, <2>1, <2>6, <3>3
      <4> QED
        BY <2>6, <4>1 DEF Homes
    <3> QED
      BY <3>2, <3>3
  <2> QED
    BY <2>5, <2>6 DEF ThreadsFollowReplies
<1> QED
  BY <1>1, <1>7, <1>9, <1>10, <1>11, <1>12 DEF Storing

LEMMA InitThreadInv == Init => ThreadInv
BY InitLocalInv DEF Init, ThreadInv, JobInv, ThreadsFollowReplies, Idle

(* In every state of every run a reply is in the thread of a message it     *)
(* answers or in one of its own, for any order of the three writers'        *)
(* transactions.                                                            *)
THEOREM RepliesFollow == Spec => []ThreadsFollowReplies
<1>1. ThreadInv => ThreadsFollowReplies
  BY DEF ThreadInv
<1> QED
  BY InitThreadInv, NextThreadInv, <1>1, PTL DEF Spec
-----------------------------------------------------------------------------
(* message_count.  A writer that has counted its message and not stored it  *)
(* yet is ahead of the table.                                               *)
Replies(t) == Members(t) \ {t}
Pending(t) == {w \in Writers : job[w].at = "insert" /\ job[w].tid = t /\ job[w].msg # t}

CountInv ==
  \A t \in Messages : count[t] >= Cardinality(Replies(t)) + Cardinality(Pending(t))

LEMMA SetsCounted ==
  ASSUME NEW t
  PROVE  /\ IsFiniteSet(Replies(t)) /\ IsFiniteSet(Pending(t))
         /\ Cardinality(Replies(t)) \in Nat /\ Cardinality(Pending(t)) \in Nat
<1>1. IsFiniteSet(Writers)
  <2>1. Writers = (({} \cup {"ingest"}) \cup {"backfill"}) \cup {"reader"}
    BY DEF Writers
  <2>2. IsFiniteSet({} \cup {"ingest"})
    BY FS_EmptySet, FS_AddElement
  <2>3. IsFiniteSet(({} \cup {"ingest"}) \cup {"backfill"})
    BY <2>2, FS_AddElement
  <2> QED
    BY <2>1, <2>3, FS_AddElement
<1>2. Replies(t) \in SUBSET Messages /\ Pending(t) \in SUBSET Writers
  BY DEF Replies, Members, Pending
<1> QED
  BY <1>1, <1>2, ConstantsFacts, FS_Subset, FS_CardinalityType

(* The two sets before and after a step, and what the count must do then.   *)
Covered(c, R, P) ==
  c \in Nat /\ IsFiniteSet(R) /\ IsFiniteSet(P) /\ c >= Cardinality(R) + Cardinality(P)

Moved(c, R, P, c1, R1, P1, w, m) ==
  \/ c1 = c /\ R1 \subseteq R /\ P1 \subseteq P
  \/ c1 = c + 1 /\ R1 \subseteq R /\ P1 \subseteq P \cup {w}
  \/ c1 = c /\ R1 \subseteq R \cup {m} /\ P1 \subseteq P \ {w} /\ w \in P

LEMMA Recount ==
  ASSUME NEW R, NEW P, NEW R1, NEW P1, NEW w, NEW m, NEW c, NEW c1,
         Covered(c, R, P), Moved(c, R, P, c1, R1, P1, w, m)
  PROVE  c1 >= Cardinality(R1) + Cardinality(P1)
<1>0. /\ c \in Nat /\ IsFiniteSet(R) /\ IsFiniteSet(P)
      /\ c >= Cardinality(R) + Cardinality(P)
  BY DEF Covered
<1>1. /\ IsFiniteSet(R) /\ IsFiniteSet(P) /\ IsFiniteSet(P \cup {w}) /\ IsFiniteSet(P \ {w})
      /\ IsFiniteSet(R \cup {m})
      /\ Cardinality(R) \in Nat /\ Cardinality(P) \in Nat
      /\ Cardinality(P \cup {w}) <= Cardinality(P) + 1
      /\ Cardinality(R \cup {m}) <= Cardinality(R) + 1
      /\ w \in P => Cardinality(P \ {w}) = Cardinality(P) - 1
      /\ Cardinality(P \ {w}) \in Nat /\ Cardinality(P \cup {w}) \in Nat
      /\ Cardinality(R \cup {m}) \in Nat
  <2>1. /\ IsFiniteSet(P \cup {w}) /\ IsFiniteSet(P \ {w}) /\ IsFiniteSet(R \cup {m})
    BY <1>0, FS_AddElement, FS_RemoveElement
  <2>2. /\ Cardinality(R) \in Nat /\ Cardinality(P) \in Nat
        /\ Cardinality(P \ {w}) \in Nat /\ Cardinality(P \cup {w}) \in Nat
        /\ Cardinality(R \cup {m}) \in Nat
    BY <1>0, <2>1, FS_CardinalityType
  <2>3. /\ Cardinality(P \cup {w}) <= Cardinality(P) + 1
        /\ Cardinality(R \cup {m}) <= Cardinality(R) + 1
    <3>1. /\ Cardinality(P \cup {w}) = IF w \in P THEN Cardinality(P) ELSE Cardinality(P) + 1
          /\ Cardinality(R \cup {m}) = IF m \in R THEN Cardinality(R) ELSE Cardinality(R) + 1
      BY <1>0, FS_AddElement
    <3>2. CASE w \in P /\ m \in R
      BY <2>2, <3>1, <3>2
    <3>3. CASE w \in P /\ m \notin R
      BY <2>2, <3>1, <3>3
    <3>4. CASE w \notin P /\ m \in R
      BY <2>2, <3>1, <3>4
    <3>5. CASE w \notin P /\ m \notin R
      BY <2>2, <3>1, <3>5
    <3> QED
      BY <3>2, <3>3, <3>4, <3>5
  <2>4. w \in P => Cardinality(P \ {w}) = Cardinality(P) - 1
    BY <1>0, <2>2, FS_RemoveElement
  <2> QED
    BY <1>0, <2>1, <2>2, <2>3, <2>4
<1>2. \A S, T : IsFiniteSet(S) /\ T \subseteq S
        => Cardinality(T) \in Nat /\ Cardinality(T) <= Cardinality(S)
  BY FS_Subset, FS_CardinalityType
<1>3. CASE c1 = c /\ R1 \subseteq R /\ P1 \subseteq P
  <2>1. /\ Cardinality(R1) \in Nat /\ Cardinality(R1) <= Cardinality(R)
        /\ Cardinality(P1) \in Nat /\ Cardinality(P1) <= Cardinality(P)
    BY <1>1, <1>2, <1>3
  <2> QED
    BY <1>0, <1>1, <1>3, <2>1
<1>4. CASE c1 = c + 1 /\ R1 \subseteq R /\ P1 \subseteq P \cup {w}
  <2>1. /\ Cardinality(R1) \in Nat /\ Cardinality(R1) <= Cardinality(R)
        /\ Cardinality(P1) \in Nat /\ Cardinality(P1) <= Cardinality(P \cup {w})
    BY <1>1, <1>2, <1>4
  <2> QED
    BY <1>0, <1>1, <1>4, <2>1
<1>5. CASE c1 = c /\ R1 \subseteq R \cup {m} /\ P1 \subseteq P \ {w} /\ w \in P
  <2>1. /\ Cardinality(R1) \in Nat /\ Cardinality(R1) <= Cardinality(R \cup {m})
        /\ Cardinality(P1) \in Nat /\ Cardinality(P1) <= Cardinality(P \ {w})
    BY <1>1, <1>2, <1>5
  <2> QED
    BY <1>0, <1>1, <1>5, <2>1
<1> QED
  BY <1>3, <1>4, <1>5 DEF Moved

LEMMA NextCountInv == ThreadInv /\ CountInv /\ [Next]_vars => CountInv'
<1> SUFFICES ASSUME ThreadInv, CountInv, [Next]_vars, NEW t \in Messages
             PROVE  (count[t] >= Cardinality(Replies(t)) + Cardinality(Pending(t)))'
  BY DEF CountInv
<1>1. LocalInv /\ TablesTyped /\ JobInv /\ Storing /\ TablesTyped'
  BY StepStores, NextLocalInv DEF ThreadInv
<1>2. /\ job \in [Writers -> JobState] /\ thread \in [Messages -> Messages \cup {None}]
      /\ \A w \in Writers : job[w].at # "idle" => job[w].msg \in Messages
      /\ count[t] \in Nat /\ count'[t] \in Nat /\ count \in [Messages -> Nat]
  BY <1>1 DEF LocalInv, TablesTyped
<1>3. /\ IsFiniteSet(Replies(t)) /\ IsFiniteSet(Pending(t))
      /\ count[t] >= Cardinality(Replies(t)) + Cardinality(Pending(t))
  BY SetsCounted DEF CountInv
<1>4. SUFFICES \E w, m : Moved(count[t], Replies(t), Pending(t),
                                 count'[t], Replies(t)', Pending(t)', w, m)
  BY <1>2, <1>3, Recount DEF Covered
<1>5. ASSUME thread' = thread PROVE Replies(t)' = Replies(t)
  BY <1>5 DEF Replies, Members
(* What a writer whose job becomes j adds to the messages being inserted.   *)
<1>6. ASSUME NEW w \in Writers, NEW j, Step(w, j)
      PROVE  /\ Pending(t)' \subseteq Pending(t) \cup {w}
             /\ ~(j.at = "insert" /\ j.tid = t /\ j.msg # t)
                   => Pending(t)' \subseteq Pending(t) \ {w}
  <2>1. job'[w] = j /\ \A v \in Writers \ {w} : job'[v] = job[v]
    BY <1>2, <1>6 DEF Step
  <2> QED
    BY <2>1 DEF Pending
<1>7. ASSUME job' = job, thread' = thread, count' = count
      PROVE  /\ count'[t] = count[t] /\ Replies(t)' \subseteq Replies(t)
             /\ Pending(t)' \subseteq Pending(t)
  BY <1>5, <1>7 DEF Pending
<1>8. Idle.at = "idle" /\ \A m \in Messages : Fetched(m).at = "thread"
  BY DEF Idle, Fetched
<1>9. ASSUME NEW w \in Writers, thread' = thread, count' = count,
             Step(w, Idle) \/ \E m \in Messages : Step(w, Fetched(m))
      PROVE  /\ count'[t] = count[t] /\ Replies(t)' \subseteq Replies(t)
             /\ Pending(t)' \subseteq Pending(t)
  BY <1>5, <1>6, <1>8, <1>9
<1>10. ASSUME NEW w \in Writers, JoinThread(w)
       PROVE  /\ \/ count'[t] = count[t] /\ Pending(t)' \subseteq Pending(t)
                 \/ count'[t] = count[t] + 1 /\ Pending(t)' \subseteq Pending(t) \cup {w}
              /\ Replies(t)' = Replies(t)
  <2>1. job[w].at = "thread" /\ job[w] \in JobState /\ job[w].msg \in Messages
        /\ thread' = thread
    BY <1>2, <1>10 DEF JoinThread
  <2>2. PICK i \in DOMAIN Ancestors[job[w].msg] :
          /\ Nearest(job[w].msg, i)
          /\ count' = [count EXCEPT ![thread[Ancestors[job[w].msg][i]]] = @ + 1]
          /\ Step(w, [job[w] EXCEPT !.at = "insert",
                                    !.tid = thread[Ancestors[job[w].msg][i]]])
    BY <1>10 DEF JoinThread
  <2> DEFINE u == thread[Ancestors[job[w].msg][i]]
  <2>3. /\ count' = [count EXCEPT ![u] = @ + 1]
        /\ Step(w, [job[w] EXCEPT !.at = "insert", !.tid = u])
    BY <2>2
  <2> HIDE DEF u
  <2>4. [job[w] EXCEPT !.at = "insert", !.tid = u].tid = u
    BY <2>1 DEF JobState
  <2>5. CASE u = t
    BY <1>2, <1>5, <1>6, <2>1, <2>3, <2>5
  <2>6. CASE u # t
    BY <1>2, <1>5, <1>6, <2>1, <2>3, <2>4, <2>6
  <2> QED
    BY <2>5, <2>6
<1>11. ASSUME NEW w \in Writers, CreateThread(w)
       PROVE  /\ count'[t] = count[t] /\ Replies(t)' = Replies(t)
              /\ Pending(t)' \subseteq Pending(t)
  <2>1. job[w].at = "thread" /\ job[w] \in JobState /\ count' = count
        /\ thread' = thread /\ Step(w, [job[w] EXCEPT !.at = "insert", !.tid = job[w].msg])
    BY <1>2, <1>11 DEF CreateThread
  <2>2. /\ [job[w] EXCEPT !.at = "insert", !.tid = job[w].msg].tid = job[w].msg
        /\ [job[w] EXCEPT !.at = "insert", !.tid = job[w].msg].msg = job[w].msg
    BY <2>1 DEF JobState
  <2> QED
    BY <1>5, <1>6, <2>1, <2>2
<1>12. ASSUME NEW w \in Writers, InsertMessage(w)
       PROVE  /\ count'[t] = count[t]
              /\ \/ Replies(t)' \subseteq Replies(t) /\ Pending(t)' \subseteq Pending(t)
                 \/ /\ Replies(t)' \subseteq Replies(t) \cup {job[w].msg}
                    /\ Pending(t)' \subseteq Pending(t) \ {w} /\ w \in Pending(t)
  <2> DEFINE m == job[w].msg
             u == job[w].tid
  <2>1. /\ job[w].at = "insert" /\ job[w] \in JobState /\ m \in Messages /\ count' = count
        /\ thread' = IF thread[m] = None THEN [thread EXCEPT ![m] = u] ELSE thread
    BY <1>2, <1>12 DEF InsertMessage
  <2>2. Step(w, Idle) \/ Step(w, [job[w] EXCEPT !.at = "patch"])
    BY <1>12, ReturnsStep DEF InsertMessage, Inside
  <2>3. [job[w] EXCEPT !.at = "patch"].at = "patch"
    BY <2>1 DEF JobState
  <2>4. Pending(t)' \subseteq Pending(t) \ {w}
    BY <1>6, <1>8, <2>2, <2>3
  <2>5. CASE u = t /\ m # t
    <3>1. w \in Pending(t)
      BY <2>1, <2>5 DEF Pending
    <3>2. Replies(t)' \subseteq Replies(t) \cup {m}
      BY <1>2, <2>1 DEF Replies, Members
    <3> QED
      BY <2>1, <2>4, <3>1, <3>2
  <2>6. CASE ~(u = t /\ m # t)
    <3>1. Replies(t)' \subseteq Replies(t)
      BY <1>2, <2>1, <2>6 DEF Replies, Members
    <3> QED
      BY <2>1, <2>4, <3>1
  <2> QED
    BY <2>5, <2>6
<1>13. ASSUME NEW w, NEW m,
              \/ count'[t] = count[t] /\ Replies(t)' \subseteq Replies(t)
                                      /\ Pending(t)' \subseteq Pending(t)
              \/ count'[t] = count[t] + 1 /\ Replies(t)' \subseteq Replies(t)
                                          /\ Pending(t)' \subseteq Pending(t) \cup {w}
              \/ count'[t] = count[t] /\ Replies(t)' \subseteq Replies(t) \cup {m}
                                      /\ Pending(t)' \subseteq Pending(t) \ {w}
                                      /\ w \in Pending(t)
       PROVE  \E v, n : Moved(count[t], Replies(t), Pending(t),
                              count'[t], Replies(t)', Pending(t)', v, n)
  <2>1. Moved(count[t], Replies(t), Pending(t), count'[t], Replies(t)', Pending(t)', w, m)
    BY <1>13 DEF Moved
  <2> QED
    BY <2>1
<1>14. CASE \E w \in Writers : JoinThread(w) \/ CreateThread(w) \/ InsertMessage(w)
  <2>1. PICK w \in Writers : JoinThread(w) \/ CreateThread(w) \/ InsertMessage(w)
    BY <1>14
  <2>2. CASE JoinThread(w)
    BY <1>10, <1>13, <2>2
  <2>3. CASE CreateThread(w)
    BY <1>11, <1>13, <2>3
  <2>4. CASE InsertMessage(w)
    BY <1>12, <1>13, <2>4
  <2> QED
    BY <2>1, <2>2, <2>3, <2>4
<1> QED
  BY <1>1, <1>7, <1>5, <1>9, <1>13, <1>14 DEF Storing

LEMMA InitCountInv == Init => CountInv
<1> SUFFICES ASSUME Init, NEW t \in Messages
             PROVE  count[t] >= Cardinality(Replies(t)) + Cardinality(Pending(t))
  BY DEF CountInv
<1>1. Replies(t) = {} /\ Pending(t) = {} /\ count[t] = 0
  BY ConstantsFacts DEF Init, Replies, Members, Pending, Idle
<1> QED
  BY <1>1, FS_EmptySet

(* message_count covers the replies that are stored in the thread, in any   *)
(* order of the increments and the inserts of the three writers.            *)
THEOREM CountsCover == Spec => []CountCoversReplies
<1>1. CountInv /\ TablesTyped => CountCoversReplies
  <2> SUFFICES ASSUME CountInv, TablesTyped, NEW t \in Messages
               PROVE  count[t] >= Cardinality(Members(t) \ {t})
    BY DEF CountCoversReplies
  <2>1. count[t] \in Nat /\ count[t] >= Cardinality(Replies(t)) + Cardinality(Pending(t))
    BY DEF CountInv, TablesTyped
  <2> QED
    BY <2>1, SetsCounted DEF Replies
<1>2. ThreadInv => TablesTyped
  BY DEF ThreadInv
<1> QED
  BY InitThreadInv, NextThreadInv, InitCountInv, NextCountInv, <1>1, <1>2, PTL DEF Spec
-----------------------------------------------------------------------------
(* Control comes back to the ingester and the backfill only when the        *)
(* message is stored with its patch row, or in quarantine.                  *)
LEMMA ComesBackKept ==
  ASSUME ThreadInv, [Next]_vars, NEW w \in {"ingest", "backfill"}, Persist(w)
  PROVE  /\ job'[w].at = "idle" => job[w].msg \in Kept'
         /\ Returns(w) => job[w].msg \in Kept'
         /\ job'[w].at # "idle" => job'[w].msg = job[w].msg /\ ~Returns(w)
<1> DEFINE m == job[w].msg
<1>1. /\ w \in Writers /\ job \in [Writers -> JobState] /\ JobInv
      /\ thread \in [Messages -> Messages \cup {None}]
      /\ job[w].at # "idle" => m \in Messages
      /\ \A n \in Messages : thread[n] # None => thread'[n] = thread[n]
  BY TablesGrow DEF ThreadInv, LocalInv, TablesTyped, Writers
<1>2. Idle.at = "idle" /\ job[w] \in JobState
  BY <1>1 DEF Idle
<1>3. \A j : Step(w, j) => job'[w] = j
  BY <1>1 DEF Step
<1>4. CASE JoinThread(w) \/ CreateThread(w)
  <2>1. PICK t : Step(w, [job[w] EXCEPT !.at = "insert", !.tid = t])
    BY <1>4 DEF JoinThread, CreateThread
  <2>2. job'[w].at = "insert" /\ job'[w].msg = m
    BY <1>2, <1>3, <2>1 DEF JobState
  <2> QED
    BY <1>2, <1>3, <2>2, ReturnsStep
<1>5. CASE InsertMessage(w)
  <2>1. /\ job[w].at = "insert" /\ m \in Messages
        /\ thread' = IF thread[m] = None THEN [thread EXCEPT ![m] = job[w].tid] ELSE thread
    BY <1>1, <1>5 DEF InsertMessage
  <2>2. thread'[m] # None
    BY <1>1, <2>1, ConstantsFacts DEF JobInv
  <2>3. CASE m \in Patches
    <3>1. Step(w, [job[w] EXCEPT !.at = "patch"])
      BY <1>5, <2>3 DEF InsertMessage, Inside
    <3>2. job'[w].at = "patch" /\ job'[w].msg = m
      BY <1>2, <1>3, <3>1 DEF JobState
    <3> QED
      BY <1>2, <1>3, <3>2, ReturnsStep
  <2>4. CASE m \notin Patches
    <3>1. Returns(w)
      BY <1>5, <2>4 DEF InsertMessage
    <3> QED
      BY <1>2, <1>3, <2>1, <2>2, <2>4, <3>1, ReturnsStep DEF Kept, Complete
  <2> QED
    BY <2>3, <2>4
<1>6. CASE InsertPatch(w)
  <2>1. job[w].at = "patch" /\ m \in Messages /\ Returns(w) /\ m \in patchRows'
        /\ thread'[m] # None
    BY <1>1, <1>6 DEF InsertPatch, JobInv
  <2> QED
    BY <1>2, <1>3, <2>1, ReturnsStep DEF Kept, Complete
<1>7. CASE InsertFails(w)
  <2>1. m \in Messages /\ Returns(w) /\ m \in quarantined'
    BY <1>1, <1>7 DEF InsertFails
  <2> QED
    BY <1>2, <1>3, <2>1, ReturnsStep DEF Kept
<1>8. CASE ThreadFails(w)
  <2>1. m \in Messages /\ Step(w, Idle) /\ m \in quarantined'
    BY <1>1, <1>8 DEF ThreadFails
  <2> QED
    BY <1>2, <1>3, <2>1, ReturnsStep DEF Kept
<1> QED
  BY <1>4, <1>5, <1>6, <1>7, <1>8 DEF Persist

(* The messages the backfill holds as fetched, in memory and in its file.   *)
FileInv == file.fetched \subseteq Kept /\ bf.fetched \subseteq Kept

LEMMA NextFileInv == ThreadInv /\ FileInv /\ [Next]_vars => FileInv'
<1> SUFFICES ASSUME ThreadInv, FileInv, [Next]_vars
             PROVE  file'.fetched \subseteq Kept' /\ bf'.fetched \subseteq Kept'
  BY DEF FileInv
<1>1. LocalInv /\ TablesTyped /\ IsBf(bf) /\ Kept \subseteq Kept'
      /\ file.fetched \subseteq Kept /\ bf.fetched \subseteq Kept
  BY TablesGrow DEF ThreadInv, LocalInv, FileInv
<1>2. CASE UNCHANGED <<file, bf>>
  BY <1>1, <1>2
<1>3. ASSUME NEW b, IsBf(b), Advance(b), b.fetched = bf.fetched
      PROVE  file'.fetched \subseteq Kept' /\ bf'.fetched \subseteq Kept'
  BY <1>1, <1>3, AdvanceKeeps
<1>4. ASSUME NEW w \in Writers, Persist(w)
      PROVE  file'.fetched \subseteq Kept' /\ bf'.fetched \subseteq Kept'
  <2>1. CASE Returns(w)
    <3>1. /\ bf'.fetched = bf.fetched \/ (w = "backfill" /\ bf'.fetched = bf.fetched \cup {job[w].msg})
          /\ file' = file \/ file'.fetched = bf'.fetched
      BY <1>1, <2>1, ReturnsLocals
    <3>2. w = "backfill" => job[w].msg \in Kept'
      BY <1>4, <2>1, ComesBackKept
    <3> QED
      BY <1>1, <3>1, <3>2
  <2>2. CASE ~Returns(w)
    <3>1. UNCHANGED <<file, bf>> \/ Advance(bf)
      BY <1>4, <2>2 DEF Persist, JoinThread, CreateThread, InsertMessage, InsertPatch,
                        InsertFails, ThreadFails, Inside
    <3> QED
      BY <1>1, <1>2, <1>3, <3>1
  <2> QED
    BY <2>1, <2>2
<1>5. CASE Ingest
  <2>1. CASE Persist("ingest")
    BY <1>4, <2>1 DEF Writers
  <2>2. CASE ~Persist("ingest")
    BY <1>2, <1>5, <2>2 DEF Ingest, StartIngest, FetchList, PersistNext, EndList, ListFails,
                            SelectThreads, SummariseNext, SaveCursors
  <2> QED
    BY <2>1, <2>2
<1>6. CASE Reader
  <2>1. CASE Persist("reader")
    BY <1>4, <2>1 DEF Writers
  <2>2. CASE ~Persist("reader")
    BY <1>2, <1>6, <2>2 DEF Reader, GetMessage, AskSummary, Decide, Generate, Recheck,
                            UseAnswer
  <2> QED
    BY <2>1, <2>2
<1>7. CASE Backfill
  <2>1. CASE Persist("backfill")
    BY <1>4, <2>1 DEF Writers
  <2>2. CASE StartBackfill
    BY <1>1, <2>2 DEF StartBackfill
  <2>3. CASE EndBackfill
    <3>1. BfIdle.fetched = {}
      BY DEF BfIdle
    <3> QED
      BY <1>1, <2>3, <3>1 DEF EndBackfill
  <2>4. CASE BackfillFetch
    BY <1>1, <2>4 DEF BackfillFetch, IsBf
  <2>5. CASE BackfillNotFound
    <3>1. PICK m \in bf.todo :
            Advance([bf EXCEPT !.todo = @ \ {m}, !.notFound = @ \cup {m}])
      BY <2>5 DEF BackfillNotFound
    <3>2. IsBf([bf EXCEPT !.todo = @ \ {m}, !.notFound = @ \cup {m}])
      BY <1>1, LocalUpdates
    <3>3. [bf EXCEPT !.todo = @ \ {m}, !.notFound = @ \cup {m}].fetched = bf.fetched
      BY <1>1 DEF IsBf
    <3> QED
      BY <1>3, <3>1, <3>2, <3>3
  <2>6. CASE BackfillFetchFails
    <3>1. PICK m \in bf.todo : Advance([bf EXCEPT !.todo = @ \ {m}])
      BY <2>6 DEF BackfillFetchFails
    <3>2. /\ IsBf([bf EXCEPT !.todo = @ \ {m}])
          /\ [bf EXCEPT !.todo = @ \ {m}].fetched = bf.fetched
      BY <1>1 DEF IsBf
    <3> QED
      BY <1>3, <3>1, <3>2
  <2> QED
    BY <1>7, <2>1, <2>2, <2>3, <2>4, <2>5, <2>6 DEF Backfill
<1>8. CASE BackfillDies
  <2>1. BfIdle.fetched = {} /\ NoFile.fetched = {}
    BY DEF BfIdle, NoFile
  <2> QED
    BY <1>1, <1>8, <2>1 DEF BackfillDies
<1>9. CASE Arrive \/ IngestDies \/ UNCHANGED vars
  BY <1>2, <1>9 DEF Arrive, IngestDies, vars
<1> QED
  BY <1>5, <1>6, <1>7, <1>8, <1>9 DEF Next

LEMMA InitFileInv == Init => FileInv
BY DEF Init, FileInv, NoFile, BfIdle

(* Whatever fails and whenever the backfill is killed, a message its file   *)
(* lists as fetched is in the tables with its patch row, or in quarantine.  *)
THEOREM FileIsTrue == Spec => []FetchedMeansKept
<1>1. FileInv => FetchedMeansKept
  BY DEF FileInv, FetchedMeansKept, Kept
<1> QED
  BY InitThreadInv, NextThreadInv, InitFileInv, NextFileInv, <1>1, PTL DEF Spec
-----------------------------------------------------------------------------
(* The cursors.  While a run is at list number next, the messages offered   *)
(* from the lists before it are kept up to the cursor it will save, and     *)
(* those of the list itself are kept, in the queue, or being stored.        *)
Done(i)     == \A m \in offered :
                  ListOf[m] = Lists[i] /\ Day[m] < ing.cursor[Lists[i]] => m \in Kept
BeingStored == {job[w].msg : w \in {v \in {"ingest"} : job[v].at # "idle"}}

CursorInv ==
  /\ offered \subseteq archive
  /\ ing.cursor \in [ToSet(Lists) -> Nat] /\ saved.cursor \in [ToSet(Lists) -> Nat]
  /\ ing.newest \in Nat
  /\ ing.at # "persist" => job["ingest"].at = "idle"
  /\ ing.next \in Nat
  /\ ing.at \in {"fetch", "persist"} => ing.next \in 1..Len(Lists)
  /\ ing.at \in {"select", "summarise"} => ing.next = Len(Lists) + 1
  /\ \A m \in offered : Day[m] < saved.cursor[ListOf[m]] => m \in Kept
  /\ ing.at # "idle" => \A i \in 1..Len(Lists) : i < ing.next => Done(i)
  /\ ing.at = "persist" =>
        \A m \in offered : ListOf[m] = Current /\ Day[m] >= saved.cursor[Current]
                              => m \in Kept \cup ing.queue \cup BeingStored

LEMMA ListFacts ==
  /\ Len(Lists) \in Nat \ {0}
  /\ \A i \in 1..Len(Lists) : Lists[i] \in ToSet(Lists)
  /\ \A i, j \in 1..Len(Lists) : Lists[i] = Lists[j] => i = j
  /\ \A m \in Messages : \E i \in 1..Len(Lists) : ListOf[m] = Lists[i]
  /\ \A m \in Messages : ListOf[m] \in ToSet(Lists) /\ Day[m] \in Nat
<1>1. /\ Lists \in Seq(ToSet(Lists)) /\ Lists # <<>> /\ IsInjective(Lists)
      /\ ListOf \in [Messages -> ToSet(Lists)] /\ Day \in [Messages -> Nat]
  BY ConstantsFacts
<1>2. Len(Lists) \in Nat \ {0} /\ DOMAIN Lists = 1..Len(Lists)
  BY <1>1
<1>3. ToSet(Lists) = {Lists[i] : i \in 1..Len(Lists)}
  BY <1>2 DEF ToSet
<1>4. \A i, j \in 1..Len(Lists) : Lists[i] = Lists[j] => i = j
  BY <1>1, <1>2 DEF IsInjective
<1> QED
  BY <1>1, <1>2, <1>3, <1>4

(* The next list: the cursor of the current one becomes c.                  *)
LEMMA NextListCursor ==
  ASSUME IsIng(ing), ing.cursor \in [ToSet(Lists) -> Nat],
         ing.next \in 1..Len(Lists), NEW c \in Nat, NextList(c)
  PROVE  /\ ing'.cursor \in [ToSet(Lists) -> Nat] /\ ing'.newest = 0
         /\ ing'.next = ing.next + 1
         /\ ing'.at = IF ing.next = Len(Lists) THEN "select" ELSE "fetch"
         /\ ing'.cursor[Current] = c
         /\ \A l \in ToSet(Lists) : l # Current => ing'.cursor[l] = ing.cursor[l]
<1> DEFINE g1 == [ing EXCEPT !.at = IF ing.next = Len(Lists) THEN "select" ELSE "fetch",
                             !.next = @ + 1, !.queue = {}, !.newest = 0]
           cur == [ing.cursor EXCEPT ![Current] = c]
<1>1. ing' = [g1 EXCEPT !.cursor = cur]
  <2>1. g1.cursor = ing.cursor
    BY DEF IsIng
  <2> QED
    BY <2>1 DEF NextList
<1>2. IsIng(g1) /\ g1.next = ing.next + 1 /\ g1.newest = 0
      /\ g1.at = IF ing.next = Len(Lists) THEN "select" ELSE "fetch"
  <2> DEFINE a  == IF ing.next = Len(Lists) THEN "select" ELSE "fetch"
             n  == ing.next + 1
             h1 == [ing EXCEPT !.at = a]
             h2 == [h1 EXCEPT !.next = n]
             h3 == [h2 EXCEPT !.queue = {}]
             h4 == [h3 EXCEPT !.newest = 0]
  <2>1. g1 = h4
    BY DEF IsIng
  <2> HIDE DEF a, n
  <2>2. IsIng(h1) /\ h1.at = a
    BY DEF IsIng
  <2> HIDE DEF h1
  <2>3. IsIng(h2) /\ h2.at = a /\ h2.next = n
    BY <2>2 DEF IsIng
  <2> HIDE DEF h2
  <2>4. IsIng(h3) /\ h3.at = a /\ h3.next = n
    <3>1. \A q : q \subseteq Messages =>
             /\ IsIng([h2 EXCEPT !.queue = q])
             /\ [h2 EXCEPT !.queue = q].at = a /\ [h2 EXCEPT !.queue = q].next = n
      BY <2>3 DEF IsIng
    <3> QED
      BY <3>1
  <2> HIDE DEF h3
  <2>5. IsIng(h4) /\ h4.at = a /\ h4.next = n
    BY <2>4 DEF IsIng
  <2>6. h4.newest = 0
    BY <2>4 DEF IsIng
  <2> HIDE DEF h4
  <2> QED
    BY <2>1, <2>5, <2>6 DEF a, n
<1> HIDE DEF g1
<1>3. /\ cur \in [ToSet(Lists) -> Nat] /\ cur[Current] = c
      /\ \A l \in ToSet(Lists) : l # Current => cur[l] = ing.cursor[l]
  BY ListFacts DEF Current
<1> HIDE DEF cur
<1>4. ing'.cursor = cur /\ ing'.next = g1.next /\ ing'.at = g1.at
      /\ ing'.newest = g1.newest
  BY <1>1, <1>2 DEF IsIng
<1> QED
  BY <1>2, <1>3, <1>4

(* A step that leaves the ingester's own state alone.                       *)
LEMMA CursorFrame ==
  ASSUME CursorInv, archive \subseteq archive', Kept \subseteq Kept',
         UNCHANGED <<ing, offered, saved>>, job'["ingest"] = job["ingest"]
  PROVE  CursorInv'
BY DEF CursorInv, Done, BeingStored, Current

LEMMA MaxOfTwo == \A a, b \in Nat : Max({a, b}) \in Nat
<1> SUFFICES ASSUME NEW a \in Nat, NEW b \in Nat PROVE Max({a, b}) \in Nat
  OBVIOUS
<1>1. \E x \in {a, b} : \A y \in {a, b} : x >= y
  <2>1. CASE a >= b
    BY <2>1
  <2>2. CASE b >= a
    BY <2>2
  <2> QED
    BY <2>1, <2>2
<1> QED
  BY <1>1 DEF Max

LEMMA NextCursorInv == ThreadInv /\ CursorInv /\ [Next]_vars => CursorInv'
<1> SUFFICES ASSUME ThreadInv, CursorInv, [Next]_vars PROVE CursorInv'
  OBVIOUS
<1>1. /\ LocalInv /\ IsIng(ing) /\ archive \subseteq Messages /\ offered \subseteq Messages
      /\ job \in [Writers -> JobState] /\ Kept \subseteq Kept'
  BY TablesGrow DEF ThreadInv, LocalInv, CursorInv
<1>2. /\ ing.cursor \in [ToSet(Lists) -> Nat] /\ saved.cursor \in [ToSet(Lists) -> Nat]
      /\ ing.newest \in Nat
      /\ ing.at # "persist" => job["ingest"].at = "idle"
      /\ ing.next \in Nat
      /\ ing.at \in {"fetch", "persist"} => ing.next \in 1..Len(Lists)
      /\ ing.at \in {"select", "summarise"} => ing.next = Len(Lists) + 1
      /\ \A m \in offered : Day[m] < saved.cursor[ListOf[m]] => m \in Kept
      /\ offered \subseteq archive
  BY DEF CursorInv
<1>3. \A j : Step("ingest", j) => job'["ingest"] = j
  BY <1>1 DEF Step, Writers
<1>4. \A w, j : w # "ingest" /\ Step(w, j) => job'["ingest"] = job["ingest"]
  BY <1>1 DEF Step
<1>5. Idle.at = "idle" /\ IngIdle.at = "idle" /\ IngIdle.next = 1
      /\ IngIdle.cursor = [l \in ToSet(Lists) |-> 0]
  BY DEF Idle, IngIdle
(* The next list, once the current one needs nothing more.                  *)
<1>6. ASSUME NEW c \in Nat, NextList(c), ing.at \in {"fetch", "persist"}, archive' = archive,
             saved' = saved, job'["ingest"].at = "idle",
             offered' \subseteq archive,
             \A m \in offered' \ offered : Day[m] >= saved.cursor[ListOf[m]] /\ ListOf[m] = Current,
             \A m \in offered' : ListOf[m] = Current /\ Day[m] < c => m \in Kept'
      PROVE  CursorInv'
  <2>1. /\ ing.next \in 1..Len(Lists) /\ Current = Lists[ing.next]
        /\ \A i \in 1..Len(Lists) : i < ing.next => Done(i)
    BY <1>2, <1>6 DEF Current, CursorInv
  <2>2. /\ ing'.cursor \in [ToSet(Lists) -> Nat] /\ ing'.newest = 0
        /\ ing'.cursor[Current] = c
        /\ ing'.next = ing.next + 1
        /\ ing'.at = IF ing.next = Len(Lists) THEN "select" ELSE "fetch"
        /\ \A l \in ToSet(Lists) : l # Current => ing'.cursor[l] = ing.cursor[l]
    BY <1>1, <1>2, <1>6, <2>1, NextListCursor
  <2>4. \A m \in offered' : Day[m] < saved'.cursor[ListOf[m]] => m \in Kept'
    BY <1>1, <1>2, <1>6, ListFacts
  <2>5. ASSUME NEW i \in 1..Len(Lists), i < ing'.next, NEW m \in offered',
               ListOf[m] = Lists[i], Day[m] < ing'.cursor[Lists[i]]
        PROVE  m \in Kept'
    <3>1. CASE i = ing.next
      BY <1>6, <2>1, <2>2, <2>5, <3>1
    <3>2. CASE i # ing.next
      <4>1. i < ing.next /\ Lists[i] # Current /\ Lists[i] \in ToSet(Lists)
        BY <2>1, <2>2, <2>5, <3>2, ListFacts
      <4>2. m \in offered /\ Day[m] < ing.cursor[Lists[i]]
        BY <1>6, <2>2, <2>5, <4>1
      <4> QED
        BY <1>1, <2>1, <2>5, <4>1, <4>2 DEF Done
    <3> QED
      BY <3>1, <3>2
  <2>6. /\ ing'.next \in Nat
        /\ ing'.at \in {"fetch", "persist"} => ing'.next \in 1..Len(Lists)
        /\ ing'.at \in {"select", "summarise"} => ing'.next = Len(Lists) + 1
        /\ ing'.at # "persist"
    BY <2>1, <2>2, ListFacts
  <2> QED
    BY <1>6, <2>2, <2>4, <2>5, <2>6 DEF CursorInv, Done
<1>7. CASE StartIngest
  <2>1. ing' = [IngIdle EXCEPT !.at = "fetch"] /\ ing.at = "idle"
        /\ UNCHANGED <<archive, saved, offered, job>>
    BY <1>7 DEF StartIngest
  <2>2. ing'.at = "fetch" /\ ing'.next = 1 /\ ing'.cursor = [l \in ToSet(Lists) |-> 0]
        /\ ing'.newest = 0
    BY <2>1 DEF IngIdle
  <2>3. 1 \in 1..Len(Lists)
    BY ListFacts
  <2> QED
    BY <1>1, <1>2, <2>1, <2>2, <2>3, ListFacts DEF CursorInv, Done
<1>8. CASE FetchList
  <2>1. PICK got \in SUBSET Listing(Current) :
          /\ offered' = (offered \ Listing(Current)) \cup Parsed(got)
          /\ IF got = {} THEN NextList(saved.cursor[Current])
             ELSE ing' = [ing EXCEPT !.at = "persist", !.queue = Parsed(got)]
    BY <1>8 DEF FetchList
  <2>2. ing.at = "fetch" /\ UNCHANGED <<archive, saved, job>>
    BY <1>8 DEF FetchList
  <2>3. Current = Lists[ing.next] /\ ing.next \in 1..Len(Lists) /\ Current \in ToSet(Lists)
    BY <1>2, <2>2, ListFacts DEF Current
  <2>4. \A m \in Parsed(got) : m \in archive /\ ListOf[m] = Current
                                /\ Day[m] >= saved.cursor[ListOf[m]]
    BY <2>1 DEF Parsed, Listing
  <2>5. offered' \subseteq archive /\ \A m \in offered' : m \in offered \/ m \in Parsed(got)
    BY <1>2, <2>1, <2>4
  <2>6. \A m \in offered' : Day[m] < saved.cursor[ListOf[m]] => m \in Kept'
    BY <1>1, <1>2, <2>4, <2>5, ListFacts
  <2>7. CASE got = {}
    <3>1. NextList(saved.cursor[Current]) /\ saved.cursor[Current] \in Nat
      BY <1>2, <2>1, <2>3, <2>7
    <3> QED
      BY <1>2, <1>6, <2>2, <2>4, <2>5, <2>6, <3>1
  <2>8. CASE got # {}
    <3> DEFINE q == Parsed(got)
    <3>1. ing' = [ing EXCEPT !.at = "persist", !.queue = q]
      BY <2>1, <2>8
    <3> HIDE DEF q
    <3>2. /\ ing'.at = "persist" /\ ing'.queue = q /\ ing'.next = ing.next
          /\ ing'.cursor = ing.cursor /\ ing'.newest = ing.newest
      BY <1>1, <3>1 DEF IsIng
    <3>3. Current' = Current
      BY <3>2 DEF Current
    <3>4. ASSUME NEW m \in offered', ListOf[m] = Current, Day[m] >= saved.cursor[Current]
          PROVE  m \in q
      <4>1. m \in archive /\ m \in Listing(Current)
        BY <2>5, <3>4 DEF Listing
      <4> QED
        BY <2>1, <4>1 DEF q
    <3>5. ASSUME NEW i \in 1..Len(Lists), i < ing.next, NEW m \in offered',
                 ListOf[m] = Lists[i], Day[m] < ing.cursor[Lists[i]]
          PROVE  m \in Kept'
      <4>1. ListOf[m] # Current
        BY <2>3, <3>5, ListFacts
      <4>2. m \in offered
        BY <2>4, <2>5, <4>1
      <4>3. Done(i)
        BY <2>2, <3>5 DEF CursorInv
      <4> QED
        BY <1>1, <3>5, <4>2, <4>3 DEF Done
    <3> QED
      BY <1>2, <2>2, <2>3, <2>5, <2>6, <3>2, <3>3, <3>4, <3>5 DEF CursorInv, Done
  <2> QED
    BY <2>7, <2>8
<1>9. ASSUME ing.at = "persist", job["ingest"].at = "idle", ing.queue = {}, offered' = offered
      PROVE  \A m \in offered' : ListOf[m] = Current => m \in Kept'
  <2>1. BeingStored = {}
    BY <1>9 DEF BeingStored
  <2>2. Current = Lists[ing.next] /\ Current \in ToSet(Lists)
    BY <1>2, <1>9, ListFacts DEF Current
  <2> SUFFICES ASSUME NEW m \in offered, ListOf[m] = Current PROVE m \in Kept'
    BY <1>9
  <2>3. CASE Day[m] >= saved.cursor[Current]
    BY <1>1, <1>9, <2>1, <2>3 DEF CursorInv
  <2>4. CASE Day[m] < saved.cursor[Current]
    BY <1>1, <1>2, <2>4
  <2> QED
    BY <1>1, <1>2, <2>2, <2>3, <2>4, ListFacts
<1>10. CASE PersistNext
  <2>1. PICK m \in ing.queue :
          /\ ing' = [ing EXCEPT !.queue = @ \ {m}]
          /\ Step("ingest", Fetched(m))
    BY <1>10 DEF PersistNext
  <2>2. ing.at = "persist" /\ job["ingest"].at = "idle" /\ UNCHANGED <<archive, saved, offered>>
    BY <1>10 DEF PersistNext
  <2>3. /\ ing'.at = "persist" /\ ing'.queue = ing.queue \ {m} /\ ing'.next = ing.next
        /\ ing'.cursor = ing.cursor /\ ing'.newest = ing.newest
    BY <1>1, <2>1, <2>2 DEF IsIng
  <2>4. job'["ingest"].at = "thread" /\ job'["ingest"].msg = m
    BY <1>3, <2>1 DEF Fetched
  <2>5. BeingStored = {} /\ BeingStored' = {m} /\ Current' = Current
    BY <2>2, <2>3, <2>4 DEF BeingStored, Current
  <2> QED
    BY <1>1, <1>2, <2>2, <2>3, <2>4, <2>5 DEF CursorInv, Done
<1>11. CASE EndList
  <2>1. /\ ing.at = "persist" /\ job["ingest"].at = "idle" /\ ing.queue = {}
        /\ UNCHANGED <<archive, saved, offered, job>>
        /\ NextList(IF ing.newest # 0 THEN ing.newest ELSE saved.cursor[Current])
    BY <1>11 DEF EndList
  <2> DEFINE c == IF ing.newest # 0 THEN ing.newest ELSE saved.cursor[Current]
  <2>2. c \in Nat
    BY <1>2, <2>1, ListFacts DEF Current
  <2> HIDE DEF c
  <2> QED
    BY <1>2, <1>6, <1>9, <2>1, <2>2 DEF c
<1>12. CASE ListFails
  <2>1. /\ \/ ing.at = "fetch"
           \/ ing.at = "persist" /\ job["ingest"].at = "idle" /\ ing.queue = {}
        /\ UNCHANGED <<archive, saved, offered, job>>
        /\ NextList(saved.cursor[Current])
    BY <1>12 DEF ListFails
  <2>2. saved.cursor[Current] \in Nat
    BY <1>2, <2>1, ListFacts DEF Current
  <2>3. job'["ingest"].at = "idle"
    BY <1>2, <2>1
  <2>4. \A m \in offered' : ListOf[m] = Current /\ Day[m] < saved.cursor[Current] => m \in Kept'
    BY <1>1, <1>2, <2>1
  <2> QED
    BY <1>2, <1>6, <2>1, <2>2, <2>3, <2>4
<1>13. CASE SelectThreads \/ SummariseNext
  <2>1. /\ ing.at \in {"select", "summarise"} /\ ing'.at = "summarise"
        /\ ing'.next = ing.next /\ ing'.cursor = ing.cursor /\ ing'.newest = ing.newest
    <3>1. CASE SelectThreads
      <4>1. ing.at = "select" /\ \E work : ing' = [ing EXCEPT !.at = "summarise", !.work = work]
        BY <3>1 DEF SelectThreads
      <4> QED
        BY <1>1, <4>1 DEF IsIng
    <3>2. CASE SummariseNext
      <4>1. ing.at = "summarise"
            /\ \E work, deferred : ing' = [ing EXCEPT !.work = work, !.deferred = deferred]
        BY <3>2 DEF SummariseNext
      <4> QED
        BY <1>1, <4>1 DEF IsIng
    <3> QED
      BY <1>13, <3>1, <3>2
  <2>2. UNCHANGED <<archive, saved, offered, job>>
    BY <1>13 DEF SelectThreads, SummariseNext
  <2> QED
    BY <1>1, <1>2, <2>1, <2>2, ListFacts DEF CursorInv, Done
<1>14. CASE SaveCursors
  <2>1. /\ ing.at = "summarise" /\ saved'.cursor = ing.cursor /\ ing' = IngIdle
        /\ UNCHANGED <<archive, offered, job>>
    BY <1>14 DEF SaveCursors
  <2>2. ASSUME NEW m \in offered, Day[m] < ing.cursor[ListOf[m]] PROVE m \in Kept'
    <3>1. PICK i \in 1..Len(Lists) : ListOf[m] = Lists[i]
      BY <1>1, ListFacts
    <3>2. Done(i)
      BY <1>2, <2>1, <3>1, ListFacts DEF CursorInv
    <3> QED
      BY <1>1, <2>2, <3>1, <3>2 DEF Done
  <2>3. IngIdle.cursor \in [ToSet(Lists) -> Nat] /\ IngIdle.newest = 0 /\ IngIdle.next \in Nat
    BY DEF IngIdle
  <2> QED
    BY <1>2, <1>5, <2>1, <2>2, <2>3 DEF CursorInv
<1>15. CASE IngestDies
  <2>1. ing' = IngIdle /\ job'["ingest"].at = "idle" /\ UNCHANGED <<archive, saved, offered>>
    BY <1>3, <1>5, <1>15 DEF IngestDies
  <2>2. IngIdle.cursor \in [ToSet(Lists) -> Nat] /\ IngIdle.newest = 0 /\ IngIdle.next \in Nat
    BY DEF IngIdle
  <2> QED
    BY <1>1, <1>2, <1>5, <2>1, <2>2 DEF CursorInv
<1>16. CASE Persist("ingest")
  <2>1. job["ingest"].at # "idle"
    BY <1>16 DEF Persist, JoinThread, CreateThread, InsertMessage, InsertPatch, InsertFails,
                 ThreadFails
  <2>2. ing.at = "persist" /\ job["ingest"].msg \in Messages
    BY <1>1, <1>2, <2>1 DEF LocalInv, Writers
  <2>3. UNCHANGED <<archive, saved, offered>>
    BY <1>16 DEF Persist, JoinThread, CreateThread, InsertMessage, InsertPatch, InsertFails,
                 ThreadFails, Elsewhere
  <2>4. ing' = ing \/ ing' = [ing EXCEPT !.newest = Max({@, Day[job["ingest"].msg]})]
    <3>1. Returns("ingest") \/ ing' = ing
      BY <1>16 DEF Persist, JoinThread, CreateThread, InsertMessage, InsertPatch, InsertFails,
                   ThreadFails, Inside
    <3> QED
      BY <3>1 DEF Returns
  <2>5. Max({ing.newest, Day[job["ingest"].msg]}) \in Nat
    BY <1>2, <2>2, MaxOfTwo, ListFacts
  <2> DEFINE n == Max({ing.newest, Day[job["ingest"].msg]})
  <2>6. ing' = ing \/ ing' = [ing EXCEPT !.newest = n]
    BY <2>4
  <2>7. n \in Nat
    BY <2>5
  <2> HIDE DEF n
  <2>8. /\ ing'.at = "persist" /\ ing'.queue = ing.queue /\ ing'.next = ing.next
        /\ ing'.cursor = ing.cursor /\ ing'.newest \in Nat
    BY <1>1, <1>2, <2>2, <2>6, <2>7 DEF IsIng
  <2>9. Current' = Current
    BY <2>8 DEF Current
  <2>10. BeingStored \subseteq BeingStored' \cup Kept'
    BY <1>16, ComesBackKept DEF BeingStored
  <2> QED
    BY <1>1, <1>2, <2>2, <2>3, <2>8, <2>9, <2>10 DEF CursorInv, Done
<1>17. ASSUME NEW w \in {"backfill", "reader"}, Persist(w) PROVE CursorInv'
  <2>1. UNCHANGED <<archive, saved, offered>>
    BY <1>17 DEF Persist, JoinThread, CreateThread, InsertMessage, InsertPatch, InsertFails,
                 ThreadFails, Elsewhere
  <2>2. ing' = ing /\ \E j : Step(w, j)
    <3>1. Returns(w) => ing' = ing /\ Step(w, Idle)
      BY <1>17 DEF Returns
    <3>2. Returns(w) \/ (ing' = ing /\ \E j : Step(w, j))
      BY <1>17 DEF Persist, JoinThread, CreateThread, InsertMessage, InsertPatch, InsertFails,
                   ThreadFails, Inside
    <3> QED
      BY <3>1, <3>2
  <2> QED
    BY <1>1, <1>4, <2>1, <2>2, CursorFrame
<1>18. CASE Backfill
  <2>1. CASE Persist("backfill")
    BY <1>17, <2>1
  <2>2. CASE BackfillFetch
    <3>1. \E m : Step("backfill", Fetched(m))
      BY <2>2 DEF BackfillFetch
    <3> QED
      BY <1>1, <1>4, <2>2, <3>1, CursorFrame DEF BackfillFetch
  <2>3. CASE StartBackfill \/ BackfillNotFound \/ BackfillFetchFails \/ EndBackfill
    BY <1>1, <2>3, CursorFrame DEF StartBackfill, BackfillNotFound, BackfillFetchFails,
                                   EndBackfill
  <2> QED
    BY <1>18, <2>1, <2>2, <2>3 DEF Backfill
<1>19. CASE Reader
  <2>1. CASE Persist("reader")
    BY <1>17, <2>1
  <2>2. CASE GetMessage
    <3>1. \E m : Step("reader", Fetched(m))
      BY <2>2 DEF GetMessage
    <3> QED
      BY <1>1, <1>4, <2>2, <3>1, CursorFrame DEF GetMessage
  <2>3. CASE AskSummary \/ Decide \/ Generate \/ Recheck \/ UseAnswer
    BY <1>1, <2>3, CursorFrame DEF AskSummary, Decide, Generate, Recheck, UseAnswer
  <2> QED
    BY <1>19, <2>1, <2>2, <2>3 DEF Reader
<1>20. CASE BackfillDies
  BY <1>1, <1>4, <1>20, CursorFrame DEF BackfillDies
<1>21. CASE Arrive \/ UNCHANGED vars
  BY <1>1, <1>21, CursorFrame DEF Arrive, vars
<1> QED
  BY <1>7, <1>8, <1>10, <1>11, <1>12, <1>13, <1>14, <1>15, <1>16, <1>18, <1>19, <1>20, <1>21
     DEF Next, Ingest

LEMMA InitCursorInv == Init => CursorInv
BY ListFacts DEF Init, CursorInv, IngIdle, Idle, Writers

(* A cursor that has passed a message that was downloaded has not lost it:  *)
(* it is stored with its patch row or in quarantine, for any number of      *)
(* lists, failures and kills.                                               *)
THEOREM CursorsCover == Spec => []CursorCoversOffered
<1>1. CursorInv => CursorCoversOffered
  BY DEF CursorInv, CursorCoversOffered, Kept
<1> QED
  BY InitThreadInv, NextThreadInv, InitCursorInv, NextCursorInv, <1>1, PTL DEF Spec
-----------------------------------------------------------------------------
(* The marker of a failed summary reaches no reader: both reads of the row  *)
(* go through the same decision.                                            *)
THEOREM MarkerKeptBack == Spec => []MarkerNeverServed
<1> DEFINE AnswerInv == LocalInv /\ TablesTyped /\ MarkerNeverServed
<1>1. Init => AnswerInv
  BY InitLocalInv DEF Init, RdIdle, MarkerNeverServed
<1>2. AnswerInv /\ [Next]_vars => AnswerInv'
  <2> SUFFICES ASSUME LocalInv, TablesTyped, MarkerNeverServed, [Next]_vars
               PROVE  rd'.answer \in {None, "text"}
    BY NextLocalInv DEF MarkerNeverServed
  <2>1. IsRd(rd) /\ rd.answer \in {None, "text"} /\ RdIdle.answer = None
    BY DEF LocalInv, MarkerNeverServed, RdIdle
  <2>2. \A t : Answered(t).answer \in {None, "text"}
    BY DEF Answered, SummaryDecision
  <2>3. ASSUME NEW w \in Writers, Persist(w) PROVE rd' = rd \/ rd' = RdIdle
    BY <2>3, ReturnsLocals DEF Persist, JoinThread, CreateThread, InsertMessage, InsertPatch,
                               InsertFails, ThreadFails, Inside
  <2>4. CASE Persist("ingest") \/ Persist("backfill") \/ Persist("reader")
    BY <2>1, <2>3, <2>4 DEF Writers
  <2>5. ASSUME Reader, ~Persist("reader") PROVE rd'.answer \in {None, "text"}
    <3>1. CASE GetMessage \/ Generate
      BY <2>1, <3>1 DEF GetMessage, Generate, IsRd
    <3>2. CASE Decide
      BY <2>1, <2>2, <3>2 DEF Decide, IsRd
    <3>3. CASE AskSummary \/ Recheck \/ UseAnswer
      BY <2>1, <2>2, <3>3 DEF AskSummary, Recheck, UseAnswer
    <3> QED
      BY <2>5, <3>1, <3>2, <3>3 DEF Reader
  <2>6. ASSUME Ingest, ~Persist("ingest") PROVE rd' = rd
    BY <2>6 DEF Ingest, StartIngest, FetchList, PersistNext, EndList, ListFails,
                SelectThreads, SummariseNext, SaveCursors
  <2>7. ASSUME Backfill, ~Persist("backfill") PROVE rd' = rd
    BY <2>7 DEF Backfill, StartBackfill, BackfillNotFound, BackfillFetch, BackfillFetchFails,
                EndBackfill
  <2>8. Arrive \/ IngestDies \/ BackfillDies \/ UNCHANGED vars => rd' = rd
    BY DEF Arrive, IngestDies, BackfillDies, vars
  <2> QED
    BY <2>1, <2>4, <2>5, <2>6, <2>7, <2>8 DEF Next
<1>3. AnswerInv => MarkerNeverServed
  OBVIOUS
<1> QED
  BY <1>1, <1>2, <1>3, PTL DEF Spec
-----------------------------------------------------------------------------
(* Types.  What the invariants above do not say of the variables.           *)
Results == {"null", "text", "failed"}

TablesShape ==
  /\ roots \subseteq Messages /\ patchRows \subseteq Messages /\ quarantined \subseteq Messages
  /\ summary \in [Messages -> Results]
  /\ faults \in 0..MaxFaults /\ runs \in 0..MaxRuns

ReaderShape ==
  /\ rd.at \in {"idle", "message", "decide", "generate", "recheck", "answered"}
  /\ rd.at \in {"decide", "generate", "recheck"} => rd.tid \in Messages

BackfillShape ==
  /\ bf.at \in {"idle", "run"} /\ bf.fetched \subseteq Messages /\ bf.notFound \subseteq Messages
  /\ file \in [fetched: SUBSET Messages, notFound: SUBSET Messages]

IngestShape ==
  /\ ing.at \in {"idle", "fetch", "persist", "select", "summarise"}
  /\ ing.work \in Seq(Messages) /\ ing.deferred \in Seq(Messages)
  /\ saved \in [cursor: [ToSet(Lists) -> Nat], deferred: Seq(Messages)]

ShapeInv == TablesShape /\ ReaderShape /\ BackfillShape /\ IngestShape

(* Control comes back to a writer that was storing a message.               *)
LEMMA ReturnsAt == \A w \in Writers : Persist(w) => job[w].at # "idle"
BY DEF Persist, JoinThread, CreateThread, InsertMessage, InsertPatch, InsertFails, ThreadFails

LEMMA MinOfTwo == \A a, b \in Nat : Min({a, b}) \in 0..a
<1> SUFFICES ASSUME NEW a \in Nat, NEW b \in Nat PROVE Min({a, b}) \in 0..a
  OBVIOUS
<1>1. \E x \in {a, b} : \A y \in {a, b} : x <= y
  <2>1. CASE a <= b
    BY <2>1
  <2>2. CASE b <= a
    BY <2>2
  <2> QED
    BY <2>1, <2>2
<1>2. Min({a, b}) \in {a, b} /\ \A y \in {a, b} : Min({a, b}) <= y
  BY <1>1 DEF Min
<1> QED
  BY <1>2

(* The counters of runs and failures, and what a step leaves of them.       *)
LEMMA CountersAfter ==
  ASSUME LocalInv, [Next]_vars, faults \in 0..MaxFaults, runs \in 0..MaxRuns
  PROVE  faults' \in 0..MaxFaults /\ runs' \in 0..MaxRuns
<1>1. MaxFaults \in Nat /\ MaxRuns \in Nat
  BY ArchiveAssumption
<1>2. faults' = faults \/ Fault
  BY DEF Next, Arrive, Ingest, Backfill, Reader, IngestDies, BackfillDies, StartIngest, FetchList,
     PersistNext, EndList, ListFails, SelectThreads, SummariseNext, Summarise, SaveCursors, Persist,
     JoinThread, CreateThread, InsertMessage, InsertPatch, InsertFails, ThreadFails, StartBackfill,
     BackfillNotFound, BackfillFetch, BackfillFetchFails, EndBackfill, GetMessage, AskSummary, Decide,
     Generate, Recheck, UseAnswer, vars
<1>3. runs' = runs \/ (runs < MaxRuns /\ runs' = runs + 1)
  BY DEF Next, Arrive, Ingest, Backfill, Reader, IngestDies, BackfillDies, StartIngest, FetchList,
     PersistNext, EndList, ListFails, SelectThreads, SummariseNext, SaveCursors, Persist, Elsewhere,
     JoinThread, CreateThread, InsertMessage, InsertPatch, InsertFails, ThreadFails, StartBackfill,
     BackfillNotFound, BackfillFetch, BackfillFetchFails, EndBackfill, GetMessage, AskSummary, Decide,
     Generate, Recheck, UseAnswer, vars
<1> QED
  BY <1>1, <1>2, <1>3 DEF Fault

(* The tables: what a step adds to them is a message.                       *)
LEMMA TablesAfter ==
  ASSUME LocalInv, TablesTyped, ShapeInv, [Next]_vars
  PROVE  TablesShape'
<1>1. /\ roots \subseteq Messages /\ patchRows \subseteq Messages /\ quarantined \subseteq Messages
      /\ summary \in [Messages -> Results]
  BY DEF ShapeInv, TablesShape
<1>2. faults' \in 0..MaxFaults /\ runs' \in 0..MaxRuns
  BY CountersAfter DEF ShapeInv, TablesShape
<1>3. ASSUME NEW w \in Writers, Persist(w)
      PROVE  /\ roots' \subseteq Messages /\ patchRows' \subseteq Messages /\ quarantined' \subseteq Messages
             /\ summary' = summary
  <2>1. job[w].at # "idle" => job[w].msg \in Messages
    BY DEF LocalInv
  <2> QED
    BY <1>1, <1>3, <2>1 DEF Persist, Elsewhere, JoinThread, CreateThread, InsertMessage, InsertPatch,
       InsertFails, ThreadFails
<1>4. ASSUME NEW t \in Messages, NEW result \in {"text", "failed", "skipped"}, Summarise(t, result)
      PROVE  summary' \in [Messages -> Results]
  BY <1>1, <1>4 DEF Summarise, Results
<1>5. CASE Persist("ingest") \/ Persist("backfill") \/ Persist("reader")
  BY <1>1, <1>2, <1>3, <1>5 DEF TablesShape, Writers
<1>6. CASE SummariseNext
  <2>1. Head(ing.work) \in Messages
    BY <1>6 DEF SummariseNext, ShapeInv, IngestShape
  <2>2. summary' \in [Messages -> Results] /\ UNCHANGED tables
    BY <1>4, <1>6, <2>1 DEF SummariseNext
  <2> QED
    BY <1>1, <1>2, <2>2 DEF TablesShape, tables
<1>7. CASE Generate
  <2>1. rd.tid \in Messages
    BY <1>7 DEF Generate, ShapeInv, ReaderShape
  <2>2. summary' \in [Messages -> Results] /\ UNCHANGED tables
    BY <1>4, <1>7, <2>1 DEF Generate
  <2> QED
    BY <1>1, <1>2, <2>2 DEF TablesShape, tables
<1>8. CASE BackfillFetchFails
  <2>1. bf.todo \subseteq Messages
    BY DEF LocalInv, IsBf
  <2> QED
    BY <1>1, <1>2, <1>8, <2>1 DEF BackfillFetchFails, TablesShape
<1>9. CASE Arrive \/ StartIngest \/ FetchList \/ PersistNext \/ EndList \/ ListFails \/ SelectThreads \/ SaveCursors
           \/ StartBackfill \/ BackfillNotFound \/ BackfillFetch \/ EndBackfill \/ GetMessage \/ AskSummary
           \/ Decide \/ Recheck \/ UseAnswer \/ IngestDies \/ BackfillDies \/ UNCHANGED vars
  <2>1. UNCHANGED <<tables, summary>>
    BY <1>9 DEF Arrive, StartIngest, FetchList, PersistNext, EndList, ListFails, SelectThreads, SaveCursors,
       StartBackfill, BackfillNotFound, BackfillFetch, EndBackfill, GetMessage, AskSummary, Decide, Recheck,
       UseAnswer, IngestDies, BackfillDies, vars
  <2> QED
    BY <1>1, <1>2, <2>1 DEF TablesShape, tables
<1> QED
  BY <1>5, <1>6, <1>7, <1>8, <1>9 DEF Next, Ingest, Backfill, Reader

(* The reader.                                                              *)
LEMMA ReaderAfter ==
  ASSUME LocalInv, TablesTyped, ShapeInv, [Next]_vars
  PROVE  ReaderShape'
<1>1. IsRd(rd) /\ ReaderShape /\ roots \subseteq Messages
  BY DEF LocalInv, ShapeInv, TablesShape
<1>2. CASE rd' = rd \/ rd' = RdIdle
  BY <1>1, <1>2 DEF ReaderShape, RdIdle
<1>3. ASSUME NEW w \in Writers, Persist(w) PROVE rd' = rd \/ rd' = RdIdle
  BY <1>3, ReturnsLocals DEF Persist, JoinThread, CreateThread, InsertMessage, InsertPatch,
                             InsertFails, ThreadFails, Inside
<1>4. CASE GetMessage \/ Generate
  BY <1>1, <1>4 DEF GetMessage, Generate, IsRd, ReaderShape
<1>5. CASE AskSummary
  BY <1>1, <1>5 DEF AskSummary, ReaderShape
<1>6. CASE Decide \/ Recheck
  BY <1>1, <1>6 DEF Decide, Recheck, Answered, IsRd, ReaderShape
<1>7. CASE Reader /\ ~(GetMessage \/ Generate \/ AskSummary \/ Decide \/ Recheck)
  BY <1>2, <1>3, <1>7 DEF Reader, UseAnswer, Writers
<1>8. CASE Ingest \/ Backfill \/ Arrive \/ IngestDies \/ BackfillDies \/ UNCHANGED vars
  <2>1. CASE Persist("ingest") \/ Persist("backfill")
    BY <1>2, <1>3, <2>1 DEF Writers
  <2>2. CASE ~(Persist("ingest") \/ Persist("backfill"))
    BY <1>2, <1>8, <2>2 DEF Ingest, StartIngest, FetchList, PersistNext, EndList, ListFails, SelectThreads,
       SummariseNext, SaveCursors, Backfill, StartBackfill, BackfillNotFound, BackfillFetch, BackfillFetchFails,
       EndBackfill, Arrive, IngestDies, BackfillDies, vars
  <2> QED
    BY <2>1, <2>2
<1> QED
  BY <1>4, <1>5, <1>6, <1>7, <1>8 DEF Next, Reader

(* The backfill and its file.                                               *)
IsFile(f) == f \in [fetched: SUBSET Messages, notFound: SUBSET Messages]

LEMMA AdvanceTyped ==
  ASSUME NEW b, IsBf(b), Advance(b), b.at \in {"idle", "run"}, b.fetched \subseteq Messages,
         b.notFound \subseteq Messages, IsFile(file)
  PROVE  BackfillShape'
<1>1. bf' = [b EXCEPT !.i = (@ + 1) % SaveEvery]
      /\ (file' = [fetched |-> b.fetched, notFound |-> b.notFound] \/ file' = file)
  BY DEF Advance
<1>2. bf'.at = b.at /\ bf'.fetched = b.fetched /\ bf'.notFound = b.notFound
  BY <1>1 DEF IsBf
<1>3. IsFile(file')
  BY <1>1 DEF IsFile
<1> QED
  BY <1>2, <1>3 DEF BackfillShape, IsFile

LEMMA BackfillAfter ==
  ASSUME LocalInv, TablesTyped, ShapeInv, [Next]_vars
  PROVE  BackfillShape'
<1>1. /\ IsBf(bf) /\ bf.todo \subseteq Messages /\ BackfillShape /\ IsFile(file)
      /\ bf.at \in {"idle", "run"} /\ bf.fetched \subseteq Messages /\ bf.notFound \subseteq Messages
  BY DEF LocalInv, ShapeInv, BackfillShape, IsFile, IsBf
<1>2. CASE UNCHANGED <<file, bf>>
  BY <1>1, <1>2 DEF BackfillShape
<1>3. CASE Advance(bf)
  BY <1>1, <1>3, AdvanceTyped
<1>4. ASSUME NEW w \in Writers, Persist(w) PROVE BackfillShape'
  <2>1. job[w].at # "idle" => job[w].msg \in Messages
    BY DEF LocalInv
  <2>2. PICK m : m = job[w].msg
    OBVIOUS
  <2>3. CASE Returns(w) /\ w = "backfill"
    <3>1. Advance([bf EXCEPT !.fetched = @ \cup {m}]) /\ m \in Messages
      BY <1>4, <2>1, <2>2, <2>3, ReturnsAt DEF Returns
    <3>2. PICK b : b = [bf EXCEPT !.fetched = @ \cup {m}]
      OBVIOUS
    <3>3. /\ IsBf(b) /\ b.at = bf.at /\ b.notFound = bf.notFound /\ b.fetched = bf.fetched \cup {m}
      BY <1>1, <3>2 DEF IsBf
    <3> QED
      BY <1>1, <3>1, <3>2, <3>3, AdvanceTyped
  <2>4. CASE Returns(w) /\ w # "backfill"
    BY <1>2, <2>4 DEF Returns, Writers
  <2>5. CASE ~Returns(w)
    <3>1. UNCHANGED <<file, bf>> \/ Advance(bf)
      BY <1>4, <2>5 DEF Persist, JoinThread, CreateThread, InsertMessage, InsertPatch,
                        InsertFails, ThreadFails, Inside
    <3> QED
      BY <1>2, <1>3, <3>1
  <2> QED
    BY <2>3, <2>4, <2>5
<1>5. CASE Persist("ingest") \/ Persist("backfill") \/ Persist("reader")
  BY <1>4, <1>5 DEF Writers
<1>6. CASE StartBackfill \/ EndBackfill \/ BackfillDies
  <2>1. /\ Referenced \subseteq Messages
        /\ file.fetched \subseteq Messages /\ file.notFound \subseteq Messages
    BY <1>1, ConstantsFacts DEF IsFile
  <2> QED
    BY <1>1, <1>6, <2>1 DEF StartBackfill, EndBackfill, BackfillDies, BfIdle, NoFile, BackfillShape, IsFile
<1>7. CASE BackfillFetch
  <2>1. bf'.at = bf.at /\ bf'.fetched = bf.fetched /\ bf'.notFound = bf.notFound /\ file' = file
    BY <1>1, <1>7 DEF BackfillFetch, IsBf
  <2> QED
    BY <1>1, <2>1 DEF BackfillShape, IsFile
<1>8. CASE BackfillNotFound
  <2>1. PICK m \in bf.todo : Advance([bf EXCEPT !.todo = @ \ {m}, !.notFound = @ \cup {m}])
    BY <1>8 DEF BackfillNotFound
  <2>2. PICK b : b = [bf EXCEPT !.todo = @ \ {m}, !.notFound = @ \cup {m}]
    OBVIOUS
  <2>3. IsBf(b)
    BY <1>1, <2>2, LocalUpdates
  <2>4. b.at = bf.at /\ b.notFound = bf.notFound \cup {m} /\ b.fetched = bf.fetched
    BY <1>1, <2>2 DEF IsBf
  <2> QED
    BY <1>1, <2>1, <2>2, <2>3, <2>4, AdvanceTyped
<1>9. CASE BackfillFetchFails
  <2>1. PICK m \in bf.todo : Advance([bf EXCEPT !.todo = @ \ {m}])
    BY <1>9 DEF BackfillFetchFails
  <2>2. PICK b : b = [bf EXCEPT !.todo = @ \ {m}]
    OBVIOUS
  <2>3. IsBf(b) /\ b.at = bf.at /\ b.notFound = bf.notFound /\ b.fetched = bf.fetched
    BY <1>1, <2>2 DEF IsBf
  <2> QED
    BY <1>1, <2>1, <2>2, <2>3, AdvanceTyped
<1>10. CASE Arrive \/ StartIngest \/ FetchList \/ PersistNext \/ EndList \/ ListFails \/ SelectThreads
            \/ SummariseNext \/ SaveCursors \/ GetMessage \/ AskSummary \/ Decide \/ Generate \/ Recheck
            \/ UseAnswer \/ IngestDies \/ UNCHANGED vars
  BY <1>2, <1>10 DEF Arrive, StartIngest, FetchList, PersistNext, EndList, ListFails, SelectThreads,
     SummariseNext, SaveCursors, GetMessage, AskSummary, Decide, Generate, Recheck, UseAnswer, IngestDies, vars
<1> QED
  BY <1>5, <1>6, <1>7, <1>8, <1>9, <1>10 DEF Next, Ingest, Backfill, Reader

(* The ingester and its checkpoint.                                         *)
LEMMA IngestAfter ==
  ASSUME LocalInv, TablesTyped, CursorInv, ShapeInv, [Next]_vars
  PROVE  IngestShape'
<1>1. /\ IsIng(ing) /\ ing.at \in {"idle", "fetch", "persist", "select", "summarise"}
      /\ ing.work \in Seq(Messages) /\ ing.deferred \in Seq(Messages)
      /\ saved \in [cursor: [ToSet(Lists) -> Nat], deferred: Seq(Messages)]
      /\ ing.cursor \in [ToSet(Lists) -> Nat]
  BY DEF LocalInv, ShapeInv, IngestShape, CursorInv
<1>2. ASSUME UNCHANGED <<ing, saved>> PROVE IngestShape'
  BY <1>1, <1>2 DEF IngestShape
<1>3. ASSUME ing' = IngIdle, UNCHANGED saved PROVE IngestShape'
  <2>1. IngIdle.at = "idle" /\ IngIdle.work = <<>> /\ IngIdle.deferred = <<>> /\ <<>> \in Seq(Messages)
    BY DEF IngIdle
  <2> QED
    BY <1>1, <1>3, <2>1 DEF IngestShape
<1>4. ASSUME UNCHANGED saved, NEW at \in {"idle", "fetch", "persist", "select", "summarise"},
             ing'.at = at, ing'.work = ing.work, ing'.deferred = ing.deferred
      PROVE  IngestShape'
  BY <1>1, <1>4 DEF IngestShape
<1>5. ASSUME NEW w \in Writers, Persist(w) PROVE IngestShape'
  <2>1. saved' = saved
    BY <1>5 DEF Persist, JoinThread, CreateThread, InsertMessage, InsertPatch, InsertFails, ThreadFails, Elsewhere
  <2>2. ing' = ing \/ (w = "ingest" /\ ing' = [ing EXCEPT !.newest = Max({@, Day[job[w].msg]})])
    BY <1>5, ReturnsLocals DEF Persist, JoinThread, CreateThread, InsertMessage, InsertPatch, InsertFails,
       ThreadFails, Inside
  <2>3. ing'.at = ing.at /\ ing'.work = ing.work /\ ing'.deferred = ing.deferred
    BY <1>1, <2>2 DEF IsIng
  <2> QED
    BY <1>1, <1>4, <2>1, <2>3
<1>6. CASE Persist("ingest") \/ Persist("backfill") \/ Persist("reader")
  BY <1>5, <1>6 DEF Writers
<1>7. ASSUME NEW c, NextList(c), saved' = saved PROVE IngestShape'
  <2>1. /\ ing'.at \in {"select", "fetch"} /\ ing'.work = ing.work /\ ing'.deferred = ing.deferred
    BY <1>1, <1>7 DEF NextList, IsIng
  <2> QED
    BY <1>4, <1>7, <2>1
<1>8. CASE FetchList
  <2>1. PICK got, c : NextList(c) \/ ing' = [ing EXCEPT !.at = "persist", !.queue = Parsed(got)]
    BY <1>8 DEF FetchList
  <2>2. saved' = saved
    BY <1>8 DEF FetchList
  <2>3. CASE ing' = [ing EXCEPT !.at = "persist", !.queue = Parsed(got)]
    <3>1. ing'.at = "persist" /\ ing'.work = ing.work /\ ing'.deferred = ing.deferred
      BY <1>1, <2>3 DEF IsIng
    <3> QED
      BY <1>4, <2>2, <3>1
  <2> QED
    BY <1>7, <2>1, <2>2, <2>3
<1>9. CASE EndList \/ ListFails
  <2>1. saved' = saved /\ \E c : NextList(c)
    BY <1>9 DEF EndList, ListFails
  <2> QED
    BY <1>7, <2>1
<1>10. CASE StartIngest
  <2>1. /\ ing'.at = "fetch" /\ ing'.work = <<>> /\ ing'.deferred = <<>> /\ <<>> \in Seq(Messages)
        /\ saved' = saved
    BY <1>10 DEF StartIngest, IngIdle
  <2> QED
    BY <1>1, <2>1 DEF IngestShape
<1>11. CASE PersistNext
  <2>1. ing'.at = ing.at /\ ing'.work = ing.work /\ ing'.deferred = ing.deferred /\ saved' = saved
    BY <1>1, <1>11 DEF PersistNext, IsIng
  <2> QED
    BY <1>1, <1>4, <2>1
<1>12. CASE SelectThreads
  <2>0. PICK silent \in SUBSET NeedSummary : \E found \in LongestFirst(silent) : \E all :
           /\ all = saved.deferred \o found
           /\ ing' = [ing EXCEPT !.at = "summarise", !.work = SubSeq(all, 1, Min({Len(all), SummaryCap}))]
    BY <1>12 DEF SelectThreads
  <2>1. PICK found \in LongestFirst(silent) : \E all :
           /\ all = saved.deferred \o found
           /\ ing' = [ing EXCEPT !.at = "summarise", !.work = SubSeq(all, 1, Min({Len(all), SummaryCap}))]
    BY <2>0
  <2>2. PICK all :
           /\ all = saved.deferred \o found
           /\ ing' = [ing EXCEPT !.at = "summarise", !.work = SubSeq(all, 1, Min({Len(all), SummaryCap}))]
    BY <2>1
  <2>3. found \in Seq(Messages)
    <3>1. silent \subseteq Messages /\ IsFiniteSet(silent)
      BY ConstantsFacts, FS_Subset DEF NeedSummary, ShapeInv, TablesShape
    <3>2. found \in [1..Cardinality(silent) -> silent]
      BY DEF LongestFirst, SetToSeqs
    <3>3. Cardinality(silent) \in Nat
      BY <3>1, FS_CardinalityType
    <3> QED
      BY <3>1, <3>2, <3>3
  <2>4. all \in Seq(Messages) /\ Len(all) \in Nat
    BY <1>1, <2>2, <2>3
  <2>5. PICK n : n = Min({Len(all), SummaryCap})
    OBVIOUS
  <2>6. n \in 0..Len(all)
    BY <2>4, <2>5, MinOfTwo, ArchiveAssumption
  <2>7. PICK work : work = SubSeq(all, 1, n)
    OBVIOUS
  <2>8. work \in Seq(Messages)
    BY <2>4, <2>6, <2>7
  <2>9. ing' = [ing EXCEPT !.at = "summarise", !.work = work] /\ saved' = saved
    BY <1>12, <2>2, <2>5, <2>7 DEF SelectThreads
  <2>10. ing'.at = "summarise" /\ ing'.work = work /\ ing'.deferred = ing.deferred
    BY <1>1, <2>9 DEF IsIng
  <2> QED
    BY <1>1, <2>8, <2>9, <2>10 DEF IngestShape
<1>13. CASE SummariseNext
  <2>1. Head(ing.work) \in Messages /\ Tail(ing.work) \in Seq(Messages)
    BY <1>1, <1>13 DEF SummariseNext
  <2>2. PICK work \in Seq(Messages), m \in Messages : work = Tail(ing.work) /\ m = Head(ing.work)
    BY <2>1
  <2>3. PICK deferred \in Seq(Messages) : ing' = [ing EXCEPT !.work = work, !.deferred = deferred]
    <3>1. Append(ing.deferred, m) \in Seq(Messages)
      BY <1>1
    <3>2. \/ ing' = [ing EXCEPT !.work = work, !.deferred = ing.deferred]
          \/ ing' = [ing EXCEPT !.work = work, !.deferred = Append(ing.deferred, m)]
      BY <1>13, <2>2 DEF SummariseNext
    <3> QED
      BY <1>1, <3>1, <3>2
  <2>4. ing'.at = ing.at /\ ing'.work = work /\ ing'.deferred = deferred /\ saved' = saved
    BY <1>1, <1>13, <2>3 DEF IsIng, SummariseNext
  <2> QED
    BY <1>1, <2>4 DEF IngestShape
<1>14. CASE SaveCursors
  <2>1. saved' = [cursor |-> ing.cursor, deferred |-> ing.deferred] /\ ing' = IngIdle
    BY <1>14 DEF SaveCursors
  <2>2. IngIdle.at = "idle" /\ IngIdle.work = <<>> /\ IngIdle.deferred = <<>> /\ <<>> \in Seq(Messages)
    BY DEF IngIdle
  <2> QED
    BY <1>1, <2>1, <2>2 DEF IngestShape
<1>15. CASE IngestDies
  BY <1>3, <1>15 DEF IngestDies
<1>16. CASE Arrive \/ StartBackfill \/ BackfillNotFound \/ BackfillFetch \/ BackfillFetchFails \/ EndBackfill
            \/ GetMessage \/ AskSummary \/ Decide \/ Generate \/ Recheck \/ UseAnswer \/ BackfillDies
            \/ UNCHANGED vars
  BY <1>2, <1>16 DEF Arrive, StartBackfill, BackfillNotFound, BackfillFetch, BackfillFetchFails, EndBackfill,
     GetMessage, AskSummary, Decide, Generate, Recheck, UseAnswer, BackfillDies, vars
<1> QED
  BY <1>6, <1>8, <1>9, <1>10, <1>11, <1>12, <1>13, <1>14, <1>15, <1>16 DEF Next, Ingest, Backfill, Reader

LEMMA InitShapeInv == Init => ShapeInv
<1> SUFFICES ASSUME Init PROVE ShapeInv
  OBVIOUS
<1>1. <<>> \in Seq(Messages) /\ 0 \in 0..MaxFaults /\ 0 \in 0..MaxRuns
  BY ArchiveAssumption
<1>2. TablesShape
  BY <1>1 DEF Init, TablesShape, Results
<1>3. ReaderShape /\ BackfillShape
  BY DEF Init, ReaderShape, BackfillShape, RdIdle, BfIdle, NoFile
<1>4. IngestShape
  BY <1>1 DEF Init, IngestShape, IngIdle
<1> QED
  BY <1>2, <1>3, <1>4 DEF ShapeInv

LEMMA NextShapeInv == ThreadInv /\ CursorInv /\ ShapeInv /\ [Next]_vars => ShapeInv'
<1> SUFFICES ASSUME ThreadInv, CursorInv, ShapeInv, [Next]_vars PROVE ShapeInv'
  OBVIOUS
<1>1. LocalInv /\ TablesTyped
  BY DEF ThreadInv
<1> QED
  BY <1>1, TablesAfter, ReaderAfter, BackfillAfter, IngestAfter DEF ShapeInv

(* Whatever the writers do and however they fail, the tables, the two       *)
(* checkpoints and the locals of the writers keep the shape the code gives  *)
(* them.                                                                    *)
THEOREM ArchiveIsTyped == Spec => []TypeOK
<1>1. ThreadInv /\ ShapeInv => TypeOK
  <2> SUFFICES ASSUME LocalInv, TablesTyped, ShapeInv PROVE TypeOK
    BY DEF ThreadInv
  <2>1. \A w \in Writers : /\ job[w].at \in {"idle", "thread", "insert", "patch"}
                           /\ job[w].msg \in Messages \cup {None}
    BY DEF LocalInv, JobState
  <2> QED
    BY <2>1 DEF LocalInv, IsBf, IsIng, TablesTyped, ShapeInv, TablesShape, ReaderShape, BackfillShape,
       IngestShape, Results, TypeOK
<1> QED
  BY InitThreadInv, NextThreadInv, InitCursorInv, NextCursorInv, InitShapeInv, NextShapeInv, <1>1, PTL DEF Spec
=============================================================================

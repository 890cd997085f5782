------------------------- MODULE KernelCommitProofs -------------------------
(***************************************************************************)
(* Theorems on KernelCommit, for all histories, every number of overlapping *)
(* processes, any batch size and any number of failures and kills: the     *)
(* table only grows, what a row says of its branches is true, and a        *)
(* checkpoint is accounted for.                                            *)
(***************************************************************************)
EXTENDS KernelCommit, TLAPS

LEMMA SourcesFacts ==
  /\ Len(Sources) \in Nat \ {0}
  /\ \A i \in 1..Len(Sources) : Sources[i] \in Source
  /\ Mainline \in Source
  /\ History \in [Source -> Seq(Hash)]
  /\ \A s \in Source : Len(History[s]) \in Nat
  /\ \A s \in Source : \A i \in 1..Len(History[s]) : History[s][i] \in Hash
<1>1. Sources \in Seq(STRING) /\ Sources # <<>> /\ Sources[Len(Sources)] = Mainline
  BY KernelCommitAssumption
<1>2. Len(Sources) \in Nat \ {0} /\ DOMAIN Sources = 1..Len(Sources)
  BY <1>1
<1>3. History \in [Source -> Seq(Hash)]
  BY KernelCommitAssumption
<1>4. \A s \in Source : \A i \in 1..Len(History[s]) : History[s][i] \in Hash
  BY <1>3
<1> QED
  BY <1>1, <1>2, <1>3, <1>4 DEF Source

-----------------------------------------------------------------------------
(* Where a run may be: the positions it handles are published. *)
Bounded(me) ==
  /\ me.pc \in {"log", "commits", "head"} => me.at <= Len(Sources)
  /\ me.pc = "commits" =>
       LET s == Sources[me.at] IN
       /\ me.last[s] < me.next /\ me.next <= me.read /\ me.read <= remote[s]

TableInv ==
  /\ TypeOK
  /\ \A r \in Run : Bounded(run[r])
  /\ \A h \in Hash : rows[h] # None => rows[h].upstream \in {None, Upstream[h]}

(* A step takes nothing away. *)
Growth ==
  /\ \A s \in Source : remote[s] <= remote'[s] /\ unread[s] \subseteq unread'[s]
  /\ quarantined \subseteq quarantined'
  /\ \A h \in Hash :
       rows[h] # None =>
         /\ rows'[h] # None
         /\ rows[h].versions \subseteq rows'[h].versions
         /\ rows[h].upstream # None => rows'[h].upstream = rows[h].upstream
         /\ rows'[h].stub => rows[h].stub

(* The commit a run handles next is one of its branch's history. *)
LEMMA NextCommit ==
  ASSUME TableInv, NEW r \in Run, Is(r, "commits")
  PROVE  /\ At(r) \in Source
         /\ run[r].next \in 1..remote[At(r)]
         /\ run[r].next \in 1..Len(History[At(r)])
         /\ History[At(r)][run[r].next] \in Hash
<1>1. run[r] \in RunState /\ run[r].pc = "commits" /\ run[r].at <= Len(Sources)
  BY DEF TableInv, TypeOK, Is, Bounded
<1>2. At(r) \in Source
  BY <1>1, SourcesFacts DEF At, RunState
<1>3. /\ run[r].last[At(r)] < run[r].next /\ run[r].next <= run[r].read
      /\ run[r].read <= remote[At(r)]
  BY <1>1 DEF TableInv, At, Bounded
<1>4. /\ run[r].last[At(r)] \in Nat /\ run[r].next \in Nat /\ run[r].read \in Nat
      /\ remote[At(r)] \in Nat /\ remote[At(r)] <= Len(History[At(r)])
  BY <1>1, <1>2 DEF TableInv, TypeOK, RunState, Position
<1>5. run[r].next \in 1..remote[At(r)] /\ run[r].next \in 1..Len(History[At(r)])
  BY <1>2, <1>3, <1>4, SourcesFacts
<1> QED
  BY <1>2, <1>5, SourcesFacts

(* A row after an upsert. *)
LEMMA UpsertedRow ==
  ASSUME TableInv, NEW h \in Hash, NEW s \in Source
  PROVE  /\ Upserted(h, s) \in Row
         /\ Upserted(h, s) # None
         /\ s \in Upserted(h, s).versions
         /\ Upserted(h, s).upstream \in {None, Upstream[h]}
         /\ rows[h] # None =>
              /\ Upserted(h, s).versions = rows[h].versions \cup {s}
              /\ rows[h].upstream # None => Upserted(h, s).upstream = rows[h].upstream
              /\ Upserted(h, s).stub = rows[h].stub
         /\ rows[h] = None => Upserted(h, s).versions = {s} /\ ~Upserted(h, s).stub
<1> DEFINE up == IF s = Mainline THEN None ELSE Upstream[h]
<1>1. up \in Hash \cup {None} /\ up \in {None, Upstream[h]}
  BY KernelCommitAssumption
<1>2. CASE rows[h] = None
  <2>1. Upserted(h, s) = [origin |-> IF s = Mainline THEN Mainline ELSE "olk",
                          stub |-> FALSE, versions |-> {s}, upstream |-> up]
    BY <1>2 DEF Upserted
  <2>2. Upserted(h, s) \in Row
    BY <1>1, <2>1 DEF Row
  <2>3. /\ Upserted(h, s).versions = {s} /\ ~Upserted(h, s).stub
        /\ Upserted(h, s).upstream = up
    BY <2>1
  <2>4. Upserted(h, s) # None
    BY <2>2, RowAssumption
  <2> HIDE DEF up
  <2> QED
    BY <1>1, <1>2, <2>2, <2>3, <2>4
<1>3. CASE rows[h] # None
  <2>1. rows[h] \in Row /\ rows[h].upstream \in {None, Upstream[h]}
    BY <1>3 DEF TableInv, TypeOK
  <2>2. Upserted(h, s) = [rows[h] EXCEPT !.versions = @ \cup {s},
                                         !.upstream = IF up # None THEN up ELSE @]
    BY <1>3 DEF Upserted
  <2>3. Upserted(h, s) = [origin |-> rows[h].origin, stub |-> rows[h].stub,
                          versions |-> rows[h].versions \cup {s},
                          upstream |-> IF up # None THEN up ELSE rows[h].upstream]
    BY <2>1, <2>2 DEF Row
  <2>4. Upserted(h, s) \in Row
    BY <1>1, <2>1, <2>3 DEF Row
  <2> QED
    BY <1>1, <1>3, <2>1, <2>3, <2>4, RowAssumption
<1> QED
  BY <1>2, <1>3

(* The commits the linker makes stubs for are commits. *)
LEMMA StubRow ==
  ASSUME TableInv
  PROVE  Stub \in Row /\ Stub # None /\ Dangling \subseteq Hash
<1>1. Stub \in Row
  BY SourcesFacts DEF Stub, Row
<1>2. Dangling \subseteq Hash
  BY DEF Dangling, TableInv, TypeOK, Row
<1> QED
  BY <1>1, <1>2, RowAssumption

LEMMA StepGrows ==
  ASSUME TableInv, [Next]_vars
  PROVE  Growth
<1> DEFINE Same ==
      /\ \A s \in Source : remote[s] <= remote'[s] /\ unread[s] \subseteq unread'[s]
      /\ quarantined \subseteq quarantined'
<1>1. /\ remote \in [Source -> Nat] /\ unread \in [Source -> SUBSET Nat]
      /\ rows \in [Hash -> Row \cup {None}]
  BY DEF TableInv, TypeOK, Position
<1>2. rows' = rows /\ Same => Growth
  BY DEF Growth
<1>3. ASSUME NEW s \in Source, Publish(s) PROVE Growth
  <2>1. rows' = rows /\ Same
    BY <1>1, <1>3 DEF Publish
  <2> QED
    BY <1>2, <2>1
<1>4. ASSUME NEW r \in Run, UpsertCommit(r) PROVE Growth
  <2> DEFINE h == History[At(r)][run[r].next]
  <2>1. At(r) \in Source /\ h \in Hash
    BY <1>4, NextCommit DEF UpsertCommit
  <2>2. rows' = rows \/ rows' = [rows EXCEPT ![h] = Upserted(h, At(r))]
    BY <1>4 DEF UpsertCommit
  <2>3. Same
    BY <1>1, <1>4 DEF UpsertCommit
  <2> HIDE DEF h
  <2>4. \A g \in Hash : rows'[g] = rows[g] \/ (g = h /\ rows'[g] = Upserted(h, At(r)))
    BY <1>1, <2>1, <2>2
  <2> QED
    BY <2>1, <2>3, <2>4, UpsertedRow DEF Growth
<1>5. ASSUME LinkUpstream PROVE Growth
  <2>1. \A h \in Hash : rows[h] # None => rows'[h] = rows[h]
    BY <1>5 DEF LinkUpstream
  <2>2. Same
    BY <1>1, <1>5 DEF LinkUpstream
  <2> QED
    BY <2>1, <2>2 DEF Growth
<1>6. ASSUME NEW r \in Run, RunStep(r) \/ Crash(r), ~UpsertCommit(r) PROVE Growth
  <2>1. rows' = rows /\ remote' = remote /\ quarantined \subseteq quarantined'
    BY <1>6 DEF RunStep, Crash, Start, SkipRepo, Fetch, FetchFails, Log, LogFails,
                LogTimesOut, UpsertFails, RevParse, RevParseFails, SaveReport, SaveFails
  <2>2. \/ unread' = unread
        \/ \E n : unread' = [unread EXCEPT ![At(r)] = @ \cup n]
    BY <1>6 DEF RunStep, Crash, Start, SkipRepo, Fetch, FetchFails, Log, LogFails,
                LogTimesOut, UpsertFails, RevParse, RevParseFails, SaveReport, SaveFails
  <2>3. \A s \in Source : unread[s] \subseteq unread'[s]
    BY <1>1, <2>2
  <2> QED
    BY <1>1, <1>2, <2>1, <2>3
<1>7. CASE UNCHANGED vars
  BY <1>1, <1>2, <1>7 DEF vars
<1> QED
  BY <1>3, <1>4, <1>5, <1>6, <1>7 DEF Next

-----------------------------------------------------------------------------
LEMMA InitTableInv == Init => TableInv
<1> SUFFICES ASSUME Init PROVE TableInv
  OBVIOUS
<1>1. Nowhere \in Position
  BY DEF Nowhere, Position
<1>2. Idle \in RunState /\ Idle.pc = "idle"
  BY <1>1, SourcesFacts DEF Idle, RunState
<1>3. TypeOK
  BY <1>1, <1>2, KernelCommitAssumption, SourcesFacts DEF Init, TypeOK, Nowhere, Position
<1> QED
  BY <1>2, <1>3 DEF Init, TableInv, Bounded

(* The state of a run after a commit. *)
LEMMA HandledRun ==
  ASSUME TableInv, NEW r \in Run, Is(r, "commits")
  PROVE  /\ Handled(r) \in RunState
         /\ Bounded(Handled(r))
         /\ Handled(r).at = run[r].at /\ Handled(r).last = run[r].last
         /\ Handled(r).read = run[r].read /\ Handled(r).next = run[r].next - 1
         /\ Handled(r).pc = IF run[r].next - 1 = run[r].last[At(r)] THEN "head"
                                                                  ELSE "commits"
         /\ Handled(r).top \in {run[r].top, run[r].next - 1}
         /\ \A s \in Source : \/ Handled(r).new[s] = run[r].new[s]
                              \/ s = At(r) /\ Handled(r).new[s] = run[r].top
<1> DEFINE me == run[r]
           below == me.next - 1
           done == below = me.last[At(r)]
           batchDone == done \/ me.top - below = BatchSize
           new == [me.new EXCEPT ![At(r)] = IF batchDone THEN me.top ELSE @]
           top == IF batchDone THEN below ELSE me.top
           pc == IF done THEN "head" ELSE "commits"
<1>1. /\ me \in RunState /\ me.pc = "commits" /\ me.at <= Len(Sources)
      /\ me.at \in Nat
  BY SourcesFacts DEF TableInv, TypeOK, Is, RunState
<1>2. me.last[At(r)] < me.next /\ me.next <= me.read /\ me.read <= remote[At(r)]
  BY <1>1 DEF TableInv, Bounded, At
<1>3. me.last[At(r)] \in Nat /\ me.next \in 1..remote[At(r)] /\ At(r) \in Source
  BY <1>1, NextCommit DEF RunState, Position
<1>4. below \in Nat
  BY <1>3
<1>5. new \in Position /\ top \in Nat
  BY <1>1, <1>3, <1>4 DEF RunState, Position
<1>6. Handled(r) = [pc |-> pc, at |-> me.at, last |-> me.last, new |-> new,
                    next |-> below, top |-> top, read |-> me.read]
  <2>1. Handled(r) = [me EXCEPT !.next = below, !.pc = pc, !.new = new, !.top = top]
    BY DEF Handled
  <2> HIDE DEF me, below, pc, new, top
  <2> QED
    BY <1>1, <2>1 DEF RunState
<1>7. Handled(r) \in RunState
  <2>1. pc \in {"idle", "source", "log", "commits", "head"}
    OBVIOUS
  <2> QED
    BY <1>1, <1>4, <1>5, <1>6, <2>1 DEF RunState
<1>8. Bounded(Handled(r))
  BY <1>1, <1>2, <1>3, <1>6 DEF Bounded, At, RunState
<1>9. \A s \in Source : new[s] = me.new[s] \/ (s = At(r) /\ new[s] = me.top)
  BY <1>1 DEF RunState, Position
<1> HIDE DEF new, top
<1>10. top \in {me.top, below}
  BY DEF top
<1> QED
  BY <1>6, <1>7, <1>8, <1>9, <1>10

(* The runs are well formed after a step of one of them that keeps its     *)
(* shape and its bounds.                                                   *)
LEMMA RunsAfter ==
  ASSUME TableInv, Growth, remote' \in Position,
         NEW r \in Run, NEW new \in RunState, Bounded(new), Update(r, new)
  PROVE  run' \in [Run -> RunState] /\ \A q \in Run : Bounded(run[q])'
<1>1. run \in [Run -> RunState] /\ remote \in Position
  BY DEF TableInv, TypeOK
<1>2. run' \in [Run -> RunState] /\ \A q \in Run : run'[q] = run[q] \/ run'[q] = new
  BY <1>1 DEF Update
<1>3. \A me \in RunState :
        me.pc \in {"log", "commits", "head"} /\ me.at <= Len(Sources)
          => Sources[me.at] \in Source
  BY SourcesFacts DEF RunState
<1>4. \A s \in Source : remote[s] \in Nat /\ remote'[s] \in Nat /\ remote[s] <= remote'[s]
  BY <1>1 DEF Growth, Position
<1>5. ASSUME NEW me \in RunState, Bounded(me) PROVE Bounded(me)'
  <2>1. me.pc = "commits" => me.read <= remote'[Sources[me.at]]
    BY <1>3, <1>4, <1>5 DEF Bounded, RunState
  <2> QED
    BY <1>5, <2>1 DEF Bounded
<1>6. \A q \in Run : Bounded(run'[q])
  BY <1>1, <1>2 DEF TableInv
<1>7. \A q \in Run : run'[q] \in RunState
  BY <1>2
<1> QED
  BY <1>2, <1>5, <1>6, <1>7 DEF Bounded
(* The row of a commit after a step. *)
LEMMA RowsAfter ==
  ASSUME TableInv, [Next]_vars
  PROVE  /\ rows' \in [Hash -> Row \cup {None}]
         /\ \A h \in Hash : rows'[h] # None => rows'[h].upstream \in {None, Upstream[h]}
<1>1. /\ rows \in [Hash -> Row \cup {None}]
      /\ \A h \in Hash : rows[h] # None => rows[h].upstream \in {None, Upstream[h]}
  BY DEF TableInv, TypeOK
<1>2. ASSUME NEW r \in Run, UpsertCommit(r) PROVE rows' = rows \/
        \E h \in Hash, s \in Source : rows' = [rows EXCEPT ![h] = Upserted(h, s)]
  BY <1>2, NextCommit DEF UpsertCommit
<1>3. ASSUME NEW h \in Hash, NEW s \in Source, rows' = [rows EXCEPT ![h] = Upserted(h, s)]
      PROVE  /\ rows' \in [Hash -> Row \cup {None}]
             /\ \A g \in Hash : rows'[g] # None => rows'[g].upstream \in {None, Upstream[g]}
  <2>1. Upserted(h, s) \in Row /\ Upserted(h, s).upstream \in {None, Upstream[h]}
    BY UpsertedRow
  <2>2. \A g \in Hash : rows'[g] = IF g = h THEN Upserted(h, s) ELSE rows[g]
    BY <1>1, <1>3
  <2> QED
    BY <1>1, <1>3, <2>1, <2>2
<1>4. ASSUME LinkUpstream
      PROVE  /\ rows' \in [Hash -> Row \cup {None}]
             /\ \A g \in Hash : rows'[g] # None => rows'[g].upstream \in {None, Upstream[g]}
  <2>1. Stub \in Row /\ Stub.upstream = None
    BY StubRow DEF Stub
  <2>2. /\ rows' \in [Hash -> Row \cup {None}]
        /\ \A g \in Hash : rows'[g] = Stub \/ rows'[g] = rows[g]
    BY <1>1, <1>4, <2>1 DEF LinkUpstream
  <2> QED
    BY <1>1, <2>1, <2>2
<1>5. ASSUME NEW r \in Run, RunStep(r) \/ Crash(r), ~UpsertCommit(r) PROVE rows' = rows
  BY <1>5 DEF RunStep, Crash, Start, SkipRepo, Fetch, FetchFails, Log, LogFails,
              LogTimesOut, UpsertFails, RevParse, RevParseFails, SaveReport, SaveFails
<1>6. ASSUME NEW s \in Source, Publish(s) PROVE rows' = rows
  BY <1>6 DEF Publish
<1>7. CASE UNCHANGED vars
  BY <1>1, <1>7 DEF vars
<1> QED
  BY <1>1, <1>2, <1>3, <1>4, <1>5, <1>6, <1>7 DEF Next

(* The run after each of its steps is well formed. *)
LEMMA RunStepShape ==
  ASSUME TableInv, NEW r \in Run, RunStep(r) \/ Crash(r)
  PROVE  \E new \in RunState : Bounded(new) /\ Update(r, new)
<1>1. /\ run[r] \in RunState /\ Bounded(run[r]) /\ saved \in Position
      /\ tracked \in Position /\ remote \in Position
      /\ \A s \in Source : tracked[s] <= remote[s]
  BY DEF TableInv, TypeOK
<1>2. Idle \in RunState /\ Idle.pc = "idle" /\ Idle.at = 1
  BY SourcesFacts DEF Idle, RunState, Nowhere, Position
<1>3. Bounded(Idle)
  BY <1>2 DEF Bounded
<1>4. ASSUME Is(r, "source") \/ Is(r, "head")
      PROVE  /\ NextSource(r) \in RunState /\ Bounded(NextSource(r))
             /\ NextSource(r).pc = "source" /\ At(r) \in Source
             /\ \A n \in Nat : /\ [NextSource(r) EXCEPT !.new[At(r)] = n] \in RunState
                               /\ Bounded([NextSource(r) EXCEPT !.new[At(r)] = n])
  <2>1. run[r].at \in 1..Len(Sources) /\ run[r].at + 1 \in 1..(Len(Sources) + 1)
    BY <1>1, <1>4, SourcesFacts DEF Is, RunState
  <2>2. NextSource(r) \in RunState /\ NextSource(r).pc = "source"
    BY <1>1, <2>1 DEF NextSource, RunState
  <2>3. At(r) \in Source
    BY <2>1, SourcesFacts DEF At
  <2>4. ASSUME NEW n \in Nat
        PROVE  /\ [NextSource(r) EXCEPT !.new[At(r)] = n] \in RunState
               /\ [NextSource(r) EXCEPT !.new[At(r)] = n].pc = "source"
    BY <2>2, <2>3 DEF RunState, Position
  <2> QED
    BY <2>2, <2>3, <2>4 DEF Bounded
<1>5. ASSUME Is(r, "source") \/ Is(r, "log")
      PROVE  /\ At(r) \in Source /\ run[r].at <= Len(Sources)
  BY <1>1, <1>5, SourcesFacts DEF Is, RunState, At
<1>6. CASE Start(r)
  <2>1. [Idle EXCEPT !.pc = "source", !.last = saved, !.new = saved] \in RunState
    BY <1>1, <1>2 DEF RunState
  <2>2. [Idle EXCEPT !.pc = "source", !.last = saved, !.new = saved].pc = "source"
    BY <1>2 DEF RunState
  <2> QED
    BY <1>6, <2>1, <2>2 DEF Start, Bounded
<1>7. CASE Fetch(r) \/ FetchFails(r)
  <2>1. Is(r, "source")
    BY <1>7 DEF Fetch, FetchFails
  <2>2. [run[r] EXCEPT !.pc = "log"] \in RunState
    BY <1>1 DEF RunState
  <2>3. Bounded([run[r] EXCEPT !.pc = "log"])
    BY <1>1, <1>5, <2>1 DEF Bounded, RunState
  <2> QED
    BY <1>4, <1>7, <2>1, <2>2, <2>3 DEF Fetch, FetchFails
<1>8. CASE Log(r)
  <2> DEFINE n == tracked[At(r)]
             new == [run[r] EXCEPT
                       !.pc = IF n > run[r].last[At(r)] THEN "commits" ELSE "head",
                       !.next = n, !.top = n, !.read = n]
  <2>1. Is(r, "log") /\ Update(r, new)
    BY <1>8 DEF Log
  <2>2. n \in Nat /\ n <= remote[At(r)] /\ run[r].last[At(r)] \in Nat
    BY <1>1, <1>5, <2>1 DEF Position, RunState
  <2>3. /\ new \in RunState
        /\ new.at = run[r].at /\ new.next = n /\ new.read = n /\ new.last = run[r].last
        /\ new.pc = "commits" => n > run[r].last[At(r)]
    <3> HIDE DEF n
    <3> QED
      BY <1>1, <2>2 DEF RunState
  <2>4. Bounded(new)
    <3> HIDE DEF new, n
    <3> QED
      BY <1>5, <2>1, <2>2, <2>3 DEF Bounded, At
  <2> QED
    BY <2>1, <2>3, <2>4
<1>9. CASE LogFails(r)
  <2> DEFINE new == [run[r] EXCEPT !.pc = "head", !.read = run[r].last[At(r)]]
  <2>1. Is(r, "log") /\ Update(r, new)
    BY <1>9 DEF LogFails
  <2>2. new \in RunState /\ new.pc = "head" /\ new.at = run[r].at
    BY <1>1, <1>5, <2>1 DEF RunState, Position
  <2> QED
    BY <1>5, <2>1, <2>2 DEF Bounded
<1>10. CASE UpsertCommit(r) \/ UpsertFails(r)
  BY <1>10, HandledRun DEF UpsertCommit, UpsertFails
<1>11. CASE RevParse(r)
  BY <1>1, <1>4, <1>11 DEF RevParse, Position
<1>12. CASE RevParseFails(r) \/ SkipRepo(r)
  BY <1>4, <1>12 DEF RevParseFails, SkipRepo
<1>13. CASE LogTimesOut(r) \/ SaveReport(r) \/ SaveFails(r) \/ Crash(r)
  BY <1>2, <1>3, <1>13 DEF LogTimesOut, SaveReport, SaveFails, Crash
<1> QED
  BY <1>6, <1>7, <1>8, <1>9, <1>10, <1>11, <1>12, <1>13 DEF RunStep
(* Who changes what besides. *)
LEMMA Positions ==
  ASSUME TableInv, [Next]_vars
  PROVE  /\ remote' \in Position /\ tracked' \in Position
         /\ \A s \in Source : tracked'[s] <= remote'[s] /\ remote'[s] <= Len(History[s])
<1> USE DEF Position
<1>1. /\ remote \in Position /\ tracked \in Position
      /\ \A s \in Source : tracked[s] <= remote[s] /\ remote[s] <= Len(History[s])
  BY DEF TableInv, TypeOK
<1>2. ASSUME NEW s \in Source, Publish(s)
      PROVE  /\ remote' \in Position /\ tracked' = tracked
             /\ \A t \in Source : remote[t] <= remote'[t] /\ remote'[t] <= Len(History[t])
  <2>1. remote[s] < Len(History[s]) /\ tracked' = tracked
        /\ remote' = [remote EXCEPT ![s] = @ + 1]
    BY <1>2 DEF Publish
  <2>2. remote[s] \in Nat /\ Len(History[s]) \in Nat
    BY <1>1, SourcesFacts
  <2> QED
    BY <1>1, <2>1, <2>2
<1>3. ASSUME NEW r \in Run, Fetch(r)
      PROVE  remote' = remote /\ tracked' = [tracked EXCEPT ![At(r)] = remote[At(r)]]
  BY <1>3 DEF Fetch
<1>4. ASSUME NEW r \in Run, RunStep(r) \/ Crash(r), ~Fetch(r)
      PROVE  remote' = remote /\ tracked' = tracked
  BY <1>4 DEF RunStep, Crash, Start, SkipRepo, UpsertCommit, FetchFails, Log, LogFails,
              LogTimesOut, UpsertFails, RevParse, RevParseFails, SaveReport, SaveFails
<1>5. (UNCHANGED vars \/ LinkUpstream) => remote' = remote /\ tracked' = tracked
  BY DEF vars, LinkUpstream
<1>6. ASSUME remote' = remote, tracked' = tracked
             \/ \E s : tracked' = [tracked EXCEPT ![s] = remote[s]]
      PROVE  /\ remote' \in Position /\ tracked' \in Position
             /\ \A s \in Source : tracked'[s] <= remote'[s] /\ remote'[s] <= Len(History[s])
  BY <1>1, <1>6
<1>7. ASSUME NEW s \in Source, Publish(s)
      PROVE  \A t \in Source : tracked'[t] <= remote'[t]
  BY <1>1, <1>2, <1>7
<1> QED
  BY <1>1, <1>2, <1>3, <1>4, <1>5, <1>6, <1>7 DEF Next

LEMMA Bookkeeping ==
  ASSUME TableInv, [Next]_vars
  PROVE  /\ quarantined' \subseteq Hash /\ saved' \in Position
         /\ failures' \in 0..MaxFailures /\ unread' \in [Source -> SUBSET Nat]
<1>1. /\ quarantined \subseteq Hash /\ saved \in Position /\ failures \in 0..MaxFailures
      /\ unread \in [Source -> SUBSET Nat] /\ tracked \in Position
      /\ run \in [Run -> RunState] /\ MaxFailures \in Nat
  BY KernelCommitAssumption DEF TableInv, TypeOK
<1>2. ASSUME NEW r \in Run, RunStep(r) \/ Crash(r)
      PROVE  /\ failures' = failures \/ Fails
             /\ saved' = saved \/ saved' = run[r].new
             /\ quarantined' = quarantined
                  \/ (UpsertFails(r) /\ quarantined' =
                        quarantined \cup {History[At(r)][run[r].next]})
             /\ \/ unread' = unread
                \/ \E n : unread' = [unread EXCEPT ![At(r)] =
                                       @ \cup (run[r].read + 1)..tracked[At(r)]]
  BY <1>2 DEF RunStep, Crash, Start, SkipRepo, Fetch, FetchFails, Log, LogFails,
              LogTimesOut, UpsertCommit, UpsertFails, RevParse, RevParseFails,
              SaveReport, SaveFails
<1>3. Fails => failures' \in 0..MaxFailures
  BY <1>1 DEF Fails
<1>4. ASSUME NEW r \in Run, RunStep(r) \/ Crash(r) PROVE quarantined' \subseteq Hash
  BY <1>1, <1>2, <1>4, NextCommit DEF UpsertFails
<1>5. ASSUME NEW r \in Run PROVE run[r].new \in Position /\ run[r].read \in Nat
  BY <1>1 DEF RunState
<1>6. ASSUME NEW r \in Run, RunStep(r) \/ Crash(r)
      PROVE  unread' \in [Source -> SUBSET Nat]
  <2>1. ASSUME NEW s \in Source PROVE (run[r].read + 1)..tracked[s] \subseteq Nat
    BY <1>1, <1>5 DEF Position
  <2> QED
    BY <1>1, <1>2, <1>6, <2>1
<1>7. (UNCHANGED vars \/ LinkUpstream \/ \E s \in Source : Publish(s))
         => UNCHANGED <<quarantined, saved, failures, unread>>
  BY DEF vars, LinkUpstream, Publish
<1> QED
  BY <1>1, <1>2, <1>3, <1>4, <1>5, <1>6, <1>7 DEF Next

LEMMA NextTableInv == TableInv /\ [Next]_vars => TableInv'
<1> SUFFICES ASSUME TableInv, [Next]_vars PROVE TableInv'
  OBVIOUS
<1>1. Growth /\ remote' \in Position
  BY StepGrows, Positions
<1>2. ASSUME NEW r \in Run, RunStep(r) \/ Crash(r)
      PROVE  run' \in [Run -> RunState] /\ \A q \in Run : Bounded(run[q])'
  BY <1>1, <1>2, RunStepShape, RunsAfter
<1>3. ASSUME run' = run
      PROVE  run' \in [Run -> RunState] /\ \A q \in Run : Bounded(run[q])'
  <2>1. \A q \in Run : Update(q, run[q])
    BY <1>3 DEF TableInv, TypeOK, Update
  <2>2. \A q \in Run : run[q] \in RunState /\ Bounded(run[q])
    BY DEF TableInv, TypeOK
  <2> QED
    BY <1>1, <1>3, <2>1, <2>2, RunsAfter DEF TableInv, TypeOK
<1>4. (UNCHANGED vars \/ LinkUpstream \/ \E s \in Source : Publish(s)) => run' = run
  BY DEF vars, LinkUpstream, Publish
<1>5. run' \in [Run -> RunState] /\ \A q \in Run : Bounded(run[q])'
  BY <1>2, <1>3, <1>4 DEF Next
<1>6. TypeOK'
  BY <1>5, RowsAfter, Positions, Bookkeeping DEF TypeOK
<1> QED
  BY <1>5, <1>6, RowsAfter DEF TableInv

(* The types are right, for all constants. *)
THEOREM TypeCorrect == Spec => []TypeOK
<1>1. TableInv => TypeOK
  BY DEF TableInv
<1> QED
  BY <1>1, InitTableInv, NextTableInv, PTL DEF Spec

(* Whatever runs overlap, fail or die, no step takes away what the table   *)
(* knows of a commit (the upsert of ingester.py:194-212, the linker's      *)
(* INSERT of stubs).                                                       *)
THEOREM TableGrows == Spec => TableOnlyGrows
<1>1. TableInv /\ [Next]_vars =>
        [\A h \in Hash :
           rows[h] # None =>
             /\ rows'[h] # None
             /\ rows[h].versions \subseteq rows'[h].versions
             /\ rows[h].upstream # None => rows'[h].upstream = rows[h].upstream
             /\ rows'[h].stub => rows[h].stub]_vars
  BY StepGrows DEF Growth
<1> QED
  BY <1>1, InitTableInv, NextTableInv, PTL DEF Spec, TableOnlyGrows
-----------------------------------------------------------------------------
LEMMA PublishedGrows ==
  ASSUME TableInv, [Next]_vars
  PROVE  \A s \in Source : Published(s, remote[s]) \subseteq Published(s, remote'[s])
<1>1. \A s \in Source : remote[s] \in Nat /\ remote'[s] \in Nat /\ remote[s] <= remote'[s]
  BY StepGrows, Positions DEF Growth, TableInv, TypeOK, Position
<1>2. \A s \in Source : 1..remote[s] \subseteq 1..remote'[s]
  BY <1>1
<1> QED
  BY <1>2 DEF Published

LEMMA NextVersionsAreTrue ==
  ASSUME TableInv, VersionsAreTrue, [Next]_vars
  PROVE  VersionsAreTrue'
<1> DEFINE True(h, s, row, n) == h \in Published(s, n[s]) \/ (row.stub /\ s = Mainline)
<1>1. \A h \in Hash : rows[h] # None =>
        \A s \in rows[h].versions : s \in Source /\ True(h, s, rows[h], remote)
  BY DEF VersionsAreTrue, TableInv, TypeOK, Row
<1>2. \A h \in Hash, s \in Source : True(h, s, rows[h], remote) => True(h, s, rows[h], remote')
  BY PublishedGrows
<1> SUFFICES ASSUME NEW h \in Hash, rows'[h] # None, NEW s \in rows'[h].versions
             PROVE  True(h, s, rows'[h], remote')
  BY DEF VersionsAreTrue
<1>3. CASE rows'[h] = rows[h]
  BY <1>1, <1>2, <1>3
<1>4. ASSUME NEW r \in Run, UpsertCommit(r), rows'[h] # rows[h]
      PROVE  True(h, s, rows'[h], remote')
  <2> DEFINE g == History[At(r)][run[r].next]
  <2>1. At(r) \in Source /\ run[r].next \in 1..remote[At(r)] /\ g \in Hash
    BY <1>4, NextCommit DEF UpsertCommit
  <2>2. rows' = [rows EXCEPT ![g] = Upserted(g, At(r))]
    BY <1>4 DEF UpsertCommit
  <2>3. h = g /\ rows'[h] = Upserted(h, At(r))
    BY <1>4, <2>1, <2>2 DEF TableInv, TypeOK
  <2>4. g \in Published(At(r), remote[At(r)])
    BY <2>1 DEF Published
  <2>5. h \in Published(At(r), remote'[At(r)])
    BY <2>1, <2>3, <2>4, PublishedGrows
  <2> HIDE DEF g
  <2>6. CASE s = At(r)
    BY <2>5, <2>6
  <2>7. CASE s # At(r)
    <3>1. rows[h] # None /\ s \in rows[h].versions /\ rows'[h].stub = rows[h].stub
      BY <2>1, <2>3, <2>7, UpsertedRow
    <3>2. s \in Source /\ True(h, s, rows[h], remote)
      BY <1>1, <3>1
    <3>3. True(h, s, rows[h], remote')
      BY <1>2, <3>2
    <3> QED
      BY <3>1, <3>3
  <2> QED
    BY <2>6, <2>7
<1>5. ASSUME LinkUpstream, rows'[h] # rows[h]
      PROVE  True(h, s, rows'[h], remote')
  <2>1. rows'[h] = Stub
    BY <1>5 DEF LinkUpstream, TableInv, TypeOK
  <2>2. s = Mainline /\ rows'[h].stub
    BY <2>1 DEF Stub
  <2> QED
    BY <2>2
<1>6. ASSUME NEW r \in Run, RunStep(r) \/ Crash(r), ~UpsertCommit(r) PROVE rows' = rows
  BY <1>6 DEF RunStep, Crash, Start, SkipRepo, Fetch, FetchFails, Log, LogFails,
              LogTimesOut, UpsertFails, RevParse, RevParseFails, SaveReport, SaveFails
<1>7. (UNCHANGED vars \/ \E t \in Source : Publish(t)) => rows' = rows
  BY DEF vars, Publish
<1> QED
  BY <1>3, <1>4, <1>5, <1>6, <1>7 DEF Next

(* A row names only branches that published the commit, stubs excepted, in *)
(* whatever order branches, reruns and stubs reach the table.              *)
THEOREM VersionsCorrect == Spec => []VersionsAreTrue
<1>1. Init => VersionsAreTrue
  BY DEF Init, VersionsAreTrue
<1>2. TableInv /\ VersionsAreTrue /\ [Next]_vars => VersionsAreTrue'
  BY NextVersionsAreTrue
<1> QED
  BY <1>1, <1>2, InitTableInv, NextTableInv, PTL DEF Spec

-----------------------------------------------------------------------------
(* The positions of a branch that need no further run, and those that a    *)
(* checkpoint may pass.                                                    *)
Stored == [s \in Source |-> {i \in 1..remote[s] : Settled(s, i)}]
Passed == [s \in Source |-> {i \in 1..remote[s] : Settled(s, i) \/ i \in unread[s]}]

(* What a run may do to the checkpoint: the one it loaded is accounted for, *)
(* and so is the one it builds, except that of the branch whose commits it *)
(* handles, newest first -- there all that git log showed and is newer     *)
(* than the next commit is settled, so that it is accounted for at the end. *)
Accounting(me) ==
  /\ me.pc # "idle" =>
       \A s \in Source :
         /\ 1..me.last[s] \subseteq Passed[s]
         /\ \/ 1..me.new[s] \subseteq Passed[s]
            \/ me.pc = "commits" /\ s = Sources[me.at] /\ me.new[s] <= me.read
  /\ me.pc = "commits" =>
       LET s == Sources[me.at] IN
       me.top <= me.read /\ (me.next + 1)..me.read \subseteq Stored[s]
  /\ me.pc = "head" => 1..me.read \subseteq Passed[Sources[me.at]]

CheckpointInv ==
  /\ \A s \in Source : 1..saved[s] \subseteq Passed[s]
  /\ \A r \in Run : Accounting(run[r])

LEMMA PassedGrows ==
  ASSUME TableInv, [Next]_vars
  PROVE  \A s \in Source : /\ Stored[s] \subseteq Stored'[s]
                           /\ Passed[s] \subseteq Passed'[s]
                           /\ Stored'[s] \subseteq Passed'[s]
<1> SUFFICES ASSUME NEW s \in Source
             PROVE  /\ Stored[s] \subseteq Stored'[s]
                    /\ Passed[s] \subseteq Passed'[s]
                    /\ Stored'[s] \subseteq Passed'[s]
  OBVIOUS
<1>1. Growth
  BY StepGrows
<1>2. /\ remote[s] \in Nat /\ remote'[s] \in Nat /\ remote[s] <= remote'[s]
      /\ remote[s] <= Len(History[s])
  BY <1>1, Positions DEF Growth, TableInv, TypeOK, Position
<1>3. ASSUME NEW i \in 1..remote[s]
      PROVE  /\ i \in 1..remote'[s] /\ (i \in unread[s] => i \in unread'[s])
             /\ History[s][i] \in Hash
  BY <1>1, <1>2, SourcesFacts DEF Growth
<1>4. ASSUME NEW i \in 1..remote[s], Settled(s, i) PROVE Settled(s, i)'
  BY <1>1, <1>3, <1>4 DEF Settled, Growth
<1> QED
  BY <1>3, <1>4 DEF Stored, Passed
(* The commit that is handled is settled. *)
LEMMA HandledIsSettled ==
  ASSUME TableInv, NEW r \in Run, UpsertCommit(r) \/ UpsertFails(r)
  PROVE  run[r].next \in Stored'[At(r)]
<1> SUFFICES ASSUME NEW s, s = At(r), NEW i, i = run[r].next,
                    NEW h, h = History[s][i]
             PROVE  i \in Stored'[s]
  OBVIOUS
<1>1. Is(r, "commits")
  BY DEF UpsertCommit, UpsertFails
<1>2. s \in Source /\ i \in 1..remote[s] /\ h \in Hash
  BY <1>1, NextCommit
<1>3. remote' = remote
  BY DEF UpsertCommit, UpsertFails
<1>4. Skipped(h, s) => Settled(s, i)'
  BY DEF Settled
<1>5. ASSUME UpsertFails(r) PROVE Settled(s, i)'
  BY <1>5 DEF UpsertFails, Settled
<1>6. ASSUME UpsertCommit(r), ~Skipped(h, s) PROVE Settled(s, i)'
  <2>1. rows' = [rows EXCEPT ![h] = Upserted(h, s)]
    BY <1>6 DEF UpsertCommit
  <2>2. rows'[h] = Upserted(h, s)
    BY <1>2, <2>1 DEF TableInv, TypeOK
  <2>3. rows'[h] # None /\ s \in rows'[h].versions
    BY <1>2, <2>2, UpsertedRow
  <2> QED
    BY <2>3 DEF Settled
<1>7. i \in 1..remote'[s] /\ Settled(s, i)'
  BY <1>2, <1>3, <1>4, <1>5, <1>6
<1> QED
  BY <1>2, <1>7 DEF Stored

(* What a run holds stays accounted for while others act. *)
LEMMA AccountingStays ==
  ASSUME TableInv, [Next]_vars,
         NEW me \in RunState, Bounded(me), Accounting(me)
  PROVE  Accounting(me)'
<1>1. \A s \in Source : Stored[s] \subseteq Stored'[s] /\ Passed[s] \subseteq Passed'[s]
  BY PassedGrows
<1>2. me.pc \in {"commits", "head"} => Sources[me.at] \in Source
  BY SourcesFacts DEF RunState, Bounded
<1>3. me.pc # "idle" =>
        \A s \in Source :
          /\ 1..me.last[s] \subseteq Passed'[s]
          /\ \/ 1..me.new[s] \subseteq Passed'[s]
             \/ me.pc = "commits" /\ s = Sources[me.at] /\ me.new[s] <= me.read
  BY <1>1 DEF Accounting
<1>4. me.pc = "commits" =>
        LET s == Sources[me.at] IN
        me.top <= me.read /\ (me.next + 1)..me.read \subseteq Stored'[s]
  BY <1>1, <1>2 DEF Accounting
<1>5. me.pc = "head" => 1..me.read \subseteq Passed'[Sources[me.at]]
  BY <1>1, <1>2 DEF Accounting
<1> QED
  BY <1>3, <1>4, <1>5 DEF Accounting

(* A run after its own step. *)
LEMMA AccountingOfStep ==
  ASSUME TableInv, CheckpointInv, [Next]_vars, NEW r \in Run, RunStep(r) \/ Crash(r)
  PROVE  Accounting(run[r])'
<1> DEFINE me == run[r]
<1>1. /\ me \in RunState /\ Bounded(me) /\ Accounting(me)
      /\ saved \in Position /\ tracked \in Position /\ run \in [Run -> RunState]
  BY DEF TableInv, TypeOK, CheckpointInv
<1>2. \A s \in Source : /\ Stored[s] \subseteq Stored'[s] /\ Passed[s] \subseteq Passed'[s]
                        /\ Stored'[s] \subseteq Passed'[s]
  BY PassedGrows
<1>3. \A new : Update(r, new) => run'[r] = new
  BY <1>1 DEF Update
<1>4. Accounting(Idle)'
  BY DEF Accounting, Idle
<1>5. ASSUME me.pc # "idle", me.pc # "commits"
      PROVE  \A s \in Source : /\ 1..me.last[s] \subseteq Passed'[s]
                               /\ 1..me.new[s] \subseteq Passed'[s]
  BY <1>1, <1>2, <1>5 DEF Accounting
<1>6. CASE Start(r)
  <2>1. /\ run'[r].pc = "source" /\ run'[r].last = saved /\ run'[r].new = saved
    BY <1>3, <1>6 DEF Start, Idle
  <2>2. \A s \in Source : 1..saved[s] \subseteq Passed'[s]
    BY <1>2 DEF CheckpointInv
  <2> QED
    BY <2>1, <2>2 DEF Accounting
<1>7. CASE Fetch(r) \/ FetchFails(r) \/ SkipRepo(r)
  <2>1. me.pc = "source"
    BY <1>7 DEF Fetch, FetchFails, SkipRepo, Is
  <2>2. /\ run'[r].pc \in {"source", "log"}
        /\ run'[r].last = me.last /\ run'[r].new = me.new
    BY <1>1, <1>3, <1>7 DEF Fetch, FetchFails, SkipRepo, NextSource, RunState
  <2> QED
    BY <1>5, <2>1, <2>2 DEF Accounting
<1>8. CASE Log(r)
  <2> DEFINE n == tracked[At(r)]
  <2>1. me.pc = "log" /\ At(r) \in Source
    BY <1>1, <1>8, SourcesFacts DEF Log, Is, RunState, At
  <2>2. n \in Nat /\ me.last[At(r)] \in Nat
    BY <1>1, <2>1 DEF Position, RunState
  <2>3. Update(r, [me EXCEPT !.pc = IF n > me.last[At(r)] THEN "commits" ELSE "head",
                             !.next = n, !.top = n, !.read = n])
    BY <1>8 DEF Log
  <2> HIDE DEF n
  <2>4. /\ run'[r].pc = IF n > me.last[At(r)] THEN "commits" ELSE "head"
        /\ run'[r].next = n /\ run'[r].top = n /\ run'[r].read = n
        /\ run'[r].last = me.last /\ run'[r].new = me.new /\ run'[r].at = me.at
    BY <1>1, <1>3, <2>3 DEF RunState
  <2>5. (run'[r].next + 1)..run'[r].read = {} /\ run'[r].top <= run'[r].read
    BY <2>2, <2>4
  <2>6. run'[r].pc = "head" => 1..run'[r].read \subseteq Passed'[At(r)]
    <3>1. n <= me.last[At(r)] => 1..n \subseteq 1..me.last[At(r)]
      BY <2>2
    <3> QED
      BY <1>5, <2>1, <2>2, <2>4, <3>1
  <2>7. run'[r].pc \in {"commits", "head"}
    BY <2>4
  <2> QED
    BY <1>5, <2>1, <2>4, <2>5, <2>6, <2>7 DEF Accounting, At
<1>9. CASE LogFails(r)
  <2>1. me.pc = "log" /\ At(r) \in Source
    BY <1>1, <1>9, SourcesFacts DEF LogFails, Is, RunState, At
  <2>2. /\ run'[r].pc = "head" /\ run'[r].read = me.last[At(r)] /\ run'[r].at = me.at
        /\ run'[r].last = me.last /\ run'[r].new = me.new
    BY <1>1, <1>3, <1>9 DEF LogFails, RunState
  <2> QED
    BY <1>5, <2>1, <2>2 DEF Accounting, At
<1>10. CASE UpsertCommit(r) \/ UpsertFails(r)
  <2> DEFINE s == At(r)
  <2>1. Is(r, "commits") /\ Update(r, Handled(r))
    BY <1>10 DEF UpsertCommit, UpsertFails
  <2>2. s \in Source /\ me.next \in 1..remote[s] /\ me.next \in Stored'[s]
    BY <1>10, <2>1, NextCommit, HandledIsSettled
  <2>3. /\ me.pc = "commits" /\ me.last[s] < me.next /\ me.next <= me.read
        /\ me.last[s] \in Nat /\ me.next \in Nat /\ me.read \in Nat /\ me.top \in Nat
        /\ me.at <= Len(Sources)
    BY <1>1, <2>1, <2>2 DEF Bounded, Is, At, RunState, Position
  <2>4. /\ me.top <= me.read /\ (me.next + 1)..me.read \subseteq Stored'[s]
    BY <1>1, <1>2, <2>2, <2>3 DEF Accounting, At
  <2>5. me.next..me.read \subseteq Stored'[s]
    <3>1. \A i \in me.next..me.read : i = me.next \/ i \in (me.next + 1)..me.read
      BY <2>3
    <3> QED
      BY <2>2, <2>4, <3>1
  <2>6. \A t \in Source : /\ 1..me.last[t] \subseteq Passed'[t]
                          /\ \/ 1..me.new[t] \subseteq Passed'[t]
                             \/ t = s /\ me.new[t] <= me.read
    BY <1>1, <1>2, <2>3 DEF Accounting, At
  <2>7. /\ run'[r].at = me.at /\ run'[r].last = me.last /\ run'[r].read = me.read
        /\ run'[r].next = me.next - 1
        /\ run'[r].pc = IF me.next - 1 = me.last[s] THEN "head" ELSE "commits"
        /\ run'[r].top \in {me.top, me.next - 1}
        /\ \A t \in Source : \/ run'[r].new[t] = me.new[t]
                             \/ t = s /\ run'[r].new[t] = me.top
    BY <1>3, <2>1, HandledRun
  <2>8. \A t \in Source : \/ 1..run'[r].new[t] \subseteq Passed'[t]
                          \/ t = s /\ run'[r].new[t] <= me.read
    BY <2>4, <2>6, <2>7
  <2>9. CASE me.next - 1 # me.last[s]
    <3>1. run'[r].pc = "commits" /\ run'[r].top <= me.read
      BY <2>3, <2>4, <2>7, <2>9
    <3>2. (run'[r].next + 1)..run'[r].read = me.next..me.read
      BY <2>3, <2>7
    <3>3. Sources[run'[r].at] = s
      BY <2>7 DEF At
    <3> QED
      BY <2>5, <2>6, <2>7, <2>8, <3>1, <3>2, <3>3 DEF Accounting
  <2>10. CASE me.next - 1 = me.last[s]
    <3>1. run'[r].pc = "head" /\ Sources[run'[r].at] = s
      BY <2>7, <2>10 DEF At
    <3>2. \A i \in 1..me.read : i \in 1..me.last[s] \/ i \in me.next..me.read
      BY <2>3, <2>10
    <3>3. 1..me.read \subseteq Passed'[s]
      BY <1>2, <2>2, <2>5, <2>6, <3>2
    <3>4. \A t \in Source : 1..run'[r].new[t] \subseteq Passed'[t]
      <4>1. run'[r] = Handled(r) /\ Handled(r) \in RunState
        BY <1>3, <2>1, HandledRun
      <4>2. run'[r].new[s] \in Nat
        BY <2>2, <4>1 DEF RunState, Position
      <4>3. run'[r].new[s] <= me.read => 1..run'[r].new[s] \subseteq 1..me.read
        BY <2>3, <4>2
      <4> QED
        BY <2>8, <3>3, <4>3
    <3> QED
      BY <2>6, <2>7, <3>1, <3>3, <3>4 DEF Accounting
  <2> QED
    BY <2>9, <2>10
<1>11. CASE RevParse(r)
  <2> DEFINE s == At(r)
             n == tracked[s]
  <2>1. me.pc = "head" /\ s \in Source
    BY <1>1, <1>11, SourcesFacts DEF RevParse, Is, RunState, At
  <2>2. n \in Nat /\ me.read \in Nat /\ n <= remote[s] /\ remote[s] \in Nat
    BY <1>1, <2>1 DEF Position, RunState, TableInv, TypeOK
  <2>3. /\ Update(r, [NextSource(r) EXCEPT !.new[s] = n])
        /\ unread' = [unread EXCEPT ![s] = @ \cup (me.read + 1)..n]
        /\ remote' = remote
    BY <1>11 DEF RevParse
  <2>4. NextSource(r).new = me.new /\ NextSource(r).pc = "source"
        /\ NextSource(r).last = me.last /\ DOMAIN me.new = Source
    BY <1>1 DEF NextSource, RunState, Position
  <2>5. /\ run'[r].pc = "source" /\ run'[r].last = me.last
        /\ \A t \in Source : run'[r].new[t] = IF t = s THEN n ELSE me.new[t]
    <3> HIDE DEF s, n
    <3>1. /\ NextSource(r) = [NextSource(r) EXCEPT !.pc = "source"]
          /\ run'[r] = [NextSource(r) EXCEPT !.new[s] = n]
      BY <1>1, <1>3, <2>3 DEF NextSource, RunState
    <3> QED
      BY <1>1, <2>1, <2>4, <3>1 DEF NextSource, RunState
  <2>6. 1..n \subseteq Passed'[s]
    <3>1. 1..me.read \subseteq Passed'[s]
      BY <1>1, <1>2, <2>1 DEF Accounting, At
    <3>2. ASSUME NEW i \in (me.read + 1)..n PROVE i \in Passed'[s]
      <4>1. i \in 1..remote'[s]
        BY <2>2, <2>3
      <4>2. i \in unread'[s]
        BY <2>1, <2>3 DEF TableInv, TypeOK
      <4> QED
        BY <2>1, <4>1, <4>2 DEF Passed
    <3>3. \A i \in 1..n : i \in 1..me.read \/ i \in (me.read + 1)..n
      BY <2>2
    <3> QED
      BY <3>1, <3>2, <3>3
  <2> QED
    BY <1>5, <2>1, <2>5, <2>6 DEF Accounting
<1>12. CASE RevParseFails(r)
  <2>1. me.pc = "head"
    BY <1>12 DEF RevParseFails, Is
  <2>2. run'[r].pc = "source" /\ run'[r].last = me.last /\ run'[r].new = me.new
    BY <1>1, <1>3, <1>12 DEF RevParseFails, NextSource, RunState
  <2> QED
    BY <1>5, <2>1, <2>2 DEF Accounting
<1>13. CASE LogTimesOut(r) \/ SaveReport(r) \/ SaveFails(r) \/ Crash(r)
  <2>1. run'[r] = Idle
    BY <1>3, <1>13 DEF LogTimesOut, SaveReport, SaveFails, Crash
  <2> QED
    BY <2>1 DEF Accounting, Idle
<1> QED
  BY <1>6, <1>7, <1>8, <1>9, <1>10, <1>11, <1>12, <1>13 DEF RunStep

LEMMA NextCheckpointInv ==
  ASSUME TableInv, CheckpointInv, [Next]_vars
  PROVE  CheckpointInv'
<1>1. \A s \in Source : Passed[s] \subseteq Passed'[s]
  BY PassedGrows
<1>2. \A me \in RunState : Bounded(me) /\ Accounting(me) => Accounting(me)'
  BY AccountingStays
<1>3. \A q \in Run : run[q] \in RunState /\ Bounded(run[q]) /\ Accounting(run[q])
  BY DEF TableInv, TypeOK, CheckpointInv
<1>4. ASSUME NEW q \in Run, run'[q] = run[q] PROVE Accounting(run[q])'
  BY <1>2, <1>3, <1>4 DEF Accounting
<1>5. ASSUME NEW r \in Run, RunStep(r) \/ Crash(r) PROVE CheckpointInv'
  <2>1. \A q \in Run \ {r} : run'[q] = run[q]
    <3>1. PICK new \in RunState : Update(r, new)
      BY <1>5, RunStepShape
    <3> QED
      BY <3>1 DEF Update, TableInv, TypeOK
  <2>2. \A q \in Run : Accounting(run[q])'
    BY <1>4, <1>5, <2>1, AccountingOfStep
  <2>3. saved' = saved \/ (SaveReport(r) /\ saved' = run[r].new)
    BY <1>5 DEF RunStep, Crash, Start, SkipRepo, Fetch, FetchFails, Log, LogFails,
                LogTimesOut, UpsertCommit, UpsertFails, RevParse, RevParseFails,
                SaveReport, SaveFails
  <2>4. SaveReport(r) => \A s \in Source : 1..run[r].new[s] \subseteq Passed[s]
    BY <1>3 DEF SaveReport, Accounting
  <2>5. \A s \in Source : 1..saved'[s] \subseteq Passed'[s]
    BY <1>1, <2>3, <2>4 DEF CheckpointInv
  <2> QED
    BY <2>2, <2>5 DEF CheckpointInv
<1>6. ASSUME UNCHANGED vars \/ LinkUpstream \/ \E s \in Source : Publish(s)
      PROVE  CheckpointInv'
  <2>1. run' = run /\ saved' = saved
    BY <1>6 DEF vars, LinkUpstream, Publish
  <2>2. \A q \in Run : Accounting(run[q])'
    BY <1>4, <2>1
  <2>3. \A s \in Source : 1..saved'[s] \subseteq Passed'[s]
    BY <1>1, <2>1 DEF CheckpointInv
  <2> QED
    BY <2>2, <2>3 DEF CheckpointInv
<1> QED
  BY <1>5, <1>6 DEF Next

(* A commit the checkpoint has passed is in the table with its branch, in  *)
(* quarantine, a merge, or one that git log never showed -- for any number *)
(* of runs that overlap, fail and are killed.                              *)
THEOREM CheckpointsAccounted == Spec => []CheckpointAccounted
<1>1. Init => CheckpointInv
  <2> SUFFICES ASSUME Init PROVE CheckpointInv
    OBVIOUS
  <2>1. \A s \in Source : saved[s] = 0
    BY DEF Init, Nowhere
  <2>2. \A r \in Run : Accounting(run[r])
    BY DEF Init, Accounting, Idle
  <2>3. 1..0 = {}
    OBVIOUS
  <2> QED
    BY <2>1, <2>2, <2>3 DEF CheckpointInv
<1>2. TableInv /\ CheckpointInv /\ [Next]_vars => CheckpointInv'
  BY NextCheckpointInv
<1>3. CheckpointInv => CheckpointAccounted
  BY DEF CheckpointInv, CheckpointAccounted, Passed
<1> QED
  BY <1>1, <1>2, <1>3, InitTableInv, NextTableInv, PTL DEF Spec
=============================================================================

--------------------------- MODULE EvidenceProofs ---------------------------
(* Proofs about Evidence: for every database, whatever is asked, whatever     *)
(* fails and whatever the tools show, the commits of the pool exist, are no   *)
(* stubs and are there once (PoolIsSound); what the report marks as verified  *)
(* is shown with a row that supports it (ReportIsSupported); and what a tool  *)
(* denies is not there (WhatToolsSayIsTrue).                                  *)
EXTENDS Evidence, OrderProofs, FiniteSetTheorems, TLAPS

(* EvidenceIsSound for any set of rows. *)
Sound(db, rows) ==
  \A r \in rows : r.route = "commit" =>
    /\ r.id \in Real(db)
    /\ \A s \in rows : (s.route = "commit" /\ s.id = r.id) => s = r

(* Rows of the one route. *)
OfRoute(rows, route) == \A r \in rows : r.route = route

(* A row has the fields of Row and no others. *)
IsRow(r) == r = Row(r.route, r.id, r.words, r.score, r.tier, r.from)

LEMMA RowFields ==
  ASSUME NEW route, NEW id, NEW words, NEW score, NEW tier, NEW from
  PROVE  LET r == Row(route, id, words, score, tier, from)
         IN r.route = route /\ r.id = id /\ r.words = words /\ IsRow(r)
BY DEF Row, IsRow

LEMMA BestIsSubset ==
  ASSUME NEW rows, NEW k, NEW kept \in Best(rows, k)
  PROVE  kept \subseteq rows
BY DEF Best

(* What a full-text search returns: one row for each text it found. *)
LEMMA TieredRows ==
  ASSUME NEW route, NEW texts, NEW keys, NEW limit,
         NEW rows \in TieredAndQuery(route, texts, keys, limit)
  PROVE  /\ \A r \in rows : /\ r.route = route /\ r.id \in DOMAIN texts
                            /\ r.words = texts[r.id] /\ IsRow(r)
         /\ \A r, s \in rows : r.id = s.id => r = s
<1> DEFINE hits(n) == {x \in DOMAIN texts : {keys[i] : i \in 1..n} \subseteq texts[x]}
           enough  == {n \in 1..Len(keys) : Smaller(limit, Cardinality(hits(n))) >= MinAndHits}
           tier    == IF enough = {} THEN 0 ELSE Max(enough)
           found   == IF tier > 0 THEN hits(tier)
                      ELSE {x \in DOMAIN texts : texts[x] \cap WordsOf(keys) # {}}
           used    == IF tier > 0 THEN SubSeq(keys, 1, tier) ELSE keys
           row(x)  == Row(route, x, texts[x], Rank(texts[x], used), tier, "recall")
<1>1. rows \in Best({row(x) : x \in found}, limit)
  BY DEF TieredAndQuery
<1>2. found \subseteq DOMAIN texts
  OBVIOUS
<1> HIDE DEF hits, enough, tier, found, used
<1>3. rows \subseteq {row(x) : x \in found}
  BY <1>1, BestIsSubset
<1>4. \A x : row(x).route = route /\ row(x).id = x /\ row(x).words = texts[x] /\ IsRow(row(x))
  BY RowFields
<1> HIDE DEF row
<1> QED
  BY <1>2, <1>3, <1>4

------------------------------------------------------------------------------
(* Each route answers with rows of its own kind. *)

LEMMA ScaledRows ==
  ASSUME NEW route, NEW rows, \A r \in rows : r.route = route /\ IsRow(r)
  PROVE  \A r \in Scaled(rows) : r.route = route /\ IsRow(r)
<1> DEFINE most == Max({r.score : r \in rows} \cup {0})
           level(x) == IF most = 0 THEN 0 ELSE (60 * x) \div most
<1>1. Scaled(rows) = {[r EXCEPT !.score = level(@)] : r \in rows}
  BY DEF Scaled
<1> HIDE DEF level
<1>2. ASSUME NEW r \in rows
      PROVE  LET s == [r EXCEPT !.score = level(@)] IN s.route = route /\ IsRow(s)
  <2>1. r = Row(r.route, r.id, r.words, r.score, r.tier, r.from) /\ r.route = route
    BY <1>2 DEF IsRow
  <2>2. [r EXCEPT !.score = level(@)] = Row(r.route, r.id, r.words, level(r.score), r.tier, r.from)
    BY <2>1 DEF Row
  <2> QED
    BY <2>1, <2>2, RowFields
<1> QED
  BY <1>1, <1>2

LEMMA LkmlRows ==
  ASSUME NEW db, NEW ask, NEW limit, NEW reachable,
         NEW rows \in LkmlRecall(db, ask, limit, reachable)
  PROVE  OfRoute(rows, "lkml")
<1> DEFINE remote == LoreRecall(db, ask, limit, reachable)
<1>1. PICK local \in TieredAndQuery("lkml", [m \in DOMAIN db.mail |-> db.mail[m].words],
                                    Keys(ask), limit) : rows \in LkmlMerge(local, remote, limit)
  BY DEF LkmlRecall
<1>2. \A r \in local : r.route = "lkml" /\ IsRow(r)
  BY <1>1, TieredRows
<1>3. \A r \in remote : r.route = "lkml" /\ IsRow(r)
  BY RowFields DEF LoreRecall
<1> HIDE DEF remote
<1> DEFINE here   == Scaled(local)
           there  == Scaled(remote)
           best(r) == Max({r.score} \cup {t.score : t \in {u \in there : u.id = r.id}})
           lifted == {[r EXCEPT !.score = best(r)] : r \in here}
           all    == lifted \cup {t \in there : t.id \notin {r.id : r \in here}}
<1>4. (\A r \in here : r.route = "lkml" /\ IsRow(r)) /\ \A r \in there : r.route = "lkml"
  BY <1>2, <1>3, ScaledRows
<1>5. rows \in Best(all, limit)
  BY <1>1 DEF LkmlMerge
<1> HIDE DEF here, there, best
<1>6. ASSUME NEW r \in here PROVE [r EXCEPT !.score = best(r)].route = "lkml"
  <2>1. r = Row(r.route, r.id, r.words, r.score, r.tier, r.from) /\ r.route = "lkml"
    BY <1>4, <1>6 DEF IsRow
  <2> QED
    BY <2>1 DEF Row
<1>7. \A r \in all : r.route = "lkml"
  BY <1>4, <1>6
<1> HIDE DEF all
<1> QED
  BY <1>5, <1>7, BestIsSubset DEF OfRoute

LEMMA CodeRowsRoute ==
  ASSUME NEW db, NEW route, NEW files, NEW keys, NEW limit,
         NEW rows \in Best(CodeRows(db, route, files, keys), limit)
  PROVE  OfRoute(rows, route)
BY BestIsSubset, RowFields DEF OfRoute, CodeRows

LEMMA CodeRecallRows ==
  ASSUME NEW db, NEW ask, NEW limit, NEW healthy,
         NEW rows \in CodeRecall(db, ask, limit, healthy)
  PROVE  OfRoute(rows, "code")
<1>1. CASE healthy
  BY <1>1, CodeRowsRoute DEF CodeRecall
<1>2. CASE ~healthy
  <2>1. rows \in SearchCodeDegraded(db, Keys(ask), limit)
    BY <1>2 DEF CodeRecall
  <2> QED
    BY <2>1, BestIsSubset, RowFields DEF OfRoute, SearchCodeDegraded
<1> QED
  BY <1>1, <1>2

LEMMA DocsRows ==
  ASSUME NEW db, NEW ask, NEW limit, NEW broken, NEW healthy,
         NEW rows \in DocsRecall(db, ask, limit, broken, healthy)
  PROVE  OfRoute(rows, "docs")
<1> DEFINE keys  == Keys(ask)
           found == IF broken THEN {}
                    ELSE {d \in DOMAIN db.doc : db.doc[d].words \cap WordsOf(keys) # {}}
           files == {f \in CodeHits(db, WordsOf(keys)) : db.file[f].isDoc}
           docs  == {Row("docs", d, db.doc[d].words, Rank(db.doc[d].words, keys), 0, "recall") :
                       d \in found}
<1>1. \/ rows \in Best(docs, limit)
      \/ rows \in Best(CodeRows(db, "docs", IF healthy THEN files ELSE {}, keys), limit)
  BY DEF DocsRecall
<1> HIDE DEF keys, found, files
<1>2. \A r \in docs : r.route = "docs"
  BY RowFields
<1> HIDE DEF docs
<1> QED
  BY <1>1, <1>2, BestIsSubset, CodeRowsRoute DEF OfRoute

LEMMA CveRows ==
  ASSUME NEW db, NEW ask, NEW limit, NEW broken,
         NEW rows \in CveRecall(db, ask, limit, broken)
  PROVE  OfRoute(rows, "cve")
<1> DEFINE named == {Row("cve", v, db.cve[v].words, 60, 0, "exact") :
                       v \in ask.cves \cap DOMAIN db.cve}
           left  == limit - Cardinality(named)
           texts == [v \in DOMAIN db.cve |-> db.cve[v].words]
<1>1. \A r \in named : r.route = "cve"
  BY RowFields
<1>2. rows = named \/ \E more \in TieredAndQuery("cve", texts, Keys(ask), left) :
                         rows = named \cup more
  BY DEF CveRecall
<1> HIDE DEF named, texts, left
<1> QED
  BY <1>1, <1>2, TieredRows DEF OfRoute

LEMMA CommitRows ==
  ASSUME NEW db, NEW ask, NEW limit, NEW rows \in CommitRecall(db, ask, limit)
  PROVE  OfRoute(rows, "commit") /\ Sound(db, rows)
<1> DEFINE asked == {c \in Real(db) : \/ ask.version = None
                                      \/ ask.version \in db.commit[c].versions}
           texts == [c \in asked |-> CommitWords(db, c)]
<1>1. rows \in TieredAndQuery("commit", texts, Keys(ask), limit)
  BY DEF CommitRecall
<1>2. DOMAIN texts \subseteq Real(db)
  OBVIOUS
<1> HIDE DEF texts
<1> QED
  BY <1>1, <1>2, TieredRows DEF OfRoute, Sound

(* Whatever is down, and even when its statements fail, a route answers with   *)
(* rows of its own, and the commit route with sound ones.                      *)
LEMMA RouteRows ==
  ASSUME NEW db, NEW ask, NEW route \in Routes, NEW off,
         NEW rows \in RecallBy(db, ask, route, off)
  PROVE  OfRoute(rows, route) /\ (route = "commit" => Sound(db, rows))
<1>1. CASE route = "commit"
  BY <1>1, CommitRows DEF RecallBy
<1>2. CASE route = "bug"
  <2>1. rows \in TieredAndQuery("bug", [b \in DOMAIN db.bug |-> db.bug[b].words],
                                Keys(ask), LimitPerRoute)
    BY <1>2 DEF RecallBy, BugRecall
  <2> QED
    BY <1>2, <2>1, TieredRows DEF OfRoute
<1>3. CASE route = "syzbot"
  <2>1. rows \in TieredAndQuery("syzbot", [x \in DOMAIN db.crash |-> db.crash[x].words],
                                Keys(ask), LimitPerRoute)
    BY <1>3 DEF RecallBy, SyzbotRecall
  <2> QED
    BY <1>3, <2>1, TieredRows DEF OfRoute
<1>4. CASE route = "cve"
  BY <1>4, CveRows DEF RecallBy
<1>5. CASE route = "lkml"
  BY <1>5, LkmlRows DEF RecallBy
<1>6. CASE route = "code"
  BY <1>6, CodeRecallRows DEF RecallBy
<1>7. CASE route = "docs"
  BY <1>7, DocsRows DEF RecallBy
<1> QED
  BY <1>1, <1>2, <1>3, <1>4, <1>5, <1>6, <1>7 DEF Routes

LEMMA BrokenRouteRows ==
  ASSUME NEW db, NEW ask, NEW route \in Routes, NEW off,
         NEW rows \in RecallBroken(db, ask, route, off)
  PROVE  OfRoute(rows, route) /\ (route = "commit" => rows = {})
<1>1. CASE route = "cve"
  <2>1. rows = {} \/ rows \in CveRecall(db, ask, LimitPerRoute, TRUE)
    BY <1>1 DEF RecallBroken
  <2> QED
    BY <1>1, <2>1, CveRows DEF OfRoute
<1>2. CASE route = "docs"
  BY <1>2, DocsRows DEF RecallBroken
<1>3. CASE route \notin {"cve", "docs"}
  <2>1. rows = {}
    BY <1>3 DEF RecallBroken
  <2> QED
    BY <2>1 DEF OfRoute
<1> QED
  BY <1>1, <1>2, <1>3

------------------------------------------------------------------------------
(* Pools that grow and shrink *)

LEMMA PresentIds ==
  ASSUME NEW rows, NEW r \in rows, r.route = "commit"
  PROVE  r.id \in Present(rows)
BY DEF Present

LEMMA SoundUnion ==
  ASSUME NEW db, NEW rows, NEW new, Sound(db, rows), Sound(db, new),
         \A r \in new : r.route = "commit" => r.id \notin Present(rows)
  PROVE  Sound(db, rows \cup new)
BY PresentIds DEF Sound

LEMMA SoundSubset ==
  ASSUME NEW db, NEW rows, Sound(db, rows), NEW kept, kept \subseteq rows
  PROVE  Sound(db, kept)
BY DEF Sound

(* Every commit a link leads to is one of the table and no stub. *)
LEMMA LinkedIsReal ==
  ASSUME NEW db, NEW from, from \in {"lkml", "cve", "bug", "fixes", "revert"},
         NEW top, NEW cands \in Candidates(db, from, top), NEW c \in cands
  PROVE  c.commit \in Real(db)
<1>1. CASE from \in {"lkml", "cve"}
  <2>1. cands = LinkedTo(db, top)
    BY <1>1 DEF Candidates
  <2> QED
    BY <2>1 DEF LinkedTo
<1>2. CASE from = "bug"
  <2>1. cands = LinkedToBugs(db, top)
    BY <1>2 DEF Candidates
  <2>2. \A some : NewestOf(db, some) \subseteq some
    BY DEF NewestOf
  <2> DEFINE fixers(b) == {k[1] : k \in {l \in db.link : l[2] = b}} \cap Real(db)
             cand(b, x) == [commit |-> x, score |-> (ScoreOf(top, b) * 18) \div 20]
  <2>3. cands = UNION {{cand(b, x) : x \in NewestOf(db, fixers(b))} : b \in {t.id : t \in top}}
    BY <2>1 DEF LinkedToBugs
  <2>4. \A b : fixers(b) \subseteq Real(db)
    OBVIOUS
  <2>5. \A b, x : cand(b, x).commit = x
    OBVIOUS
  <2> HIDE DEF fixers, cand
  <2>6. PICK b : \E x \in NewestOf(db, fixers(b)) : c = cand(b, x)
    BY <2>3
  <2> QED
    BY <2>2, <2>4, <2>5, <2>6
<1>3. ASSUME NEW pairs, cands \in Chained(db, pairs, top)
      PROVE  c.commit \in Real(db)
  <2> DEFINE ids  == {t.id : t \in top}
             ways == {<<p[1], p[2]>> : p \in pairs} \cup {<<p[2], p[1]>> : p \in pairs}
             hops == {w \in ways : w[1] \in ids /\ w[2] \in Real(db)}
             cand(w) == [commit |-> w[2], score |-> (ScoreOf(top, w[1]) * 17) \div 20]
  <2>1. PICK read \in SUBSET hops : cands = {cand(w) : w \in read}
    BY <1>3 DEF Chained
  <2>2. \A w \in hops : w[2] \in Real(db)
    OBVIOUS
  <2>3. \A w : cand(w).commit = w[2]
    OBVIOUS
  <2> HIDE DEF hops, cand
  <2> QED
    BY <2>1, <2>2, <2>3
<1>4. CASE from = "fixes"
  BY <1>3, <1>4 DEF Candidates
<1>5. CASE from = "revert"
  BY <1>3, <1>5 DEF Candidates
<1> QED
  BY <1>1, <1>2, <1>4, <1>5

LEMMA InjectedRows ==
  ASSUME NEW db, NEW from, NEW rows, NEW cands, \A c \in cands : c.commit \in Real(db),
         NEW new \in InjectRows(db, from, rows, cands)
  PROVE  Sound(db, new) /\ \A r \in new : r.id \notin Present(rows) /\ r.route = "commit"
<1> DEFINE ids == {c.commit : c \in cands} \ Present(rows)
<1>1. PICK pick : new = {Row("commit", c, db.commit[c].subject, pick[c], 0, from) : c \in ids}
  BY DEF InjectRows
<1>2. ids \subseteq Real(db) /\ \A c \in ids : c \notin Present(rows)
  OBVIOUS
<1> HIDE DEF ids
<1> DEFINE row(c) == Row("commit", c, db.commit[c].subject, pick[c], 0, from)
<1>3. \A c : row(c).route = "commit" /\ row(c).id = c
  BY RowFields
<1>4. new = {row(c) : c \in ids}
  BY <1>1
<1> HIDE DEF row
<1> QED
  BY <1>2, <1>3, <1>4 DEF Sound

LEMMA HarvestedRows ==
  ASSUME NEW db, NEW found, NEW rows
  PROVE  LET new == ReactRows(db, found, rows)
         IN Sound(db, new) /\ \A r \in new : r.id \notin Present(rows) /\ r.route = "commit"
<1> DEFINE row(c) == Row("commit", c, CommitWords(db, c), 57, 0, "react")
           ids == (found \cap Real(db)) \ Present(rows)
<1>1. ReactRows(db, found, rows) = {row(c) : c \in ids}
  BY DEF ReactRows
<1>2. ids \subseteq Real(db) /\ \A c \in ids : c \notin Present(rows)
  OBVIOUS
<1>3. \A c : row(c).route = "commit" /\ row(c).id = c
  BY RowFields
<1> HIDE DEF row, ids
<1> QED
  BY <1>1, <1>2, <1>3 DEF Sound

LEMMA RankedIsSubset ==
  ASSUME NEW rows
  PROVE  /\ \A kept \in LlmRerank(rows) : kept \subseteq rows
         /\ \A k, kept : kept \in TopRanked(rows, k) => kept \subseteq rows
<1>1. \A k, kept : kept \in TopRanked(rows, k) => kept \subseteq rows
  BY DEF TopRanked
<1>2. ASSUME NEW kept \in LlmRerank(rows) PROVE kept \subseteq rows
  <2>1. PICK shown \in TopRanked(rows, RerankCap) : kept \subseteq shown
    BY DEF LlmRerank
  <2> QED
    BY <1>1, <2>1
<1> QED
  BY <1>1, <1>2

------------------------------------------------------------------------------
(* The pool has no commit before the commit route has answered, and that       *)
(* happens once: a route that answers is not pending any more, and none is     *)
(* pending when injection starts.  Of where the injection is, that it counts.  *)
PoolInv ==
  /\ Sound(world.db, pool)
  /\ pending \subseteq Routes
  /\ phase \notin {"parse", "recall"} => pending = {}
  /\ "commit" \in pending => \A r \in pool : r.route # "commit"
  /\ source \in Nat

LEMMA InitPoolInv == Init => PoolInv
BY DEF Init, PoolInv, Sound

LEMMA NextPoolInv == PoolInv /\ [Next]_vars => PoolInv'
<1> SUFFICES ASSUME PoolInv, [Next]_vars PROVE PoolInv'
  OBVIOUS
<1> USE DEF Enter
<1>1. CASE ParseQuery
  BY <1>1 DEF ParseQuery, PoolInv
<1>2. ASSUME NEW route \in Routes, RouteAnswers(route) \/ RouteFails(route)
      PROVE  PoolInv'
  <2>1. /\ route \in pending /\ pending' = pending \ {route}
        /\ phase' = (IF pending = {route} THEN "inject" ELSE "recall")
        /\ UNCHANGED <<world, source>>
    BY <1>2 DEF RouteAnswers, RouteFails
  <2>2. PICK rows : /\ pool' = pool \cup rows
                    /\ OfRoute(rows, route)
                    /\ route = "commit" => Sound(world.db, rows)
    <3>1. CASE RouteAnswers(route)
      BY <3>1, RouteRows DEF RouteAnswers
    <3>2. CASE RouteFails(route)
      <4>1. PICK rows \in RecallBroken(world.db, query, route, down) : pool' = pool \cup rows
        BY <3>2 DEF RouteFails
      <4>2. route = "commit" => Sound(world.db, rows)
        BY <4>1, BrokenRouteRows DEF Sound
      <4> QED
        BY <4>1, <4>2, BrokenRouteRows
    <3> QED
      BY <1>2, <3>1, <3>2
  <2>3. Sound(world.db, rows)
    BY <2>2 DEF OfRoute, Sound
  <2>4. \A r \in rows : r.route = "commit" => r.id \notin Present(pool)
    BY <2>1, <2>2 DEF OfRoute, PoolInv, Present
  <2>5. Sound(world.db, pool')
    BY <2>2, <2>3, <2>4, SoundUnion DEF PoolInv
  <2>6. phase' \notin {"parse", "recall"} => pending' = {}
    BY <2>1
  <2>7. "commit" \in pending' => \A r \in pool' : r.route # "commit"
    BY <2>1, <2>2 DEF OfRoute, PoolInv
  <2> QED
    BY <2>1, <2>5, <2>6, <2>7 DEF PoolInv
<1>3. CASE Inject
  <2>1. phase = "inject" /\ source < 5 /\ source \in Nat
    BY <1>3 DEF Inject, InjectSources, PoolInv
  <2> DEFINE from == InjectSources[source + 1]
  <2>2. from \in {"lkml", "cve", "bug", "fixes", "revert"}
    BY <2>1 DEF InjectSources
  <2>3. PICK top \in TopByScore(pool, InjectRoute(from)) :
          \E cands \in Candidates(world.db, from, top) :
            \E rows \in InjectRows(world.db, from, pool, cands) : pool' = pool \cup rows
    BY <1>3 DEF Inject
  <2>4. PICK cands \in Candidates(world.db, from, top) :
          \E rows \in InjectRows(world.db, from, pool, cands) : pool' = pool \cup rows
    BY <2>3
  <2>5. PICK rows \in InjectRows(world.db, from, pool, cands) : pool' = pool \cup rows
    BY <2>4
  <2>6. Sound(world.db, rows) /\ \A r \in rows : r.id \notin Present(pool)
    BY <2>2, LinkedIsReal, InjectedRows
  <2>7. Sound(world.db, pool')
    BY <2>5, <2>6, SoundUnion DEF PoolInv
  <2>8. UNCHANGED <<world, phase, pending>> /\ source' \in Nat
    BY <1>3, <2>1 DEF Inject
  <2> QED
    BY <2>1, <2>7, <2>8 DEF PoolInv
<1>4. CASE InjectEnds
  BY <1>4 DEF InjectEnds, PoolInv, Retrieval
<1>5. CASE RankPool
  <2>1. pool' \subseteq pool
    BY <1>5, RankedIsSubset DEF RankPool
  <2>2. UNCHANGED <<world, pending, source>> /\ phase = "rank" /\ phase' = "react"
    BY <1>5 DEF RankPool
  <2>3. Sound(world.db, pool')
    BY <2>1, SoundSubset DEF PoolInv
  <2> QED
    BY <2>2, <2>3 DEF PoolInv
<1>6. CASE MergeReactEvidence
  <2>1. pool' = pool \/ pool' = pool \cup ReactRows(world.db, harvested, pool)
    BY <1>6 DEF MergeReactEvidence
  <2>2. Sound(world.db, pool')
    BY <2>1, HarvestedRows, SoundUnion DEF PoolInv
  <2>3. UNCHANGED <<world, pending, source>> /\ phase = "merge" /\ phase' = "bind"
    BY <1>6 DEF MergeReactEvidence
  <2> QED
    BY <2>2, <2>3 DEF PoolInv
<1>7. ASSUME /\ UNCHANGED <<world, pending, pool, source>>
             /\ phase \notin {"parse", "recall"} \/ UNCHANGED phase
      PROVE  PoolInv'
  BY <1>7 DEF PoolInv
<1>8. ASSUME NEW tool, CallTool(tool) \/ CallWithout(tool) PROVE PoolInv'
  BY <1>7, <1>8 DEF CallTool, CallWithout, Retrieval
<1>9. CASE CallRaises
  BY <1>7, <1>9 DEF CallRaises, Retrieval
<1>10. CASE FinishReact
  BY <1>7, <1>10 DEF FinishReact, Retrieval
<1>11. CASE Bind \/ EndBinding \/ GenerateReport
  BY <1>7, <1>11 DEF Bind, EndBinding, GenerateReport, Retrieval
<1>12. CASE UNCHANGED vars
  BY <1>7, <1>12 DEF vars
<1> QED
  BY <1>1, <1>2, <1>3, <1>4, <1>5, <1>6, <1>8, <1>9, <1>10, <1>11, <1>12 DEF Next

(* A commit in the pool exists, is no stub and is there once, in every run:     *)
(* the recall routes, the five injections and the merge of what the tools'      *)
(* texts showed each filter for themselves (engine.py:149-153).                 *)
THEOREM PoolIsSound == Spec => []EvidenceIsSound
<1>1. PoolInv => EvidenceIsSound
  BY DEF PoolInv, Sound, EvidenceIsSound
<1> QED
  BY <1>1, InitPoolInv, NextPoolInv, PTL DEF Spec

------------------------------------------------------------------------------
(* Ids.  The renderer finds rows by their id alone: that it finds one with the *)
(* words the binder compared rests on what an id names.                        *)

IdsOf(db, route) ==
  CASE route = "commit" -> DOMAIN db.commit
    [] route = "bug"    -> DOMAIN db.bug
    [] route = "cve"    -> DOMAIN db.cve
    [] route = "lkml"   -> DOMAIN db.mail \cup LoreIds(db)
    [] OTHER            -> {}

IdRoutes == {"commit", "bug", "cve", "lkml"}

(* A row with an id has it from its table, and rows of one route that share    *)
(* an id share their words.                                                    *)
Consistent(db, rows) ==
  \A r \in rows : CarriesId(r) =>
    /\ r.id \in IdsOf(db, r.route)
    /\ \A s \in rows : (s.route = r.route /\ s.id = r.id) => s.words = r.words

LEMMA IdsDiffer ==
  ASSUME NEW w \in Worlds, NEW a \in IdRoutes, NEW b \in IdRoutes, a # b
  PROVE  IdsOf(w.db, a) \cap IdsOf(w.db, b) = {}
<1> DEFINE place(r) == CASE r = "commit" -> 1 [] r = "bug" -> 2 [] r = "cve" -> 3 [] r = "lkml" -> 4
<1>1. \A r \in IdRoutes : place(r) \in 1..4 /\ IdTables(w.db)[place(r)] = IdsOf(w.db, r)
  BY DEF IdRoutes, IdTables, IdsOf
<1>2. place(a) # place(b)
  BY DEF IdRoutes
<1>3. \A i, j \in 1..4 : i # j => IdTables(w.db)[i] \cap IdTables(w.db)[j] = {}
  BY WorldAssumption
<1> HIDE DEF place
<1> QED
  BY <1>1, <1>2, <1>3

(* In a consistent pool an id stands for one set of words, whatever its route. *)
LEMMA IdNamesWords ==
  ASSUME NEW w \in Worlds, NEW rows, Consistent(w.db, rows),
         NEW r \in rows, NEW s \in rows, CarriesId(r), CarriesId(s), r.id = s.id
  PROVE  r.words = s.words
<1>1. r.route \in IdRoutes /\ s.route \in IdRoutes
  BY DEF CarriesId, IdRoutes
<1>2. r.id \in IdsOf(w.db, r.route) /\ r.id \in IdsOf(w.db, s.route)
  BY DEF Consistent
<1>3. r.route = s.route
  BY <1>1, <1>2, IdsDiffer
<1> QED
  BY <1>3 DEF Consistent

------------------------------------------------------------------------------
(* The routes that carry ids answer consistently. *)

LEMMA ScaledSame ==
  ASSUME NEW rows, \A r \in rows : IsRow(r), NEW s \in Scaled(rows)
  PROVE  \E r \in rows : s.id = r.id /\ s.words = r.words
<1> DEFINE most == Max({r.score : r \in rows} \cup {0})
           level(x) == IF most = 0 THEN 0 ELSE (60 * x) \div most
<1>1. Scaled(rows) = {[r EXCEPT !.score = level(@)] : r \in rows}
  BY DEF Scaled
<1> HIDE DEF level
<1>2. PICK r \in rows : s = [r EXCEPT !.score = level(@)]
  BY <1>1
<1>3. r = Row(r.route, r.id, r.words, r.score, r.tier, r.from)
  BY DEF IsRow
<1>4. s.id = r.id /\ s.words = r.words
  BY <1>2, <1>3 DEF Row
<1> QED
  BY <1>4

(* A row of lore's answer has the id and the words of one of its entries.      *)
OfEntry(db, r) == \E j \in DOMAIN db.lore : r.id = db.lore[j].id /\ r.words = db.lore[j].words

LEMMA LoreRows ==
  ASSUME NEW w \in Worlds, NEW ask, NEW limit \in Nat, NEW reachable,
         NEW r \in LoreRecall(w.db, ask, limit, reachable)
  PROVE  OfEntry(w.db, r)
<1>1. PICK I : I = {i \in DOMAIN w.db.lore : w.db.lore[i].words \cap WordsOf(Keys(ask)) # {}}
  OBVIOUS
<1>2. I \in SUBSET Nat /\ IsFiniteSet(I) /\ I \subseteq DOMAIN w.db.lore
  <2>1. DOMAIN w.db.lore = 1..Len(w.db.lore) /\ Len(w.db.lore) \in Nat
    BY WorldAssumption
  <2>2. PICK n \in Nat : DOMAIN w.db.lore = 1..n
    BY <2>1
  <2>3. I \in SUBSET Nat /\ I \subseteq DOMAIN w.db.lore /\ \A i \in I : i <= n
    BY <1>1, <2>2
  <2>4. IsFiniteSet(I)
    BY <2>3, FS_BoundedSetOfNaturals
  <2> QED
    BY <2>3, <2>4
<1>3. /\ Cardinality(I) \in Nat
      /\ \A k \in 1..Cardinality(I) : InOrder(I)[k] \in I
  BY <1>2, FS_CardinalityType, InOrderLists
<1>4. PICK hits : hits = Part(w.db.lore, I)
  OBVIOUS
<1>5. Len(hits) = Cardinality(I) /\ \A k \in 1..Cardinality(I) : hits[k] = w.db.lore[InOrder(I)[k]]
  BY <1>3, <1>4 DEF Part
<1>6. LoreSearch(w.db, Keys(ask)) = hits
  BY <1>1, <1>4 DEF LoreSearch
<1>7. PICK n : n = Smaller(limit, Len(hits))
  OBVIOUS
<1>8. PICK i \in 1..n :
        r = Row("lkml", hits[i].id, hits[i].words, (60 * (n - i + 1)) \div n, 0, "recall")
  BY <1>6, <1>7 DEF LoreRecall
<1>9. i \in 1..Cardinality(I)
  BY <1>3, <1>5, <1>7, <1>8 DEF Smaller
<1>10. r.id = hits[i].id /\ r.words = hits[i].words
  BY <1>8, RowFields
<1> QED
  BY <1>2, <1>3, <1>5, <1>9, <1>10 DEF OfEntry

LEMMA LkmlConsistent ==
  ASSUME NEW w \in Worlds, NEW ask, NEW limit \in Nat, NEW reachable,
         NEW rows \in LkmlRecall(w.db, ask, limit, reachable)
  PROVE  Consistent(w.db, rows)
<1>0. ASSUME NEW r \in LoreRecall(w.db, ask, limit, reachable)
      PROVE  OfEntry(w.db, r)
  BY <1>0, LoreRows
<1> DEFINE db == w.db
           texts  == [m \in DOMAIN db.mail |-> db.mail[m].words]
           remote == LoreRecall(db, ask, limit, reachable)
<1>1. PICK local \in TieredAndQuery("lkml", texts, Keys(ask), limit) :
        rows \in LkmlMerge(local, remote, limit)
  BY DEF LkmlRecall
<1>2. \A r \in local : /\ r.route = "lkml" /\ IsRow(r)
                       /\ r.id \in DOMAIN db.mail /\ r.words = texts[r.id]
  BY <1>1, TieredRows
<1>3. \A r \in remote : IsRow(r) /\ OfEntry(db, r)
  <2>1. \A r \in remote : IsRow(r)
    BY RowFields DEF LoreRecall
  <2> QED
    BY <1>0, <2>1
<1>4. \A i, j \in DOMAIN db.lore : db.lore[i].id = db.lore[j].id => i = j
  BY WorldAssumption
<1> HIDE DEF remote
<1> DEFINE here    == Scaled(local)
           there   == Scaled(remote)
           best(r) == Max({r.score} \cup {t.score : t \in {u \in there : u.id = r.id}})
           up(r)   == [r EXCEPT !.score = best(r)]
           lifted  == {up(r) : r \in here}
           rest    == {t \in there : t.id \notin {r.id : r \in here}}
<1>6. \A r \in here : IsRow(r) /\ r.id \in DOMAIN db.mail /\ r.words = texts[r.id]
  <2>1. \A r \in local : r.route = "lkml" /\ IsRow(r)
    BY <1>2
  <2>2. \A r \in here : IsRow(r)
    BY <2>1, ScaledRows
  <2>3. \A r \in here : \E x \in local : r.id = x.id /\ r.words = x.words
    BY <2>1, ScaledSame
  <2> QED
    BY <1>2, <2>2, <2>3
<1>7. \A r \in there : OfEntry(db, r)
  <2>1. \A r \in there : \E x \in remote : r.id = x.id /\ r.words = x.words
    BY <1>3, ScaledSame
  <2> QED
    BY <1>3, <2>1 DEF OfEntry
<1>8. rows \in Best(lifted \cup rest, limit)
  BY <1>1 DEF LkmlMerge
<1> HIDE DEF here, there, best
<1>9. ASSUME NEW r \in here PROVE up(r).id = r.id /\ up(r).words = r.words
  <2>1. r = Row(r.route, r.id, r.words, r.score, r.tier, r.from)
    BY <1>6, <1>9 DEF IsRow
  <2> QED
    BY <2>1 DEF Row
<1> HIDE DEF up
<1>10. \A r \in lifted : r.id \in {x.id : x \in here} /\ r.id \in DOMAIN db.mail /\ r.words = texts[r.id]
  BY <1>6, <1>9
<1>11. \A r \in rest : /\ r.id \notin {x.id : x \in here}
                       /\ OfEntry(db, r)
  BY <1>7
<1>12. \A r \in rest : r.id \in LoreIds(db)
  BY <1>11 DEF LoreIds, OfEntry
<1> HIDE DEF lifted, rest, texts
<1>13. \A r, s \in lifted \cup rest : r.id = s.id => s.words = r.words
  BY <1>4, <1>10, <1>11 DEF OfEntry
<1>14. \A r \in lifted \cup rest : r.id \in DOMAIN db.mail \cup LoreIds(db)
  BY <1>10, <1>12
<1>15. rows \subseteq lifted \cup rest /\ \A r \in rows : r.route = "lkml"
  BY <1>8, BestIsSubset, LkmlRows DEF OfRoute
<1> QED
  BY <1>13, <1>14, <1>15 DEF Consistent, IdsOf

LEMMA CveConsistent ==
  ASSUME NEW db, NEW ask, NEW limit, NEW broken,
         NEW rows \in CveRecall(db, ask, limit, broken)
  PROVE  Consistent(db, rows)
<1> DEFINE texts == [v \in DOMAIN db.cve |-> db.cve[v].words]
           row(v) == Row("cve", v, db.cve[v].words, 60, 0, "exact")
           named == {row(v) : v \in ask.cves \cap DOMAIN db.cve}
           left  == limit - Cardinality(named)
<1>1. \A v : row(v).route = "cve" /\ row(v).id = v /\ row(v).words = db.cve[v].words
  BY RowFields
<1>2. rows = named \/ \E more \in TieredAndQuery("cve", texts, Keys(ask), left) :
                         rows = named \cup more
  BY DEF CveRecall
<1> HIDE DEF row
<1>3. \A r \in named : r.route = "cve" /\ r.id \in DOMAIN db.cve /\ r.words = db.cve[r.id].words
  BY <1>1
<1> HIDE DEF named, left
<1>4. \A more \in TieredAndQuery("cve", texts, Keys(ask), left) : \A r \in more :
        r.route = "cve" /\ r.id \in DOMAIN db.cve /\ r.words = db.cve[r.id].words
  BY TieredRows
<1>5. \A r \in rows : r.route = "cve" /\ r.id \in DOMAIN db.cve /\ r.words = db.cve[r.id].words
  BY <1>2, <1>3, <1>4
<1> QED
  BY <1>5 DEF Consistent, IdsOf

(* Commits are sound, so that an id is one row. *)
LEMMA SoundIsConsistent ==
  ASSUME NEW db, NEW rows, Sound(db, rows), OfRoute(rows, "commit")
  PROVE  Consistent(db, rows)
BY DEF Sound, OfRoute, Consistent, IdsOf, Real

LEMMA OtherRoutesConsistent ==
  ASSUME NEW db, NEW route \in Routes \ IdRoutes, NEW rows, OfRoute(rows, route)
  PROVE  Consistent(db, rows)
BY DEF OfRoute, Consistent, CarriesId, IdRoutes

LEMMA RouteConsistent ==
  ASSUME NEW w \in Worlds, NEW ask, NEW route \in Routes, NEW off,
         NEW rows \in RecallBy(w.db, ask, route, off)
  PROVE  Consistent(w.db, rows)
<1>1. OfRoute(rows, route) /\ (route = "commit" => Sound(w.db, rows))
  BY RouteRows
<1>2. LimitPerRoute \in Nat
  BY RecallAssumption
<1>3. CASE route = "commit"
  BY <1>1, <1>3, SoundIsConsistent
<1>4. CASE route = "bug"
  <2> DEFINE texts == [b \in DOMAIN w.db.bug |-> w.db.bug[b].words]
  <2>1. rows \in TieredAndQuery("bug", texts, Keys(ask), LimitPerRoute)
    BY <1>4 DEF RecallBy, BugRecall
  <2>2. DOMAIN texts = DOMAIN w.db.bug
    OBVIOUS
  <2> HIDE DEF texts
  <2>3. \A r \in rows : r.route = "bug" /\ r.id \in DOMAIN w.db.bug /\ r.words = texts[r.id]
    BY <2>1, <2>2, TieredRows
  <2> QED
    BY <2>3 DEF Consistent, IdsOf
<1>5. CASE route = "cve"
  BY <1>5, CveConsistent DEF RecallBy
<1>6. CASE route = "lkml"
  BY <1>2, <1>6, LkmlConsistent DEF RecallBy
<1>7. CASE route \in Routes \ IdRoutes
  BY <1>1, <1>7, OtherRoutesConsistent
<1> QED
  BY <1>3, <1>4, <1>5, <1>6, <1>7 DEF IdRoutes

LEMMA BrokenConsistent ==
  ASSUME NEW db, NEW ask, NEW route \in Routes, NEW off,
         NEW rows \in RecallBroken(db, ask, route, off)
  PROVE  Consistent(db, rows)
<1>1. CASE rows = {}
  BY <1>1 DEF Consistent
<1>2. CASE route = "cve" /\ rows # {}
  <2>1. rows \in CveRecall(db, ask, LimitPerRoute, TRUE)
    BY <1>2 DEF RecallBroken
  <2> QED
    BY <2>1, CveConsistent
<1>3. CASE route = "docs"
  <2>1. OfRoute(rows, route)
    BY BrokenRouteRows
  <2> QED
    BY <1>3, <2>1, OtherRoutesConsistent DEF Routes, IdRoutes
<1>4. CASE route \notin {"cve", "docs"}
  BY <1>1, <1>4 DEF RecallBroken
<1> QED
  BY <1>1, <1>2, <1>3, <1>4

------------------------------------------------------------------------------
(* The pool's ids name its words.  A route's rows come at once, when nothing    *)
(* of the route is there; what is added after the routes are commits, which     *)
(* PoolInv keeps single.                                                        *)
NamesInv ==
  /\ world \in Worlds
  /\ Consistent(world.db, pool)
  /\ \A r \in pool : r.route \notin pending

LEMMA NewRouteKeeps ==
  ASSUME NEW db, NEW rows, NEW new, NEW route, Consistent(db, rows), Consistent(db, new),
         OfRoute(new, route), \A r \in rows : r.route # route
  PROVE  Consistent(db, rows \cup new)
BY DEF Consistent, OfRoute

LEMMA NewCommitsKeep ==
  ASSUME NEW db, NEW rows, NEW new, Consistent(db, rows), Sound(db, rows \cup new),
         OfRoute(new, "commit")
  PROVE  Consistent(db, rows \cup new)
<1> SUFFICES ASSUME NEW r \in rows \cup new, CarriesId(r)
             PROVE  /\ r.id \in IdsOf(db, r.route)
                    /\ \A s \in rows \cup new : (s.route = r.route /\ s.id = r.id) => s.words = r.words
  BY DEF Consistent
<1>1. CASE r.route = "commit"
  BY <1>1 DEF Sound, IdsOf, Real
<1>2. CASE r.route # "commit"
  <2>1. r \in rows /\ \A s \in rows \cup new : s.route = r.route => s \in rows
    BY <1>2 DEF OfRoute
  <2> QED
    BY <2>1 DEF Consistent
<1> QED
  BY <1>1, <1>2

LEMMA InitNamesInv == Init => NamesInv
BY DEF Init, NamesInv, Consistent

LEMMA NextNamesInv == PoolInv /\ PoolInv' /\ NamesInv /\ [Next]_vars => NamesInv'
<1> SUFFICES ASSUME PoolInv, PoolInv', NamesInv, [Next]_vars PROVE NamesInv'
  OBVIOUS
<1> USE DEF Enter
<1>1. world' = world
  BY DEF Next, ParseQuery, RouteAnswers, RouteFails, Inject, InjectEnds, RankPool, CallTool,
     CallWithout, CallRaises, FinishReact, MergeReactEvidence, Bind, EndBinding, GenerateReport, vars
<1>2. ASSUME NEW route \in Routes, RouteAnswers(route) \/ RouteFails(route)
      PROVE  NamesInv'
  <2>1. route \in pending /\ pending' = pending \ {route}
    BY <1>2 DEF RouteAnswers, RouteFails
  <2>2. PICK rows : /\ pool' = pool \cup rows
                    /\ OfRoute(rows, route) /\ Consistent(world.db, rows)
    <3>1. CASE RouteAnswers(route)
      <4>1. PICK rows \in RecallBy(world.db, query, route, down) : pool' = pool \cup rows
        BY <3>1 DEF RouteAnswers
      <4> QED
        BY <4>1, RouteRows, RouteConsistent DEF NamesInv
    <3>2. CASE RouteFails(route)
      <4>1. PICK rows \in RecallBroken(world.db, query, route, down) : pool' = pool \cup rows
        BY <3>2 DEF RouteFails
      <4> QED
        BY <4>1, BrokenRouteRows, BrokenConsistent
    <3> QED
      BY <1>2, <3>1, <3>2
  <2>3. \A r \in pool : r.route # route
    BY <2>1 DEF NamesInv
  <2>4. Consistent(world.db, pool')
    BY <2>2, <2>3, NewRouteKeeps DEF NamesInv
  <2>5. \A r \in pool' : r.route \notin pending'
    BY <2>1, <2>2 DEF OfRoute, NamesInv
  <2> QED
    BY <1>1, <2>4, <2>5 DEF NamesInv
<1>3. CASE Inject \/ MergeReactEvidence
  <2>1. pending' = {}
    BY <1>3 DEF Inject, MergeReactEvidence, PoolInv
  <2>2. PICK rows : pool' = pool \cup rows /\ OfRoute(rows, "commit")
    <3>1. CASE Inject
      <4>1. phase = "inject" /\ source < 5 /\ source \in Nat
        BY <3>1 DEF Inject, InjectSources, PoolInv
      <4> DEFINE from == InjectSources[source + 1]
      <4>2. from \in {"lkml", "cve", "bug", "fixes", "revert"}
        BY <4>1 DEF InjectSources
      <4>3. PICK top \in TopByScore(pool, InjectRoute(from)) :
              \E cands \in Candidates(world.db, from, top) :
                \E rows \in InjectRows(world.db, from, pool, cands) : pool' = pool \cup rows
        BY <3>1 DEF Inject
      <4>4. PICK cands \in Candidates(world.db, from, top) :
              \E rows \in InjectRows(world.db, from, pool, cands) : pool' = pool \cup rows
        BY <4>3
      <4>5. PICK rows \in InjectRows(world.db, from, pool, cands) : pool' = pool \cup rows
        BY <4>4
      <4>6. \A r \in rows : r.route = "commit"
        <5>1. \A c \in cands : c.commit \in Real(world.db)
          BY <4>2, LinkedIsReal
        <5> HIDE DEF from
        <5> QED
          BY <5>1, InjectedRows
      <4> QED
        BY <4>5, <4>6 DEF OfRoute
    <3>2. CASE MergeReactEvidence
      <4>1. pool' = pool \cup {} \/ pool' = pool \cup ReactRows(world.db, harvested, pool)
        BY <3>2 DEF MergeReactEvidence
      <4>2. OfRoute(ReactRows(world.db, harvested, pool), "commit") /\ OfRoute({}, "commit")
        BY HarvestedRows DEF OfRoute
      <4> QED
        BY <4>1, <4>2
    <3> QED
      BY <1>3, <3>1, <3>2
  <2>3. Sound(world.db, pool')
    BY <1>1 DEF PoolInv
  <2>4. Consistent(world.db, pool')
    BY <2>2, <2>3, NewCommitsKeep DEF NamesInv
  <2> QED
    BY <1>1, <2>1, <2>4 DEF NamesInv
<1>4. CASE pool' \subseteq pool /\ pending' = pending
  BY <1>1, <1>4 DEF NamesInv, Consistent
<1>5. CASE ParseQuery \/ InjectEnds
  BY <1>4, <1>5 DEF ParseQuery, InjectEnds, Retrieval
<1>6. CASE RankPool
  BY <1>4, <1>6, RankedIsSubset DEF RankPool
<1>7. ASSUME NEW tool, CallTool(tool) \/ CallWithout(tool) PROVE NamesInv'
  BY <1>4, <1>7 DEF CallTool, CallWithout, Retrieval
<1>8. CASE CallRaises \/ FinishReact \/ Bind \/ EndBinding \/ GenerateReport \/ UNCHANGED vars
  BY <1>4, <1>8 DEF CallRaises, FinishReact, Bind, EndBinding, GenerateReport, Retrieval, vars
<1> QED
  BY <1>2, <1>3, <1>5, <1>6, <1>7, <1>8 DEF Next

------------------------------------------------------------------------------
(* The overlap of a claim with a row is a percentage, so that the best of any   *)
(* rows exists.                                                                 *)
LEMMA Percentage ==
  ASSUME NEW m \in Nat, NEW n \in Nat, m <= n, n > 0
  PROVE  (100 * m) \div n \in 0..100
<1>1. PICK q \in Int : q = (100 * m) \div n
  OBVIOUS
<1>2. q * n <= 100 * m /\ 100 * m < (q + 1) * n
  BY <1>1
<1>3. q >= 0
  <2> SUFFICES ASSUME q + 1 <= 0 PROVE FALSE
    BY <1>1
  <2>1. (q + 1) * n <= 0
    OBVIOUS
  <2> QED
    BY <1>2, <2>1
<1>4. q <= 100
  <2> SUFFICES ASSUME q >= 101 PROVE FALSE
    BY <1>1
  <2>1. q * n >= 101 * n
    OBVIOUS
  <2> QED
    BY <1>2, <2>1
<1> QED
  BY <1>1, <1>3, <1>4

LEMMA OverlapRange ==
  ASSUME NEW text, IsFiniteSet(text), NEW r
  PROVE  Overlap(text, r) \in 0..100
<1>1. CASE text = {}
  BY <1>1 DEF Overlap
<1>2. CASE text # {}
  <2>1. Cardinality(text) \in Nat /\ Cardinality(text) > 0
    BY <1>2, FS_CardinalityType, FS_EmptySet
  <2>2. text \cap r.words \in SUBSET text
    OBVIOUS
  <2>3. Cardinality(text \cap r.words) \in Nat /\ Cardinality(text \cap r.words) <= Cardinality(text)
    BY <2>2, FS_Subset, FS_CardinalityType
  <2>4. (100 * Cardinality(text \cap r.words)) \div Cardinality(text) \in 0..100
    BY <2>1, <2>3, Percentage
  <2> QED
    BY <1>2, <2>4 DEF Overlap
<1> QED
  BY <1>1, <1>2

(* What is strong enough is so by a row. *)
LEMMA StrengthReached ==
  ASSUME NEW text, IsFiniteSet(text), NEW rows
  PROVE  /\ Strength(text, rows) \in Nat
         /\ Strength(text, rows) >= Threshold => \E r \in rows : Overlap(text, r) >= Threshold
<1>1. PICK S : S = {0} \cup {Overlap(text, r) : r \in rows}
  OBVIOUS
<1>2. S \in SUBSET Nat /\ S # {} /\ \A x \in S : x <= 100
  BY <1>1, OverlapRange
<1>3. IsFiniteSet(S)
  BY <1>2, FS_BoundedSetOfNaturals
<1>4. \E x \in S : \A y \in S : x >= y
  BY <1>2, <1>3, Greatest
<1>5. Max(S) \in S
  BY <1>4 DEF Max
<1>6. Max(S) = Strength(text, rows)
  BY <1>1 DEF Strength
<1>7. ASSUME Max(S) >= Threshold PROVE \E r \in rows : Overlap(text, r) >= Threshold
  <2>1. Max(S) # 0
    BY <1>7, ClaimsAssumption
  <2> QED
    BY <1>1, <1>5, <1>7, <2>1
<1> QED
  BY <1>2, <1>5, <1>6, <1>7

LEMMA IndexRows ==
  ASSUME NEW rows, NEW index \in OnePerId(rows)
  PROVE  /\ index \subseteq rows
         /\ \A r \in rows : \E s \in index : s.id = r.id
<1>1. PICK twice : twice = {r \in rows : \E s \in rows \ {r} : s.id = r.id}
  OBVIOUS
<1>2. PICK kept \in SUBSET twice :
        /\ \A r \in twice : Cardinality({s \in kept : s.id = r.id}) = 1
        /\ index = (rows \ twice) \cup kept
  BY <1>1 DEF OnePerId
<1>3. ASSUME NEW r \in twice PROVE \E s \in kept : s.id = r.id
  <2>1. {s \in kept : s.id = r.id} # {}
    BY <1>2, FS_EmptySet
  <2> QED
    BY <2>1
<1> QED
  BY <1>1, <1>2, <1>3

------------------------------------------------------------------------------
(* Claims *)

(* A verified claim names a row of the pool that supports it. *)
Supported(claim) ==
  \E r \in pool : CarriesId(r) /\ Ref(r.id, "id") \in claim.refs /\ Overlap(claim.text, r) >= Threshold

LEMMA BoundIsSupported ==
  ASSUME NEW text, IsFiniteSet(text), NEW refs, NEW c \in BindClaim(text, refs, pool), c.verified
  PROVE  Supported(c)
<1> DEFINE best      == {r \in pool : \A s \in pool : Overlap(text, r) >= Overlap(text, s)}
           rescue(r) == [text |-> text, verified |-> CarriesId(r),
                         refs |-> refs \cup (IF CarriesId(r) THEN {Ref(r.id, "id")} ELSE {})]
           plain(s)  == [text |-> text, refs |-> refs, verified |-> s # {} /\ Strength(text, s) >= Threshold]
           bound(s)  == IF Strength(text, s) >= Threshold \/ Strength(text, pool) < Threshold
                        THEN {plain(s)} ELSE {rescue(r) : r \in best}
<1>1. PICK index \in OnePerId(Citable(pool)) : c \in bound(Resolved(index, refs))
  BY DEF BindClaim
<1>2. index \subseteq pool /\ \A r \in index : CarriesId(r)
  BY IndexRows DEF Citable, CarriesId
<1> DEFINE cited == Resolved(index, refs)
           own   == Strength(text, cited) >= Threshold
<1>3. \A r \in cited : r \in index /\ Ref(r.id, "id") \in refs
  BY DEF Resolved
<1>4. CASE own
  <2>1. c = plain(cited)
    BY <1>1, <1>4
  <2>2. c.text = text /\ c.refs = refs
    BY <2>1
  <2>3. PICK r \in cited : Overlap(text, r) >= Threshold
    BY <1>4, StrengthReached
  <2> QED
    BY <1>2, <1>3, <2>2, <2>3 DEF Supported
<1>5. CASE ~ own
  <2>1. c \in IF Strength(text, pool) < Threshold THEN {plain(cited)} ELSE {rescue(r) : r \in best}
    BY <1>1, <1>5
  <2>2. ~ (Strength(text, pool) < Threshold)
    <3> SUFFICES ASSUME Strength(text, pool) < Threshold PROVE FALSE
      OBVIOUS
    <3>1. c = plain(cited)
      BY <2>1
    <3>2. c.verified = (cited # {} /\ own)
      BY <3>1
    <3> QED
      BY <1>5, <3>2
  <2>3. PICK r \in best : c = rescue(r)
    BY <2>1, <2>2
  <2>4. c.text = text /\ c.verified = CarriesId(r)
        /\ c.refs = refs \cup (IF CarriesId(r) THEN {Ref(r.id, "id")} ELSE {})
    BY <2>3
  <2>5. CarriesId(r) /\ Ref(r.id, "id") \in c.refs
    BY <2>4
  <2>6. PICK s \in pool : Overlap(text, s) >= Threshold
    <3>1. Strength(text, pool) \in Nat /\ Threshold \in Nat
      BY StrengthReached, ClaimsAssumption
    <3> QED
      BY <2>2, <3>1, StrengthReached
  <2>7. r \in pool /\ Overlap(text, r) >= Overlap(text, s)
    BY <2>3
  <2>8. Overlap(text, r) >= Threshold
    BY <2>6, <2>7, OverlapRange, ClaimsAssumption
  <2> QED
    BY <2>4, <2>5, <2>7, <2>8 DEF Supported
<1> QED
  BY <1>4, <1>5

(* Claims are bound when the pool is as the report will see it. *)
Concluding == {"bind", "render", "done"}

ClaimInv ==
  /\ \E T : claims \in Seq(T)
  /\ phase \notin Concluding => claims = <<>>
  /\ \A i \in DOMAIN claims : claims[i].verified => Supported(claims[i])
  /\ verdict \in {"none", "diagnosed", "insufficient_evidence"}
  /\ phase = "done" => report \in RenderMd(verdict, claims, pool)

LEMMA InitClaimInv == Init => ClaimInv
<1> SUFFICES ASSUME Init PROVE ClaimInv
  OBVIOUS
<1>1. claims = <<>> /\ claims \in Seq({}) /\ DOMAIN claims = {}
  BY DEF Init
<1>2. verdict = "none" /\ phase = "parse"
  BY DEF Init
<1> QED
  BY <1>1, <1>2 DEF ClaimInv

LEMMA BindKeeps == NamesInv /\ ClaimInv /\ Bind => ClaimInv'
<1> SUFFICES ASSUME NamesInv, ClaimInv, Bind PROVE ClaimInv'
  OBVIOUS
<1>1. PICK T : claims \in Seq(T)
  BY DEF ClaimInv
<1>2. phase = "bind" /\ phase' = phase /\ pool' = pool /\ verdict' = verdict
  BY DEF Bind, Retrieval
<1>3. PICK text \in world.claims : \E refs : \E c \in BindClaim(text, refs, pool) : claims' = Append(claims, c)
  BY DEF Bind
<1>4. PICK refs : \E c \in BindClaim(text, refs, pool) : claims' = Append(claims, c)
  BY <1>3
<1>5. PICK c \in BindClaim(text, refs, pool) : claims' = Append(claims, c)
  BY <1>4
<1>6. IsFiniteSet(text)
  BY <1>3, WorldAssumption DEF NamesInv
<1>7. c.verified => Supported(c)
  BY <1>5, <1>6, BoundIsSupported
<1>8. claims \in Seq(T \cup {c}) /\ c \in T \cup {c}
  BY <1>1
<1>9. /\ claims' \in Seq(T \cup {c}) /\ Len(claims) \in Nat /\ DOMAIN claims = 1..Len(claims)
      /\ DOMAIN claims' = 1..(Len(claims) + 1)
      /\ claims'[Len(claims) + 1] = c /\ \A i \in 1..Len(claims) : claims'[i] = claims[i]
  BY <1>5, <1>8, Appended
<1>10. ASSUME NEW i \in DOMAIN claims', claims'[i].verified
       PROVE  \E r \in pool : /\ CarriesId(r) /\ Ref(r.id, "id") \in claims'[i].refs
                              /\ Overlap(claims'[i].text, r) >= Threshold
  <2>1. CASE i = Len(claims) + 1
    BY <1>7, <1>9, <1>10, <2>1 DEF Supported
  <2>2. CASE i # Len(claims) + 1
    <3>1. i \in DOMAIN claims /\ claims'[i] = claims[i]
      BY <1>9, <2>2
    <3> QED
      BY <1>10, <3>1 DEF ClaimInv, Supported
  <2> QED
    BY <2>1, <2>2
<1> QED
  BY <1>2, <1>9, <1>10 DEF ClaimInv, Supported, Concluding

LEMMA NextClaimInv == NamesInv /\ ClaimInv /\ [Next]_vars => ClaimInv'
<1> SUFFICES ASSUME NamesInv, ClaimInv, [Next]_vars PROVE ClaimInv'
  OBVIOUS
<1> USE DEF Enter
<1>1. CASE Bind
  BY <1>1, BindKeeps
<1>2. ASSUME claims' = claims, phase \notin Concluding, phase' # "render", phase' # "done",
             verdict' \in {verdict, "diagnosed", "insufficient_evidence"}
      PROVE  ClaimInv'
  <2>1. claims = <<>> /\ DOMAIN claims = {}
    BY <1>2 DEF ClaimInv
  <2> QED
    BY <1>2, <2>1 DEF ClaimInv
<1>3. CASE ParseQuery \/ Inject \/ InjectEnds \/ RankPool \/ CallRaises \/ FinishReact \/ MergeReactEvidence
  BY <1>2, <1>3 DEF ParseQuery, Inject, InjectEnds, RankPool, CallRaises, FinishReact,
     MergeReactEvidence, Conclusion, Inquiry, Concluding
<1>4. ASSUME NEW route, RouteAnswers(route) \/ RouteFails(route) PROVE ClaimInv'
  BY <1>2, <1>4 DEF RouteAnswers, RouteFails, Conclusion, Concluding
<1>5. ASSUME NEW tool, CallTool(tool) \/ CallWithout(tool) PROVE ClaimInv'
  BY <1>2, <1>5 DEF CallTool, CallWithout, Conclusion, Concluding
<1>6. ASSUME UNCHANGED <<claims, pool, verdict>>, phase' = "done" => report' \in RenderMd(verdict, claims, pool),
             phase \in Concluding => phase' \in Concluding
      PROVE  ClaimInv'
  BY <1>6 DEF ClaimInv, Supported, CarriesId
<1>7. CASE EndBinding
  BY <1>6, <1>7 DEF EndBinding, Retrieval, Conclusion, Concluding
<1>8. CASE GenerateReport
  BY <1>6, <1>8 DEF GenerateReport, Retrieval, Concluding
<1>9. CASE UNCHANGED vars
  BY <1>6, <1>9 DEF vars, ClaimInv
<1> QED
  BY <1>1, <1>3, <1>4, <1>5, <1>7, <1>8, <1>9 DEF Next

------------------------------------------------------------------------------
(* The report *)

(* The row that supports a verified claim, or one with its id and its words,    *)
(* is shown, for the index has a row of every id.                               *)
LEMMA ShownSupports ==
  ASSUME NamesInv, NEW claim, Supported(claim), NEW index \in IndexEvidence(pool)
  PROVE  \E s \in Resolved(index, claim.refs) : s \in pool /\ Overlap(claim.text, s) >= Threshold
<1>1. PICK r \in pool : CarriesId(r) /\ Ref(r.id, "id") \in claim.refs /\ Overlap(claim.text, r) >= Threshold
  BY DEF Supported
<1>2. PICK s \in index : s.id = r.id /\ s \in pool /\ CarriesId(s)
  BY <1>1, IndexRows DEF IndexEvidence
<1>3. s.words = r.words
  BY <1>1, <1>2, IdNamesWords DEF NamesInv
<1>4. Overlap(claim.text, s) = Overlap(claim.text, r)
  BY <1>3 DEF Overlap
<1>5. s \in Resolved(index, claim.refs)
  BY <1>1, <1>2 DEF Resolved
<1> QED
  BY <1>1, <1>2, <1>4, <1>5

LEMMA MarkedIsShown ==
  ASSUME NamesInv, ClaimInv, phase = "done", NEW i \in DOMAIN report.lines,
         report.lines[i].mark = "verified"
  PROVE  \E r \in report.lines[i].shown : r \in pool /\ Overlap(claims[i].text, r) >= Threshold
<1>1. report \in RenderMd(verdict, claims, pool)
  BY DEF ClaimInv
<1>2. CASE verdict # "diagnosed"
  BY <1>1, <1>2 DEF RenderMd, RenderInsufficient
<1>3. CASE verdict = "diagnosed"
  <2>1. PICK index \in IndexEvidence(pool) : report = RenderDiagnosed(claims, pool, index)
    BY <1>1, <1>3 DEF RenderMd
  <2>2. report.lines = [j \in 1..Smaller(ClaimsShown, Len(claims)) |-> ClaimLine(claims[j], index)]
    BY <2>1 DEF RenderDiagnosed
  <2>3. PICK T : claims \in Seq(T)
    BY DEF ClaimInv
  <2>4. i \in 1..Smaller(ClaimsShown, Len(claims)) /\ report.lines[i] = ClaimLine(claims[i], index)
    BY <2>2
  <2>5. i \in DOMAIN claims
    BY <2>3, <2>4, ClaimsAssumption DEF Smaller
  <2>6. claims[i].verified /\ report.lines[i].shown = Resolved(index, claims[i].refs)
    BY <2>4 DEF ClaimLine
  <2> QED
    BY <2>5, <2>6, ShownSupports DEF ClaimInv
<1> QED
  BY <1>2, <1>3

LEMMA GroundedIsSupported ==
  ASSUME ClaimInv, phase = "done", report.label = "grounded"
  PROVE  LET supported == {i \in DOMAIN claims :
                             \E r \in pool : /\ CarriesId(r)
                                             /\ Overlap(claims[i].text, r) >= Threshold}
         IN claims # <<>> /\ 2 * Cardinality(supported) >= Len(claims)
<1> DEFINE supported == {i \in DOMAIN claims :
                           \E r \in pool : CarriesId(r) /\ Overlap(claims[i].text, r) >= Threshold}
<1>1. report \in RenderMd(verdict, claims, pool) /\ verdict \in {"none", "diagnosed", "insufficient_evidence"}
  BY DEF ClaimInv
<1>2. verdict = "diagnosed"
  BY <1>1 DEF RenderMd, RenderInsufficient
<1>3. Groundedness("diagnosed", claims) = "grounded"
  BY <1>1, <1>2 DEF RenderMd, RenderDiagnosed
<1>4. claims # <<>> /\ 2 * Cardinality(Verified(claims)) >= Len(claims)
  <2> SUFFICES ASSUME ~ (claims # <<>> /\ 2 * Cardinality(Verified(claims)) >= Len(claims)) PROVE FALSE
    OBVIOUS
  <2>1. Groundedness("diagnosed", claims) = "speculative"
    BY DEF Groundedness
  <2> QED
    BY <1>3, <2>1
<1>5. PICK T : claims \in Seq(T)
  BY DEF ClaimInv
<1>6. IsFiniteSet(supported) /\ supported \in SUBSET Nat
  <2>1. supported \in SUBSET Nat /\ Len(claims) \in Nat /\ \A i \in supported : i <= Len(claims)
    BY <1>5
  <2> HIDE DEF supported
  <2> QED
    BY <2>1, FS_BoundedSetOfNaturals
<1>7. Verified(claims) \in SUBSET supported
  BY DEF ClaimInv, Supported, Verified
<1> HIDE DEF supported
<1>8. /\ Cardinality(Verified(claims)) <= Cardinality(supported)
      /\ Cardinality(Verified(claims)) \in Nat /\ Cardinality(supported) \in Nat /\ Len(claims) \in Nat
  BY <1>5, <1>6, <1>7, FS_Subset, FS_CardinalityType
<1>9. 2 * Cardinality(supported) >= Len(claims)
  BY <1>4, <1>8
<1> QED
  BY <1>4, <1>9 DEF supported

LEMMA JsonSaysTheSame ==
  ASSUME ClaimInv, phase = "done"
  PROVE  LET json == RenderJson(verdict, claims, pool)
         IN IF verdict = "diagnosed"
            THEN json.groundedness = report.label /\ json.verified = report.verified
            ELSE json.reason = report.label
<1>1. report \in RenderMd(verdict, claims, pool)
  BY DEF ClaimInv
<1> QED
  BY <1>1 DEF RenderMd, RenderJson, RenderDiagnosed, RenderInsufficient

(* A claim marked as verified is shown with a row of the pool that supports it, *)
(* a diagnosis called grounded has as many supported claims as it says, and the *)
(* two forms of the report agree: the binder's indexes by hash, bug and message *)
(* (diagnosis/nodes.py) and the renderer's one index (renderer.py:317) find the *)
(* same words under an id.                                                      *)
THEOREM ReportIsSupported == Spec => []ReportShowsSupport
<1>1. NamesInv /\ ClaimInv => ReportShowsSupport
  <2> SUFFICES ASSUME NamesInv, ClaimInv, phase = "done" PROVE ReportShowsSupport
    BY DEF ReportShowsSupport
  <2> QED
    BY MarkedIsShown, GroundedIsSupported, JsonSaysTheSame DEF ReportShowsSupport
<1> QED
  BY <1>1, InitPoolInv, NextPoolInv, InitNamesInv, NextNamesInv, InitClaimInv, NextClaimInv, PTL DEF Spec

------------------------------------------------------------------------------
(* What a tool says *)

LEMMA RegistryNames ==
  DOMAIN Registry = DOMAIN RetrievalTools \cup DOMAIN CommitTools \cup DOMAIN SymbolTools
                      \cup DOMAIN LineageTools \cup HostToolNames
BY DEF Registry, Catalogs, HostToolNames

FullText == {"search_commits", "search_lkml", "search_bugs", "search_syzbot", "search_cve"}

LEMMA ToolNames ==
  /\ DOMAIN RetrievalTools = FullText \cup {"search_code", "lookup_symbol"}
  /\ DOMAIN CommitTools = {"get_commit_detail", "get_commit_diff", "check_backport_status",
                           "get_regression_fixes"}
  /\ DOMAIN SymbolTools = {"get_function_source", "get_call_graph", "get_device_major_mapping",
                           "expand_query_from_symbol", "browse_subsystem_fixes",
                           "find_commits_touching_symbol"}
  /\ DOMAIN LineageTools = {"get_patch_series", "lookup_subsystem_owner",
                            "find_syzbot_fixed_by_commit", "find_similar_crashes"}
  /\ HostToolNames = {"get_mce_log", "get_edac_errors", "get_ipmi_sel", "get_hardware_inventory",
                      "parse_taint_flags", "fetch_debuginfo", "decode_stacktrace", "analyze_vmcore",
                      "parse_dmesg", "parse_sosreport", "extract_call_trace"}
<1>1. DOMAIN RetrievalTools = FullText \cup {"search_code", "lookup_symbol"}
  BY DEF RetrievalTools, FullText
<1>2. DOMAIN CommitTools = {"get_commit_detail", "get_commit_diff", "check_backport_status",
                            "get_regression_fixes"}
  BY DEF CommitTools
<1>3. DOMAIN SymbolTools = {"get_function_source", "get_call_graph", "get_device_major_mapping",
                            "expand_query_from_symbol", "browse_subsystem_fixes",
                            "find_commits_touching_symbol"}
  BY DEF SymbolTools
<1>4. DOMAIN LineageTools = {"get_patch_series", "lookup_subsystem_owner",
                             "find_syzbot_fixed_by_commit", "find_similar_crashes"}
  BY DEF LineageTools
<1>5. HostToolNames = {"get_mce_log", "get_edac_errors", "get_ipmi_sel", "get_hardware_inventory",
                       "parse_taint_flags", "fetch_debuginfo", "decode_stacktrace", "analyze_vmcore",
                       "parse_dmesg", "parse_sosreport", "extract_call_trace"}
  BY DEF HostToolNames, HardwareTools, VmcoreTools, LogTools
<1> QED
  BY <1>1, <1>2, <1>3, <1>4, <1>5

LEMMA NotOfHost ==
  ASSUME NEW tool \in DOMAIN RetrievalTools \cup DOMAIN CommitTools \cup DOMAIN SymbolTools
                        \cup DOMAIN LineageTools
  PROVE  tool \notin HostToolNames
BY ToolNames DEF FullText

LEMMA SearchTool ==
  ASSUME NEW db, NEW tool, NEW ask, NEW a \in Search(db, tool, ask)
  PROVE  a.tool = tool
<1> DEFINE rows == CASE tool = "search_commits" -> CommitRecall(db, ask, ToolLimit)
                     [] tool = "search_lkml"    -> LkmlRecall(db, ask, ToolLimit, TRUE)
                     [] tool = "search_bugs"    -> BugRecall(db, ask, ToolLimit)
                     [] tool = "search_syzbot"  -> SyzbotRecall(db, ask, ToolLimit)
                     [] tool = "search_cve"     -> CveRecall(db, ask, ToolLimit, FALSE)
<1>1. a \in {Listed(db, tool, r) : r \in rows}
  BY DEF Search
<1> HIDE DEF rows
<1> QED
  BY <1>1 DEF Listed, Answer

Bears(a, tool) == \E arg, says, shas : a = Answer(tool, arg, says, shas)

LEMMA BearsName ==
  ASSUME NEW a, NEW tool, Bears(a, tool)
  PROVE  a.tool = tool
BY DEF Bears, Answer

(* The tools that give one of several answers. *)
LEMMA ManyAnswers ==
  ASSUME NEW db, NEW a, NEW x, NEW y
  PROVE  /\ a \in CheckBackportStatus(db, x, y) => Bears(a, "check_backport_status")
         /\ a \in GetRegressionFixes(db, x, y) => Bears(a, "get_regression_fixes")
         /\ a \in FindCommitsTouchingSymbol(db, x) => Bears(a, "find_commits_touching_symbol")
<1>1. a \in CheckBackportStatus(db, x, y) => Bears(a, "check_backport_status")
  BY DEF CheckBackportStatus, Bears
<1>2. a \in GetRegressionFixes(db, x, y) => Bears(a, "get_regression_fixes")
  BY DEF GetRegressionFixes, Bears
<1>3. a \in FindCommitsTouchingSymbol(db, x) => Bears(a, "find_commits_touching_symbol")
  BY DEF FindCommitsTouchingSymbol, Bears
<1> QED
  BY <1>1, <1>2, <1>3

(* An answer bears the name of the tool that was called. *)
LEMMA ToolOfAnswer ==
  ASSUME NEW db, NEW host, NEW args, NEW tool \in DOMAIN Registry,
         NEW a \in AnswersTo(db, host, tool, args)
  PROVE  a.tool = tool
<1>1. SUFFICES Bears(a, tool)
  BY BearsName
<1>2. CASE tool \in HostToolNames
  <2>1. tool \notin DOMAIN RetrievalTools \cup DOMAIN CommitTools \cup DOMAIN SymbolTools
                      \cup DOMAIN LineageTools
    BY <1>2, NotOfHost
  <2>2. a \in {Answer(tool, None, x, {}) : x \in HostAnswers(host, tool, args.versions)}
    BY <1>2, ToolNames DEF AnswersTo
  <2> QED
    BY <2>2 DEF Bears
<1>3. CASE tool \in FullText
  <2>1. tool \notin HostToolNames
    BY <1>3, NotOfHost, ToolNames
  <2>2. a \in UNION {Search(db, tool, q) : q \in args.queries}
    BY <1>3, <2>1 DEF AnswersTo, FullText
  <2>3. a.tool = tool
    BY <2>2, SearchTool
  <2> QED
    BY <2>2 DEF Bears, Search, Listed
<1>4. CASE tool \notin HostToolNames \cup FullText
  <2>1. tool \in DOMAIN Registry \ (HostToolNames \cup FullText)
    BY <1>4
  <2>2. CASE tool = "lookup_symbol"
    <3>1. a \in {SymbolQuery(db, tool, s) : s \in args.symbols}
      BY <1>4, <2>2 DEF AnswersTo
    <3> QED
      BY <3>1 DEF SymbolQuery, Bears
  <2>3. CASE tool = "get_function_source"
    <3>1. a \in {SymbolQuery(db, tool, s) : s \in args.symbols}
      BY <1>4, <2>3 DEF AnswersTo
    <3> QED
      BY <3>1 DEF SymbolQuery, Bears
  <2>4. CASE tool = "get_call_graph"
    <3>1. a \in {SymbolQuery(db, tool, s) : s \in args.symbols}
      BY <1>4, <2>4 DEF AnswersTo
    <3> QED
      BY <3>1 DEF SymbolQuery, Bears
  <2>5. CASE tool = "expand_query_from_symbol"
    <3>1. a \in {SymbolQuery(db, tool, s) : s \in args.symbols}
      BY <1>4, <2>5 DEF AnswersTo
    <3> QED
      BY <3>1 DEF SymbolQuery, Bears
  <2>6. CASE tool = "get_device_major_mapping"
    BY <1>4, <2>6 DEF AnswersTo, Bears
  <2>7. CASE tool = "search_code"
    BY <1>4, <2>7 DEF AnswersTo, SearchCode, Bears
  <2>8. CASE tool = "get_patch_series"
    BY <1>4, <2>8 DEF AnswersTo, GetPatchSeries, Bears
  <2>9. CASE tool = "lookup_subsystem_owner"
    BY <1>4, <2>9 DEF AnswersTo, LookupSubsystemOwner, Bears
  <2>10. CASE tool = "find_syzbot_fixed_by_commit"
    BY <1>4, <2>10 DEF AnswersTo, FindSyzbotFixedByCommit, Bears
  <2>11. CASE tool = "get_commit_detail"
    <3>1. a \in {GetCommitDetail(db, x) : x \in args.shas}
      BY <1>4, <2>11 DEF AnswersTo
    <3> QED
      BY <2>11, <3>1 DEF GetCommitDetail, Bears
  <2>12. CASE tool = "get_commit_diff"
    <3>1. a \in {GetCommitDiff(db, x) : x \in args.shas}
      BY <1>4, <2>12 DEF AnswersTo
    <3> QED
      BY <2>12, <3>1 DEF GetCommitDiff, Bears
  <2>13. CASE tool = "find_similar_crashes"
    <3>1. a \in {FindSimilarCrashes(db, x) : x \in args.traces}
      BY <1>4, <2>13 DEF AnswersTo
    <3> QED
      BY <2>13, <3>1 DEF FindSimilarCrashes, Bears
  <2>14. CASE tool = "browse_subsystem_fixes"
    <3>1. a \in {BrowseSubsystemFixes(db, x) : x \in args.prefixes}
      BY <1>4, <2>14 DEF AnswersTo
    <3> QED
      BY <2>14, <3>1 DEF BrowseSubsystemFixes, Bears
  <2>15. CASE tool = "get_regression_fixes"
    <3>1. a \in UNION {GetRegressionFixes(db, x, RevertersOf(db, x)) : x \in args.shas}
      BY <1>4, <2>15 DEF AnswersTo
    <3> QED
      BY <2>15, <3>1, ManyAnswers
  <2>16. CASE tool = "find_commits_touching_symbol"
    <3>1. a \in UNION {FindCommitsTouchingSymbol(db, x) : x \in args.symbols}
      BY <1>4, <2>16 DEF AnswersTo
    <3> QED
      BY <2>16, <3>1, ManyAnswers
  <2>17. CASE tool = "check_backport_status"
    <3>1. \E x \in args.shas : \E v \in args.versions : a \in CheckBackportStatus(db, x, v)
      BY <1>4, <2>17 DEF AnswersTo
    <3> QED
      BY <2>17, <3>1, ManyAnswers
  <2> QED
    BY <2>1, <2>2, <2>3, <2>4, <2>5, <2>6, <2>7, <2>8, <2>9, <2>10, <2>11, <2>12, <2>13, <2>14,
       <2>15, <2>16, <2>17, RegistryNames, ToolNames
<1> QED
  BY <1>2, <1>3, <1>4

(* What the three tools that deny something say is so. *)
BackportTrue(db, a) ==
  LET is == BackportsOf(db, a.arg[1], a.arg[2])
  IN IF a.says = "BACKPORTED" THEN is \cap a.shas # {} ELSE is = {}

LEMMA BackportAnswers ==
  ASSUME NEW db, NEW host, NEW args, NEW a \in AnswersTo(db, host, "check_backport_status", args)
  PROVE  BackportTrue(db, a)
<1>1. "check_backport_status" \notin HostToolNames
  BY ToolNames
<1>2. PICK sha \in args.shas : \E v \in args.versions : a \in CheckBackportStatus(db, sha, v)
  BY <1>1 DEF AnswersTo
<1>3. PICK v \in args.versions : a \in CheckBackportStatus(db, sha, v)
  BY <1>2
<1> DEFINE found == BackportsOf(db, sha.commit, v)
<1>4. CASE found = {}
  <2>1. a = Answer("check_backport_status", <<sha.commit, v>>, "NOT backported", Shown(sha))
    BY <1>3, <1>4 DEF CheckBackportStatus
  <2>2. a.arg[1] = sha.commit /\ a.arg[2] = v /\ a.says = "NOT backported"
    BY <2>1 DEF Answer
  <2> QED
    BY <1>4, <2>2 DEF BackportTrue
<1>5. CASE found # {}
  <2>1. PICK c \in found : a = Answer("check_backport_status", <<sha.commit, v>>, "BACKPORTED", Shown(sha) \cup {c})
    BY <1>3, <1>5 DEF CheckBackportStatus
  <2>2. a.arg[1] = sha.commit /\ a.arg[2] = v /\ a.says = "BACKPORTED" /\ c \in a.shas
    BY <2>1 DEF Answer
  <2> QED
    BY <2>2 DEF BackportTrue
<1> QED
  BY <1>4, <1>5

RegressionTrue(db, a) ==
  a.says = "No known regression" =>
    \A c \in DOMAIN db.commit :
      /\ a.arg \in DOMAIN db.commit => a.arg \notin db.commit[c].fixes
      /\ <<c, a.arg>> \notin db.reverts

LEMMA RegressionArm ==
  ASSUME NEW db, NEW host, NEW args, NEW tool, tool \notin HostToolNames,
         NEW a \in AnswersTo(db, host, tool, args)
  PROVE  tool = "get_regression_fixes" =>
           a \in UNION {GetRegressionFixes(db, x, RevertersOf(db, x)) : x \in args.shas}
<1>1. CASE tool = "get_regression_fixes"
  BY <1>1 DEF AnswersTo
<1> QED
  BY <1>1

LEMMA RegressionAnswers ==
  ASSUME NEW db, NEW host, NEW args, NEW tool, tool = "get_regression_fixes",
         NEW a \in AnswersTo(db, host, tool, args)
  PROVE  RegressionTrue(db, a)
<1> SUFFICES ASSUME a.says = "No known regression" PROVE RegressionTrue(db, a)
  BY DEF RegressionTrue
<1>1. tool \notin HostToolNames
  BY ToolNames
<1>2. a \in UNION {GetRegressionFixes(db, x, RevertersOf(db, x)) : x \in args.shas}
  BY <1>1, RegressionArm
<1>3. PICK sha \in args.shas : a \in GetRegressionFixes(db, sha, RevertersOf(db, sha))
  BY <1>2
<1> DEFINE known == FixersOf(db, sha) \cup RevertersOf(db, sha)
<1>4. known = {} /\ a.arg = sha.commit
  <2>1. CASE known = {}
    <3>1. a = Answer("get_regression_fixes", sha.commit, "No known regression", Shown(sha))
      BY <1>3, <2>1 DEF GetRegressionFixes
    <3> QED
      BY <2>1, <3>1 DEF Answer
  <2>2. CASE known # {}
    <3>1. PICK some : a = Answer("get_regression_fixes", sha.commit, "REGRESSION/REVERT", {sha.commit} \cup some)
      BY <1>3, <2>2 DEF GetRegressionFixes
    <3>2. a.says = "REGRESSION/REVERT"
      BY <3>1 DEF Answer
    <3> QED
      BY <3>2
  <2> QED
    BY <2>1, <2>2
<1>5. ASSUME NEW c \in DOMAIN db.commit, sha.commit \in DOMAIN db.commit
      PROVE  sha.commit \notin db.commit[c].fixes
  BY <1>4, <1>5 DEF FixersOf, InTable
<1>6. ASSUME NEW c \in DOMAIN db.commit, <<c, sha.commit>> \in db.reverts
      PROVE  FALSE
  <2>1. <<c, sha.commit>>[1] = c /\ <<c, sha.commit>>[2] = sha.commit
    OBVIOUS
  <2>2. c \in {p[1] : p \in {q \in db.reverts : q[2] = sha.commit}}
    BY <1>6, <2>1
  <2> QED
    BY <1>4, <2>2 DEF RevertersOf
<1> QED
  BY <1>5, <1>6, <1>4 DEF RegressionTrue

SymbolTrue(db, a) ==
  a.says = "none" =>
    \A c \in Real(db) : a.arg \in db.commit[c].touches => db.commit[c].date < Recent

(* The limit is at least one, so no row means that none was found. *)
LEMMA SymbolAnswers ==
  ASSUME NEW w \in Worlds, NEW host, NEW args,
         NEW a \in AnswersTo(w.db, host, "find_commits_touching_symbol", args)
  PROVE  SymbolTrue(w.db, a)
<1> SUFFICES ASSUME a.says = "none" PROVE SymbolTrue(w.db, a)
  BY DEF SymbolTrue
<1>1. "find_commits_touching_symbol" \notin HostToolNames
  BY ToolNames
<1>2. PICK symbol \in args.symbols : a \in FindCommitsTouchingSymbol(w.db, symbol)
  BY <1>1 DEF AnswersTo
<1> DEFINE found == {c \in Real(w.db) : symbol \in w.db.commit[c].touches
                                          /\ w.db.commit[c].date >= Recent}
<1>3. PICK s \in SUBSET found : /\ Cardinality(s) = Smaller(ToolLimit, Cardinality(found))
                                /\ a = Answer("find_commits_touching_symbol", symbol,
                                              IF s = {} THEN "none" ELSE "newest first", s)
  BY <1>2 DEF FindCommitsTouchingSymbol
<1>4. s = {} /\ a.arg = symbol
  BY <1>3 DEF Answer
<1>5. IsFiniteSet(DOMAIN w.db.commit) /\ \A c \in DOMAIN w.db.commit : w.db.commit[c].date \in Nat
  BY WorldAssumption
<1>6. IsFiniteSet(found)
  <2>1. found \in SUBSET DOMAIN w.db.commit
    BY DEF Real
  <2> QED
    BY <1>5, <2>1, FS_Subset
<1>7. found = {}
  <2> HIDE DEF found
  <2>1. Cardinality(s) = 0
    BY <1>4, FS_EmptySet
  <2>2. Cardinality(found) \in Nat
    BY <1>6, FS_CardinalityType
  <2>3. Cardinality(found) = 0
    BY <1>3, <2>1, <2>2, ToolAssumption DEF Smaller
  <2> QED
    BY <1>6, <2>3, FS_EmptySet
<1>8. ASSUME NEW c \in Real(w.db), symbol \in w.db.commit[c].touches PROVE w.db.commit[c].date < Recent
  <2>1. w.db.commit[c].date \in Nat /\ Recent \in Nat /\ ~ (w.db.commit[c].date >= Recent)
    BY <1>5, <1>7, <1>8, ToolAssumption DEF Real
  <2> QED
    BY <2>1
<1> QED
  BY <1>4, <1>8 DEF SymbolTrue

AnswerInv == faults \in Nat /\ AnswersAreTrue

LEMMA InitAnswerInv == Init => AnswerInv
BY DEF Init, AnswerInv, AnswersAreTrue, NoAnswer, Answer

LEMMA AnsweredTrue ==
  ASSUME NamesInv, world' = world, NEW tool \in DOMAIN Registry,
         answer' \in AnswersTo(world.db, world.host, tool, world.args)
  PROVE  AnswersAreTrue'
<1>1. PICK w \in Worlds : w = world
  BY DEF NamesInv
<1>2. PICK a \in AnswersTo(w.db, w.host, tool, w.args) : a = answer'
  BY <1>1
<1>3. a.tool = tool
  BY ToolOfAnswer
<1>4. a.tool = "check_backport_status" => BackportTrue(w.db, a)
  BY <1>3, BackportAnswers
<1>5. a.tool = "get_regression_fixes" => RegressionTrue(w.db, a)
  BY <1>3, RegressionAnswers
<1>6. a.tool = "find_commits_touching_symbol" => SymbolTrue(w.db, a)
  BY <1>3, SymbolAnswers
<1>7. world' = w
  BY <1>1
<1> QED
  BY <1>2, <1>4, <1>5, <1>6, <1>7 DEF AnswersAreTrue, BackportTrue, RegressionTrue, SymbolTrue

(* An answer given without its service counts as a fault, or says so. *)
LEMMA AnsweredWithout ==
  ASSUME NEW tool, answer' \in AnswersWithout(world.db, tool, world.args), faults' # 0
  PROVE  AnswersAreTrue'
<1>1. CASE tool = "get_regression_fixes"
  <2>1. answer' \in UNION {GetRegressionFixes(world.db, s, {}) : s \in world.args.shas}
    BY <1>1 DEF AnswersWithout
  <2>2. PICK a : a = answer'
    OBVIOUS
  <2>3. a.tool = "get_regression_fixes"
    BY <2>1, <2>2, ManyAnswers, BearsName
  <2> QED
    BY <2>2, <2>3 DEF AnswersAreTrue
<1>2. CASE tool # "get_regression_fixes"
  <2>1. answer'.says = "error"
    BY <1>2 DEF AnswersWithout, Answer
  <2> QED
    BY <2>1 DEF AnswersAreTrue
<1> QED
  BY <1>1, <1>2

LEMMA NextAnswerInv == NamesInv /\ AnswerInv /\ [Next]_vars => AnswerInv'
<1> SUFFICES ASSUME NamesInv, AnswerInv, [Next]_vars PROVE AnswerInv'
  OBVIOUS
<1> USE DEF Enter
<1>1. world' = world
  BY DEF Next, ParseQuery, RouteAnswers, RouteFails, Inject, InjectEnds, RankPool, CallTool,
     CallWithout, CallRaises, FinishReact, MergeReactEvidence, Bind, EndBinding, GenerateReport, vars
<1>2. faults' \in {faults, faults + 1}
  BY DEF Next, ParseQuery, RouteAnswers, RouteFails, Inject, InjectEnds, RankPool, CallTool,
     CallWithout, CallRaises, FinishReact, MergeReactEvidence, Bind, EndBinding, GenerateReport, vars,
     Fault, Retrieval
<1>3. faults \in Nat /\ faults' \in Nat /\ (faults' = 0 => faults = 0)
  BY <1>2 DEF AnswerInv
<1>4. ASSUME answer' = answer PROVE AnswersAreTrue'
  BY <1>1, <1>3, <1>4 DEF AnswerInv, AnswersAreTrue
<1>5. ASSUME NEW tool \in Offered(world.route) \cup world.strays, CallTool(tool) PROVE AnswersAreTrue'
  <2>1. tool \in DOMAIN Registry
    BY WorldAssumption DEF NamesInv, Offered
  <2>2. answer' \in AnswersTo(world.db, world.host, tool, world.args)
    BY <1>5 DEF CallTool
  <2> QED
    BY <1>1, <2>1, <2>2, AnsweredTrue
<1>6. ASSUME NEW tool, CallWithout(tool) PROVE AnswersAreTrue'
  <2>1. answer' \in AnswersWithout(world.db, tool, world.args)
    BY <1>6 DEF CallWithout
  <2>2. faults' # 0
    BY <1>3, <1>6 DEF CallWithout, Fault
  <2> QED
    BY <2>1, <2>2, AnsweredWithout
<1>7. ASSUME CallRaises PROVE AnswersAreTrue'
  <2>1. PICK tool : answer' = Answer(tool, None, "raised", {})
    BY <1>7 DEF CallRaises
  <2>2. answer'.says = "raised"
    BY <2>1 DEF Answer
  <2> QED
    BY <2>2 DEF AnswersAreTrue
<1>8. ASSUME FinishReact PROVE AnswersAreTrue'
  <2>1. answer'.tool = "none"
    BY <1>8 DEF FinishReact, NoAnswer, Answer
  <2> QED
    BY <2>1 DEF AnswersAreTrue
<1>9. ASSUME NEW route, RouteAnswers(route) \/ RouteFails(route) PROVE AnswersAreTrue'
  BY <1>4, <1>9 DEF RouteAnswers, RouteFails, Inquiry
<1>10. ASSUME \/ ParseQuery \/ Inject \/ InjectEnds \/ RankPool \/ MergeReactEvidence \/ Bind
              \/ EndBinding \/ GenerateReport \/ UNCHANGED vars
       PROVE  AnswersAreTrue'
  BY <1>4, <1>10 DEF ParseQuery, Inject, InjectEnds, RankPool, MergeReactEvidence, Bind, EndBinding,
     GenerateReport, vars, Inquiry
<1> QED
  BY <1>3, <1>5, <1>6, <1>7, <1>8, <1>9, <1>10 DEF Next, AnswerInv

(* "No backport", "no known regression" and "no commit touches it" are true of  *)
(* every database whenever a tool says them and its service answered, for any   *)
(* arguments the model makes up (commit_tools.py, symbol_tools.py).             *)
THEOREM WhatToolsSayIsTrue == Spec => []AnswersAreTrue
<1>1. AnswerInv => AnswersAreTrue
  BY DEF AnswerInv
<1> QED
  BY <1>1, InitPoolInv, NextPoolInv, InitNamesInv, NextNamesInv, InitAnswerInv, NextAnswerInv, PTL DEF Spec
=============================================================================

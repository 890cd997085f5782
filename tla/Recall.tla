------------------------------- MODULE Recall -------------------------------
(* src/retrieval: the seven recall routes, the commits injected from the      *)
(* link tables, the normalisation of scores and the rerank.                   *)
(*                                                                            *)
(* A text is the set of its significant words, a database is a record of      *)
(* tables (db.commit, db.mail, ...: functions from ids to rows).  A rank is   *)
(* an integer, 20 for each word of the query a text has (ts_rank_cd).  Order  *)
(* is not kept: a pool is a set of rows, and a LIMIT is any set of rows none  *)
(* of which is worse than a row left out.                                     *)
EXTENDS Integers, Sequences, FiniteSets, FiniteSetsExt, Order

CONSTANTS MinAndHits,         \* hits that end the search for an AND tier
          LimitPerRoute,      \* rows a route returns at most
          InjectTopK,         \* hits of a route whose links are followed
          MaxLinksPerHit,     \* newest commits injected for one bug
          ChainLimit,         \* pairs of a Fixes: or revert chain read
          RerankCap,          \* rows shown to the reranker
          RerankTopK,         \* rows kept
          None

ASSUME RecallAssumption ==
  /\ {MinAndHits, LimitPerRoute, InjectTopK, MaxLinksPerHit} \subseteq Nat \ {0}
  /\ {ChainLimit, RerankCap, RerankTopK} \subseteq Nat \ {0}

Routes == {"code", "docs", "lkml", "bug", "syzbot", "commit", "cve"}

(* One item of evidence.  id is the commit hash, bug id, message id or CVE id *)
(* of the routes that have one; from is metadata's linked_from / source.      *)
Row(route, id, words, score, tier, from) ==
  [route |-> route, id |-> id, words |-> words, score |-> score,
   tier |-> tier, from |-> from]

CarriesId(row) == row.route \in {"commit", "bug", "lkml", "cve"}

Smaller(a, b) == IF a <= b THEN a ELSE b

(* ORDER BY score DESC LIMIT k: the sets of rows it may return. *)
Best(rows, k) ==
  {kept \in SUBSET rows :
     /\ Cardinality(kept) = Smaller(k, Cardinality(rows))
     /\ \A in \in kept, out \in rows \ kept : in.score >= out.score}

WordsOf(keys) == {keys[i] : i \in DOMAIN keys}

Rank(words, keys) == 20 * Cardinality(words \cap WordsOf(keys))

(* The words a route searches with: the query's keywords, else the question. *)
Keys(query) == IF query.keywords # <<>> THEN query.keywords ELSE query.question

(* parse_query without the model: the words, version and CVEs it can see. *)
RegexParse(question) ==
  [question |-> question.words, keywords |-> question.words,
   version |-> question.version, cves |-> question.cves]

(* The longest prefix of the keys that enough rows match entirely; when no    *)
(* prefix does, every row with one of the words (tier 0).                     *)
TieredAndQuery(route, texts, keys, limit) ==
  LET hits(n) == {x \in DOMAIN texts : {keys[i] : i \in 1..n} \subseteq texts[x]}
      enough  == {n \in 1..Len(keys) :
                    Smaller(limit, Cardinality(hits(n))) >= MinAndHits}
      tier    == IF enough = {} THEN 0 ELSE Max(enough)
      found   == IF tier > 0 THEN hits(tier)
                 ELSE {x \in DOMAIN texts : texts[x] \cap WordsOf(keys) # {}}
      used    == IF tier > 0 THEN SubSeq(keys, 1, tier) ELSE keys
  IN Best({Row(route, x, texts[x], Rank(texts[x], used), tier, "recall") :
             x \in found}, limit)

------------------------------------------------------------------------------
(* The routes.  Each is the set of row sets it may answer.                    *)

(* NOT LIKE '[stub upstream%' *)
Real(db) == {c \in DOMAIN db.commit : ~db.commit[c].stub}

CommitWords(db, c) == db.commit[c].subject \cup db.commit[c].body

CommitRecall(db, query, limit) ==
  LET asked == {c \in Real(db) : \/ query.version = None
                                 \/ query.version \in db.commit[c].versions}
  IN TieredAndQuery("commit", [c \in asked |-> CommitWords(db, c)], Keys(query), limit)

BugRecall(db, query, limit) ==
  TieredAndQuery("bug", [b \in DOMAIN db.bug |-> db.bug[b].words], Keys(query), limit)

SyzbotRecall(db, query, limit) ==
  TieredAndQuery("syzbot", [s \in DOMAIN db.crash |-> db.crash[s].words],
                 Keys(query), limit)

(* The ids the query names, then full text for the slots that are left: an id *)
(* may come twice.  A failed search (broken) keeps the named ones.            *)
CveRecall(db, query, limit, broken) ==
  LET named == {Row("cve", v, db.cve[v].words, 60, 0, "exact") :
                  v \in query.cves \cap DOMAIN db.cve}
      left  == limit - Cardinality(named)
  IN IF broken \/ left <= 0 THEN {named}
     ELSE {named \cup more :
             more \in TieredAndQuery("cve", [v \in DOMAIN db.cve |-> db.cve[v].words],
                                     Keys(query), left)}

(* Both sources brought to the scale 0..60, a message of both kept once with  *)
(* the archive's text and the better score.                                   *)
Scaled(rows) ==
  LET most == Max({r.score : r \in rows} \cup {0})
  IN {[r EXCEPT !.score = IF most = 0 THEN 0 ELSE (60 * @) \div most] : r \in rows}

LkmlMerge(local, remote, limit) ==
  LET here   == Scaled(local)
      there  == Scaled(remote)
      lifted == {[r EXCEPT !.score =
                    Max({@} \cup {t.score : t \in {u \in there : u.id = r.id}})] :
                 r \in here}
  IN Best(lifted \cup {t \in there : t.id \notin {r.id : r \in here}}, limit)

(* lore.kernel.org's search, in its order; nothing when it cannot be reached. *)
LoreSearch(db, keys) ==
  Part(db.lore, {i \in DOMAIN db.lore : db.lore[i].words \cap WordsOf(keys) # {}})

LoreRecall(db, query, limit, reachable) ==
  LET hits == LoreSearch(db, Keys(query))
      n    == Smaller(limit, Len(hits))
  IN IF ~reachable THEN {}
     ELSE {Row("lkml", hits[i].id, hits[i].words, (60 * (n - i + 1)) \div n, 0, "recall") :
             i \in 1..n}

LkmlRecall(db, query, limit, reachable) ==
  UNION {LkmlMerge(local, LoreRecall(db, query, limit, reachable), limit) :
           local \in TieredAndQuery("lkml", [m \in DOMAIN db.mail |-> db.mail[m].words],
                                    Keys(query), limit)}

(* CodeGraph's full-text search: every word must be in the file (external). *)
CodeHits(db, words) == {f \in DOMAIN db.file : words \subseteq db.file[f].words}

CodeRows(db, route, files, keys) ==
  {Row(route, f, db.file[f].words, Rank(db.file[f].words, keys), 0, "recall") : f \in files}

(* Without CodeGraph: subjects of the commits that match, stubs included, each *)
(* a row of the code route that carries no commit hash.                       *)
SearchCodeDegraded(db, keys, limit) ==
  Best({Row("code", c, db.commit[c].subject, Rank(CommitWords(db, c), keys), 0, "degraded") :
          c \in {x \in DOMAIN db.commit : CommitWords(db, x) \cap WordsOf(keys) # {}}},
       limit)

CodeRecall(db, query, limit, healthy) ==
  IF ~healthy THEN SearchCodeDegraded(db, Keys(query), limit)
  ELSE Best(CodeRows(db, "code", CodeHits(db, WordsOf(Keys(query))), Keys(query)), limit)

(* The documents' table; when it gives nothing (or fails), the documentation  *)
(* files CodeGraph finds.                                                     *)
DocsRecall(db, query, limit, broken, healthy) ==
  LET keys  == Keys(query)
      found == IF broken THEN {}
               ELSE {d \in DOMAIN db.doc : db.doc[d].words \cap WordsOf(keys) # {}}
      files == {f \in CodeHits(db, WordsOf(keys)) : db.file[f].isDoc}
  IN IF found # {}
     THEN Best({Row("docs", d, db.doc[d].words, Rank(db.doc[d].words, keys), 0, "recall") :
                  d \in found}, limit)
     ELSE Best(CodeRows(db, "docs", IF healthy THEN files ELSE {}, keys), limit)

(* What route may answer while the services in down cannot be reached. *)
RecallBy(db, query, route, down) ==
  LET healthy == "codegraph" \notin down
  IN CASE route = "commit" -> CommitRecall(db, query, LimitPerRoute)
       [] route = "bug"    -> BugRecall(db, query, LimitPerRoute)
       [] route = "syzbot" -> SyzbotRecall(db, query, LimitPerRoute)
       [] route = "cve"    -> CveRecall(db, query, LimitPerRoute, FALSE)
       [] route = "lkml"   -> LkmlRecall(db, query, LimitPerRoute, "lore" \notin down)
       [] route = "code"   -> CodeRecall(db, query, LimitPerRoute, healthy)
       [] route = "docs"   -> DocsRecall(db, query, LimitPerRoute, FALSE, healthy)

(* What it leaves when its own statements fail: the named CVEs, the fallback   *)
(* of the documents, and nothing of the others.                               *)
RecallBroken(db, query, route, down) ==
  CASE route = "cve"  -> CveRecall(db, query, LimitPerRoute, TRUE) \cup {{}}
    [] route = "docs" -> DocsRecall(db, query, LimitPerRoute, TRUE, "codegraph" \notin down)
    [] OTHER          -> {{}}

------------------------------------------------------------------------------
(* Injection: five queries, in order, each following the links of the best    *)
(* hits of one route.                                                         *)

InjectSources == <<"lkml", "cve", "bug", "fixes", "revert">>

InjectRoute(source) == IF source \in {"fixes", "revert"} THEN "commit" ELSE source

TopByScore(pool, route) ==
  Best({r \in pool : r.route = route /\ r.from \in {"recall", "exact"}}, InjectTopK)

(* Of two hits of one id the lower score stays. *)
ScoreOf(top, id) == Min({r.score : r \in {t \in top : t.id = id}})

(* The dates of the commits of one bug differ. *)
NewestOf(db, commits) ==
  {c \in commits :
     Cardinality({d \in commits : db.commit[d].date > db.commit[c].date}) < MaxLinksPerHit}

(* The commits linked to the hits, each with a score it may be given. *)
LinkedTo(db, top) ==
  {[commit |-> l[1], score |-> (ScoreOf(top, l[2]) * 18) \div 20] :
     l \in {k \in db.link : k[2] \in {t.id : t \in top} /\ k[1] \in Real(db)}}

LinkedToBugs(db, top) ==
  UNION {LET fixers == {k[1] : k \in {l \in db.link : l[2] = b}} \cap Real(db)
         IN {[commit |-> c, score |-> (ScoreOf(top, b) * 18) \div 20] :
               c \in NewestOf(db, fixers)} :
         b \in {t.id : t \in top}}

(* A chain is followed both ways. *)
Chained(db, pairs, top) ==
  LET ids  == {t.id : t \in top}
      ways == {<<p[1], p[2]>> : p \in pairs} \cup {<<p[2], p[1]>> : p \in pairs}
      hops == {w \in ways : w[1] \in ids /\ w[2] \in Real(db)}
  IN {{[commit |-> w[2], score |-> (ScoreOf(top, w[1]) * 17) \div 20] : w \in read} :
        read \in {s \in SUBSET hops : Cardinality(s) = Smaller(ChainLimit, Cardinality(hops))}}

Candidates(db, source, top) ==
  CASE source \in {"lkml", "cve"} -> {LinkedTo(db, top)}
    [] source = "bug"             -> {LinkedToBugs(db, top)}
    [] source = "fixes"           -> Chained(db, db.fixes, top)
    [] source = "revert"          -> Chained(db, db.reverts, top)

Present(pool) == {r.id : r \in {x \in pool : x.route = "commit"}}

(* The first row read of a commit that is not there yet adds it. *)
InjectRows(db, source, pool, cands) ==
  LET new == {c.commit : c \in cands} \ Present(pool)
  IN {{Row("commit", c, db.commit[c].subject, pick[c], 0, source) : c \in new} :
        pick \in {f \in [new -> {c.score : c \in cands}] :
                    \A c \in new : [commit |-> c, score |-> f[c]] \in cands}}

------------------------------------------------------------------------------
(* Ranking                                                                    *)

(* Scores are divided by the best of the route and raised by a quarter for    *)
(* each keyword of the tier.                                                  *)
RouteMax(pool, route) ==
  LET most == Max({0} \cup {r.score : r \in {x \in pool : x.route = route}})
  IN IF most = 0 THEN 1 ELSE most

Outranks(pool, r, s) ==
  r.score * (4 + r.tier) * RouteMax(pool, s.route)
    > s.score * (4 + s.tier) * RouteMax(pool, r.route)

TopRanked(pool, k) ==
  {kept \in SUBSET pool :
     /\ Cardinality(kept) = Smaller(k, Cardinality(pool))
     /\ \A r \in kept, s \in pool \ kept : ~Outranks(pool, s, r)}

(* The model's scores are its own: any of the candidates may come out on top. *)
LlmRerank(pool) ==
  UNION {{kept \in SUBSET shown :
            Cardinality(kept) = Smaller(RerankTopK, Cardinality(shown))} :
         shown \in TopRanked(pool, RerankCap)}
==============================================================================

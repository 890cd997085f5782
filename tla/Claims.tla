------------------------------- MODULE Claims -------------------------------
(* agent/diagnosis/nodes.py (bind_claims) and agent/report/renderer.py: the   *)
(* claims of a final answer checked against the pool of evidence, and what    *)
(* the report says of each.                                                   *)
EXTENDS Recall

CONSTANTS Threshold,      \* least overlap of a supported claim, in percent (20)
          ClaimsShown     \* claims the report goes into (5)

ASSUME ClaimsAssumption == Threshold \in 1..100 /\ ClaimsShown \in Nat \ {0}

(* The share of the claim's words that the row's title and body have. *)
Overlap(text, row) ==
  IF text = {} THEN 0 ELSE (100 * Cardinality(text \cap row.words)) \div Cardinality(text)

(* A dictionary keyed by id holds one row of each: the last one put there,    *)
(* and the order of the pool is not kept.                                     *)
OnePerId(rows) ==
  LET twice == {r \in rows : \E s \in rows \ {r} : s.id = r.id}
  IN {(rows \ twice) \cup kept :
        kept \in {k \in SUBSET twice :
                    \A r \in twice : Cardinality({s \in k : s.id = r.id}) = 1}}

(* evidence_by_hash, _by_bug and _by_msg: no CVE. *)
Citable(pool) == {r \in pool : r.route \in {"commit", "bug", "lkml"}}

(* A reference is an id, or the form the prompt shows a bug in ("bug#7"),     *)
(* which no dictionary has.                                                   *)
Ref(id, form) == [id |-> id, form |-> form]

RefsTo(row) == {Ref(row.id, "id")} \cup (IF row.route = "bug" THEN {Ref(row.id, "shown")} ELSE {})

Resolved(rows, refs) == {r \in rows : Ref(r.id, "id") \in refs}

Strength(text, rows) == Max({0} \cup {Overlap(text, r) : r \in rows})

(* Mutant of BindClaim: a reference that exists is enough. *)
BindClaimByExistence(text, refs, pool) ==
  {[text |-> text, refs |-> refs, verified |-> Resolved(index, refs) # {}] :
     index \in OnePerId(Citable(pool))}

(* Supported by what it cites, or by the best row of the pool when that row   *)
(* has an id to attach; the best of several is the first in the pool.         *)
BindClaim(text, refs, pool) ==
  UNION {LET cited == Resolved(index, refs)
             best  == {r \in pool : \A s \in pool : Overlap(text, r) >= Overlap(text, s)}
             own   == Strength(text, cited) >= Threshold
         IN IF own \/ Strength(text, pool) < Threshold
            THEN {[text |-> text, refs |-> refs, verified |-> cited # {} /\ own]}
            ELSE {[text |-> text, verified |-> CarriesId(r),
                   refs |-> refs \cup (IF CarriesId(r) THEN {Ref(r.id, "id")} ELSE {})] :
                    r \in best} :
         index \in OnePerId(Citable(pool))}

Verified(claims) == {i \in DOMAIN claims : claims[i].verified}

Groundedness(verdict, claims) ==
  CASE verdict # "diagnosed" -> "n/a"
    [] verdict = "diagnosed" /\ claims # <<>>
         /\ 2 * Cardinality(Verified(claims)) >= Len(claims) -> "grounded"
    [] OTHER -> "speculative"

------------------------------------------------------------------------------
(* The report *)

(* _index_evidence: every row with an id, CVEs too. *)
IndexEvidence(pool) == OnePerId({r \in pool : CarriesId(r)})

(* The line of a claim: its mark, the rows shown for its references, and the  *)
(* references struck out because no row has them.                             *)
ClaimLine(claim, index) ==
  [mark   |-> IF claim.verified THEN "verified" ELSE "speculative",
   shown  |-> Resolved(index, claim.refs),
   struck |-> {r \in claim.refs : Resolved(index, {r}) = {}}]

RenderInsufficient(verdict) ==
  [label |-> verdict, verified |-> 0, pool |-> 0, lines |-> <<>>]

RenderDiagnosed(claims, pool, index) ==
  [label    |-> Groundedness("diagnosed", claims),
   verified |-> Cardinality(Verified(claims)),
   pool     |-> Cardinality(pool),
   lines    |-> [i \in 1..Smaller(ClaimsShown, Len(claims)) |-> ClaimLine(claims[i], index)]]

RenderMd(verdict, claims, pool) ==
  IF verdict # "diagnosed" THEN {RenderInsufficient(verdict)}
  ELSE {RenderDiagnosed(claims, pool, index) : index \in IndexEvidence(pool)}

RenderJson(verdict, claims, pool) ==
  IF verdict # "diagnosed" THEN [reason |-> verdict]
  ELSE [groundedness |-> Groundedness(verdict, claims), claims |-> Len(claims),
        verified |-> Cardinality(Verified(claims)), evidence |-> Cardinality(pool)]
==============================================================================

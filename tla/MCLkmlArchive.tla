--------------------------- MODULE MCLkmlArchive ---------------------------
(***************************************************************************)
(* A patch on the first list, a reply to it on the second and a reply to   *)
(* that one on the first, all but one linked from a commit.                *)
(***************************************************************************)
EXTENDS LkmlArchive

CONSTANTS L1, L2, M1, M2, M3

MCLists     == <<L1, L2>>
MCMessages  == {M1, M2, M3}
MCListOf    == M1 :> L1 @@ M2 :> L2 @@ M3 :> L1
MCDay       == M1 :> 1 @@ M2 :> 2 @@ M3 :> 2
MCAncestors == M1 :> <<>> @@ M2 :> <<M1>> @@ M3 :> <<M2, M1>>
MCPatches   == {M1}
MCReferenced == {M1, M2}
MCLate      == {M1}
MCAsked     == {M1}
============================================================================

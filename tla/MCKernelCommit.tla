--------------------------- MODULE MCKernelCommit ---------------------------
(* TLC instance of KernelCommit: an OLK branch that starts from mainline,  *)
(* has a merge and a backport of the second mainline commit.               *)
EXTENDS KernelCommit, TLC

CONSTANTS base, fix, merge, backport

MCSources == <<"olk", "mainline">>
MCHistory == [s \in {"olk", "mainline"} |->
                IF s = "olk" THEN <<base, merge, backport>> ELSE <<base, fix>>]
MCUpstream == [h \in Hash |-> IF h = backport THEN fix ELSE None]

(* A shorter one for two ingesters: mainline holds one commit, which the   *)
(* OLK branch starts from and a later OLK commit names as its upstream.    *)
MCShortHistory == [s \in {"olk", "mainline"} |->
                     IF s = "olk" THEN <<fix, backport>> ELSE <<fix>>]

MCProcesses == Permutations(Run)
=============================================================================

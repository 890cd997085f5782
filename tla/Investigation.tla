--------------------------- MODULE Investigation ---------------------------
(***************************************************************************)
(* What run_react_loop promises to its callers (agent/react/nodes.py and   *)
(* web/streaming_pipeline.py), leaving out how the verdict is reached: the *)
(* step numbers it reports grow by one from 1 to at most MaxIter, a tool   *)
(* call is reported under the step that made it, and an investigation that *)
(* returns has reported exactly one terminate event, the last event, with  *)
(* the verdict it returns.  An investigation whose provider raises reports *)
(* no terminate event.                                                     *)
(***************************************************************************)
EXTENDS Naturals

CONSTANTS Verdict,   \* the four verdicts of ReactResult
          MaxIter,   \* bound on the steps of one investigation, a positive number
          None       \* no verdict yet, not a verdict

VARIABLES phase,     \* "running", "announced", "returned" or "raised"
          round,     \* the last step reported, 0 before the first
          announced, \* the verdict of the terminate event, None before it
          returned   \* the verdict the caller received, None before it

iVars == <<phase, round, announced, returned>>

InvestigationInit ==
  /\ phase = "running"
  /\ round = 0
  /\ announced = None
  /\ returned = None

(* A step_start event. *)
ReportStep ==
  /\ phase = "running"
  /\ round < MaxIter
  /\ round' = round + 1
  /\ UNCHANGED <<phase, announced, returned>>

(* A terminate event, after at least one step: the last event. *)
Announce(v) ==
  /\ phase = "running"
  /\ round > 0
  /\ phase' = "announced"
  /\ announced' = v
  /\ UNCHANGED <<round, returned>>

(* The caller receives the announced verdict. *)
Return ==
  /\ phase = "announced"
  /\ phase' = "returned"
  /\ returned' = announced
  /\ UNCHANGED <<round, announced>>

(* The provider raises: the caller sees the exception. *)
Raise ==
  /\ phase = "running"
  /\ round > 0
  /\ phase' = "raised"
  /\ UNCHANGED <<round, announced, returned>>

InvestigationNext ==
  \/ ReportStep
  \/ \E v \in Verdict : Announce(v)
  \/ Return
  \/ Raise

InvestigationSafety == InvestigationInit /\ [][InvestigationNext]_iVars

(* Every investigation ends: its caller gets a verdict or an exception. *)
InvestigationEnds == <>(phase \in {"returned", "raised"})

InvestigationSpec == InvestigationSafety /\ InvestigationEnds
=============================================================================

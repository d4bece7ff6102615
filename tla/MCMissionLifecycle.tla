------------------------- MODULE MCMissionLifecycle -------------------------
(***************************************************************************)
(* Instances of MissionLifecycle for TLC.  The identifiers are model       *)
(* values given by the .cfg files; every slot of the blueprint is in an    *)
(* objective of its own, so that both levels of compute_outcome() matter.  *)
(***************************************************************************)
EXTENDS MissionLifecycle, TLC

CONSTANTS m1    \* the mission a run finds in the database

SeparateObjectives == [s \in Slots |-> s]

NoPolicy      == <<>>
TwoButOneLive == m1 :> [max_total |-> 2, max_concurrent |-> 1]

LimitSymmetry == Permutations(Assignments)
=============================================================================

------------------------- MODULE MCLeaveGeneration -------------------------
(***************************************************************************)
(* Small instances of LeaveGeneration for TLC.                             *)
(***************************************************************************)
EXTENDS LeaveGeneration, TLC

Symmetry == Permutations(Task) \cup Permutations(Runner)
=============================================================================

---------------------------- MODULE MCFairShare -----------------------------
(***************************************************************************)
(* Small instances of FairShare for TLC: job 1 the majority of workers can *)
(* run, job 2 only a minority, and job 3, which everybody can run, joins.  *)
(***************************************************************************)
EXTENDS FairShare, TLC

Runs == [h \in Request |-> IF h = "majority" THEN {1, 3} ELSE {1, 2, 3}]

Start   == <<1, 1, 0>>
Ahead6  == <<6, 0, 0>>
Changes == {<< <<3, 1>> >>, << <<1, 2>> >>, << <<1, 0>> >>}

(* And where job 1 is parked, so that the majority has nothing to run.     *)
Parked     == <<0, 1, 0>>
Ahead0     == <<0, 0, 0>>
Activation == {<< <<3, 1>> >>}
=============================================================================

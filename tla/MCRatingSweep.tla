---------------------------- MODULE MCRatingSweep ----------------------------
(***************************************************************************)
(* A small instance of RatingSweep for TLC: one job between two configs.   *)
(***************************************************************************)
EXTENDS RatingSweep, TLC

PlayersOf == "ab" :> {"a", "b"}
=============================================================================

-------------------------- MODULE MCClaimDeadlines --------------------------
(* A small instance of ClaimDeadlines for TLC. *)
EXTENDS ClaimDeadlines
=============================================================================

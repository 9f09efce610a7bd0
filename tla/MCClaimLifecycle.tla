-------------------------- MODULE MCClaimLifecycle --------------------------
(***************************************************************************)
(* Small instances of ClaimLifecycle for TLC.  Handlers, tokens and        *)
(* workers are interchangeable: nothing in the specification tells one     *)
(* from another, so the safety runs take them up to permutation.           *)
(***************************************************************************)
EXTENDS ClaimLifecycle, TLC

Symmetry == Permutations(Handler) \cup Permutations(Token) \cup Permutations(Worker)
=============================================================================

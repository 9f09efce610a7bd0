--------------------------- MODULE MCOpeningRacks ---------------------------
(***************************************************************************)
(* Small instances of OpeningRacks for TLC.                                *)
(***************************************************************************)
EXTENDS OpeningRacks

(* One analysis a rack; or two, settled even when they disagree.           *)
Settings == {[min |-> 1, max |-> 1, pct |-> 51], [min |-> 2, max |-> 2, pct |-> 70]}
=============================================================================

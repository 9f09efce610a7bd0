---------------------------- MODULE LeaveTotals ----------------------------
(***************************************************************************)
(* What leave generation promises of a job's results, whatever staging,    *)
(* merging, sweeping and taking over it does on the way: a result accepted *)
(* for the current generation is in that generation's totals exactly once, *)
(* a generation closes only when those totals have every rack at its       *)
(* target, generations close in order, and nothing is added to one that    *)
(* has closed.                                                             *)
(*                                                                         *)
(* LeaveGeneration is the detailed specification that implements this one. *)
(***************************************************************************)
EXTENDS Integers

CONSTANTS
  Rack,         \* the full racks of the job's universe
  Generations,  \* how many generations the job builds
  Target        \* the occurrences every rack needs in each

VARIABLES
  total,  \* total[g][r]: the occurrences of rack r accepted for generation g
  closed  \* how many generations have closed

vars == <<total, closed>>

Generation == 1..Generations

Init ==
  /\ total = [g \in Generation |-> [r \in Rack |-> 0]]
  /\ closed = 0

(* A result of the current generation: the racks in R occurred once more. *)
Accept(R) ==
  /\ closed + 1 \in Generation
  /\ total' = [total EXCEPT ![closed + 1] =
                 [r \in Rack |-> @[r] + IF r \in R THEN 1 ELSE 0]]
  /\ UNCHANGED closed

Close ==
  /\ closed + 1 \in Generation
  /\ \A r \in Rack : total[closed + 1][r] >= Target
  /\ closed' = closed + 1
  /\ UNCHANGED total

Empty ==
  /\ total' = [g \in Generation |-> [r \in Rack |-> 0]]
  /\ closed' = 0

Next == (\E R \in SUBSET Rack : Accept(R)) \/ Close \/ Empty

Spec == Init /\ [][Next]_vars
=============================================================================

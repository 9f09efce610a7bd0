----------------------------- MODULE BodyBudget -----------------------------
(***************************************************************************)
(* Large results on their way in: each reserves its declared length from   *)
(* one budget, and from its sender's share of it, before a byte is read;   *)
(* keeps it while it is parsed, waits for a turn and is stored; and gives  *)
(* it back when its request ends, whichever way: refused, stalled, told to *)
(* come back, or dropped in the middle because its sender hung up.         *)
(***************************************************************************)
EXTENDS Integers, FiniteSets, Functions

CONSTANTS
  Request, \* requests with a large body
  Owner,   \* identities: keys, anonymous workers
  Budget,  \* the units of LARGE_BODIES
  Share,   \* LARGE_BODY_SHARE_KIB: what one identity may hold
  Turns    \* LARGE_RESULT_DECODES

VARIABLES
  free,  \* permits of the budget
  held,  \* held[o]: LargeBodies.owners
  turns, \* permits of LARGE_RESULT_DECODES
  req    \* req[r]: where a request is, whose it is and what it declared

vars == <<free, held, turns, req>>

NoRequest == [at |-> "none", owner |-> {}, units |-> 0]

Init ==
  /\ free = Budget /\ turns = Turns
  /\ held = [o \in Owner |-> 0]
  /\ req = [r \in Request |-> NoRequest]

To(r, at) == req' = [req EXCEPT ![r].at = at]
Charge(o, units) == held' = [held EXCEPT ![o] = @ + units]

(* All of it or none, under the owners' lock: the share is checked, the    *)
(* permits are taken, the owner is charged.  The slip kept for comparison  *)
(* charges the owner before it has the permits.                            *)
Reserve_OwnerFirst(r, o, units) ==
  /\ req[r].at = "none" /\ held[o] + units <= Share
  /\ Charge(o, units)
  /\ IF units <= free
     THEN /\ free' = free - units
          /\ req' = [req EXCEPT ![r] = [at |-> "reading", owner |-> {o}, units |-> units]]
     ELSE UNCHANGED <<free, req>>
  /\ UNCHANGED turns

Reserve(r, o, units) ==
  /\ req[r].at = "none" /\ held[o] + units <= Share
  /\ units <= free
  /\ Charge(o, units)
  /\ free' = free - units
  /\ req' = [req EXCEPT ![r] = [at |-> "reading", owner |-> {o}, units |-> units]]
  /\ UNCHANGED turns

(* All of it came, within its deadline and without a stall, and parses.    *)
Arrives(r) ==
  /\ req[r].at = "reading"
  /\ To(r, "parsing")
  /\ UNCHANGED <<free, held, turns>>

(* Its claim is live and nothing holds its job's claims.                   *)
Checked(r) ==
  /\ req[r].at = "parsing"
  /\ To(r, "waiting")
  /\ UNCHANGED <<free, held, turns>>

TakesTurn(r) ==
  /\ req[r].at = "waiting" /\ turns > 0
  /\ turns' = turns - 1
  /\ To(r, "storing")
  /\ UNCHANGED <<free, held>>

(* The request ends: late, stalled, too long, malformed, stale, without a  *)
(* turn in time, stored, or dropped.  What it holds is dropped in turn:    *)
(* its turn, the permits, and last, under the lock, its owner's charge.    *)
Ends(r) ==
  /\ req[r].at \in {"reading", "parsing", "waiting", "storing"}
  /\ turns' = IF req[r].at = "storing" THEN turns + 1 ELSE turns
  /\ To(r, "permits")
  /\ UNCHANGED <<free, held>>

GivesPermits(r) ==
  /\ req[r].at = "permits"
  /\ free' = free + req[r].units
  /\ To(r, "share")
  /\ UNCHANGED <<held, turns>>

GivesShare(r) ==
  /\ req[r].at = "share"
  /\ held' = [o \in Owner |-> IF o \in req[r].owner THEN held[o] - req[r].units ELSE held[o]]
  /\ req' = [req EXCEPT ![r] = NoRequest]
  /\ UNCHANGED <<free, turns>>

Next ==
  \E r \in Request :
    \/ \E o \in Owner, units \in 1..Share : Reserve(r, o, units)
    \/ Arrives(r) \/ Checked(r) \/ TakesTurn(r)
    \/ Ends(r) \/ GivesPermits(r) \/ GivesShare(r)

Spec == Init /\ [][Next]_vars

(***************************************************************************)
(* Properties                                                              *)
(***************************************************************************)
Charged(r) == req[r].at \notin {"none", "share"}
Units(rs)  == SumFunctionOnSet([r \in Request |-> req[r].units], rs)

(* Nothing of the budget is lost or given twice, wherever a request ends   *)
(* and whoever reserves meanwhile: what is not free is what the requests   *)
(* under way declared, each owner is charged for its own, no more than its *)
(* share, and every turn not free is a request's that is being stored.     *)
BudgetAddsUp ==
  /\ free + Units({r \in Request : Charged(r)}) = Budget
  /\ \A o \in Owner :
       held[o] <= Share /\ held[o] = Units({r \in Request : o \in req[r].owner})
  /\ turns + Cardinality({r \in Request : req[r].at = "storing"}) = Turns
  /\ free >= 0 /\ turns >= 0
=============================================================================

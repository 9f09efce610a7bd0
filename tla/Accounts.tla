------------------------------ MODULE Accounts ------------------------------
(***************************************************************************)
(* Accounts that are registered under one username and address, one after *)
(* another: their confirmation, their sessions, keys and reset links, and  *)
(* their deletion.  Hashing and checking a password is slow and is done    *)
(* with nothing locked, so what a request read before it may have changed  *)
(* by the time it acts; a transaction that writes an account holds its row *)
(* from the start, and is one step here.                                   *)
(*                                                                         *)
(* A password is told by how many the account has had.  Codes and links    *)
(* are secrets: only who was mailed one presents it.  Rate limits and the  *)
(* mails themselves are left out.                                          *)
(***************************************************************************)
EXTENDS Integers, FiniteSets

CONSTANTS
  Account,    \* rows of users
  Link,       \* reset links an account may have out
  MaxKeys,    \* MAX_API_KEYS
  MaxChanges  \* bound: resets and sign-outs of one account

VARIABLES
  user,     \* user[a]: status, code, password, session_generation, keys
  links,    \* links[a]: its reset links neither used nor expired
  sessions, \* sessions[a]: the tokens issued: for which password, of which generation
  login,    \* login[a]: what a login has read and is checking the password against
  signup,   \* the accounts a registration is hashing a password for
  adding,   \* adding[a]: requests for a key that have passed CurrentUser
  asking,   \* the accounts a request for a link has read
  redeem    \* redeem[a]: the links of resets that are hashing the new password

vars == <<user, links, sessions, login, signup, adding, asking, redeem>>

NoUser  == [status |-> "none", code |-> "none", password |-> 0, generation |-> 0, keys |-> 0]
NoLogin == [password |-> 0, generation |-> 0]

Init ==
  /\ user = [a \in Account |-> NoUser]
  /\ links = [a \in Account |-> {}] /\ sessions = [a \in Account |-> {}]
  /\ login = [a \in Account |-> NoLogin]
  /\ signup = {}
  /\ adding = [a \in Account |-> 0]
  /\ asking = {} /\ redeem = [a \in Account |-> {}]

Holds(a) == user[a].status \in {"unconfirmed", "confirmed"}
Taken    == \E a \in Account : Holds(a)

(***************************************************************************)
(* Registration                                                            *)
(***************************************************************************)
(* An account that never confirmed, and whose code has expired, gives up   *)
(* its name.  The slip kept for comparison asks for a live code only.      *)
Released_ByCode(a) == Holds(a) /\ user[a].code # "live"

Released(a) == user[a].status = "unconfirmed" /\ user[a].code # "live"

Register(a) ==
  /\ user[a].status = "none" /\ a \notin signup
  /\ user' = [b \in Account |-> IF Released(b) THEN NoUser ELSE user[b]]
  /\ signup' = IF \E b \in Account : Holds(b) /\ ~Released(b) THEN signup ELSE signup \cup {a}
  /\ UNCHANGED <<links, sessions, login, adding, asking, redeem>>

(* The password is hashed; a name taken meanwhile fails the insert.        *)
RegisterInserts(a) ==
  /\ a \in signup
  /\ user' = IF Taken THEN user
             ELSE [user EXCEPT ![a] = [NoUser EXCEPT !.status = "unconfirmed", !.code = "live",
                                                     !.password = 1]]
  /\ signup' = signup \ {a}
  /\ UNCHANGED <<links, sessions, login, adding, asking, redeem>>

CodeExpires(a) ==
  /\ user[a].code = "live"
  /\ user' = [user EXCEPT ![a].code = "expired"]
  /\ UNCHANGED <<links, sessions, login, signup, adding, asking, redeem>>

ConfirmEmail(a) ==
  /\ user[a].code = "live"
  /\ user' = [user EXCEPT ![a].code = "used", ![a].status = "confirmed"]
  /\ UNCHANGED <<links, sessions, login, signup, adding, asking, redeem>>

(***************************************************************************)
(* Sessions                                                                *)
(***************************************************************************)
(* A login that knows the password: what it will be checked against is     *)
(* read first, with the generation.                                        *)
LoginReads(a) ==
  /\ user[a].status = "confirmed" /\ login[a] = NoLogin
  /\ login' = [login EXCEPT ![a] = [password |-> user[a].password,
                                    generation |-> user[a].generation]]
  /\ UNCHANGED <<user, links, sessions, signup, adding, asking, redeem>>

(* The slip kept for comparison reads the generation when it issues.       *)
Issued_AtIssue(a) == [login[a] EXCEPT !.generation = user[a].generation]

Issued(a) == login[a]

LoginIssues(a) ==
  /\ login[a] # NoLogin
  /\ sessions' = [sessions EXCEPT ![a] = @ \cup {Issued(a)}]
  /\ login' = [login EXCEPT ![a] = NoLogin]
  /\ UNCHANGED <<user, links, signup, adding, asking, redeem>>

(* CurrentUser: a deleted account, or an earlier generation, matches no row.*)
Accepted(a, s) == Holds(a) /\ s.generation = user[a].generation

SignedIn(a) == \E s \in sessions[a] : Accepted(a, s)

SignOutEverywhere(a) ==
  /\ SignedIn(a) /\ user[a].generation < MaxChanges
  /\ user' = [user EXCEPT ![a].generation = @ + 1]
  /\ UNCHANGED <<links, sessions, login, signup, adding, asking, redeem>>

(***************************************************************************)
(* Keys                                                                    *)
(***************************************************************************)
AsksForKey(a) ==
  /\ SignedIn(a) /\ adding[a] < MaxKeys + 1
  /\ adding' = [adding EXCEPT ![a] = @ + 1]
  /\ UNCHANGED <<user, links, sessions, login, signup, asking, redeem>>

(* Counted and inserted under the account's row, if it is still there.     *)
(* The slip kept for comparison has CurrentUser's word for that.           *)
MayHaveKey_AsRead(a) == user[a].keys < MaxKeys

MayHaveKey(a) == Holds(a) /\ user[a].keys < MaxKeys

CreateKey(a) ==
  /\ adding[a] > 0
  /\ user' = [user EXCEPT ![a].keys = IF MayHaveKey(a) THEN @ + 1 ELSE @]
  /\ adding' = [adding EXCEPT ![a] = @ - 1]
  /\ UNCHANGED <<links, sessions, login, signup, asking, redeem>>

RevokeKey(a) ==
  /\ SignedIn(a) /\ user[a].keys > 0
  /\ user' = [user EXCEPT ![a].keys = @ - 1]
  /\ UNCHANGED <<links, sessions, login, signup, adding, asking, redeem>>

(***************************************************************************)
(* Resets                                                                  *)
(***************************************************************************)
AsksForReset(a) ==
  /\ user[a].status = "confirmed" /\ a \notin asking
  /\ asking' = asking \cup {a}
  /\ UNCHANGED <<user, links, sessions, login, signup, adding, redeem>>

(* For an account still there: waits for a delete, and sees its tombstone. *)
RequestReset(a) ==
  /\ a \in asking
  /\ links' = IF user[a].status = "deleted" \/ links[a] = Link THEN links
              ELSE [links EXCEPT ![a] = @ \cup {CHOOSE l \in Link : l \notin links[a]}]
  /\ asking' = asking \ {a}
  /\ UNCHANGED <<user, sessions, login, signup, adding, redeem>>

LinkExpires(a, l) ==
  /\ l \in links[a]
  /\ links' = [links EXCEPT ![a] = @ \ {l}]
  /\ UNCHANGED <<user, sessions, login, signup, adding, asking, redeem>>

ResetReads(a, l) ==
  /\ l \in links[a] /\ l \notin redeem[a]
  /\ redeem' = [redeem EXCEPT ![a] = @ \cup {l}]
  /\ UNCHANGED <<user, links, sessions, login, signup, adding, asking>>

(* The account is locked before the link; every link of it is spent.       *)
ConfirmReset(a, l) ==
  /\ l \in redeem[a] /\ user[a].generation < MaxChanges
  /\ IF Holds(a) /\ l \in links[a]
     THEN /\ user' = [user EXCEPT ![a].password = @ + 1, ![a].generation = @ + 1]
          /\ links' = [links EXCEPT ![a] = {}]
     ELSE UNCHANGED <<user, links>>
  /\ redeem' = [redeem EXCEPT ![a] = @ \ {l}]
  /\ UNCHANGED <<sessions, login, signup, adding, asking>>

(***************************************************************************)
(* Deletion, by an admin: the account becomes a tombstone                  *)
(***************************************************************************)
DeleteUser(a) ==
  /\ Holds(a)
  /\ user' = [user EXCEPT ![a] = [status |-> "deleted", code |-> "none", password |-> 0,
                                  generation |-> @.generation + 1, keys |-> 0]]
  /\ links' = [links EXCEPT ![a] = {}]
  /\ UNCHANGED <<sessions, login, signup, adding, asking, redeem>>

Next ==
  \E a \in Account :
    \/ Register(a) \/ RegisterInserts(a) \/ CodeExpires(a) \/ ConfirmEmail(a)
    \/ LoginReads(a) \/ LoginIssues(a) \/ SignOutEverywhere(a)
    \/ AsksForKey(a) \/ CreateKey(a) \/ RevokeKey(a)
    \/ AsksForReset(a) \/ RequestReset(a)
    \/ \E l \in Link : LinkExpires(a, l) \/ ResetReads(a, l) \/ ConfirmReset(a, l)
    \/ DeleteUser(a)

Spec == Init /\ [][Next]_vars

(***************************************************************************)
(* Properties                                                              *)
(***************************************************************************)
(* A session that is accepted was issued to someone who knew the password  *)
(* the account has now: although the password was checked against a hash   *)
(* read before, and reset while it was being checked.                      *)
SessionKnowsPassword ==
  \A a \in Account : \A s \in sessions[a] :
    Accepted(a, s) => s.password = user[a].password

(* A deleted account is left with nothing to act by: no key, no code, no   *)
(* link, no session; although requests that had found it are still to end. *)
(* And no account has more keys than it may, asked for together or not.    *)
DeletedHasNothing ==
  \A a \in Account :
    /\ user[a].keys <= MaxKeys
    /\ user[a].status = "deleted" =>
         user[a].keys = 0 /\ user[a].code = "none" /\ links[a] = {} /\ ~SignedIn(a)

(* An account that has confirmed its address is never released to whoever  *)
(* registers its name next, whatever has become of its code.               *)
ConfirmedStays ==
  [][\A a \in Account : user[a].status = "confirmed" => user'[a].status \in {"confirmed", "deleted"}]_vars
=============================================================================

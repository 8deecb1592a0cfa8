------------------------------ MODULE Membership ------------------------------
(***************************************************************************)
(* What the account spine promises the rest of the system: a person        *)
(* belongs to one brokerage at a time; every membership was let in by an   *)
(* invite of its own or founded its account; an invite is spent once, by   *)
(* one person joining or by a withdrawal; and nobody joins a brokerage     *)
(* whose evaluation was revoked (docs/brokerage-account-spine.sql 23-43,   *)
(* docs/evaluation-entitlement.sql 374-378).                               *)
(***************************************************************************)
CONSTANTS User, Brokerage, Invite, Nobody

VARIABLES
    memberOf,   \* the brokerage of a person, or Nobody
    founded,    \* the accounts made so far
    closed,     \* the brokerages whose evaluation was revoked
    spent       \* the invites that were redeemed or withdrawn

membershipVars == <<memberOf, founded, closed, spent>>

Init ==
    /\ memberOf = [u \in User |-> Nobody]
    /\ founded = {}
    /\ closed = {}
    /\ spent = {}

(* evaluation_create: an account nobody belongs to yet.                    *)
Open(b) ==
    /\ b \notin founded
    /\ founded' = founded \cup {b}
    /\ UNCHANGED <<memberOf, closed, spent>>

(* individual_signup: an account with its one person.                      *)
Found(u, b) ==
    /\ b \notin founded /\ memberOf[u] = Nobody
    /\ founded' = founded \cup {b}
    /\ memberOf' = [memberOf EXCEPT ![u] = b]
    /\ UNCHANGED <<closed, spent>>

Join(u, b, i) ==
    /\ memberOf[u] = Nobody
    /\ b \in founded \ closed
    /\ i \notin spent
    /\ memberOf' = [memberOf EXCEPT ![u] = b]
    /\ spent' = spent \cup {i}
    /\ UNCHANGED <<founded, closed>>

Leave(u) ==
    /\ memberOf' = [memberOf EXCEPT ![u] = Nobody]
    /\ UNCHANGED <<founded, closed, spent>>

Withdraw(i) ==
    /\ i \notin spent
    /\ spent' = spent \cup {i}
    /\ UNCHANGED <<memberOf, founded, closed>>

Close(b) ==
    /\ closed' = closed \cup {b}
    /\ UNCHANGED <<memberOf, founded, spent>>

Next ==
    \/ \E b \in Brokerage : Open(b) \/ Close(b)
    \/ \E u \in User :
         \/ Leave(u)
         \/ \E b \in Brokerage : Found(u, b) \/ \E i \in Invite : Join(u, b, i)
    \/ \E i \in Invite : Withdraw(i)

Spec == Init /\ [][Next]_membershipVars
=============================================================================

---------------------------- MODULE AccountSpine -----------------------------
(***************************************************************************)
(* Accounts, memberships and invites: who belongs to which brokerage, as   *)
(* owner or agent, and how people come and go.                             *)
(*                                                                         *)
(*   docs/brokerage-account-spine.sql   brokerage_account, _member, guard  *)
(*   docs/evaluation-entitlement.sql    evaluation_create, invite mint,    *)
(*                                      redeem, revoke; evaluation_revoke  *)
(*   docs/individual-agent-signup.sql   individual_signup and its guards   *)
(*   docs/da-owner-safeguards.sql       brokerage_member_remove            *)
(*                                                                         *)
(* Each operation that reads one thing and writes another is a database    *)
(* session at READ COMMITTED: it takes its row lock, reads, writes, and    *)
(* commits, one statement a step, and what it wrote shows at its commit.   *)
(* Which session holds a lock follows from where it is (the Holders        *)
(* operators): a lock is held from the step that takes it to the end.      *)
(***************************************************************************)
EXTENDS Naturals, FiniteSets

CONSTANTS
    User, Brokerage, Invite, Session,
    Operation,      \* the session kinds an instance runs
    Change,         \* what a migration may make of a membership
    Leaver,         \* the people who may have their auth user deleted
    SeatLimit,      \* evaluation.seat_limit of an invited brokerage
    EvaluationEnds, \* evaluation.expires_at of an invited brokerage
    InviteLife,     \* clock ticks an invite lives
    MaxClock,       \* bound on the clock
    Nobody, Nothing

ASSUME SpineAssumption ==
    /\ Operation \subseteq {"redeem", "mint", "withdraw", "signup", "remove", "change"}
    /\ Change \subseteq {"owner", "agent", "gone"} /\ Leaver \subseteq User
    /\ SeatLimit \in Nat /\ EvaluationEnds \in Nat /\ InviteLife \in Nat \ {0} /\ MaxClock \in Nat
    /\ Nobody \notin User \cup Brokerage \cup Invite
    /\ Nothing \notin Session

VARIABLES
    clock,
    users,          \* auth.users
    account,        \* brokerage_account.status, "none" before it is made
    kind,           \* brokerage_account.account_type
    evaluation,     \* evaluation.status ("complete" admits people as "active" does)
    member,         \* the role of an active membership, or "none"
    invite,         \* evaluation_invite
    pc,             \* where a session is
    job             \* what it was asked, and its transaction's now()

tableVars == <<users, account, kind, evaluation, member, invite>>
spineVars == <<clock, users, account, kind, evaluation, member, invite, pc, job>>

Role == {"owner", "agent"}
InviteRow == [brokerage : Brokerage, role : Role, status : {"open", "redeemed", "revoked"},
              by : User \cup {Nobody}, expires : Nat]
Job == [op : Operation, user : User \cup {Nobody}, brokerage : Brokerage \cup {Nobody},
        invite : Invite \cup {Nobody}, target : User \cup {Nobody},
        role : Role \cup {"gone"}, at : Nat]

(* An invite not drawn and a session without a call are neither.           *)
ASSUME RowsAssumption == Nothing \notin InviteRow \cup Job

Init ==
    /\ clock = 0
    /\ users = User
    /\ account = [b \in Brokerage |-> "none"]
    /\ kind = [b \in Brokerage |-> "brokerage"]
    /\ evaluation = [b \in Brokerage |-> "none"]
    /\ member = [b \in Brokerage |-> [u \in User |-> "none"]]
    /\ invite = [i \in Invite |-> Nothing]
    /\ pc = [s \in Session |-> "idle"]
    /\ job = [s \in Session |-> Nothing]

-----------------------------------------------------------------------------
(* Who belongs where, as committed.                                        *)

Belongs(u) == {b \in Brokerage : member[b][u] # "none"}
InRole(b, r) == {u \in User : member[b][u] = r}

(* brokerage_membership_of names b for u, as an owner.                     *)
IsOwner(u, b) == member[b][u] = "owner" /\ account[b] = "active"

Running(ops, steps) == {s \in Session : pc[s] \in steps /\ job[s].op \in ops}

-----------------------------------------------------------------------------
(* The locks.                                                              *)

HeldSteps == {"locked", "usable", "unattached", "seated", "written"}

(* select ... from evaluation ... for update, then its invite, always in   *)
(* that order.                                                             *)
EvaluationHolders(b) ==
    {s \in Running({"redeem", "mint", "withdraw"}, HeldSteps) : job[s].brokerage = b}

(* Fault: no row lock serialises two changes of one brokerage's owners.    *)
NoAccountLock(b) == {}

(* This change makes an owner cease to be one.                             *)
Unmakes(s) == member[job[s].brokerage][job[s].target] = "owner" /\ job[s].role # "owner"

(* select ... from brokerage_account ... for no key update.                *)
AccountHolders(b) ==
    {s \in Running({"change"}, {"counting", "written"}) : job[s].brokerage = b /\ Unmakes(s)}

(* The membership row an update or select ... for update holds.            *)
MemberHolders(b, u) ==
    {s \in Running({"remove", "change"}, HeldSteps \cup {"counting"}) :
        job[s].brokerage = b /\ job[s].target = u}

(* pg_advisory_xact_lock of one person's signups.                          *)
SignupHolders(u) == {s \in Running({"signup"}, HeldSteps) : job[s].user = u}

(* Fault: an insert does not wait for another session's uncommitted rows.  *)
NobodyWritesFor(u) == {}

(* Fault: a person is reserved at the check and not at the insert.         *)
ReservesFor(u) == {s \in Running({"redeem", "signup"}, {"unattached", "seated", "written"}) : job[s].user = u}

(* Uncommitted rows the index of one active membership per user waits for: *)
(* one being inserted, or an active one being ended.                       *)
WritesFor(u) ==
    {s \in Running({"redeem", "signup"}, {"written"}) : job[s].user = u} \cup
    {s \in Running({"remove", "change"}, {"written"}) : job[s].target = u /\ job[s].role = "gone"}

-----------------------------------------------------------------------------
(* What one transaction does at once: everything it writes is new, or it   *)
(* is one statement, so nobody sees its middle.                            *)

Tick ==
    /\ clock < MaxClock
    /\ clock' = clock + 1
    /\ UNCHANGED <<tableVars, pc, job>>

World == UNCHANGED <<clock, pc, job>>

NewInvite(b, r, at) ==
    [brokerage |-> b, role |-> r, status |-> "open", by |-> Nobody, expires |-> at + InviteLife]

Unused(b) == account[b] = "none" /\ \A s \in Session : job[s] # Nothing => job[s].brokerage # b
Undrawn(i) == invite[i] = Nothing /\ \A s \in Session : job[s] # Nothing => job[s].invite # i

(* evaluation_create: the account, its evaluation and the owner's invite.  *)
EvaluationCreate(b, i) ==
    /\ Unused(b) /\ Undrawn(i)
    /\ account' = [account EXCEPT ![b] = "active"]
    /\ evaluation' = [evaluation EXCEPT ![b] = "active"]
    /\ invite' = [invite EXCEPT ![i] = NewInvite(b, "owner", clock)]
    /\ UNCHANGED <<users, kind, member>> /\ World

(* Fault: the evaluation is revoked without waiting for its row.           *)
RevokeWithoutLock(b) ==
    /\ evaluation[b] = "active"
    /\ evaluation' = [evaluation EXCEPT ![b] = "revoked"]
    /\ UNCHANGED <<users, account, kind, member, invite>> /\ World

EvaluationRevoke(b) ==
    /\ EvaluationHolders(b) = {}
    /\ evaluation[b] = "active"
    /\ evaluation' = [evaluation EXCEPT ![b] = "revoked"]
    /\ UNCHANGED <<users, account, kind, member, invite>> /\ World

(* A migration suspends or restores an account: one update of its row.     *)
SetAccount(b, status) ==
    /\ AccountHolders(b) = {}
    /\ account[b] # "none" /\ account[b] # status
    /\ account' = [account EXCEPT ![b] = status]
    /\ UNCHANGED <<users, kind, evaluation, member, invite>> /\ World

(* A person's auth user is deleted, and the memberships go with it; the    *)
(* invites they redeemed forget who they were.                             *)
DeleteUser(u) ==
    /\ u \in users
    /\ WritesFor(u) = {} /\ \A b \in Brokerage : MemberHolders(b, u) = {}
    /\ users' = users \ {u}
    /\ member' = [b \in Brokerage |-> [member[b] EXCEPT ![u] = "none"]]
    /\ invite' = [i \in Invite |-> IF invite[i] # Nothing /\ invite[i].by = u
                                   THEN [invite[i] EXCEPT !.by = Nobody] ELSE invite[i]]
    /\ UNCHANGED <<account, kind, evaluation>> /\ World

-----------------------------------------------------------------------------
(* The sessions.                                                           *)

Goto(s, step) ==
    /\ pc' = [pc EXCEPT ![s] = step]
    /\ UNCHANGED <<clock, tableVars>>

(* The transaction is over; its locks are gone with it.                    *)
Over(s) ==
    /\ pc' = [pc EXCEPT ![s] = "idle"]
    /\ job' = [job EXCEPT ![s] = Nothing]
    /\ UNCHANGED clock

Refuse(s) == Over(s) /\ UNCHANGED tableVars

Ask(s, op, u, b, i, t, r) ==
    /\ pc[s] = "idle" /\ op \in Operation
    /\ job' = [job EXCEPT ![s] = [op |-> op, user |-> u, brokerage |-> b, invite |-> i,
                                  target |-> t, role |-> r, at |-> clock]]
    /\ Goto(s, "asked")

(* A redeemer's token names an invite that exists, and its evaluation.     *)
AskRedeem(s) ==
    \E u \in users, i \in Invite :
        /\ invite[i] # Nothing
        /\ Ask(s, "redeem", u, invite[i].brokerage, i, Nobody, invite[i].role)

(* A person mints agent invites; an administrator (Nobody) either kind.    *)
AskMint(s) ==
    \E u \in users \cup {Nobody}, i \in Invite, b \in Brokerage, r \in Role :
        /\ Undrawn(i) /\ account[b] # "none"
        /\ u # Nobody => r = "agent"
        /\ Ask(s, "mint", u, b, i, Nobody, r)

AskWithdraw(s) ==
    \E u \in users \cup {Nobody}, i \in Invite :
        /\ invite[i] # Nothing
        /\ Ask(s, "withdraw", u, invite[i].brokerage, i, Nobody, invite[i].role)

(* The id of the account to be, drawn at random, is one nobody has.        *)
AskSignup(s) ==
    \E u \in users, b \in Brokerage :
        Unused(b) /\ Ask(s, "signup", u, b, Nobody, Nobody, "owner")

AskRemove(s) ==
    \E u, t \in users, b \in Brokerage :
        /\ member[b][t] # "none"
        /\ Ask(s, "remove", u, b, Nobody, t, "gone")

AskChange(s) ==
    \E t \in users, b \in Brokerage, r \in Change :
        /\ member[b][t] \notin {"none", r}
        /\ Ask(s, "change", Nobody, b, Nobody, t, r)

(* Who holds the first lock a session takes.                               *)
FirstHolders(s) ==
    CASE job[s].op \in {"redeem", "mint", "withdraw"} -> EvaluationHolders(job[s].brokerage)
      [] job[s].op = "signup" -> SignupHolders(job[s].user)
      [] OTHER -> MemberHolders(job[s].brokerage, job[s].target)

TakeLock(s) ==
    /\ pc[s] = "asked"
    /\ FirstHolders(s) = {}
    /\ Goto(s, "locked") /\ UNCHANGED job

(* evaluation_invite_redeem: may this invite be used at all?               *)
Admits(b, at) ==
    /\ evaluation[b] # "revoked"
    /\ kind[b] = "brokerage" => at < EvaluationEnds
    /\ account[b] = "active"

Usable(s) ==
    LET j == job[s] IN
    /\ pc[s] = "locked" /\ j.op = "redeem"
    /\ IF /\ j.user \in users /\ Admits(j.brokerage, j.at)
          /\ invite[j.invite].status = "open" /\ j.at < invite[j.invite].expires
       THEN Goto(s, "usable") /\ UNCHANGED job
       ELSE Refuse(s)

(* Redeem and signup: a person with an active membership anywhere is       *)
(* turned away (or, as the owner of an individual account, told so again). *)
Unattached(s) ==
    /\ \/ pc[s] = "usable"
       \/ pc[s] = "locked" /\ job[s].op = "signup"
    /\ IF Belongs(job[s].user) = {} THEN Goto(s, "unattached") /\ UNCHANGED job ELSE Refuse(s)

(* Fault: the seats are counted one too many.                              *)
SeatsByOne(b) == Cardinality(InRole(b, "agent")) <= SeatLimit

SeatFree(b) == Cardinality(InRole(b, "agent")) < SeatLimit

CountSeats(s) ==
    /\ pc[s] = "unattached" /\ job[s].op = "redeem"
    /\ IF job[s].role = "agent" => SeatFree(job[s].brokerage)
       THEN Goto(s, "seated") /\ UNCHANGED job
       ELSE Refuse(s)

AtInsert(s) ==
    \/ pc[s] = "seated"
    \/ pc[s] = "unattached" /\ job[s].op = "signup"

(* The membership row goes in: it waits for uncommitted rows of the same   *)
(* person, and fails on a committed active one or a deleted user.          *)
Insert(s) ==
    LET u == job[s].user IN
    /\ AtInsert(s)
    /\ WritesFor(u) = {}
    /\ IF Belongs(u) = {} /\ u \in users THEN Goto(s, "written") /\ UNCHANGED job ELSE Refuse(s)

(* The evaluation must stand, the account be active and not an individual  *)
(* one, and the actor its owner.                                           *)
CheckMint(s) ==
    LET j == job[s] IN
    /\ pc[s] = "locked" /\ j.op = "mint"
    /\ IF /\ Admits(j.brokerage, j.at) /\ kind[j.brokerage] = "brokerage"
          /\ j.user # Nobody => IsOwner(j.user, j.brokerage)
       THEN Goto(s, "written") /\ UNCHANGED job
       ELSE Refuse(s)

CheckWithdraw(s) ==
    LET j == job[s] IN
    /\ pc[s] = "locked" /\ j.op = "withdraw"
    /\ IF /\ j.user # Nobody => IsOwner(j.user, j.brokerage)
          /\ invite[j.invite].status = "open"
       THEN Goto(s, "written") /\ UNCHANGED job
       ELSE Refuse(s)

CheckRemove(s) ==
    LET j == job[s] IN
    /\ pc[s] = "locked" /\ j.op = "remove"
    /\ IF IsOwner(j.user, j.brokerage) /\ member[j.brokerage][j.target] = "agent"
       THEN Goto(s, "written") /\ UNCHANGED job
       ELSE Refuse(s)

(* brokerage_member_guard: before an owner ceases to be one, the account's *)
(* row is locked.                                                          *)
GuardChange(s) ==
    LET role == member[job[s].brokerage][job[s].target] IN
    /\ pc[s] = "locked" /\ job[s].op = "change"
    /\ \/ role = "none" /\ Refuse(s)
       \/ role # "none" /\ ~Unmakes(s) /\ Goto(s, "written") /\ UNCHANGED job
       \/ Unmakes(s) /\ AccountHolders(job[s].brokerage) = {} /\ Goto(s, "counting") /\ UNCHANGED job

CountOwners(s) ==
    LET b == job[s].brokerage IN
    /\ pc[s] = "counting"
    /\ IF account[b] = "active" /\ InRole(b, "owner") \subseteq {job[s].target}
       THEN Refuse(s)
       ELSE Goto(s, "written") /\ UNCHANGED job

SetMember(b, u, r) == member' = [member EXCEPT ![b][u] = r]
SetInvite(i, status, u) == invite' = [invite EXCEPT ![i].status = status, ![i].by = u]

CommitRedeem(s) ==
    LET j == job[s] IN
    /\ pc[s] = "written" /\ j.op = "redeem"
    /\ SetMember(j.brokerage, j.user, j.role)
    /\ SetInvite(j.invite, "redeemed", j.user)
    /\ UNCHANGED <<users, account, kind, evaluation>> /\ Over(s)

CommitMint(s) ==
    LET j == job[s] IN
    /\ pc[s] = "written" /\ j.op = "mint"
    /\ invite' = [invite EXCEPT ![j.invite] = NewInvite(j.brokerage, j.role, j.at)]
    /\ UNCHANGED <<users, account, kind, evaluation, member>> /\ Over(s)

CommitWithdraw(s) ==
    /\ pc[s] = "written" /\ job[s].op = "withdraw"
    /\ SetInvite(job[s].invite, "revoked", Nobody)
    /\ UNCHANGED <<users, account, kind, evaluation, member>> /\ Over(s)

CommitSignup(s) ==
    LET j == job[s] IN
    /\ pc[s] = "written" /\ j.op = "signup"
    /\ account' = [account EXCEPT ![j.brokerage] = "active"]
    /\ kind' = [kind EXCEPT ![j.brokerage] = "individual"]
    /\ evaluation' = [evaluation EXCEPT ![j.brokerage] = "active"]
    /\ SetMember(j.brokerage, j.user, "owner")
    /\ UNCHANGED <<users, invite>> /\ Over(s)

(* Fault: an ended membership keeps its row among the active ones.         *)
StaysActive(s) ==
    LET j == job[s] IN
    /\ pc[s] = "written" /\ j.op \in {"remove", "change"}
    /\ SetMember(j.brokerage, j.target, j.role)
    /\ UNCHANGED <<users, account, kind, evaluation, invite>> /\ Over(s)

CommitChange(s) ==
    LET j == job[s] IN
    /\ pc[s] = "written" /\ j.op \in {"remove", "change"}
    /\ SetMember(j.brokerage, j.target, IF j.role = "gone" THEN "none" ELSE j.role)
    /\ UNCHANGED <<users, account, kind, evaluation, invite>> /\ Over(s)

(* The connection drops or a statement raises: everything is rolled back.  *)
Lose(s) == pc[s] # "idle" /\ Refuse(s)

AskSomething(s) ==
    AskRedeem(s) \/ AskMint(s) \/ AskWithdraw(s) \/ AskSignup(s) \/ AskRemove(s) \/ AskChange(s)

Check(s) ==
    \/ Usable(s) \/ Unattached(s) \/ CountSeats(s)
    \/ CheckMint(s) \/ CheckWithdraw(s) \/ CheckRemove(s) \/ CountOwners(s)

Commit(s) == CommitRedeem(s) \/ CommitMint(s) \/ CommitWithdraw(s) \/ CommitSignup(s) \/ CommitChange(s)

SpineWorld ==
    \/ Tick
    \/ \E b \in Brokerage :
         \/ \E i \in Invite : EvaluationCreate(b, i)
         \/ EvaluationRevoke(b)
         \/ \E status \in {"active", "suspended"} : SetAccount(b, status)
    \/ \E u \in Leaver : DeleteUser(u)

Next ==
    \/ SpineWorld
    \/ \E s \in Session :
         AskSomething(s) \/ TakeLock(s) \/ Check(s) \/ Insert(s) \/ GuardChange(s) \/ Commit(s) \/ Lose(s)

Spec == Init /\ [][Next]_spineVars

-----------------------------------------------------------------------------
(* Types: what each table and each session in flight may hold.             *)
TypeOK ==
    /\ clock \in 0..MaxClock
    /\ users \subseteq User
    /\ account \in [Brokerage -> {"none", "active", "suspended"}]
    /\ kind \in [Brokerage -> {"brokerage", "individual"}]
    /\ evaluation \in [Brokerage -> {"none", "active", "revoked"}]
    /\ member \in [Brokerage -> [User -> Role \cup {"none"}]]
    /\ invite \in [Invite -> InviteRow \cup {Nothing}]
    /\ pc \in [Session -> {"idle", "asked", "counting"} \cup HeldSteps]
    /\ job \in [Session -> Job \cup {Nothing}]

(* A person holds at most one active membership, whichever of redeems and  *)
(* signups run at once: otherwise one person has two pools of free reports *)
(* (brokerage-account-spine.sql 25-27).                                    *)
OneActiveMembership == \A u \in User : \A b, d \in Belongs(u) : b = d

(* No step but a deletion of the person takes the last active owner from   *)
(* an active brokerage: two removals at once, each of which sees the other *)
(* owner, do not both pass (brokerage-account-spine.sql 32-38).            *)
AnOwnerRemains ==
    [][ \A b \in Brokerage :
          account[b] = "active" /\ InRole(b, "owner") # {} /\ users' = users
              => InRole(b, "owner")' # {} ]_spineVars

(* The agents a brokerage's invites let in never outnumber its seats, when *)
(* no migration turns owners into agents (evaluation-entitlement.sql 432). *)
SeatsWithinLimit == \A b \in Brokerage : Cardinality(InRole(b, "agent")) <= SeatLimit

(* A person is in one brokerage at most, and agents are within the seats,  *)
(* through any redeems, signups, removals and deletions at once.           *)
PlacesAndSeatsHold == OneActiveMembership /\ SeatsWithinLimit

WaitsFor(s) ==
    CASE pc[s] = "asked" -> FirstHolders(s)
      [] AtInsert(s) -> WritesFor(job[s].user)
      [] pc[s] = "locked" /\ job[s].op = "change" /\ Unmakes(s) -> AccountHolders(job[s].brokerage)
      [] OTHER -> {}

(* No sessions wait for one another in a circle, although some wait for a  *)
(* row, some for an advisory lock, and a redeem, holding its evaluation,   *)
(* for another session's uncommitted membership.                           *)
NoCycleOfWaits == \A S \in SUBSET Session : S # {} => \E s \in S : WaitsFor(s) \cap S = {}

(* The tables implement the contract of Membership.                        *)
Members == INSTANCE Membership WITH
    memberOf <- [u \in User |-> IF Belongs(u) = {} THEN Nobody ELSE CHOOSE b \in Brokerage : b \in Belongs(u)],
    founded  <- {b \in Brokerage : account[b] # "none"},
    closed   <- {b \in Brokerage : evaluation[b] = "revoked"},
    spent    <- {i \in Invite : invite[i] # Nothing /\ invite[i].status # "open"}

ImplementsMembership == Members!Spec
=============================================================================

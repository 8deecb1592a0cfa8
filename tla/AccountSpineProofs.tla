-------------------------- MODULE AccountSpineProofs --------------------------
(***************************************************************************)
(* Who belongs where, proved for any people, brokerages, invites and       *)
(* sessions.  None of the properties is inductive: between its checks and  *)
(* its commit a session relies on what it saw, which the locks it holds    *)
(* and the unique index keep true.  Core says what every session relies    *)
(* on; Seats and OwnersLeft what a redeem counted and a removal counted.   *)
(***************************************************************************)
EXTENDS AccountSpine, FiniteSetTheorems, TLAPS

(* Calls about an invite, that let somebody in, and that end or change a   *)
(* membership.                                                             *)
Inviting == {"redeem", "mint", "withdraw"}
Joining == {"redeem", "signup"}
Ending == {"remove", "change"}

(* What a session was asked fits its kind, and its invite its brokerage.   *)
Fits(s) ==
    LET j == job[s] IN
    /\ j \in Job /\ j.brokerage \in Brokerage
    /\ j.op \in Inviting => j.invite \in Invite
    /\ j.op \in {"redeem", "mint"} => j.role \in Role
    /\ j.op \in {"redeem", "withdraw"} => invite[j.invite] # Nothing /\ invite[j.invite].brokerage = j.brokerage
    /\ j.op = "mint" => invite[j.invite] = Nothing
    /\ j.op \in Joining => j.user \in User
    /\ j.op = "signup" => j.role = "owner"
    /\ j.op \in Ending => j.target \in User
    /\ j.op = "remove" => j.role = "gone"
    /\ j.op = "change" => j.role \in Change
    /\ pc[s] \in {"usable", "seated"} => j.op = "redeem"
    /\ pc[s] = "unattached" => j.op \in Joining
    /\ pc[s] = "counting" => j.op = "change"

Jobs == \A s \in Session : IF pc[s] = "idle" THEN job[s] = Nothing ELSE Fits(s)

At(s, op) == pc[s] # "idle" /\ job[s].op = op

(* Nothing refers to an account before it is made, but its one signup.     *)
Founding ==
    /\ \A b \in Brokerage : account[b] = "none" =>
          /\ evaluation[b] = "none" /\ \A u \in User : member[b][u] = "none"
          /\ \A i \in Invite : invite[i] # Nothing => invite[i].brokerage # b
          /\ \A s \in Session : pc[s] # "idle" /\ job[s].brokerage = b => job[s].op = "signup"
    /\ \A s \in Session : At(s, "signup") => account[job[s].brokerage] = "none"
    /\ \A s, t \in Session :
          At(s, "signup") /\ At(t, "signup") /\ job[s].brokerage = job[t].brokerage => s = t

(* An invite being minted is minted once.                                  *)
Minting ==
    \A s, t \in Session : At(s, "mint") /\ At(t, "mint") /\ job[s].invite = job[t].invite => s = t

(* A row's lock is held by one session at a time.                          *)
OneHolder ==
    /\ \A b \in Brokerage : \A s, t \in EvaluationHolders(b) : s = t
    /\ \A b \in Brokerage, u \in User : \A s, t \in MemberHolders(b, u) : s = t

(* What a redeem or a withdrawal saw of its invite still stands.           *)
Stands(s) ==
    /\ pc[s] \in {"usable", "unattached", "seated", "written"} /\ job[s].op = "redeem" =>
          evaluation[job[s].brokerage] # "revoked" /\ invite[job[s].invite].status = "open"
    /\ pc[s] = "written" /\ job[s].op = "withdraw" => invite[job[s].invite].status = "open"

Enters(s) == pc[s] = "written" /\ job[s].op \in Joining

(* Who is being let in belongs nowhere, and is let in once.                *)
Entering ==
    /\ \A s \in Session : Enters(s) => \A b \in Brokerage : member[b][job[s].user] = "none"
    /\ \A s, t \in Session : Enters(s) /\ Enters(t) /\ job[s].user = job[t].user => s = t

(* Whose membership is being ended or changed has it.                      *)
Aims(s) ==
    pc[s] \in {"counting", "written"} /\ job[s].op \in Ending =>
        LET role == member[job[s].brokerage][job[s].target] IN
        /\ role # "none"
        /\ job[s].op = "remove" => role = "agent"
        /\ pc[s] = "counting" => role = "owner"

OneEach == \A u \in User : \A b, d \in Brokerage : member[b][u] # "none" /\ member[d][u] # "none" => b = d

Core ==
    /\ TypeOK /\ Jobs /\ Founding /\ Minting /\ OneHolder
    /\ (\A s \in Session : Stands(s)) /\ Entering /\ (\A s \in Session : Aims(s))
    /\ OneEach

-----------------------------------------------------------------------------
(* The beginning, and the steps of a session that leave the tables alone.  *)

LEMMA InitCore == Init => Core
<1> SUFFICES ASSUME Init PROVE Core
  OBVIOUS
<1>1. \A s \in Session : pc[s] = "idle" /\ job[s] = Nothing
  BY DEF Init
<1>2. TypeOK
  BY SpineAssumption DEF Init, TypeOK
<1>3. Founding
  BY <1>1 DEF Init, Founding, At
<1>4. OneHolder
  BY <1>1 DEF OneHolder, EvaluationHolders, MemberHolders, Running, HeldSteps
<1>5. OneEach
  BY DEF Init, OneEach
<1> QED
  BY <1>1, <1>2, <1>3, <1>4, <1>5 DEF Core, Jobs, Minting, At, Stands, Entering, Enters, Aims

(* Whoever else is at work stays where it is.                              *)
LEMMA OthersStay ==
    ASSUME TypeOK, NEW s \in Session, NEW step, pc' = [pc EXCEPT ![s] = step],
           job' = job \/ \E j : job' = [job EXCEPT ![s] = j]
    PROVE  /\ pc'[s] = step
           /\ \A t \in Session : t # s => pc'[t] = pc[t] /\ job'[t] = job[t]
BY DEF TypeOK

LEMMA RefuseKeeps ==
    ASSUME Core, NEW s \in Session, Refuse(s)
    PROVE  Core'
<1> USE DEF Core
<1>1. /\ pc' = [pc EXCEPT ![s] = "idle"] /\ job' = [job EXCEPT ![s] = Nothing]
      /\ clock' = clock /\ users' = users /\ account' = account /\ kind' = kind
      /\ evaluation' = evaluation /\ member' = member /\ invite' = invite
  BY DEF Refuse, Over, tableVars
<1>2. pc'[s] = "idle" /\ \A t \in Session : t # s => pc'[t] = pc[t] /\ job'[t] = job[t]
  BY <1>1, OthersStay
<1>3. job'[s] = Nothing
  BY <1>1 DEF TypeOK
<1>4. TypeOK'
  BY <1>1 DEF TypeOK
<1>5. Jobs'
  BY <1>1, <1>2, <1>3 DEF Jobs, Fits
<1>6. Founding'
  BY <1>1, <1>2 DEF Founding, At
<1>7. Minting'
  BY <1>2 DEF Minting, At
<1>8. OneHolder'
  BY <1>2 DEF OneHolder, EvaluationHolders, MemberHolders, Running, HeldSteps
<1>9. \A t \in Session : Stands(t)' /\ Aims(t)'
  BY <1>1, <1>2 DEF Stands, Aims
<1>10. Entering'
  BY <1>1, <1>2 DEF Entering, Enters
<1>11. OneEach'
  BY <1>1 DEF OneEach
<1> QED
  BY <1>4, <1>5, <1>6, <1>7, <1>8, <1>9, <1>10, <1>11

(* A session goes on to its next statement, and the invariant is about it. *)
LEMMA MoveKeeps ==
    ASSUME Core, NEW s \in Session, pc[s] # "idle", NEW step \in HeldSteps \cup {"counting"},
           pc' = [pc EXCEPT ![s] = step], UNCHANGED <<clock, tableVars, job>>,
           step \in {"usable", "seated"} => job[s].op = "redeem",
           step = "unattached" => job[s].op \in Joining,
           step = "counting" => job[s].op = "change",
           pc[s] = "asked" => OneHolder', Stands(s)', Aims(s)', Entering'
    PROVE  Core'
<1> USE DEF Core
<1>1. /\ clock' = clock /\ users' = users /\ account' = account /\ kind' = kind
      /\ evaluation' = evaluation /\ member' = member /\ invite' = invite /\ job' = job
  BY DEF tableVars
<1>2. pc'[s] = step /\ \A t \in Session : t # s => pc'[t] = pc[t]
  BY OthersStay
<1>3. step # "idle" /\ \A t \in Session : pc'[t] = "idle" <=> pc[t] = "idle"
  BY <1>2 DEF HeldSteps
<1>4. TypeOK'
  BY <1>1 DEF TypeOK, HeldSteps
<1>5. Fits(s)'
  <2>1. Fits(s)
    BY DEF Jobs
  <2> QED
    BY <1>1, <1>2, <2>1 DEF Fits
<1>6. Jobs'
  BY <1>1, <1>2, <1>3, <1>5 DEF Jobs, Fits
<1>7. Founding'
  BY <1>1, <1>3 DEF Founding, At
<1>8. Minting'
  BY <1>1, <1>3 DEF Minting, At
<1>9. OneHolder'
  <2>1. CASE pc[s] # "asked"
    <3>1. Fits(s) /\ pc[s] \in HeldSteps \cup {"counting"}
      BY <2>1 DEF Jobs, TypeOK
    <3>2. \A b \in Brokerage : EvaluationHolders(b)' = EvaluationHolders(b)
      BY <1>1, <1>2, <3>1 DEF EvaluationHolders, Running, HeldSteps, Fits
    <3>3. \A b \in Brokerage, u \in User : MemberHolders(b, u)' = MemberHolders(b, u)
      BY <1>1, <1>2, <3>1 DEF MemberHolders, Running, HeldSteps, Fits
    <3> QED
      BY <3>2, <3>3 DEF OneHolder
  <2> QED
    BY <2>1
<1>10. \A t \in Session : Stands(t)' /\ Aims(t)'
  BY <1>1, <1>2 DEF Stands, Aims
<1>11. OneEach'
  BY <1>1 DEF OneEach
<1> QED
  BY <1>4, <1>6, <1>7, <1>8, <1>9, <1>10, <1>11

-----------------------------------------------------------------------------
(* A session begins.                                                       *)

LEMMA AskKeeps ==
    ASSUME Core, NEW s \in Session, pc[s] = "idle", NEW j \in Job,
           job' = [job EXCEPT ![s] = j], pc' = [pc EXCEPT ![s] = "asked"], UNCHANGED <<clock, tableVars>>,
           j.brokerage \in Brokerage,
           j.op \in Inviting => j.invite \in Invite,
           j.op \in {"redeem", "mint"} => j.role \in Role,
           j.op \in {"redeem", "withdraw"} => invite[j.invite] # Nothing /\ invite[j.invite].brokerage = j.brokerage,
           j.op = "mint" => Undrawn(j.invite),
           j.op \in Joining => j.user \in User,
           j.op = "signup" => j.role = "owner" /\ Unused(j.brokerage),
           j.op \in Ending => j.target \in User,
           j.op = "remove" => j.role = "gone",
           j.op = "change" => j.role \in Change,
           j.op # "signup" => account[j.brokerage] # "none"
    PROVE  Core'
<1> USE DEF Core
<1>1. /\ clock' = clock /\ users' = users /\ account' = account /\ kind' = kind
      /\ evaluation' = evaluation /\ member' = member /\ invite' = invite
  BY DEF tableVars
<1>2. pc'[s] = "asked" /\ \A t \in Session : t # s => pc'[t] = pc[t] /\ job'[t] = job[t]
  BY OthersStay
<1>3. job'[s] = j
  BY DEF TypeOK
<1>4. TypeOK'
  BY <1>1 DEF TypeOK
<1>5. Fits(s)'
  BY <1>1, <1>2, <1>3 DEF Fits, Undrawn
<1>6. Jobs'
  BY <1>1, <1>2, <1>5 DEF Jobs, Fits
<1>7. \A t \in Session : pc[t] # "idle" => job[t] # Nothing
  <2>1. \A t \in Session : pc[t] # "idle" => job[t] \in Job
    BY DEF Jobs, Fits
  <2> QED
    BY <2>1, RowsAssumption
<1>8. Founding'
  <2>1. \A b \in Brokerage : account'[b] = "none" =>
           \A t \in Session : pc'[t] # "idle" /\ job'[t].brokerage = b => job'[t].op = "signup"
    BY <1>1, <1>2, <1>3 DEF Founding
  <2>2. \A t \in Session : At(t, "signup")' => account'[job'[t].brokerage] = "none"
    BY <1>1, <1>2, <1>3 DEF Founding, At, Unused
  <2>3. ASSUME NEW t \in Session, NEW r \in Session, At(t, "signup")', At(r, "signup")',
               job'[t].brokerage = job'[r].brokerage
        PROVE  t = r
    <3>1. CASE t # s /\ r # s
      BY <1>2, <2>3, <3>1 DEF Founding, At
    <3>2. CASE t = s /\ r # s
      BY <1>2, <1>3, <1>7, <2>3, <3>2 DEF At, Unused
    <3>3. CASE t # s /\ r = s
      BY <1>2, <1>3, <1>7, <2>3, <3>3 DEF At, Unused
    <3> QED
      BY <3>1, <3>2, <3>3
  <2> QED
    BY <1>1, <2>1, <2>2, <2>3 DEF Founding
<1>9. Minting'
  <2> SUFFICES ASSUME NEW t \in Session, NEW r \in Session, At(t, "mint")', At(r, "mint")',
                      job'[t].invite = job'[r].invite
               PROVE  t = r
    BY DEF Minting
  <2>1. CASE t # s /\ r # s
    BY <1>2, <2>1 DEF Minting, At
  <2>2. CASE t = s /\ r # s
    BY <1>2, <1>3, <1>7, <2>2 DEF At, Undrawn
  <2>3. CASE t # s /\ r = s
    BY <1>2, <1>3, <1>7, <2>3 DEF At, Undrawn
  <2> QED
    BY <2>1, <2>2, <2>3
<1>10. OneHolder'
  BY <1>2 DEF OneHolder, EvaluationHolders, MemberHolders, Running, HeldSteps
<1>11. \A t \in Session : Stands(t)' /\ Aims(t)'
  BY <1>1, <1>2 DEF Stands, Aims
<1>12. Entering'
  BY <1>1, <1>2 DEF Entering, Enters
<1>13. OneEach'
  BY <1>1 DEF OneEach
<1> QED
  BY <1>4, <1>6, <1>8, <1>9, <1>10, <1>11, <1>12, <1>13

(* Whoever refers to an account refers to one that was made.               *)
LEMMA InvitedIsMade ==
    ASSUME Core, NEW i \in Invite, invite[i] # Nothing
    PROVE  /\ invite[i] \in InviteRow /\ account[invite[i].brokerage] # "none"
BY DEF Core, TypeOK, Founding, InviteRow

LEMMA AsksKeep ==
    ASSUME Core, NEW s \in Session, AskSomething(s)
    PROVE  Core'
<1> USE DEF Core
<1>1. clock \in Nat /\ users \subseteq User
  BY SpineAssumption DEF TypeOK
<1> DEFINE rec(op, u, b, i, t, r) ==
      [op |-> op, user |-> u, brokerage |-> b, invite |-> i, target |-> t, role |-> r, at |-> clock]
<1>2. ASSUME NEW op, NEW u, NEW b, NEW i, NEW t, NEW r, Ask(s, op, u, b, i, t, r)
      PROVE  /\ pc[s] = "idle" /\ op \in Operation /\ job' = [job EXCEPT ![s] = rec(op, u, b, i, t, r)]
             /\ pc' = [pc EXCEPT ![s] = "asked"] /\ UNCHANGED <<clock, tableVars>>
  BY <1>2 DEF Ask, Goto
<1>3. CASE AskRedeem(s)
  <2>1. PICK u \in users, i \in Invite :
          invite[i] # Nothing /\ Ask(s, "redeem", u, invite[i].brokerage, i, Nobody, invite[i].role)
    BY <1>3 DEF AskRedeem
  <2>2. invite[i] \in InviteRow /\ account[invite[i].brokerage] # "none"
    BY <2>1, InvitedIsMade
  <2>3. PICK j : j = rec("redeem", u, invite[i].brokerage, i, Nobody, invite[i].role)
    OBVIOUS
  <2>4. j \in Job
    BY <1>1, <1>2, <2>1, <2>2, <2>3 DEF Job, InviteRow, Role
  <2>5. /\ j.op = "redeem" /\ j.user \in User /\ j.brokerage = invite[i].brokerage /\ j.invite = i
        /\ j.role \in Role /\ j.brokerage \in Brokerage
    BY <1>1, <2>2, <2>3 DEF InviteRow
  <2>6. /\ pc[s] = "idle" /\ job' = [job EXCEPT ![s] = j]
        /\ pc' = [pc EXCEPT ![s] = "asked"] /\ UNCHANGED <<clock, tableVars>>
    BY <1>2, <2>1, <2>3
  <2> QED
    BY <2>1, <2>2, <2>4, <2>5, <2>6, AskKeeps DEF Joining, Ending, Inviting
<1>4. CASE AskMint(s)
  <2>1. PICK u \in users \cup {Nobody}, i \in Invite, b \in Brokerage, r \in Role :
          Undrawn(i) /\ account[b] # "none" /\ Ask(s, "mint", u, b, i, Nobody, r)
    BY <1>4 DEF AskMint
  <2>3. PICK j : j = rec("mint", u, b, i, Nobody, r)
    OBVIOUS
  <2>4. j \in Job
    BY <1>1, <1>2, <2>1, <2>3 DEF Job
  <2>5. j.op = "mint" /\ j.brokerage = b /\ j.invite = i /\ j.role = r
    BY <2>3
  <2>6. /\ pc[s] = "idle" /\ job' = [job EXCEPT ![s] = j]
        /\ pc' = [pc EXCEPT ![s] = "asked"] /\ UNCHANGED <<clock, tableVars>>
    BY <1>2, <2>1, <2>3
  <2> QED
    BY <2>1, <2>4, <2>5, <2>6, AskKeeps DEF Joining, Ending, Inviting
<1>5. CASE AskWithdraw(s)
  <2>1. PICK u \in users \cup {Nobody}, i \in Invite :
          invite[i] # Nothing /\ Ask(s, "withdraw", u, invite[i].brokerage, i, Nobody, invite[i].role)
    BY <1>5 DEF AskWithdraw
  <2>2. invite[i] \in InviteRow /\ account[invite[i].brokerage] # "none"
    BY <2>1, InvitedIsMade
  <2>3. PICK j : j = rec("withdraw", u, invite[i].brokerage, i, Nobody, invite[i].role)
    OBVIOUS
  <2>4. j \in Job
    BY <1>1, <1>2, <2>1, <2>2, <2>3 DEF Job, InviteRow, Role
  <2>5. j.op = "withdraw" /\ j.brokerage = invite[i].brokerage /\ j.invite = i /\ j.brokerage \in Brokerage
    BY <2>2, <2>3 DEF InviteRow
  <2>6. /\ pc[s] = "idle" /\ job' = [job EXCEPT ![s] = j]
        /\ pc' = [pc EXCEPT ![s] = "asked"] /\ UNCHANGED <<clock, tableVars>>
    BY <1>2, <2>1, <2>3
  <2> QED
    BY <2>1, <2>2, <2>4, <2>5, <2>6, AskKeeps DEF Joining, Ending, Inviting
<1>6. CASE AskSignup(s)
  <2>1. PICK u \in users, b \in Brokerage : Unused(b) /\ Ask(s, "signup", u, b, Nobody, Nobody, "owner")
    BY <1>6 DEF AskSignup
  <2>3. PICK j : j = rec("signup", u, b, Nobody, Nobody, "owner")
    OBVIOUS
  <2>4. j \in Job
    BY <1>1, <1>2, <2>1, <2>3 DEF Job, Role
  <2>5. j.op = "signup" /\ j.brokerage = b /\ j.user \in User /\ j.role = "owner"
    BY <1>1, <2>3
  <2>6. /\ pc[s] = "idle" /\ job' = [job EXCEPT ![s] = j]
        /\ pc' = [pc EXCEPT ![s] = "asked"] /\ UNCHANGED <<clock, tableVars>>
    BY <1>2, <2>1, <2>3
  <2> QED
    BY <2>1, <2>4, <2>5, <2>6, AskKeeps DEF Joining, Ending, Inviting
<1>7. CASE AskRemove(s)
  <2>1. PICK u \in users, t \in users, b \in Brokerage :
          member[b][t] # "none" /\ Ask(s, "remove", u, b, Nobody, t, "gone")
    BY <1>7 DEF AskRemove
  <2>2. account[b] # "none"
    BY <1>1, <2>1 DEF Founding
  <2>3. PICK j : j = rec("remove", u, b, Nobody, t, "gone")
    OBVIOUS
  <2>4. j \in Job
    BY <1>1, <1>2, <2>1, <2>3 DEF Job
  <2>5. j.op = "remove" /\ j.brokerage = b /\ j.target \in User /\ j.role = "gone"
    BY <1>1, <2>3
  <2>6. /\ pc[s] = "idle" /\ job' = [job EXCEPT ![s] = j]
        /\ pc' = [pc EXCEPT ![s] = "asked"] /\ UNCHANGED <<clock, tableVars>>
    BY <1>2, <2>1, <2>3
  <2> QED
    BY <2>1, <2>2, <2>4, <2>5, <2>6, AskKeeps DEF Joining, Ending, Inviting
<1>8. CASE AskChange(s)
  <2>1. PICK t \in users, b \in Brokerage, r \in Change :
          member[b][t] \notin {"none", r} /\ Ask(s, "change", Nobody, b, Nobody, t, r)
    BY <1>8 DEF AskChange
  <2>2. account[b] # "none"
    BY <1>1, <2>1 DEF Founding
  <2>3. PICK j : j = rec("change", Nobody, b, Nobody, t, r)
    OBVIOUS
  <2>4. j \in Job
    BY <1>1, <1>2, <2>1, <2>3, SpineAssumption DEF Job, Role
  <2>5. j.op = "change" /\ j.brokerage = b /\ j.target \in User /\ j.role = r
    BY <1>1, <2>3
  <2>6. /\ pc[s] = "idle" /\ job' = [job EXCEPT ![s] = j]
        /\ pc' = [pc EXCEPT ![s] = "asked"] /\ UNCHANGED <<clock, tableVars>>
    BY <1>2, <2>1, <2>3
  <2> QED
    BY <2>1, <2>2, <2>4, <2>5, <2>6, AskKeeps DEF Joining, Ending, Inviting
<1> QED
  BY <1>3, <1>4, <1>5, <1>6, <1>7, <1>8 DEF AskSomething

-----------------------------------------------------------------------------
(* It takes its locks and makes its checks.                                *)

LEMMA TakeLockKeeps ==
    ASSUME Core, NEW s \in Session, TakeLock(s)
    PROVE  Core'
<1> USE DEF Core
<1>1. /\ pc[s] = "asked" /\ FirstHolders(s) = {} /\ pc' = [pc EXCEPT ![s] = "locked"]
      /\ job' = job /\ UNCHANGED <<clock, tableVars>>
  BY DEF TakeLock, Goto
<1>2. pc'[s] = "locked" /\ \A t \in Session : t # s => pc'[t] = pc[t]
  BY <1>1, OthersStay
<1>3. Fits(s)
  BY <1>1 DEF Jobs
<1>4. \A b \in Brokerage : \A t \in EvaluationHolders(b)' :
         t \in EvaluationHolders(b) \/ (t = s /\ EvaluationHolders(b) = {})
  BY <1>1, <1>2, <1>3 DEF EvaluationHolders, Running, FirstHolders, Inviting, HeldSteps
<1>5. \A b \in Brokerage, u \in User : \A t \in MemberHolders(b, u)' :
         t \in MemberHolders(b, u) \/ (t = s /\ MemberHolders(b, u) = {})
  BY <1>1, <1>2, <1>3 DEF MemberHolders, Running, FirstHolders, HeldSteps
<1>6. OneHolder'
  BY <1>4, <1>5 DEF OneHolder
<1>7. Stands(s)' /\ Aims(s)'
  BY <1>2 DEF Stands, Aims
<1>8. Entering'
  BY <1>1, <1>2 DEF Entering, Enters, tableVars
<1> QED
  BY <1>1, <1>6, <1>7, <1>8, MoveKeeps DEF HeldSteps

(* The steps before a write, which nobody enters by.                       *)
LEMMA CheckKeeps ==
    ASSUME Core, NEW s \in Session, pc[s] \notin {"idle", "asked"},
           NEW step \in HeldSteps \cup {"counting"},
           pc' = [pc EXCEPT ![s] = step], job' = job, UNCHANGED <<clock, tableVars>>,
           step \in {"usable", "seated"} => job[s].op = "redeem",
           step = "unattached" => job[s].op \in Joining,
           step = "counting" => job[s].op = "change",
           step = "written" => job[s].op \notin Joining,
           Stands(s)', Aims(s)'
    PROVE  Core'
<1>1. pc'[s] = step /\ \A t \in Session : t # s => pc'[t] = pc[t]
  BY OthersStay DEF Core
<1>2. Entering'
  BY <1>1 DEF Core, Entering, Enters, tableVars
<1> QED
  BY <1>2, MoveKeeps

LEMMA ChecksKeep ==
    ASSUME Core, NEW s \in Session, Check(s) \/ GuardChange(s)
    PROVE  Core'
<1> USE DEF Core
<1>1. CASE Refuse(s)
  BY <1>1, RefuseKeeps
<1> SUFFICES ASSUME ~Refuse(s) PROVE Core'
  BY <1>1
<1>2. CASE Usable(s)
  <2>1. /\ pc[s] = "locked" /\ job[s].op = "redeem" /\ Admits(job[s].brokerage, job[s].at)
        /\ invite[job[s].invite].status = "open" /\ pc' = [pc EXCEPT ![s] = "usable"]
        /\ job' = job /\ UNCHANGED <<clock, tableVars>>
    BY <1>2 DEF Usable, Goto
  <2>2. pc'[s] = "usable"
    BY <2>1, OthersStay
  <2>3. Stands(s)' /\ Aims(s)'
    BY <2>1, <2>2 DEF Stands, Aims, Admits, tableVars
  <2> QED
    BY <2>1, <2>3, CheckKeeps DEF HeldSteps
<1>3. CASE Unattached(s)
  <2>1. /\ pc[s] = "usable" \/ (pc[s] = "locked" /\ job[s].op = "signup")
        /\ pc' = [pc EXCEPT ![s] = "unattached"] /\ job' = job /\ UNCHANGED <<clock, tableVars>>
    BY <1>3 DEF Unattached, Goto
  <2>2. pc'[s] = "unattached"
    BY <2>1, OthersStay
  <2>3. job[s].op \in Joining /\ Stands(s)
    BY <2>1 DEF Jobs, Fits, Joining
  <2>4. Stands(s)' /\ Aims(s)'
    BY <2>1, <2>2, <2>3 DEF Stands, Aims, tableVars
  <2> QED
    BY <2>1, <2>3, <2>4, CheckKeeps DEF HeldSteps
<1>4. CASE CountSeats(s)
  <2>1. /\ pc[s] = "unattached" /\ job[s].op = "redeem"
        /\ pc' = [pc EXCEPT ![s] = "seated"] /\ job' = job /\ UNCHANGED <<clock, tableVars>>
    BY <1>4 DEF CountSeats, Goto
  <2>2. pc'[s] = "seated"
    BY <2>1, OthersStay
  <2>3. Stands(s)' /\ Aims(s)'
    BY <2>1, <2>2 DEF Stands, Aims, tableVars
  <2> QED
    BY <2>1, <2>3, CheckKeeps DEF HeldSteps
<1>5. CASE CheckMint(s)
  <2>1. /\ pc[s] = "locked" /\ job[s].op = "mint"
        /\ pc' = [pc EXCEPT ![s] = "written"] /\ job' = job /\ UNCHANGED <<clock, tableVars>>
    BY <1>5 DEF CheckMint, Goto
  <2>2. pc'[s] = "written"
    BY <2>1, OthersStay
  <2>3. Stands(s)' /\ Aims(s)'
    BY <2>1, <2>2 DEF Stands, Aims, Ending
  <2> QED
    BY <2>1, <2>3, CheckKeeps DEF HeldSteps, Joining
<1>6. CASE CheckWithdraw(s)
  <2>1. /\ pc[s] = "locked" /\ job[s].op = "withdraw" /\ invite[job[s].invite].status = "open"
        /\ pc' = [pc EXCEPT ![s] = "written"] /\ job' = job /\ UNCHANGED <<clock, tableVars>>
    BY <1>6 DEF CheckWithdraw, Goto
  <2>2. pc'[s] = "written"
    BY <2>1, OthersStay
  <2>3. Stands(s)' /\ Aims(s)'
    BY <2>1, <2>2 DEF Stands, Aims, Ending, tableVars
  <2> QED
    BY <2>1, <2>3, CheckKeeps DEF HeldSteps, Joining
<1>7. CASE CheckRemove(s)
  <2>1. /\ pc[s] = "locked" /\ job[s].op = "remove" /\ member[job[s].brokerage][job[s].target] = "agent"
        /\ pc' = [pc EXCEPT ![s] = "written"] /\ job' = job /\ UNCHANGED <<clock, tableVars>>
    BY <1>7 DEF CheckRemove, Goto
  <2>2. pc'[s] = "written"
    BY <2>1, OthersStay
  <2>3. Stands(s)' /\ Aims(s)'
    BY <2>1, <2>2 DEF Stands, Aims, Ending, tableVars
  <2> QED
    BY <2>1, <2>3, CheckKeeps DEF HeldSteps, Joining
<1>8. CASE CountOwners(s)
  <2>1. /\ pc[s] = "counting" /\ pc' = [pc EXCEPT ![s] = "written"] /\ job' = job
        /\ UNCHANGED <<clock, tableVars>>
    BY <1>8 DEF CountOwners, Goto
  <2>2. pc'[s] = "written"
    BY <2>1, OthersStay
  <2>3. job[s].op = "change" /\ Aims(s)
    BY <2>1 DEF Jobs, Fits
  <2>4. Stands(s)' /\ Aims(s)'
    BY <2>1, <2>2, <2>3 DEF Stands, Aims, Ending, tableVars
  <2> QED
    BY <2>1, <2>3, <2>4, CheckKeeps DEF HeldSteps, Joining
<1>9. CASE GuardChange(s)
  <2> DEFINE role == member[job[s].brokerage][job[s].target]
  <2>1. /\ pc[s] = "locked" /\ job[s].op = "change" /\ role # "none" /\ job' = job /\ UNCHANGED <<clock, tableVars>>
        /\ \/ pc' = [pc EXCEPT ![s] = "written"]
           \/ role = "owner" /\ pc' = [pc EXCEPT ![s] = "counting"]
    BY <1>9 DEF GuardChange, Unmakes, Goto
  <2>2. CASE pc' = [pc EXCEPT ![s] = "written"]
    <3>1. pc'[s] = "written"
      BY <2>1, <2>2, OthersStay
    <3>2. Stands(s)' /\ Aims(s)'
      BY <2>1, <3>1 DEF Stands, Aims, Ending, tableVars
    <3> QED
      BY <2>1, <2>2, <3>2, CheckKeeps DEF HeldSteps, Joining
  <2>3. CASE role = "owner" /\ pc' = [pc EXCEPT ![s] = "counting"]
    <3>1. pc'[s] = "counting"
      BY <2>1, <2>3, OthersStay
    <3>2. Stands(s)' /\ Aims(s)'
      BY <2>1, <2>3, <3>1 DEF Stands, Aims, Ending, tableVars
    <3> QED
      BY <2>1, <2>3, <3>2, CheckKeeps DEF HeldSteps, Joining
  <2> QED
    BY <2>1, <2>2, <2>3
<1> QED
  BY <1>2, <1>3, <1>4, <1>5, <1>6, <1>7, <1>8, <1>9 DEF Check

(* The unique index: nobody else is being let in, and nobody was.          *)
LEMMA InsertKeeps ==
    ASSUME Core, NEW s \in Session, Insert(s)
    PROVE  Core'
<1> USE DEF Core
<1>1. CASE Refuse(s)
  BY <1>1, RefuseKeeps
<1>2. CASE ~Refuse(s)
  <2>1. /\ AtInsert(s) /\ WritesFor(job[s].user) = {} /\ Belongs(job[s].user) = {}
        /\ pc' = [pc EXCEPT ![s] = "written"] /\ job' = job /\ UNCHANGED <<clock, tableVars>>
    BY <1>2 DEF Insert, Goto
  <2>2. pc[s] \in {"seated", "unattached"} /\ job[s].op \in Joining
    BY <2>1 DEF AtInsert, Jobs, Fits, Joining
  <2>3. pc'[s] = "written" /\ \A t \in Session : t # s => pc'[t] = pc[t]
    BY <2>1, OthersStay
  <2>4. Stands(s)' /\ Aims(s)'
    BY <2>1, <2>2, <2>3 DEF Stands, Aims, Ending, Joining, tableVars
  <2>5. Entering'
    <3>1. \A b \in Brokerage : member[b][job[s].user] = "none"
      BY <2>1 DEF Belongs
    <3>2. \A t \in Session : Enters(t) => job[t].user # job[s].user
      BY <2>1 DEF WritesFor, Running, Enters, Joining
    <3> QED
      BY <2>1, <2>3, <3>1, <3>2 DEF Entering, Enters, tableVars
  <2> QED
    BY <2>1, <2>2, <2>4, <2>5, MoveKeeps DEF HeldSteps
<1> QED
  BY <1>1, <1>2

-----------------------------------------------------------------------------
(* It commits.                                                             *)

(* What is the same after any commit: who is gone, and who is not.         *)
LEMMA CommitEnds ==
    ASSUME Core, NEW s \in Session, Over(s), pc[s] = "written"
    PROVE  /\ clock' = clock /\ pc'[s] = "idle" /\ job'[s] = Nothing
           /\ \A t \in Session : t # s => pc'[t] = pc[t] /\ job'[t] = job[t]
           /\ \A t \in Session : pc'[t] # "idle" => t # s
           /\ Minting' /\ OneHolder' /\ Fits(s) /\ Stands(s) /\ Aims(s)
           /\ pc' \in [Session -> {"idle", "asked", "counting"} \cup HeldSteps]
           /\ job' \in [Session -> Job \cup {Nothing}]
<1> USE DEF Core
<1>1. /\ pc' = [pc EXCEPT ![s] = "idle"] /\ job' = [job EXCEPT ![s] = Nothing] /\ clock' = clock
  BY DEF Over
<1>2. pc'[s] = "idle" /\ \A t \in Session : t # s => pc'[t] = pc[t] /\ job'[t] = job[t]
  BY <1>1, OthersStay
<1>3. Minting'
  BY <1>2 DEF Minting, At
<1>4. OneHolder'
  BY <1>2 DEF OneHolder, EvaluationHolders, MemberHolders, Running, HeldSteps
<1>5. Fits(s)
  BY DEF Jobs
<1>6. pc' \in [Session -> {"idle", "asked", "counting"} \cup HeldSteps] /\ job' \in [Session -> Job \cup {Nothing}]
  BY <1>1 DEF TypeOK
<1> QED
  BY <1>1, <1>2, <1>3, <1>4, <1>5, <1>6 DEF TypeOK

LEMMA CommitChangeKeeps ==
    ASSUME Core, NEW s \in Session, CommitChange(s)
    PROVE  Core'
<1> USE DEF Core
<1>1. PICK b \in Brokerage, u \in User, r \in Role \cup {"none"} :
        /\ b = job[s].brokerage /\ u = job[s].target /\ member' = [member EXCEPT ![b][u] = r]
        /\ UNCHANGED <<users, account, kind, evaluation, invite>> /\ Over(s)
        /\ pc[s] = "written" /\ job[s].op \in Ending
  <2>1. pc[s] = "written" /\ job[s].op \in Ending
    BY DEF CommitChange, Ending
  <2>2. Fits(s)
    BY <2>1 DEF Jobs
  <2>3. job[s].role \in Role \cup {"gone"}
    BY <2>2 DEF Fits, Job
  <2> QED
    BY <2>1, <2>2, <2>3 DEF CommitChange, SetMember, Fits, Role
<1>2. /\ clock' = clock /\ pc'[s] = "idle" /\ job'[s] = Nothing
      /\ \A t \in Session : t # s => pc'[t] = pc[t] /\ job'[t] = job[t]
      /\ Minting' /\ OneHolder' /\ Aims(s)
      /\ pc' \in [Session -> {"idle", "asked", "counting"} \cup HeldSteps]
      /\ job' \in [Session -> Job \cup {Nothing}]
  BY <1>1, CommitEnds
<1>3. /\ \A d \in Brokerage, v \in User : d # b \/ v # u => member'[d][v] = member[d][v]
      /\ member' \in [Brokerage -> [User -> Role \cup {"none"}]]
  BY <1>1 DEF TypeOK
<1>4. member[b][u] # "none" /\ account[b] # "none"
  BY <1>1, <1>2 DEF Aims, Founding
<1>5. TypeOK'
  BY <1>1, <1>2, <1>3 DEF TypeOK
<1>6. Jobs'
  BY <1>1, <1>2 DEF Jobs, Fits
<1>7. Founding'
  BY <1>1, <1>2, <1>3, <1>4 DEF Founding, At
<1>8. \A t \in Session : Stands(t)'
  BY <1>1, <1>2 DEF Stands
<1>9. \A t \in Session : Aims(t)'
  <2> SUFFICES ASSUME NEW t \in Session, t # s, pc[t] \in {"counting", "written"}, job[t].op \in Ending
               PROVE  Aims(t)'
    BY <1>2 DEF Aims
  <2>1. job[t].brokerage = b /\ job[t].target = u => s \in MemberHolders(b, u) /\ t \in MemberHolders(b, u)
    BY <1>1 DEF MemberHolders, Running, HeldSteps, Ending
  <2>2. job[t].brokerage # b \/ job[t].target # u
    BY <2>1 DEF OneHolder
  <2>3. job[t].brokerage \in Brokerage /\ job[t].target \in User
    BY DEF Jobs, Fits
  <2> QED
    BY <1>2, <1>3, <2>2, <2>3 DEF Aims
<1>10. Entering'
  <2>1. \A t \in Session : t # s /\ Enters(t) => job[t].user \in User /\ job[t].user # u
    BY <1>4 DEF Entering, Enters, Jobs, Fits
  <2>2. \A t \in Session : Enters(t)' => t # s /\ Enters(t) /\ job'[t] = job[t]
    BY <1>2 DEF Enters
  <2>3. ASSUME NEW t \in Session, Enters(t)', NEW d \in Brokerage PROVE member'[d][job'[t].user] = "none"
    BY <1>3, <2>1, <2>2, <2>3 DEF Entering
  <2> QED
    BY <2>2, <2>3 DEF Entering
<1>11. OneEach'
  BY <1>3, <1>4 DEF OneEach
<1> QED
  BY <1>2, <1>5, <1>6, <1>7, <1>8, <1>9, <1>10, <1>11

(* Whoever is let in belongs nowhere else, and nobody else lets them in.    *)
LEMMA LetIn ==
    ASSUME Core, NEW s \in Session, pc[s] = "written", job[s].op \in Joining, Over(s),
           NEW b \in Brokerage, b = job[s].brokerage, NEW u \in User, u = job[s].user, NEW r \in Role,
           SetMember(b, u, r)
    PROVE  /\ member' \in [Brokerage -> [User -> Role \cup {"none"}]]
           /\ member'[b][u] = r
           /\ \A d \in Brokerage, v \in User : d # b \/ v # u => member'[d][v] = member[d][v]
           /\ Entering' /\ OneEach' /\ \A t \in Session : Aims(t)'
<1> USE DEF Core
<1>1. /\ pc'[s] = "idle" /\ \A t \in Session : t # s => pc'[t] = pc[t] /\ job'[t] = job[t]
  BY CommitEnds
<1>2. /\ \A d \in Brokerage, v \in User : d # b \/ v # u => member'[d][v] = member[d][v]
      /\ member'[b][u] = r /\ member' \in [Brokerage -> [User -> Role \cup {"none"}]]
  BY DEF TypeOK, SetMember
<1>3. \A d \in Brokerage : member[d][u] = "none"
  BY DEF Entering, Enters
<1>4. Entering'
  <2>1. \A t \in Session : t # s /\ Enters(t) => job[t].user \in User /\ job[t].user # u
    BY DEF Entering, Enters, Jobs, Fits
  <2> QED
    BY <1>1, <1>2, <2>1 DEF Entering, Enters
<1>5. OneEach'
  BY <1>2, <1>3 DEF OneEach
<1>6. \A t \in Session : Aims(t)'
  <2> SUFFICES ASSUME NEW t \in Session, t # s, pc[t] \in {"counting", "written"}, job[t].op \in Ending
               PROVE  Aims(t)'
    BY <1>1 DEF Aims
  <2>1. job[t].brokerage \in Brokerage /\ job[t].target \in User /\ Aims(t)
    BY DEF Jobs, Fits
  <2>2. job[t].target # u
    BY <1>3, <2>1 DEF Aims
  <2> QED
    BY <1>1, <1>2, <2>1, <2>2 DEF Aims
<1> QED
  BY <1>2, <1>4, <1>5, <1>6

(* An invite is used once: whoever else uses it holds the same evaluation.  *)
LEMMA InviteIsAlone ==
    ASSUME Core, NEW s \in Session, pc[s] = "written", job[s].op \in {"redeem", "withdraw"},
           NEW t \in Session, t # s, pc[t] \in HeldSteps, job[t].op \in {"redeem", "withdraw"}
    PROVE  job[t].invite # job[s].invite
<1>1. Fits(s) /\ Fits(t)
  BY DEF Core, Jobs, HeldSteps
<1>2. job[t].invite = job[s].invite =>
        \E b \in Brokerage : s \in EvaluationHolders(b) /\ t \in EvaluationHolders(b)
  BY <1>1 DEF EvaluationHolders, Running, Fits, HeldSteps
<1> QED
  BY <1>2 DEF Core, OneHolder

LEMMA InviteIsUsed ==
    ASSUME Core, NEW s \in Session, pc[s] = "written", job[s].op \in {"redeem", "withdraw"}, Over(s),
           NEW i \in Invite, i = job[s].invite, NEW status \in {"redeemed", "revoked"},
           NEW u \in User \cup {Nobody}, SetInvite(i, status, u), account' = account, evaluation' = evaluation
    PROVE  /\ invite' \in [Invite -> InviteRow \cup {Nothing}]
           /\ invite[i] \in InviteRow /\ invite'[i].status = status
           /\ \A k \in Invite : /\ invite'[k] = Nothing <=> invite[k] = Nothing
                                /\ invite[k] # Nothing => invite'[k].brokerage = invite[k].brokerage
                                /\ k # i => invite'[k] = invite[k]
           /\ Jobs' /\ \A t \in Session : Stands(t)'
<1> USE DEF Core
<1>1. /\ pc'[s] = "idle" /\ job'[s] = Nothing /\ Fits(s)
      /\ \A t \in Session : t # s => pc'[t] = pc[t] /\ job'[t] = job[t]
  BY CommitEnds
<1>2. invite[i] \in InviteRow
  BY <1>1 DEF Fits, TypeOK
<1>3. /\ invite' \in [Invite -> InviteRow \cup {Nothing}] /\ invite'[i] \in InviteRow
      /\ invite'[i].status = status /\ invite'[i].brokerage = invite[i].brokerage
      /\ \A k \in Invite : k # i => invite'[k] = invite[k]
  <2>1. invite' = [invite EXCEPT ![i] = [[invite[i] EXCEPT !.status = status] EXCEPT !.by = u]]
    BY DEF SetInvite, TypeOK
  <2>2. PICK row : row = [[invite[i] EXCEPT !.status = status] EXCEPT !.by = u]
    OBVIOUS
  <2>3. row \in InviteRow /\ row.status = status /\ row.brokerage = invite[i].brokerage
    BY <1>2, <2>2 DEF InviteRow
  <2> QED
    BY <2>1, <2>2, <2>3 DEF TypeOK
<1>4. \A k \in Invite : /\ invite'[k] = Nothing <=> invite[k] = Nothing
                        /\ invite[k] # Nothing => invite'[k].brokerage = invite[k].brokerage
  BY <1>2, <1>3, RowsAssumption
<1>5. Jobs'
  BY <1>1, <1>4 DEF Jobs, Fits, Inviting
<1>6. \A t \in Session : Stands(t)'
  <2> SUFFICES ASSUME NEW t \in Session, t # s, pc[t] \in HeldSteps, job[t].op \in {"redeem", "withdraw"}
               PROVE  Stands(t)'
    BY <1>1 DEF Stands, HeldSteps
  <2>1. job[t].invite # i /\ job[t].invite \in Invite
    BY InviteIsAlone DEF Jobs, Fits, Inviting, HeldSteps
  <2> QED
    BY <1>1, <1>3, <2>1 DEF Stands
<1> QED
  BY <1>2, <1>3, <1>4, <1>5, <1>6

LEMMA CommitRedeemKeeps ==
    ASSUME Core, NEW s \in Session, CommitRedeem(s)
    PROVE  Core'
<1> USE DEF Core
<1>1. PICK b \in Brokerage, u \in User, i \in Invite, r \in Role :
        /\ b = job[s].brokerage /\ u = job[s].user /\ i = job[s].invite /\ r = job[s].role
        /\ SetMember(b, u, r) /\ SetInvite(i, "redeemed", u)
        /\ users' = users /\ account' = account /\ kind' = kind /\ evaluation' = evaluation /\ Over(s)
        /\ pc[s] = "written" /\ job[s].op = "redeem"
  <2>1. pc[s] = "written" /\ job[s].op = "redeem"
    BY DEF CommitRedeem
  <2>2. Fits(s)
    BY <2>1 DEF Jobs
  <2> QED
    BY <2>1, <2>2 DEF CommitRedeem, Fits, Inviting, Joining
<1>2. /\ clock' = clock /\ pc'[s] = "idle" /\ job'[s] = Nothing
      /\ \A t \in Session : t # s => pc'[t] = pc[t] /\ job'[t] = job[t]
      /\ Minting' /\ OneHolder' /\ Fits(s)
      /\ pc' \in [Session -> {"idle", "asked", "counting"} \cup HeldSteps]
      /\ job' \in [Session -> Job \cup {Nothing}]
  BY <1>1, CommitEnds
<1>3. /\ member' \in [Brokerage -> [User -> Role \cup {"none"}]]
      /\ \A d \in Brokerage, v \in User : d # b \/ v # u => member'[d][v] = member[d][v]
      /\ Entering' /\ OneEach' /\ \A t \in Session : Aims(t)'
  <2>1. job[s].op \in Joining
    BY <1>1 DEF Joining
  <2> HIDE DEF Core
  <2> QED
    BY <1>1, <2>1, LetIn
<1>4. /\ invite' \in [Invite -> InviteRow \cup {Nothing}]
      /\ \A k \in Invite : /\ invite'[k] = Nothing <=> invite[k] = Nothing
                           /\ invite[k] # Nothing => invite'[k].brokerage = invite[k].brokerage
      /\ Jobs' /\ \A t \in Session : Stands(t)'
  BY <1>1, InviteIsUsed
<1>5. TypeOK'
  BY <1>1, <1>2, <1>3, <1>4 DEF TypeOK
<1>6. account[b] # "none"
  BY <1>1 DEF Founding
<1>7. Founding'
  BY <1>1, <1>2, <1>3, <1>4, <1>6 DEF Founding, At
<1> QED
  BY <1>2, <1>3, <1>4, <1>5, <1>7

LEMMA CommitWithdrawKeeps ==
    ASSUME Core, NEW s \in Session, CommitWithdraw(s)
    PROVE  Core'
<1> USE DEF Core
<1>1. PICK i \in Invite :
        /\ i = job[s].invite /\ SetInvite(i, "revoked", Nobody)
        /\ users' = users /\ account' = account /\ kind' = kind /\ evaluation' = evaluation /\ member' = member
        /\ Over(s) /\ pc[s] = "written" /\ job[s].op = "withdraw"
  <2>1. pc[s] = "written" /\ job[s].op = "withdraw"
    BY DEF CommitWithdraw
  <2>2. Fits(s)
    BY <2>1 DEF Jobs
  <2> QED
    BY <2>1, <2>2 DEF CommitWithdraw, Fits, Inviting
<1>2. /\ clock' = clock /\ pc'[s] = "idle" /\ job'[s] = Nothing
      /\ \A t \in Session : t # s => pc'[t] = pc[t] /\ job'[t] = job[t]
      /\ Minting' /\ OneHolder'
      /\ pc' \in [Session -> {"idle", "asked", "counting"} \cup HeldSteps]
      /\ job' \in [Session -> Job \cup {Nothing}]
  BY <1>1, CommitEnds
<1>4. /\ invite' \in [Invite -> InviteRow \cup {Nothing}]
      /\ \A k \in Invite : /\ invite'[k] = Nothing <=> invite[k] = Nothing
                           /\ invite[k] # Nothing => invite'[k].brokerage = invite[k].brokerage
      /\ Jobs' /\ \A t \in Session : Stands(t)'
  BY <1>1, InviteIsUsed
<1>5. TypeOK'
  BY <1>1, <1>2, <1>4 DEF TypeOK
<1>6. Founding'
  BY <1>1, <1>2, <1>4 DEF Founding, At
<1>7. Entering' /\ OneEach' /\ \A t \in Session : Aims(t)'
  BY <1>1, <1>2 DEF Entering, Enters, OneEach, Aims
<1> QED
  BY <1>2, <1>4, <1>5, <1>6, <1>7

LEMMA NewInviteIsRow ==
    ASSUME NEW b \in Brokerage, NEW r \in Role, NEW at \in Nat
    PROVE  /\ NewInvite(b, r, at) \in InviteRow /\ NewInvite(b, r, at) # Nothing
           /\ NewInvite(b, r, at).brokerage = b /\ NewInvite(b, r, at).status = "open"
<1>1. NewInvite(b, r, at) \in InviteRow
  BY SpineAssumption DEF NewInvite, InviteRow
<1> QED
  BY <1>1, RowsAssumption DEF NewInvite

LEMMA CommitMintKeeps ==
    ASSUME Core, NEW s \in Session, CommitMint(s)
    PROVE  Core'
<1> USE DEF Core
<1>1. PICK i \in Invite, row \in InviteRow :
        /\ i = job[s].invite /\ invite' = [invite EXCEPT ![i] = row]
        /\ row.brokerage = job[s].brokerage /\ row # Nothing
        /\ users' = users /\ account' = account /\ kind' = kind /\ evaluation' = evaluation /\ member' = member
        /\ Over(s) /\ pc[s] = "written" /\ job[s].op = "mint"
  <2>1. pc[s] = "written" /\ job[s].op = "mint"
    BY DEF CommitMint
  <2>2. Fits(s)
    BY <2>1 DEF Jobs
  <2>3. /\ job[s].brokerage \in Brokerage /\ job[s].role \in Role /\ job[s].at \in Nat /\ job[s].invite \in Invite
    BY <2>1, <2>2 DEF Fits, Job, Inviting
  <2>4. PICK row : row = NewInvite(job[s].brokerage, job[s].role, job[s].at)
    OBVIOUS
  <2>5. row \in InviteRow /\ row # Nothing /\ row.brokerage = job[s].brokerage
    BY <2>3, <2>4, NewInviteIsRow
  <2> QED
    BY <2>1, <2>3, <2>4, <2>5 DEF CommitMint
<1>2. /\ clock' = clock /\ pc'[s] = "idle" /\ job'[s] = Nothing
      /\ \A t \in Session : t # s => pc'[t] = pc[t] /\ job'[t] = job[t]
      /\ Minting' /\ OneHolder' /\ Fits(s)
      /\ pc' \in [Session -> {"idle", "asked", "counting"} \cup HeldSteps]
      /\ job' \in [Session -> Job \cup {Nothing}]
  BY <1>1, CommitEnds
<1>3. /\ invite[i] = Nothing /\ invite'[i] = row /\ \A k \in Invite : k # i => invite'[k] = invite[k]
      /\ invite' \in [Invite -> InviteRow \cup {Nothing}]
  BY <1>1, <1>2 DEF Fits, TypeOK
<1>4. TypeOK'
  BY <1>1, <1>2, <1>3 DEF TypeOK
<1>5. ASSUME NEW t \in Session, t # s, pc[t] # "idle"
      PROVE  job[t].op \in Inviting => job[t].invite \in Invite /\ job[t].invite # i
  <2>1. Fits(t)
    BY <1>5 DEF Jobs
  <2>2. job[t].op = "mint" => job[t].invite # i
    BY <1>1, <1>5 DEF Minting, At
  <2> QED
    BY <1>3, <2>1, <2>2 DEF Fits, Inviting
<1>6. Jobs'
  BY <1>1, <1>2, <1>3, <1>5 DEF Jobs, Fits, Inviting
<1>7. account[job[s].brokerage] # "none"
  BY <1>1, <1>2 DEF Founding, Fits
<1>8. Founding'
  BY <1>1, <1>2, <1>3, <1>7 DEF Founding, At
<1>9. \A t \in Session : Stands(t)'
  BY <1>1, <1>2, <1>3, <1>5 DEF Stands, Inviting
<1>10. Entering' /\ OneEach' /\ \A t \in Session : Aims(t)'
  BY <1>1, <1>2 DEF Entering, Enters, OneEach, Aims
<1> QED
  BY <1>2, <1>4, <1>6, <1>8, <1>9, <1>10

LEMMA CommitSignupKeeps ==
    ASSUME Core, NEW s \in Session, CommitSignup(s)
    PROVE  Core'
<1> USE DEF Core
<1>1. PICK b \in Brokerage, u \in User :
        /\ b = job[s].brokerage /\ u = job[s].user
        /\ account' = [account EXCEPT ![b] = "active"] /\ kind' = [kind EXCEPT ![b] = "individual"]
        /\ evaluation' = [evaluation EXCEPT ![b] = "active"] /\ SetMember(b, u, "owner")
        /\ users' = users /\ invite' = invite /\ Over(s)
        /\ pc[s] = "written" /\ job[s].op = "signup"
  <2>1. pc[s] = "written" /\ job[s].op = "signup"
    BY DEF CommitSignup
  <2>2. Fits(s)
    BY <2>1 DEF Jobs
  <2> QED
    BY <2>1, <2>2 DEF CommitSignup, Fits, Joining
<1>2. /\ clock' = clock /\ pc'[s] = "idle" /\ job'[s] = Nothing
      /\ \A t \in Session : t # s => pc'[t] = pc[t] /\ job'[t] = job[t]
      /\ Minting' /\ OneHolder'
      /\ pc' \in [Session -> {"idle", "asked", "counting"} \cup HeldSteps]
      /\ job' \in [Session -> Job \cup {Nothing}]
  BY <1>1, CommitEnds
<1>3. /\ member' \in [Brokerage -> [User -> Role \cup {"none"}]]
      /\ \A d \in Brokerage, v \in User : d # b \/ v # u => member'[d][v] = member[d][v]
      /\ Entering' /\ OneEach' /\ \A t \in Session : Aims(t)'
  <2>1. job[s].op \in Joining /\ "owner" \in Role
    BY <1>1 DEF Joining, Role
  <2>2. PICK r \in Role : r = "owner"
    BY <2>1
  <2>3. SetMember(b, u, r)
    BY <1>1, <2>2
  <2> HIDE DEF Core
  <2> QED
    BY <1>1, <2>1, <2>3, LetIn
<1>4. /\ account'[b] = "active" /\ evaluation'[b] = "active"
      /\ \A d \in Brokerage : d # b => account'[d] = account[d] /\ evaluation'[d] = evaluation[d]
  BY <1>1 DEF TypeOK
<1>5. TypeOK'
  BY <1>1, <1>2, <1>3 DEF TypeOK
<1>6. Jobs'
  BY <1>1, <1>2 DEF Jobs, Fits
<1>7. \A t \in Session : t # s /\ At(t, "signup") => job[t].brokerage \in Brokerage /\ job[t].brokerage # b
  <2> SUFFICES ASSUME NEW t \in Session, t # s, At(t, "signup")
               PROVE  job[t].brokerage \in Brokerage /\ job[t].brokerage # b
    OBVIOUS
  <2>1. At(s, "signup")
    BY <1>1 DEF At
  <2>2. job[t].brokerage # job[s].brokerage
    BY <2>1 DEF Founding
  <2>3. pc[t] # "idle"
    BY DEF At
  <2>4. Fits(t)
    BY <2>3 DEF Jobs
  <2>5. b = job[s].brokerage
    BY <1>1
  <2>6. job[t].brokerage \in Brokerage
    BY <2>4 DEF Fits
  <2> QED
    BY <2>2, <2>5, <2>6
<1>8. Founding'
  <2>1. \A d \in Brokerage : account'[d] = "none" => d # b /\ account[d] = "none"
    BY <1>4
  <2>2. ASSUME NEW d \in Brokerage, d # b, account[d] = "none"
        PROVE  /\ evaluation'[d] = "none" /\ \A v \in User : member'[d][v] = "none"
               /\ \A i \in Invite : invite'[i] # Nothing => invite'[i].brokerage # d
               /\ \A t \in Session : pc'[t] # "idle" /\ job'[t].brokerage = d => job'[t].op = "signup"
    BY <1>1, <1>2, <1>3, <1>4, <2>2 DEF Founding
  <2>3. \A t \in Session : At(t, "signup")' => t # s /\ At(t, "signup") /\ job'[t] = job[t]
    BY <1>2 DEF At
  <2>4. \A t \in Session : At(t, "signup")' => account'[job'[t].brokerage] = "none"
    BY <1>4, <1>7, <2>3 DEF Founding
  <2>5. \A t, r \in Session :
          At(t, "signup")' /\ At(r, "signup")' /\ job'[t].brokerage = job'[r].brokerage => t = r
    BY <2>3 DEF Founding
  <2> QED
    BY <2>1, <2>2, <2>4, <2>5 DEF Founding
<1>9. \A t \in Session : Stands(t)'
  <2> SUFFICES ASSUME NEW t \in Session, t # s, pc[t] \in HeldSteps
               PROVE  Stands(t)'
    BY <1>2 DEF Stands, HeldSteps
  <2>1. job[t].brokerage \in Brokerage
    BY DEF Jobs, Fits, HeldSteps
  <2> QED
    BY <1>1, <1>2, <1>4, <2>1 DEF Stands
<1> QED
  BY <1>2, <1>3, <1>5, <1>6, <1>8, <1>9

-----------------------------------------------------------------------------
(* What is done at once, and the step as a whole.                          *)

(* No session moves, and the parts about the sessions alone stay.          *)
LEMMA WorldStays ==
    ASSUME Core, World
    PROVE  clock' = clock /\ pc' = pc /\ job' = job /\ Minting' /\ OneHolder'
<1>1. clock' = clock /\ pc' = pc /\ job' = job
  BY DEF World
<1>2. Minting'
  BY <1>1 DEF Core, Minting, At
<1>3. OneHolder'
  BY <1>1 DEF Core, OneHolder, EvaluationHolders, MemberHolders, Running
<1> QED
  BY <1>1, <1>2, <1>3

LEMMA TickKeeps ==
    ASSUME Core, Tick
    PROVE  Core'
<1> USE DEF Core
<1>1. /\ users' = users /\ account' = account /\ kind' = kind /\ evaluation' = evaluation
      /\ member' = member /\ invite' = invite /\ pc' = pc /\ job' = job
      /\ clock' = clock + 1 /\ clock < MaxClock
  BY DEF Tick, tableVars
<1>2. TypeOK'
  BY <1>1, SpineAssumption DEF TypeOK
<1>3. Jobs' /\ Founding' /\ Minting'
  BY <1>1 DEF Jobs, Fits, Founding, Minting, At
<1>4. OneHolder'
  BY <1>1 DEF OneHolder, EvaluationHolders, MemberHolders, Running
<1>5. \A s \in Session : Stands(s)' /\ Aims(s)'
  BY <1>1 DEF Stands, Aims
<1> QED
  BY <1>1, <1>2, <1>3, <1>4, <1>5 DEF Entering, Enters, OneEach

(* Whatever is unused or undrawn, no session refers to.                    *)
LEMMA NobodyRefers ==
    ASSUME Core, NEW s \in Session, pc[s] # "idle"
    PROVE  /\ Fits(s) /\ job[s] # Nothing
           /\ \A b \in Brokerage : Unused(b) => job[s].brokerage # b
           /\ \A i \in Invite : Undrawn(i) => job[s].invite # i
<1>1. Fits(s) /\ job[s] \in Job
  BY DEF Core, Jobs, Fits
<1> QED
  BY <1>1, RowsAssumption DEF Unused, Undrawn

LEMMA EvaluationCreateKeeps ==
    ASSUME Core, NEW b \in Brokerage, NEW i \in Invite, EvaluationCreate(b, i)
    PROVE  Core'
<1> USE DEF Core
<1>1. /\ Unused(b) /\ Undrawn(i) /\ World /\ users' = users /\ kind' = kind /\ member' = member
      /\ account' = [account EXCEPT ![b] = "active"] /\ evaluation' = [evaluation EXCEPT ![b] = "active"]
      /\ invite' = [invite EXCEPT ![i] = NewInvite(b, "owner", clock)]
  BY DEF EvaluationCreate
<1>2. clock' = clock /\ pc' = pc /\ job' = job /\ Minting' /\ OneHolder'
  BY <1>1, WorldStays
<1>3. PICK row \in InviteRow :
        row # Nothing /\ row.brokerage = b /\ invite' = [invite EXCEPT ![i] = row]
  <2>1. clock \in Nat /\ "owner" \in Role
    BY SpineAssumption DEF TypeOK, Role
  <2> QED
    BY <1>1, <2>1, NewInviteIsRow
<1>4. /\ invite'[i] = row /\ invite[i] = Nothing /\ \A k \in Invite : k # i => invite'[k] = invite[k]
      /\ invite' \in [Invite -> InviteRow \cup {Nothing}]
  BY <1>1, <1>3 DEF TypeOK, Undrawn
<1>5. /\ account'[b] = "active" /\ evaluation'[b] = "active"
      /\ \A d \in Brokerage : d # b => account'[d] = account[d] /\ evaluation'[d] = evaluation[d]
      /\ account' \in [Brokerage -> {"none", "active", "suspended"}]
      /\ evaluation' \in [Brokerage -> {"none", "active", "revoked"}]
  BY <1>1 DEF TypeOK
<1>6. TypeOK'
  BY <1>1, <1>2, <1>4, <1>5 DEF TypeOK
<1>7. \A s \in Session : pc[s] # "idle" =>
         /\ Fits(s) /\ job[s].brokerage \in Brokerage /\ job[s].brokerage # b
         /\ job[s].op \in Inviting => job[s].invite \in Invite /\ job[s].invite # i
  <2> HIDE DEF Core
  <2>1. \A s \in Session : pc[s] # "idle" => Fits(s) /\ job[s].brokerage # b /\ job[s].invite # i
    BY <1>1, NobodyRefers
  <2> QED
    BY <2>1 DEF Fits
<1>8. Jobs'
  BY <1>1, <1>2, <1>4, <1>7 DEF Jobs, Fits, Inviting
<1>9. Founding'
  <2>1. ASSUME NEW d \in Brokerage, d # b, account[d] = "none"
        PROVE  /\ evaluation'[d] = "none" /\ \A v \in User : member'[d][v] = "none"
               /\ \A k \in Invite : invite'[k] # Nothing => invite'[k].brokerage # d
               /\ \A s \in Session : pc'[s] # "idle" /\ job'[s].brokerage = d => job'[s].op = "signup"
    BY <1>1, <1>2, <1>3, <1>4, <1>5, <2>1 DEF Founding
  <2>2. \A s \in Session : At(s, "signup")' => account'[job'[s].brokerage] = "none"
    BY <1>2, <1>5, <1>7 DEF Founding, At
  <2>3. \A s, t \in Session :
          At(s, "signup")' /\ At(t, "signup")' /\ job'[s].brokerage = job'[t].brokerage => s = t
    BY <1>2 DEF Founding, At
  <2> QED
    BY <1>5, <2>1, <2>2, <2>3 DEF Founding
<1>10. \A s \in Session : Stands(s)'
  BY <1>2, <1>4, <1>5, <1>7 DEF Stands, Inviting
<1>11. Entering' /\ OneEach' /\ \A s \in Session : Aims(s)'
  BY <1>1, <1>2 DEF Entering, Enters, OneEach, Aims
<1> QED
  BY <1>2, <1>6, <1>8, <1>9, <1>10, <1>11

(* A redeem that saw the evaluation stand holds its row until it is over.  *)
LEMMA EvaluationRevokeKeeps ==
    ASSUME Core, NEW b \in Brokerage, EvaluationRevoke(b)
    PROVE  Core'
<1> USE DEF Core
<1>1. /\ EvaluationHolders(b) = {} /\ World /\ evaluation[b] = "active"
      /\ evaluation' = [evaluation EXCEPT ![b] = "revoked"]
      /\ users' = users /\ account' = account /\ kind' = kind /\ member' = member /\ invite' = invite
  BY DEF EvaluationRevoke
<1>2. clock' = clock /\ pc' = pc /\ job' = job /\ Minting' /\ OneHolder'
  BY <1>1, WorldStays
<1>3. TypeOK'
  BY <1>1, <1>2 DEF TypeOK
<1>4. \A d \in Brokerage : d # b => evaluation'[d] = evaluation[d]
  BY <1>1 DEF TypeOK
<1>5. Jobs'
  BY <1>1, <1>2 DEF Jobs, Fits
<1>6. Founding'
  <2>1. account[b] # "none"
    BY <1>1 DEF Founding
  <2> QED
    BY <1>1, <1>2, <1>4, <2>1 DEF Founding, At
<1>7. \A s \in Session : Stands(s)'
  <2> SUFFICES ASSUME NEW s \in Session, pc[s] \in HeldSteps, job[s].op \in {"redeem", "withdraw"}
               PROVE  Stands(s)'
    BY <1>2 DEF Stands, HeldSteps
  <2>1. job[s].brokerage \in Brokerage
    BY DEF Jobs, Fits, HeldSteps
  <2>2. job[s].brokerage # b
    BY <1>1 DEF EvaluationHolders, Running
  <2> QED
    BY <1>1, <1>2, <1>4, <2>1, <2>2 DEF Stands
<1>8. Entering' /\ OneEach' /\ \A s \in Session : Aims(s)'
  BY <1>1, <1>2 DEF Entering, Enters, OneEach, Aims
<1> QED
  BY <1>2, <1>3, <1>5, <1>6, <1>7, <1>8

LEMMA SetAccountKeeps ==
    ASSUME Core, NEW b \in Brokerage, NEW status \in {"active", "suspended"}, SetAccount(b, status)
    PROVE  Core'
<1> USE DEF Core
<1>1. /\ World /\ account[b] # "none" /\ account' = [account EXCEPT ![b] = status]
      /\ users' = users /\ kind' = kind /\ evaluation' = evaluation /\ member' = member /\ invite' = invite
  BY DEF SetAccount
<1>2. clock' = clock /\ pc' = pc /\ job' = job /\ Minting' /\ OneHolder'
  BY <1>1, WorldStays
<1>3. \A d \in Brokerage : account'[d] = "none" <=> account[d] = "none"
  BY <1>1 DEF TypeOK
<1>4. TypeOK'
  BY <1>1, <1>2 DEF TypeOK
<1>5. \A s \in Session : pc[s] # "idle" => job[s].brokerage \in Brokerage
  BY DEF Jobs, Fits
<1>6. Jobs'
  BY <1>1, <1>2 DEF Jobs, Fits
<1>7. Founding'
  BY <1>1, <1>2, <1>3, <1>5 DEF Founding, At
<1>8. \A s \in Session : Stands(s)' /\ Aims(s)'
  BY <1>1, <1>2 DEF Stands, Aims
<1> QED
  BY <1>1, <1>2, <1>4, <1>6, <1>7, <1>8 DEF Entering, Enters, OneEach

(* A deletion waits for whoever is ending or changing the membership.      *)
LEMMA DeleteUserKeeps ==
    ASSUME Core, NEW u \in User, DeleteUser(u)
    PROVE  Core'
<1> USE DEF Core
<1>1. /\ World /\ users' = users \ {u} /\ account' = account /\ kind' = kind /\ evaluation' = evaluation
      /\ \A b \in Brokerage : MemberHolders(b, u) = {}
      /\ member' = [b \in Brokerage |-> [member[b] EXCEPT ![u] = "none"]]
      /\ invite' = [i \in Invite |-> IF invite[i] # Nothing /\ invite[i].by = u
                                     THEN [invite[i] EXCEPT !.by = Nobody] ELSE invite[i]]
  BY DEF DeleteUser
<1>2. clock' = clock /\ pc' = pc /\ job' = job /\ Minting' /\ OneHolder'
  BY <1>1, WorldStays
<1>3. \A i \in Invite : /\ invite'[i] \in InviteRow \cup {Nothing}
                        /\ invite'[i] = Nothing <=> invite[i] = Nothing
                        /\ invite[i] # Nothing => /\ invite'[i].brokerage = invite[i].brokerage
                                                  /\ invite'[i].status = invite[i].status
  <2> TAKE i \in Invite
  <2>1. CASE invite[i] # Nothing /\ invite[i].by = u
    <3>1. invite[i] \in InviteRow
      BY <2>1 DEF TypeOK
    <3>2. PICK row : row = [invite[i] EXCEPT !.by = Nobody]
      OBVIOUS
    <3>3. row \in InviteRow /\ row.brokerage = invite[i].brokerage /\ row.status = invite[i].status
      BY <3>1, <3>2 DEF InviteRow
    <3> QED
      BY <1>1, <2>1, <3>2, <3>3, RowsAssumption
  <2>2. CASE ~(invite[i] # Nothing /\ invite[i].by = u)
    BY <1>1, <2>2 DEF TypeOK
  <2> QED
    BY <2>1, <2>2
<1>4. /\ member' \in [Brokerage -> [User -> Role \cup {"none"}]]
      /\ \A b \in Brokerage, v \in User : member'[b][v] = IF v = u THEN "none" ELSE member[b][v]
  BY <1>1 DEF TypeOK
<1>5. TypeOK'
  <2>1. invite' \in [Invite -> InviteRow \cup {Nothing}]
    BY <1>1, <1>3
  <2> QED
    BY <1>1, <1>2, <1>4, <2>1 DEF TypeOK
<1>6. Jobs'
  BY <1>1, <1>2, <1>3 DEF Jobs, Fits, Inviting
<1>7. Founding'
  BY <1>1, <1>2, <1>3, <1>4 DEF Founding, At
<1>8. \A s \in Session : Stands(s)'
  <2> SUFFICES ASSUME NEW s \in Session, pc[s] \in HeldSteps, job[s].op \in {"redeem", "withdraw"}
               PROVE  Stands(s)'
    BY <1>2 DEF Stands, HeldSteps
  <2>1. job[s].invite \in Invite /\ invite[job[s].invite] # Nothing
    BY DEF Jobs, Fits, HeldSteps, Inviting
  <2> QED
    BY <1>1, <1>2, <1>3, <2>1 DEF Stands
<1>9. Entering'
  <2>1. \A s \in Session : Enters(s) => job[s].user \in User
    BY DEF Enters, Jobs, Fits
  <2> QED
    BY <1>2, <1>4, <2>1 DEF Entering, Enters
<1>10. \A s \in Session : Aims(s)'
  <2> SUFFICES ASSUME NEW s \in Session, pc[s] \in {"counting", "written"}, job[s].op \in Ending
               PROVE  Aims(s)'
    BY <1>2 DEF Aims
  <2>1. job[s].brokerage \in Brokerage /\ job[s].target \in User /\ Aims(s)
    BY DEF Jobs, Fits
  <2>2. job[s].target # u
    BY <1>1, <2>1 DEF MemberHolders, Running, HeldSteps, Ending
  <2> QED
    BY <1>2, <1>4, <2>1, <2>2 DEF Aims
<1>11. OneEach'
  BY <1>4 DEF OneEach
<1> QED
  BY <1>2, <1>5, <1>6, <1>7, <1>8, <1>9, <1>10, <1>11

LEMMA WorldKeeps ==
    ASSUME Core, SpineWorld
    PROVE  Core'
<1>1. CASE \E b \in Brokerage, i \in Invite : EvaluationCreate(b, i)
  BY <1>1, EvaluationCreateKeeps
<1>2. CASE \E b \in Brokerage : EvaluationRevoke(b)
  BY <1>2, EvaluationRevokeKeeps
<1>3. CASE \E b \in Brokerage, status \in {"active", "suspended"} : SetAccount(b, status)
  BY <1>3, SetAccountKeeps
<1>4. CASE \E u \in Leaver : DeleteUser(u)
  BY <1>4, DeleteUserKeeps, SpineAssumption
<1> QED
  BY <1>1, <1>2, <1>3, <1>4, TickKeeps DEF SpineWorld

LEMMA CommitKeeps ==
    ASSUME Core, NEW s \in Session, Commit(s)
    PROVE  Core'
BY CommitRedeemKeeps, CommitMintKeeps, CommitWithdrawKeeps, CommitSignupKeeps, CommitChangeKeeps DEF Commit

LEMMA StepCore == Core /\ [Next]_spineVars => Core'
<1> SUFFICES ASSUME Core, [Next]_spineVars PROVE Core'
  OBVIOUS
<1>1. CASE SpineWorld
  BY <1>1, WorldKeeps
<1>2. ASSUME NEW s \in Session,
             AskSomething(s) \/ TakeLock(s) \/ Check(s) \/ Insert(s) \/ GuardChange(s) \/ Commit(s) \/ Lose(s)
      PROVE  Core'
  <2>1. CASE Lose(s)
    BY <2>1, RefuseKeeps DEF Lose
  <2> QED
    BY <1>2, <2>1, AsksKeep, TakeLockKeeps, ChecksKeep, InsertKeeps, CommitKeeps
<1>3. CASE UNCHANGED spineVars
  BY <1>3 DEF spineVars, Core, TypeOK, Jobs, Fits, Founding, At, Minting, OneHolder, EvaluationHolders,
              MemberHolders, Running, Stands, Entering, Enters, Aims, OneEach
<1> QED
  BY <1>1, <1>2, <1>3 DEF Next

(* The tables are typed, one membership of a person is active, the invites *)
(* and pages are consistent, and each session between its checks and its   *)
(* commit holds the locks on the rows it relies on                         *)
(* (brokerage-account-spine.sql, the functions' FOR UPDATE reads).       *)
THEOREM CoreHolds == Spec => []Core
<1> QED
  BY InitCore, StepCore, PTL DEF Spec

(* The tables and the sessions in flight hold what TypeOK says.            *)
THEOREM TablesAreTyped == Spec => []TypeOK
<1>1. Core => TypeOK
  BY DEF Core
<1> QED
  BY <1>1, CoreHolds, PTL

(* A person never holds two active memberships: an insert waits for every  *)
(* uncommitted one of the same person, and fails on a committed one.       *)
THEOREM OnePlaceEach == Spec => []OneActiveMembership
<1>1. Core => OneActiveMembership
  BY DEF Core, OneEach, OneActiveMembership, Belongs
<1> QED
  BY <1>1, CoreHolds, PTL

-----------------------------------------------------------------------------
(* Seats: one that was counted free is free until it is taken, because the *)
(* evaluation's row is locked from before the count to the commit.         *)

(* The steps of a session before its commit.                               *)
Quiet(s) == AskSomething(s) \/ TakeLock(s) \/ Check(s) \/ Insert(s) \/ GuardChange(s) \/ Lose(s)

LEMMA QuietStep ==
    ASSUME Core, NEW s \in Session, Quiet(s)
    PROVE  /\ users' = users /\ account' = account /\ kind' = kind
           /\ evaluation' = evaluation /\ member' = member /\ invite' = invite
           /\ \A t \in Session : t # s => pc'[t] = pc[t] /\ job'[t] = job[t]
<1>1. \E step : /\ pc' = [pc EXCEPT ![s] = step] /\ UNCHANGED tableVars
                /\ job' = job \/ \E j : job' = [job EXCEPT ![s] = j]
  <2>1. CASE AskSomething(s)
    BY <2>1 DEF AskSomething, AskRedeem, AskMint, AskWithdraw, AskSignup, AskRemove, AskChange, Ask, Goto
  <2>2. CASE Refuse(s)
    BY <2>2 DEF Refuse, Over
  <2>3. CASE ~Refuse(s) /\ ~AskSomething(s)
    BY <2>3 DEF Quiet, TakeLock, Check, Insert, GuardChange, Lose, Usable, Unattached, CountSeats,
                CheckMint, CheckWithdraw, CheckRemove, CountOwners, Goto
  <2> QED
    BY <2>1, <2>2, <2>3
<1>2. TypeOK
  BY DEF Core
<1> QED
  BY <1>1, <1>2, OthersStay DEF tableVars

LEMMA StepKinds ==
    ASSUME Next
    PROVE  \/ Tick
           \/ \E b \in Brokerage, i \in Invite : EvaluationCreate(b, i)
           \/ \E b \in Brokerage : EvaluationRevoke(b)
           \/ \E b \in Brokerage, status \in {"active", "suspended"} : SetAccount(b, status)
           \/ \E u \in Leaver : DeleteUser(u)
           \/ \E s \in Session : \/ Quiet(s) \/ CommitRedeem(s) \/ CommitMint(s) \/ CommitWithdraw(s)
                                 \/ CommitSignup(s) \/ CommitChange(s)
BY DEF Next, SpineWorld, Quiet, Commit

Counted(s) == pc[s] \in {"seated", "written"} /\ job[s].op = "redeem" /\ job[s].role = "agent"

Seats ==
    /\ \A b \in Brokerage : /\ IsFiniteSet(InRole(b, "agent"))
                            /\ Cardinality(InRole(b, "agent")) <= SeatLimit
    /\ \A s \in Session : Counted(s) => SeatFree(job[s].brokerage)

(* Fewer agents leave at least as many seats.                              *)
LEMMA FewerAgents ==
    ASSUME NEW A, NEW B, IsFiniteSet(A), B \subseteq A
    PROVE  /\ IsFiniteSet(B)
           /\ Cardinality(A) <= SeatLimit => Cardinality(B) <= SeatLimit
           /\ Cardinality(A) < SeatLimit => Cardinality(B) < SeatLimit
<1>1. IsFiniteSet(B) /\ Cardinality(B) <= Cardinality(A)
  BY FS_Subset
<1>2. Cardinality(A) \in Nat /\ Cardinality(B) \in Nat /\ SeatLimit \in Nat
  BY <1>1, FS_CardinalityType, SpineAssumption
<1> QED
  BY <1>1, <1>2

LEMMA OneAgentMore ==
    ASSUME NEW A, NEW u, IsFiniteSet(A), Cardinality(A) < SeatLimit
    PROVE  IsFiniteSet(A \cup {u}) /\ Cardinality(A \cup {u}) <= SeatLimit
<1>1. /\ IsFiniteSet(A \cup {u})
      /\ Cardinality(A \cup {u}) = IF u \in A THEN Cardinality(A) ELSE Cardinality(A) + 1
  BY FS_AddElement
<1>2. Cardinality(A) \in Nat /\ SeatLimit \in Nat
  BY FS_CardinalityType, SpineAssumption
<1> QED
  BY <1>1, <1>2

(* Nobody becomes an agent, and nobody newly relies on a count.            *)
LEMMA FewerAgentsKeep ==
    ASSUME Core, Seats,
           \A b \in Brokerage : InRole(b, "agent")' \subseteq InRole(b, "agent"),
           \A s \in Session : Counted(s)' =>
               /\ job'[s].brokerage \in Brokerage
               /\ Cardinality(InRole(job'[s].brokerage, "agent")) < SeatLimit
    PROVE  Seats'
<1>1. \A b \in Brokerage : /\ IsFiniteSet(InRole(b, "agent")')
                           /\ Cardinality(InRole(b, "agent")') <= SeatLimit
                           /\ Cardinality(InRole(b, "agent")) < SeatLimit => Cardinality(InRole(b, "agent")') < SeatLimit
  BY FewerAgents DEF Seats
<1> QED
  BY <1>1 DEF Seats, SeatFree

LEMMA CountedIs ==
    ASSUME Core, Seats, NEW s \in Session, Counted(s)
    PROVE  job[s].brokerage \in Brokerage /\ Cardinality(InRole(job[s].brokerage, "agent")) < SeatLimit
BY DEF Core, Jobs, Fits, Counted, Seats, SeatFree

LEMMA QuietKeepsSeats ==
    ASSUME Core, Core', Seats, NEW s \in Session, Quiet(s)
    PROVE  Seats'
<1>1. /\ member' = member
      /\ \A t \in Session : t # s => pc'[t] = pc[t] /\ job'[t] = job[t]
  BY QuietStep
<1>2. \A b \in Brokerage : InRole(b, "agent")' = InRole(b, "agent")
  BY <1>1 DEF InRole
<1>3. ASSUME Counted(s)'
      PROVE  /\ job'[s].brokerage \in Brokerage
             /\ Cardinality(InRole(job'[s].brokerage, "agent")) < SeatLimit
  <2>1. pc'[s] \in {"seated", "written"} /\ job'[s].op = "redeem" /\ job'[s].role = "agent"
    BY <1>3 DEF Counted
  <2>2. \/ CountSeats(s) /\ ~Refuse(s)
        \/ Insert(s) /\ ~Refuse(s)
        \/ /\ pc[s] = "locked" /\ job[s].op \in {"mint", "withdraw", "remove", "change"} /\ job' = job
        \/ pc[s] = "counting" /\ job' = job
    <3>1. TypeOK
      BY DEF Core
    <3>2. CASE Refuse(s) \/ AskSomething(s)
      BY <2>1, <3>1, <3>2 DEF Refuse, Over, AskSomething, AskRedeem, AskMint, AskWithdraw, AskSignup,
                              AskRemove, AskChange, Ask, Goto, TypeOK
    <3>3. CASE TakeLock(s) \/ ((Usable(s) \/ Unattached(s)) /\ ~Refuse(s))
      BY <2>1, <3>1, <3>3 DEF TakeLock, Usable, Unattached, Goto, TypeOK
    <3>4. CASE (CheckMint(s) \/ CheckWithdraw(s) \/ CheckRemove(s) \/ CountOwners(s) \/ GuardChange(s)) /\ ~Refuse(s)
      BY <3>4 DEF CheckMint, CheckWithdraw, CheckRemove, CountOwners, GuardChange
    <3> QED
      BY <3>2, <3>3, <3>4 DEF Quiet, Check, Lose
  <2>3. CASE CountSeats(s) /\ ~Refuse(s)
    <3>1. /\ pc[s] = "unattached" /\ job' = job /\ (job[s].role = "agent" => SeatFree(job[s].brokerage))
      BY <2>3 DEF CountSeats
    <3>2. job[s].brokerage \in Brokerage
      BY <3>1 DEF Core, Jobs, Fits
    <3> QED
      BY <2>1, <3>1, <3>2 DEF SeatFree
  <2>4. CASE Insert(s) /\ ~Refuse(s)
    <3>1. AtInsert(s) /\ job' = job
      BY <2>4 DEF Insert
    <3>2. Counted(s)
      BY <2>1, <3>1 DEF AtInsert, Counted
    <3> QED
      BY <3>1, <3>2, CountedIs
  <2>5. CASE pc[s] = "counting" /\ job' = job
    <3>1. job[s].op = "change"
      BY <2>5 DEF Core, Jobs, Fits
    <3> QED
      BY <2>1, <2>5, <3>1
  <2> QED
    BY <2>1, <2>2, <2>3, <2>4, <2>5
<1>4. \A t \in Session : Counted(t)' =>
         /\ job'[t].brokerage \in Brokerage
         /\ Cardinality(InRole(job'[t].brokerage, "agent")) < SeatLimit
  <2> TAKE t \in Session
  <2>1. CASE t # s
    <3>1. Counted(t)' => Counted(t) /\ job'[t] = job[t]
      BY <1>1, <2>1 DEF Counted
    <3> QED
      BY <3>1, CountedIs
  <2> QED
    BY <1>3, <2>1
<1> QED
  BY <1>2, <1>4, FewerAgentsKeep

(* A step that gives nobody a role, and after which each session that      *)
(* counted a seat is one that had.                                         *)
LEMMA NobodyJoinsKeeps ==
    ASSUME Core, Seats,
           \A b \in Brokerage, u \in User : member'[b][u] = "agent" => member[b][u] = "agent",
           \A s \in Session : Counted(s)' => Counted(s) /\ job'[s] = job[s]
    PROVE  Seats'
<1>1. \A b \in Brokerage : InRole(b, "agent")' \subseteq InRole(b, "agent")
  BY DEF InRole
<1>2. \A s \in Session : Counted(s)' =>
         /\ job'[s].brokerage \in Brokerage
         /\ Cardinality(InRole(job'[s].brokerage, "agent")) < SeatLimit
  BY CountedIs
<1> QED
  BY <1>1, <1>2, FewerAgentsKeep

LEMMA OthersCounted ==
    ASSUME Core, NEW s \in Session, Over(s)
    PROVE  /\ pc'[s] = "idle"
           /\ \A t \in Session : t # s => pc'[t] = pc[t] /\ job'[t] = job[t]
           /\ \A t \in Session : Counted(t)' => t # s /\ Counted(t) /\ job'[t] = job[t]
<1>1. TypeOK
  BY DEF Core
<1>2. pc'[s] = "idle" /\ \A t \in Session : t # s => pc'[t] = pc[t] /\ job'[t] = job[t]
  BY <1>1, OthersStay DEF Over
<1> QED
  BY <1>2 DEF Counted

(* The redeem that takes a seat is alone with its evaluation's row, so     *)
(* nobody else relies on the count that it makes old.                      *)
LEMMA RedeemKeepsSeats ==
    ASSUME Core, Seats, NEW s \in Session, CommitRedeem(s)
    PROVE  Seats'
<1>1. pc[s] = "written" /\ job[s].op = "redeem" /\ Over(s)
  BY DEF CommitRedeem
<1>2. Fits(s) /\ TypeOK
  BY <1>1 DEF Core, Jobs
<1>3. PICK b \in Brokerage, u \in User, r \in Role :
        /\ b = job[s].brokerage /\ u = job[s].user /\ r = job[s].role
        /\ member' = [member EXCEPT ![b][u] = r]
  BY <1>1, <1>2 DEF CommitRedeem, SetMember, Fits, Joining
<1>4. \A t \in Session : Counted(t)' => t # s /\ Counted(t) /\ job'[t] = job[t]
  BY <1>1, OthersCounted
<1>5. /\ member'[b][u] = r
      /\ \A d \in Brokerage, v \in User : d # b \/ v # u => member'[d][v] = member[d][v]
  BY <1>2, <1>3 DEF TypeOK
<1>6. CASE r # "agent"
  BY <1>4, <1>5, <1>6, NobodyJoinsKeeps
<1>7. CASE r = "agent"
  <2>1. Cardinality(InRole(b, "agent")) < SeatLimit
    BY <1>1, <1>3, <1>7, CountedIs DEF Counted
  <2>2. InRole(b, "agent")' = InRole(b, "agent") \cup {u}
    BY <1>5, <1>7 DEF InRole
  <2>3. \A d \in Brokerage : d # b => InRole(d, "agent")' = InRole(d, "agent")
    BY <1>5 DEF InRole
  <2>4. IsFiniteSet(InRole(b, "agent")') /\ Cardinality(InRole(b, "agent")') <= SeatLimit
    BY <2>1, <2>2, OneAgentMore DEF Seats
  <2>5. \A t \in Session : Counted(t)' => SeatFree(job[t].brokerage)' /\ job'[t] = job[t]
    <3> SUFFICES ASSUME NEW t \in Session, Counted(t)' PROVE SeatFree(job[t].brokerage)' /\ job'[t] = job[t]
      OBVIOUS
    <3>1. t # s /\ Counted(t) /\ job'[t] = job[t]
      BY <1>4
    <3>2. /\ job[t].brokerage \in Brokerage
          /\ Cardinality(InRole(job[t].brokerage, "agent")) < SeatLimit
      BY <3>1, CountedIs
    <3>3. job[t].brokerage = b => s \in EvaluationHolders(b) /\ t \in EvaluationHolders(b)
      BY <1>1, <1>3, <3>1 DEF Counted, EvaluationHolders, Running, HeldSteps
    <3>4. job[t].brokerage # b
      BY <3>1, <3>3 DEF Core, OneHolder
    <3> QED
      BY <2>3, <3>1, <3>2, <3>4 DEF SeatFree
  <2> QED
    BY <2>3, <2>4, <2>5 DEF Seats, SeatFree
<1> QED
  BY <1>6, <1>7

LEMMA StepSeats ==
    ASSUME "agent" \notin Change
    PROVE  Core /\ Core' /\ Seats /\ [Next]_spineVars => Seats'
<1> SUFFICES ASSUME Core, Core', Seats, [Next]_spineVars PROVE Seats'
  OBVIOUS
<1>1. TypeOK
  BY DEF Core
<1>2. CASE UNCHANGED spineVars \/ Tick \/ (\E b \in Brokerage, i \in Invite : EvaluationCreate(b, i))
           \/ (\E b \in Brokerage : EvaluationRevoke(b))
           \/ (\E b \in Brokerage, status \in {"active", "suspended"} : SetAccount(b, status))
  <2>1. member' = member /\ pc' = pc /\ job' = job
    BY <1>2 DEF spineVars, tableVars, Tick, EvaluationCreate, EvaluationRevoke, SetAccount, World
  <2> QED
    BY <2>1, NobodyJoinsKeeps DEF Counted
<1>3. ASSUME NEW u \in Leaver, DeleteUser(u) PROVE Seats'
  <2>1. pc' = pc /\ job' = job /\ u \in User
    BY <1>3, SpineAssumption DEF DeleteUser, World
  <2>2. \A b \in Brokerage, v \in User : member'[b][v] = IF v = u THEN "none" ELSE member[b][v]
    BY <1>1, <1>3, <2>1 DEF DeleteUser, TypeOK
  <2> QED
    BY <2>1, <2>2, NobodyJoinsKeeps DEF Counted
<1>4. ASSUME NEW s \in Session, CommitMint(s) \/ CommitWithdraw(s) PROVE Seats'
  <2>1. member' = member /\ Over(s)
    BY <1>4 DEF CommitMint, CommitWithdraw
  <2> QED
    BY <2>1, OthersCounted, NobodyJoinsKeeps
<1>5. ASSUME NEW s \in Session, CommitSignup(s) \/ CommitChange(s) PROVE Seats'
  <2>1. pc[s] = "written" /\ Over(s)
    BY <1>5 DEF CommitSignup, CommitChange
  <2>2. Fits(s)
    BY <2>1 DEF Core, Jobs
  <2>3. \E b \in Brokerage, u \in User, r \in {"owner", "none"} : member' = [member EXCEPT ![b][u] = r]
    <3>1. job[s].op = "change" => job[s].role \in {"owner", "gone"}
      BY <2>2, SpineAssumption DEF Fits
    <3> QED
      BY <1>5, <2>2, <3>1 DEF CommitSignup, CommitChange, SetMember, Fits, Joining, Ending
  <2>4. \A b \in Brokerage, u \in User : member'[b][u] = "agent" => member[b][u] = "agent"
    BY <1>1, <2>3 DEF TypeOK
  <2> QED
    BY <2>1, <2>4, OthersCounted, NobodyJoinsKeeps
<1>6. ASSUME NEW s \in Session, Quiet(s) \/ CommitRedeem(s) PROVE Seats'
  BY <1>6, QuietKeepsSeats, RedeemKeepsSeats
<1> QED
  BY <1>2, <1>3, <1>4, <1>5, <1>6, StepKinds

LEMMA InitSeats == Init => Seats
<1> SUFFICES ASSUME Init PROVE Seats
  OBVIOUS
<1>1. \A b \in Brokerage : InRole(b, "agent") = {}
  BY DEF Init, InRole
<1>2. \A s \in Session : ~Counted(s)
  BY DEF Init, Counted
<1> QED
  BY <1>1, <1>2, FS_EmptySet, SpineAssumption DEF Seats

(* People are in one brokerage each, and agents within the seats, when no  *)
(* migration turns owners into agents.                                     *)
THEOREM PlacesAndSeats ==
    ASSUME "agent" \notin Change
    PROVE  Spec => []PlacesAndSeatsHold
<1>1. Core /\ Seats => PlacesAndSeatsHold
  BY DEF Core, OneEach, PlacesAndSeatsHold, OneActiveMembership, Belongs, Seats, SeatsWithinLimit
<1> QED
  BY <1>1, InitSeats, StepSeats, CoreHolds, PTL DEF Spec

-----------------------------------------------------------------------------
(* Owners: those of one brokerage are unmade one at a time, under the      *)
(* account's lock, and the one who is leaves another.                      *)

OwnersLeft ==
    \A b \in Brokerage : \A s \in AccountHolders(b) :
        /\ \A t \in AccountHolders(b) : s = t
        /\ pc[s] = "written" =>
              account[b] # "active" \/ \E u \in InRole(b, "owner") : u # job[s].target

(* Nobody newly unmakes an owner, and where somebody does owners stay.     *)
LEMMA OwnersStayKeeps ==
    ASSUME OwnersLeft,
           \A b \in Brokerage : \A s \in AccountHolders(b)' :
               /\ s \in AccountHolders(b) /\ pc'[s] = pc[s] /\ job'[s] = job[s]
               /\ account'[b] = account[b]
               /\ InRole(b, "owner") \subseteq InRole(b, "owner")'
    PROVE  OwnersLeft'
BY DEF OwnersLeft

(* Who unmakes an owner of b, in full.                                     *)
LEMMA HolderIs ==
    ASSUME Core, NEW b \in Brokerage, NEW s \in AccountHolders(b)
    PROVE  /\ s \in Session /\ pc[s] \in {"counting", "written"} /\ job[s].op = "change"
           /\ job[s].brokerage = b /\ job[s].target \in User /\ job[s].role \in Change
           /\ member[b][job[s].target] = "owner" /\ job[s].role # "owner"
           /\ s \in MemberHolders(b, job[s].target) /\ account[b] # "none"
<1>1. /\ s \in Session /\ pc[s] \in {"counting", "written"} /\ job[s].op = "change"
      /\ job[s].brokerage = b /\ member[b][job[s].target] = "owner" /\ job[s].role # "owner"
  BY DEF AccountHolders, Running, Unmakes
<1>2. job[s].target \in User /\ job[s].role \in Change
  BY <1>1 DEF Core, Jobs, Fits, Ending
<1>3. s \in MemberHolders(b, job[s].target)
  BY <1>1 DEF MemberHolders, Running, HeldSteps
<1>4. account[b] # "none"
  BY <1>1, <1>2 DEF Core, Founding
<1> QED
  BY <1>1, <1>2, <1>3, <1>4

LEMMA QuietKeepsOwners ==
    ASSUME Core, OwnersLeft, NEW s \in Session, Quiet(s)
    PROVE  OwnersLeft'
<1>1. /\ account' = account /\ member' = member
      /\ \A t \in Session : t # s => pc'[t] = pc[t] /\ job'[t] = job[t]
  BY QuietStep
<1>2. \A b \in Brokerage : InRole(b, "owner")' = InRole(b, "owner")
  BY <1>1 DEF InRole
<1>3. \A b \in Brokerage : \A t \in AccountHolders(b)' : t # s => t \in AccountHolders(b)
  BY <1>1 DEF AccountHolders, Running, Unmakes
<1>4. TypeOK
  BY DEF Core
<1>5. CASE \E b \in Brokerage : s \in AccountHolders(b)'
  <2>1. PICK b \in Brokerage : s \in AccountHolders(b)'
    BY <1>5
  <2>2. /\ pc'[s] \in {"counting", "written"} /\ job'[s].op = "change" /\ job'[s].brokerage = b
        /\ member[b][job'[s].target] = "owner" /\ job'[s].role # "owner"
    BY <1>1, <2>1 DEF AccountHolders, Running, Unmakes
  <2>3. (GuardChange(s) /\ ~Refuse(s)) \/ (CountOwners(s) /\ ~Refuse(s))
    <3>1. CASE Refuse(s) \/ AskSomething(s)
      BY <2>2, <1>4, <3>1 DEF Refuse, Over, AskSomething, AskRedeem, AskMint, AskWithdraw, AskSignup,
                              AskRemove, AskChange, Ask, Goto, TypeOK
    <3>2. CASE TakeLock(s) \/ ((Usable(s) \/ Unattached(s) \/ CountSeats(s)) /\ ~Refuse(s))
      BY <2>2, <1>4, <3>2 DEF TakeLock, Usable, Unattached, CountSeats, Goto, TypeOK
    <3>3. CASE (CheckMint(s) \/ CheckWithdraw(s) \/ CheckRemove(s)) /\ ~Refuse(s)
      BY <2>2, <3>3 DEF CheckMint, CheckWithdraw, CheckRemove
    <3>4. CASE Insert(s) /\ ~Refuse(s)
      <4>1. AtInsert(s) /\ job' = job
        BY <3>4 DEF Insert
      <4>2. job[s].op \in Joining
        BY <4>1 DEF AtInsert, Core, Jobs, Fits, Joining
      <4> QED
        BY <2>2, <4>1, <4>2 DEF Joining
    <3> QED
      BY <3>1, <3>2, <3>3, <3>4 DEF Quiet, Check, Lose
  <2>4. /\ job' = job
        /\ \/ AccountHolders(b) = {} /\ pc'[s] = "counting"
           \/ /\ s \in AccountHolders(b)
              /\ account[b] = "active" => ~(InRole(b, "owner") \subseteq {job[s].target})
    <3>1. CASE GuardChange(s) /\ ~Refuse(s)
      <4>1. job' = job /\ pc[s] = "locked"
        BY <3>1 DEF GuardChange
      <4>2. Unmakes(s)
        BY <2>2, <4>1 DEF Unmakes
      <4>3. AccountHolders(b) = {} /\ pc'[s] = "counting"
        BY <1>4, <2>2, <3>1, <4>1, <4>2 DEF GuardChange, Goto, TypeOK
      <4> QED
        BY <4>1, <4>3
    <3>2. CASE CountOwners(s) /\ ~Refuse(s)
      <4>1. /\ job' = job /\ pc[s] = "counting"
            /\ account[b] = "active" => ~(InRole(b, "owner") \subseteq {job[s].target})
        BY <2>2, <3>2 DEF CountOwners
      <4>2. s \in AccountHolders(b)
        BY <2>2, <4>1 DEF AccountHolders, Running, Unmakes
      <4> QED
        BY <4>1, <4>2
    <3> QED
      BY <2>3, <3>1, <3>2
  <2>5. \A t \in AccountHolders(b)' : t = s
    BY <1>3, <2>4 DEF OwnersLeft
  <2>6. \A d \in Brokerage : d # b => AccountHolders(d)' = AccountHolders(d) \ {s}
    <3> SUFFICES ASSUME NEW d \in Brokerage, d # b PROVE AccountHolders(d)' = AccountHolders(d) \ {s}
      OBVIOUS
    <3>1. s \notin AccountHolders(d)'
      BY <2>2 DEF AccountHolders
    <3> QED
      BY <1>1, <3>1 DEF AccountHolders, Running, Unmakes
  <2>7. pc'[s] = "written" => account[b] # "active" \/ \E u \in InRole(b, "owner") : u # job[s].target
    BY <2>4
  <2>8. \A d \in Brokerage : d # b =>
           \A t \in AccountHolders(d)' : t \in AccountHolders(d) /\ t # s /\ pc'[t] = pc[t] /\ job'[t] = job[t]
    BY <1>1, <2>6 DEF AccountHolders, Running
  <2> QED
    BY <1>1, <1>2, <2>4, <2>5, <2>6, <2>7, <2>8 DEF OwnersLeft
<1>6. CASE \A b \in Brokerage : s \notin AccountHolders(b)'
  <2>1. \A b \in Brokerage : \A t \in AccountHolders(b)' :
           t \in AccountHolders(b) /\ pc'[t] = pc[t] /\ job'[t] = job[t]
    <3>1. \A b \in Brokerage : \A t \in AccountHolders(b)' : t # s /\ t \in Session
      BY <1>6 DEF AccountHolders, Running
    <3> QED
      BY <1>1, <1>3, <3>1
  <2> QED
    BY <1>1, <1>2, <2>1, OwnersStayKeeps
<1> QED
  BY <1>5, <1>6

(* After a commit about one person: nobody else was at that membership, so *)
(* who unmakes an owner did so before.                                     *)
LEMMA HoldersAfter ==
    ASSUME Core, NEW s \in Session, pc[s] = "written", Over(s),
           NEW c \in Brokerage, NEW u \in User,
           \A b \in Brokerage, v \in User : b # c \/ v # u => member'[b][v] = member[b][v],
           \A t \in Session :
               t # s /\ pc[t] \in {"counting", "written"} /\ job[t].op = "change"
                   => job[t].brokerage # c \/ job[t].target # u
    PROVE  \A b \in Brokerage : \A t \in AccountHolders(b)' :
               t \in AccountHolders(b) /\ t # s /\ pc'[t] = pc[t] /\ job'[t] = job[t]
<1> SUFFICES ASSUME NEW b \in Brokerage, NEW t \in AccountHolders(b)'
             PROVE  t \in AccountHolders(b) /\ t # s /\ pc'[t] = pc[t] /\ job'[t] = job[t]
  OBVIOUS
<1>1. /\ t \in Session /\ pc'[t] \in {"counting", "written"} /\ job'[t].op = "change" /\ job'[t].brokerage = b
      /\ member'[b][job'[t].target] = "owner" /\ job'[t].role # "owner"
  BY DEF AccountHolders, Running, Unmakes
<1>2. t # s /\ pc'[t] = pc[t] /\ job'[t] = job[t]
  BY <1>1, CommitEnds
<1>3. job[t].target \in User
  BY <1>1, <1>2 DEF Core, Jobs, Fits, Ending
<1>4. b # c \/ job[t].target # u
  BY <1>1, <1>2
<1> QED
  BY <1>1, <1>2, <1>3, <1>4 DEF AccountHolders, Running, Unmakes

LEMMA NewcomerKeepsOwners ==
    ASSUME Core, OwnersLeft, NEW s \in Session, CommitRedeem(s) \/ CommitSignup(s)
    PROVE  /\ OwnersLeft'
           /\ \A b \in Brokerage : account[b] # "none" => InRole(b, "owner") \subseteq InRole(b, "owner")'
<1>1. pc[s] = "written" /\ job[s].op \in Joining /\ Over(s)
  BY DEF CommitRedeem, CommitSignup, Joining
<1>2. Fits(s) /\ TypeOK
  BY <1>1 DEF Core, Jobs
<1>3. PICK c \in Brokerage, u \in User, r \in Role :
        /\ c = job[s].brokerage /\ u = job[s].user /\ member' = [member EXCEPT ![c][u] = r]
        /\ account' = account \/ (account[c] = "none" /\ account' = [account EXCEPT ![c] = "active"])
  <2>1. job[s].role \in Role
    BY <1>1, <1>2 DEF Fits, Joining, Role
  <2>2. job[s].op = "signup" => job[s].role = "owner" /\ account[job[s].brokerage] = "none"
    BY <1>1, <1>2 DEF Fits, Core, Founding, At
  <2> QED
    BY <1>1, <1>2, <2>1, <2>2 DEF CommitRedeem, CommitSignup, SetMember, Fits
<1>4. /\ member'[c][u] = r
      /\ \A b \in Brokerage, v \in User : b # c \/ v # u => member'[b][v] = member[b][v]
  BY <1>2, <1>3 DEF TypeOK
<1>5. \A b \in Brokerage : member[b][u] = "none"
  BY <1>1, <1>3 DEF Core, Entering, Enters
<1>6. \A b \in Brokerage : InRole(b, "owner") \subseteq InRole(b, "owner")'
  BY <1>4, <1>5 DEF InRole
<1>7. \A t \in Session :
         t # s /\ pc[t] \in {"counting", "written"} /\ job[t].op = "change"
             => job[t].brokerage # c \/ job[t].target # u
  BY <1>3, <1>5 DEF Core, Aims, Ending
<1>8. \A b \in Brokerage : \A t \in AccountHolders(b)' :
         t \in AccountHolders(b) /\ t # s /\ pc'[t] = pc[t] /\ job'[t] = job[t]
  BY <1>1, <1>4, <1>7, HoldersAfter
<1>9. \A b \in Brokerage : \A t \in AccountHolders(b)' : account'[b] = account[b]
  <2> SUFFICES ASSUME NEW b \in Brokerage, NEW t \in AccountHolders(b)' PROVE account'[b] = account[b]
    OBVIOUS
  <2>1. account[b] # "none"
    BY <1>8, HolderIs
  <2> QED
    BY <1>2, <1>3, <2>1 DEF TypeOK
<1>10. OwnersLeft'
  BY <1>6, <1>8, <1>9, OwnersStayKeeps
<1> QED
  BY <1>6, <1>10

(* The one who unmakes an owner is the only one to, and leaves another.    *)
LEMMA ChangeKeepsOwners ==
    ASSUME Core, OwnersLeft, NEW s \in Session, CommitChange(s)
    PROVE  /\ OwnersLeft'
           /\ \A b \in Brokerage :
                account[b] = "active" /\ InRole(b, "owner") # {} => InRole(b, "owner")' # {}
<1>1. pc[s] = "written" /\ job[s].op \in Ending /\ Over(s) /\ account' = account
  BY DEF CommitChange, Ending
<1>2. Fits(s) /\ TypeOK /\ Aims(s)
  BY <1>1 DEF Core, Jobs
<1>3. PICK c \in Brokerage, u \in User, r \in Role \cup {"none"} :
        /\ c = job[s].brokerage /\ u = job[s].target /\ member' = [member EXCEPT ![c][u] = r]
        /\ r = IF job[s].role = "gone" THEN "none" ELSE job[s].role
  <2>1. job[s].role \in Role \cup {"gone"}
    BY <1>2 DEF Fits, Job
  <2> QED
    BY <1>1, <1>2, <2>1 DEF CommitChange, SetMember, Fits, Role
<1>4. /\ member'[c][u] = r
      /\ \A b \in Brokerage, v \in User : b # c \/ v # u => member'[b][v] = member[b][v]
  BY <1>2, <1>3 DEF TypeOK
<1>5. \A t \in Session :
         t # s /\ pc[t] \in {"counting", "written"} /\ job[t].op = "change"
             => job[t].brokerage # c \/ job[t].target # u
  <2>1. s \in MemberHolders(c, u)
    BY <1>1, <1>3 DEF MemberHolders, Running, HeldSteps, Ending
  <2>2. \A t \in Session : pc[t] \in {"counting", "written"} /\ job[t].op = "change"
                           /\ job[t].brokerage = c /\ job[t].target = u => t \in MemberHolders(c, u)
    BY DEF MemberHolders, Running, HeldSteps
  <2> QED
    BY <2>1, <2>2 DEF Core, OneHolder
<1>6. \A b \in Brokerage : \A t \in AccountHolders(b)' :
         t \in AccountHolders(b) /\ t # s /\ pc'[t] = pc[t] /\ job'[t] = job[t]
  BY <1>1, <1>4, <1>5, HoldersAfter
<1>7. \A b \in Brokerage : b # c => InRole(b, "owner")' = InRole(b, "owner")
  BY <1>4 DEF InRole
<1>8. CASE s \in AccountHolders(c)
  <2>1. AccountHolders(c)' = {}
    BY <1>6, <1>8 DEF OwnersLeft
  <2>2. OwnersLeft'
    BY <1>1, <1>6, <1>7, <2>1, OwnersStayKeeps
  <2>3. account[c] = "active" => \E v \in InRole(c, "owner") : v # u
    BY <1>1, <1>3, <1>8 DEF OwnersLeft
  <2>4. \A v \in InRole(c, "owner") : v # u => v \in InRole(c, "owner")'
    BY <1>4 DEF InRole
  <2> QED
    BY <1>7, <2>2, <2>3, <2>4
<1>9. CASE s \notin AccountHolders(c)
  <2>1. member[c][u] = "owner" => r = "owner"
    <3>1. job[s].op = "change" => ~Unmakes(s)
      BY <1>1, <1>3, <1>9 DEF AccountHolders, Running
    <3>2. job[s].op = "remove" => member[c][u] = "agent"
      BY <1>1, <1>2, <1>3 DEF Aims, Ending
    <3> QED
      BY <1>1, <1>3, <3>1, <3>2 DEF Ending, Unmakes
  <2>2. InRole(c, "owner") \subseteq InRole(c, "owner")'
    BY <1>4, <2>1 DEF InRole
  <2>3. OwnersLeft'
    BY <1>1, <1>6, <1>7, <2>2, OwnersStayKeeps
  <2> QED
    BY <1>7, <2>2, <2>3
<1> QED
  BY <1>8, <1>9

(* Steps that leave the memberships and the sessions alone.                *)
LEMMA ElsewhereKeepsOwners ==
    ASSUME Core, OwnersLeft, member' = member,
           \A t \in Session : pc'[t] \in {"counting", "written"} => pc'[t] = pc[t] /\ job'[t] = job[t],
           \A b \in Brokerage : AccountHolders(b) = {} \/ account'[b] = account[b]
    PROVE  /\ OwnersLeft'
           /\ \A b \in Brokerage : InRole(b, "owner")' = InRole(b, "owner")
<1>1. \A b \in Brokerage : InRole(b, "owner")' = InRole(b, "owner")
  BY DEF InRole
<1>2. \A b \in Brokerage : \A t \in AccountHolders(b)' :
         t \in AccountHolders(b) /\ pc'[t] = pc[t] /\ job'[t] = job[t]
  BY DEF AccountHolders, Running, Unmakes
<1>3. OwnersLeft'
  BY <1>1, <1>2, OwnersStayKeeps
<1> QED
  BY <1>1, <1>3

OwnersStay ==
    \A b \in Brokerage :
        account[b] = "active" /\ InRole(b, "owner") # {} /\ users' = users => InRole(b, "owner")' # {}

LEMMA StepOwners ==
    ASSUME Leaver = {} \/ Change \subseteq {"owner"}
    PROVE  Core /\ OwnersLeft /\ [Next]_spineVars => OwnersLeft' /\ OwnersStay
<1> SUFFICES ASSUME Core, OwnersLeft, [Next]_spineVars PROVE OwnersLeft' /\ OwnersStay
  OBVIOUS
<1>1. TypeOK
  BY DEF Core
<1>2. CASE UNCHANGED spineVars \/ Tick \/ (\E b \in Brokerage : EvaluationRevoke(b))
  <2>1. member' = member /\ account' = account /\ pc' = pc /\ job' = job
    BY <1>2 DEF spineVars, tableVars, Tick, EvaluationRevoke, World
  <2> QED
    BY <2>1, ElsewhereKeepsOwners DEF OwnersStay
<1>3. ASSUME NEW b \in Brokerage, NEW status \in {"active", "suspended"}, SetAccount(b, status)
      PROVE  OwnersLeft' /\ OwnersStay
  <2>1. /\ member' = member /\ pc' = pc /\ job' = job /\ AccountHolders(b) = {}
        /\ \A d \in Brokerage : d # b => account'[d] = account[d]
    BY <1>1, <1>3 DEF SetAccount, World, TypeOK
  <2> QED
    BY <2>1, ElsewhereKeepsOwners DEF OwnersStay
<1>4. ASSUME NEW b \in Brokerage, NEW i \in Invite, EvaluationCreate(b, i) PROVE OwnersLeft' /\ OwnersStay
  <2>1. /\ member' = member /\ pc' = pc /\ job' = job /\ account[b] = "none"
        /\ \A d \in Brokerage : d # b => account'[d] = account[d]
    BY <1>1, <1>4 DEF EvaluationCreate, World, Unused, TypeOK
  <2>2. AccountHolders(b) = {}
    BY <2>1, HolderIs
  <2> QED
    BY <2>1, <2>2, ElsewhereKeepsOwners DEF OwnersStay
<1>5. ASSUME NEW u \in Leaver, DeleteUser(u) PROVE OwnersLeft' /\ OwnersStay
  <2>1. pc' = pc /\ job' = job /\ users' # users /\ u \in User
    BY <1>5, SpineAssumption DEF DeleteUser, World
  <2>2. \A b \in Brokerage, v \in User : member'[b][v] = IF v = u THEN "none" ELSE member[b][v]
    BY <1>1, <1>5, <2>1 DEF DeleteUser, TypeOK
  <2>3. \A b \in Brokerage : AccountHolders(b) = {}
    BY <1>5, HolderIs
  <2>4. \A b \in Brokerage : AccountHolders(b)' = {}
    <3> SUFFICES ASSUME NEW b \in Brokerage, NEW t \in AccountHolders(b)' PROVE FALSE
      OBVIOUS
    <3>1. /\ t \in Session /\ pc[t] \in {"counting", "written"} /\ job[t].op = "change"
          /\ job[t].brokerage = b /\ job[t].role # "owner"
      BY <2>1 DEF AccountHolders, Running, Unmakes
    <3>2. job[t].role \in Change
      BY <3>1 DEF Core, Jobs, Fits
    <3> QED
      BY <1>5, <3>1, <3>2
  <2> QED
    BY <2>1, <2>4 DEF OwnersLeft, OwnersStay
<1>6. ASSUME NEW s \in Session, CommitMint(s) \/ CommitWithdraw(s) PROVE OwnersLeft' /\ OwnersStay
  <2>1. member' = member /\ account' = account /\ Over(s) /\ pc[s] = "written"
    BY <1>6 DEF CommitMint, CommitWithdraw
  <2>2. pc'[s] = "idle" /\ \A t \in Session : t # s => pc'[t] = pc[t] /\ job'[t] = job[t]
    BY <2>1, CommitEnds
  <2> QED
    BY <2>1, <2>2, ElsewhereKeepsOwners DEF OwnersStay
<1>7. ASSUME NEW s \in Session, Quiet(s) PROVE OwnersLeft' /\ OwnersStay
  <2>1. member' = member
    BY <1>7, QuietStep
  <2> QED
    BY <1>7, <2>1, QuietKeepsOwners DEF OwnersStay, InRole
<1>8. ASSUME NEW s \in Session, CommitRedeem(s) \/ CommitSignup(s) PROVE OwnersLeft' /\ OwnersStay
  <2>1. /\ OwnersLeft'
        /\ \A b \in Brokerage : account[b] # "none" => InRole(b, "owner") \subseteq InRole(b, "owner")'
    BY <1>8, NewcomerKeepsOwners
  <2> QED
    BY <2>1 DEF OwnersStay
<1>9. ASSUME NEW s \in Session, CommitChange(s) PROVE OwnersLeft' /\ OwnersStay
  BY <1>9, ChangeKeepsOwners DEF OwnersStay
<1> QED
  BY <1>2, <1>3, <1>4, <1>5, <1>6, <1>7, <1>8, <1>9, StepKinds

(* No step takes the last owner of an active brokerage, where no person    *)
(* is deleted whose fellow owner a migration may unmake.                   *)
THEOREM LastOwnerStays ==
    ASSUME Leaver = {} \/ Change \subseteq {"owner"}
    PROVE  Spec => AnOwnerRemains
<1>1. Init => OwnersLeft
  BY DEF Init, OwnersLeft, AccountHolders, Running
<1>2. Core /\ OwnersLeft /\ [Next]_spineVars => OwnersLeft' /\ [OwnersStay]_spineVars
  BY StepOwners
<1>3. [][OwnersStay]_spineVars <=> AnOwnerRemains
  BY PTL DEF AnOwnerRemains, OwnersStay
<1> QED
  BY <1>1, <1>2, <1>3, CoreHolds, PTL DEF Spec

-----------------------------------------------------------------------------
(* The contract: each step of the spine is one of Membership, or none.     *)

PlaceOf(u) == IF Belongs(u) = {} THEN Nobody ELSE CHOOSE b \in Brokerage : b \in Belongs(u)
Places == [u \in User |-> PlaceOf(u)]
Made == {b \in Brokerage : account[b] # "none"}
Revoked == {b \in Brokerage : evaluation[b] = "revoked"}
Spent == {i \in Invite : invite[i] # Nothing /\ invite[i].status # "open"}

LEMMA NoPlace ==
    ASSUME NEW u \in User, \A b \in Brokerage : member[b][u] = "none"
    PROVE  PlaceOf(u) = Nobody
BY DEF PlaceOf, Belongs

(* A person whose memberships are as they were is where they were.         *)
LEMMA PlaceStays ==
    ASSUME NEW u \in User, \A b \in Brokerage : member'[b][u] = "none" <=> member[b][u] = "none"
    PROVE  PlaceOf(u)' = PlaceOf(u)
<1>1. Belongs(u)' = Belongs(u)
  BY DEF Belongs
<1> QED
  BY <1>1 DEF PlaceOf

(* One person's place changes.                                             *)
LEMMA PlaceMoves ==
    ASSUME NEW u \in User, NEW place, PlaceOf(u)' = place,
           \A v \in User : v # u => \A b \in Brokerage : member'[b][v] = member[b][v]
    PROVE  Places' = [Places EXCEPT ![u] = place]
<1>1. \A v \in User : v # u => PlaceOf(v)' = PlaceOf(v)
  BY PlaceStays
<1> QED
  BY <1>1 DEF Places

LEMMA PlacesStay == ASSUME member' = member PROVE Places' = Places
<1>1. \A u \in User : PlaceOf(u)' = PlaceOf(u)
  BY PlaceStays
<1> QED
  BY <1>1 DEF Places

(* What an invite's holder takes from it, the invite is spent for.         *)
LEMMA SpentWith ==
    ASSUME NEW i \in Invite, invite'[i] # Nothing, invite'[i].status # "open",
           \A k \in Invite : k # i => invite'[k] = invite[k]
    PROVE  Spent' = Spent \cup {i}
BY DEF Spent

(* The steps of the contract, over the tables.                             *)
LEMMA Contract ==
    /\ Members!Init <=> Places = [u \in User |-> Nobody] /\ Made = {} /\ Revoked = {} /\ Spent = {}
    /\ UNCHANGED <<Places, Made, Revoked, Spent>> <=> UNCHANGED Members!membershipVars
    /\ \A b \in Brokerage :
         b \notin Made /\ Made' = Made \cup {b} /\ UNCHANGED <<Places, Revoked, Spent>> => Members!Next
    /\ \A b \in Brokerage : Revoked' = Revoked \cup {b} /\ UNCHANGED <<Places, Made, Spent>> => Members!Next
    /\ \A u \in User, b \in Brokerage :
         /\ b \notin Made /\ Places[u] = Nobody /\ Made' = Made \cup {b}
         /\ Places' = [Places EXCEPT ![u] = b] /\ UNCHANGED <<Revoked, Spent>>
         => Members!Next
    /\ \A u \in User, b \in Brokerage, i \in Invite :
         /\ Places[u] = Nobody /\ b \in Made \ Revoked /\ i \notin Spent
         /\ Places' = [Places EXCEPT ![u] = b] /\ Spent' = Spent \cup {i} /\ UNCHANGED <<Made, Revoked>>
         => Members!Next
    /\ \A u \in User :
         Places' = [Places EXCEPT ![u] = Nobody] /\ UNCHANGED <<Made, Revoked, Spent>> => Members!Next
    /\ \A i \in Invite :
         i \notin Spent /\ Spent' = Spent \cup {i} /\ UNCHANGED <<Places, Made, Revoked>> => Members!Next
<1>1. /\ Places = [u \in User |-> IF Belongs(u) = {} THEN Nobody
                                  ELSE CHOOSE b \in Brokerage : b \in Belongs(u)]
      /\ Made = {b \in Brokerage : account[b] # "none"}
      /\ Revoked = {b \in Brokerage : evaluation[b] = "revoked"}
      /\ Spent = {i \in Invite : invite[i] # Nothing /\ invite[i].status # "open"}
  BY DEF Places, PlaceOf, Made, Revoked, Spent
<1>2. /\ Places' = [u \in User |-> IF Belongs(u) = {} THEN Nobody
                                   ELSE CHOOSE b \in Brokerage : b \in Belongs(u)]'
      /\ Made' = {b \in Brokerage : account[b] # "none"}'
      /\ Revoked' = {b \in Brokerage : evaluation[b] = "revoked"}'
      /\ Spent' = {i \in Invite : invite[i] # Nothing /\ invite[i].status # "open"}'
  BY DEF Places, PlaceOf, Made, Revoked, Spent
<1> USE DEF Members!Next
<1>3. Members!Init <=> Places = [u \in User |-> Nobody] /\ Made = {} /\ Revoked = {} /\ Spent = {}
  BY <1>1 DEF Members!Init
<1>4. UNCHANGED <<Places, Made, Revoked, Spent>> <=> UNCHANGED Members!membershipVars
  BY <1>1, <1>2 DEF Members!membershipVars
<1>5. ASSUME NEW b \in Brokerage
      PROVE  /\ b \notin Made /\ Made' = Made \cup {b} /\ UNCHANGED <<Places, Revoked, Spent>> => Members!Open(b)
             /\ Revoked' = Revoked \cup {b} /\ UNCHANGED <<Places, Made, Spent>> => Members!Close(b)
  BY <1>1, <1>2 DEF Members!Open, Members!Close
<1>6. ASSUME NEW u \in User, NEW b \in Brokerage,
             b \notin Made, Places[u] = Nobody, Made' = Made \cup {b},
             Places' = [Places EXCEPT ![u] = b], UNCHANGED <<Revoked, Spent>>
      PROVE  Members!Found(u, b)
  BY <1>1, <1>2, <1>6 DEF Members!Found
<1>7. ASSUME NEW u \in User, NEW b \in Brokerage, NEW i \in Invite,
             Places[u] = Nobody, b \in Made \ Revoked, i \notin Spent,
             Places' = [Places EXCEPT ![u] = b], Spent' = Spent \cup {i}, UNCHANGED <<Made, Revoked>>
      PROVE  Members!Join(u, b, i)
  BY <1>1, <1>2, <1>7 DEF Members!Join
<1>8. ASSUME NEW u \in User, Places' = [Places EXCEPT ![u] = Nobody], UNCHANGED <<Made, Revoked, Spent>>
      PROVE  Members!Leave(u)
  BY <1>1, <1>2, <1>8 DEF Members!Leave
<1>9. ASSUME NEW i \in Invite, i \notin Spent, Spent' = Spent \cup {i}, UNCHANGED <<Places, Made, Revoked>>
      PROVE  Members!Withdraw(i)
  BY <1>1, <1>2, <1>9 DEF Members!Withdraw
<1> QED
  BY <1>3, <1>4, <1>5, <1>6, <1>7, <1>8, <1>9

(* The tables seen by the contract, where a step leaves them alone.        *)
LEMMA SameTables ==
    /\ (\A b \in Brokerage : account'[b] = "none" <=> account[b] = "none") => Made' = Made
    /\ (\A b \in Brokerage : evaluation'[b] = "revoked" <=> evaluation[b] = "revoked") => Revoked' = Revoked
    /\ (\A i \in Invite : invite'[i] # Nothing /\ invite'[i].status # "open"
                              <=> invite[i] # Nothing /\ invite[i].status # "open") => Spent' = Spent
BY DEF Made, Revoked, Spent

(* A redeem joins: the evaluation it saw stand stands, the invite it saw   *)
(* open is open, and the person it inserts belongs nowhere.                *)
LEMMA RedeemMaps ==
    ASSUME Core, NEW s \in Session, CommitRedeem(s)
    PROVE  Members!Next
<1>1. pc[s] = "written" /\ job[s].op = "redeem" /\ Over(s)
  BY DEF CommitRedeem
<1>2. Fits(s) /\ Stands(s) /\ TypeOK
  BY <1>1 DEF Core, Jobs
<1>3. PICK b \in Brokerage, u \in User, i \in Invite, r \in Role :
        /\ b = job[s].brokerage /\ u = job[s].user /\ i = job[s].invite
        /\ SetMember(b, u, r) /\ SetInvite(i, "redeemed", u)
        /\ account' = account /\ evaluation' = evaluation
  BY <1>1, <1>2 DEF CommitRedeem, Fits, Inviting, Joining
<1>4. \A d \in Brokerage : member[d][u] = "none"
  BY <1>1, <1>3 DEF Core, Entering, Enters, Joining
<1>5. /\ member'[b][u] = r /\ \A d \in Brokerage, v \in User : d # b \/ v # u => member'[d][v] = member[d][v]
  BY <1>2, <1>3 DEF TypeOK, SetMember
<1>6. /\ invite'[i].status = "redeemed" /\ \A k \in Invite : k # i => invite'[k] = invite[k]
      /\ invite'[i] # Nothing
  <2>1. job[s].op \in {"redeem", "withdraw"} /\ invite[i] # Nothing /\ "redeemed" \in {"redeemed", "revoked"}
    BY <1>1, <1>2, <1>3 DEF Fits
  <2>2. /\ invite'[i].status = "redeemed"
        /\ \A k \in Invite : /\ invite'[k] = Nothing <=> invite[k] = Nothing
                             /\ k # i => invite'[k] = invite[k]
    BY <1>1, <1>3, <2>1, InviteIsUsed
  <2> QED
    BY <2>1, <2>2
<1>7. Places[u] = Nobody
  BY <1>4, NoPlace DEF Places
<1>8. b \in Made \ Revoked
  <2>1. account[b] # "none"
    BY <1>1, <1>3 DEF Core, Founding
  <2>2. evaluation[b] # "revoked"
    BY <1>1, <1>2, <1>3 DEF Stands
  <2> QED
    BY <2>1, <2>2 DEF Made, Revoked
<1>9. i \notin Spent
  BY <1>1, <1>2, <1>3 DEF Stands, Spent
<1>10. Places' = [Places EXCEPT ![u] = b]
  <2>1. Core'
    BY CommitRedeemKeeps
  <2>2. PlaceOf(u)' = b
    <3>1. member'[b][u] # "none"
      BY <1>5 DEF Role
    <3>2. OneEach'
      BY <2>1 DEF Core
    <3>3. \A d \in Brokerage : member'[d][u] # "none" => d = b
      BY <3>1, <3>2 DEF OneEach
    <3>4. b \in Belongs(u)' /\ \A d \in Brokerage : d \in Belongs(u)' => d = b
      BY <3>1, <3>3 DEF Belongs
    <3> QED
      BY <3>4 DEF PlaceOf
  <2> QED
    BY <1>5, <2>2, PlaceMoves
<1>11. Spent' = Spent \cup {i}
  BY <1>6, SpentWith
<1>12. UNCHANGED <<Made, Revoked>>
  BY <1>3, SameTables
<1> QED
  BY <1>7, <1>8, <1>9, <1>10, <1>11, <1>12, Contract

LEMMA SignupMaps ==
    ASSUME Core, NEW s \in Session, CommitSignup(s)
    PROVE  Members!Next
<1>1. pc[s] = "written" /\ job[s].op = "signup"
  BY DEF CommitSignup
<1>2. Fits(s) /\ TypeOK
  BY <1>1 DEF Core, Jobs
<1>3. PICK b \in Brokerage, u \in User :
        /\ b = job[s].brokerage /\ u = job[s].user /\ SetMember(b, u, "owner") /\ invite' = invite
        /\ account' = [account EXCEPT ![b] = "active"] /\ evaluation' = [evaluation EXCEPT ![b] = "active"]
  BY <1>1, <1>2 DEF CommitSignup, Fits, Joining
<1>4. \A d \in Brokerage : member[d][u] = "none"
  BY <1>1, <1>3 DEF Core, Entering, Enters, Joining
<1>5. /\ member'[b][u] = "owner"
      /\ \A d \in Brokerage, v \in User : d # b \/ v # u => member'[d][v] = member[d][v]
  BY <1>2, <1>3 DEF TypeOK, SetMember
<1>6. account[b] = "none" /\ evaluation[b] = "none"
  BY <1>1, <1>3 DEF Core, Founding, At
<1>7. b \notin Made /\ Made' = Made \cup {b}
  BY <1>2, <1>3, <1>6 DEF Made, TypeOK
<1>8. Revoked' = Revoked
  BY <1>2, <1>3, <1>6 DEF Revoked, TypeOK
<1>9. Spent' = Spent
  BY <1>3, SameTables
<1>10. Places[u] = Nobody
  BY <1>4, NoPlace DEF Places
<1>11. Places' = [Places EXCEPT ![u] = b]
  <2>1. \A d \in Brokerage : member'[d][u] # "none" <=> d = b
    BY <1>4, <1>5
  <2>2. b \in Belongs(u)' /\ \A d \in Brokerage : d \in Belongs(u)' => d = b
    BY <2>1 DEF Belongs
  <2>3. PlaceOf(u)' = b
    BY <2>2 DEF PlaceOf
  <2> QED
    BY <1>5, <2>3, PlaceMoves
<1> QED
  BY <1>7, <1>8, <1>9, <1>10, <1>11, Contract

LEMMA ChangeMaps ==
    ASSUME Core, NEW s \in Session, CommitChange(s)
    PROVE  Members!Next \/ UNCHANGED Members!membershipVars
<1>1. pc[s] = "written" /\ job[s].op \in Ending
  BY DEF CommitChange, Ending
<1>2. Fits(s) /\ TypeOK /\ Aims(s)
  BY <1>1 DEF Core, Jobs
<1>3. PICK b \in Brokerage, u \in User, r \in Role \cup {"none"} :
        /\ b = job[s].brokerage /\ u = job[s].target /\ SetMember(b, u, r)
        /\ account' = account /\ evaluation' = evaluation /\ invite' = invite
  <2>1. job[s].role \in Role \cup {"gone"}
    BY <1>2 DEF Fits, Job
  <2> QED
    BY <1>1, <1>2, <2>1 DEF CommitChange, Fits, Role
<1>4. /\ member'[b][u] = r /\ \A d \in Brokerage, v \in User : d # b \/ v # u => member'[d][v] = member[d][v]
  BY <1>2, <1>3 DEF TypeOK, SetMember
<1>5. UNCHANGED <<Made, Revoked, Spent>>
  BY <1>3, SameTables
<1>6. member[b][u] # "none" /\ \A d \in Brokerage : d # b => member[d][u] = "none"
  BY <1>1, <1>2, <1>3 DEF Aims, Core, OneEach
<1>7. CASE r = "none"
  <2>1. \A d \in Brokerage : member'[d][u] = "none"
    BY <1>4, <1>6, <1>7
  <2>2. PlaceOf(u)' = Nobody
    BY <2>1 DEF PlaceOf, Belongs
  <2>3. Places' = [Places EXCEPT ![u] = Nobody]
    BY <1>4, <2>2, PlaceMoves
  <2> QED
    BY <1>5, <2>3, Contract
<1>8. CASE r # "none"
  <2>1. \A d \in Brokerage, v \in User : member'[d][v] = "none" <=> member[d][v] = "none"
    BY <1>4, <1>6, <1>8
  <2>2. Places' = Places
    BY <2>1, PlaceStays DEF Places
  <2> QED
    BY <1>5, <2>2, Contract
<1> QED
  BY <1>7, <1>8

LEMMA InviteMaps ==
    ASSUME Core, NEW s \in Session, CommitMint(s) \/ CommitWithdraw(s)
    PROVE  Members!Next \/ UNCHANGED Members!membershipVars
<1>1. pc[s] = "written" /\ Over(s)
  BY DEF CommitMint, CommitWithdraw
<1>2. Fits(s) /\ Stands(s) /\ TypeOK
  BY <1>1 DEF Core, Jobs
<1>3. account' = account /\ evaluation' = evaluation /\ member' = member
  BY DEF CommitMint, CommitWithdraw
<1>4. UNCHANGED <<Places, Made, Revoked>>
  BY <1>3, PlacesStay, SameTables
<1>5. CASE CommitMint(s)
  <2>1. PICK i \in Invite : i = job[s].invite /\ invite[i] = Nothing
    BY <1>2, <1>5 DEF CommitMint, Fits, Inviting
  <2>2. invite' = [invite EXCEPT ![i] = NewInvite(job[s].brokerage, job[s].role, job[s].at)]
    BY <1>5, <2>1 DEF CommitMint
  <2>3. invite'[i].status = "open" /\ \A k \in Invite : k # i => invite'[k] = invite[k]
    BY <1>2, <2>1, <2>2 DEF NewInvite, TypeOK
  <2>4. Spent' = Spent
    BY <2>1, <2>3, SameTables
  <2> QED
    BY <1>4, <2>4, Contract
<1>6. CASE CommitWithdraw(s)
  <2>1. job[s].op = "withdraw"
    BY <1>6 DEF CommitWithdraw
  <2>2. PICK i \in Invite : i = job[s].invite /\ invite[i] # Nothing /\ SetInvite(i, "revoked", Nobody)
    BY <1>2, <1>6, <2>1 DEF CommitWithdraw, Fits, Inviting
  <2>3. /\ invite'[i].status = "revoked"
        /\ \A k \in Invite : /\ invite'[k] = Nothing <=> invite[k] = Nothing
                             /\ k # i => invite'[k] = invite[k]
    BY <1>1, <1>3, <2>1, <2>2, InviteIsUsed
  <2>4. Spent' = Spent \cup {i}
    BY <2>2, <2>3, SpentWith
  <2>5. i \notin Spent
    BY <1>1, <1>2, <2>1, <2>2 DEF Stands, Spent
  <2> QED
    BY <1>4, <2>4, <2>5, Contract
<1> QED
  BY <1>5, <1>6

LEMMA WorldMaps ==
    ASSUME Core, SpineWorld
    PROVE  Members!Next \/ UNCHANGED Members!membershipVars
<1>1. TypeOK
  BY DEF Core
<1>2. CASE Tick
  <2>1. UNCHANGED tableVars
    BY <1>2 DEF Tick
  <2> QED
    BY <2>1, PlacesStay, SameTables, Contract DEF tableVars
<1>3. ASSUME NEW b \in Brokerage, NEW i \in Invite, EvaluationCreate(b, i) PROVE Members!Next
  <2>1. /\ account[b] = "none" /\ invite[i] = Nothing /\ member' = member
        /\ account' = [account EXCEPT ![b] = "active"] /\ evaluation' = [evaluation EXCEPT ![b] = "active"]
        /\ invite' = [invite EXCEPT ![i] = NewInvite(b, "owner", clock)]
    BY <1>3 DEF EvaluationCreate, Unused, Undrawn
  <2>2. evaluation[b] = "none"
    BY <2>1 DEF Core, Founding
  <2>3. b \notin Made /\ Made' = Made \cup {b}
    BY <1>1, <2>1 DEF Made, TypeOK
  <2>4. Revoked' = Revoked
    BY <1>1, <2>1, <2>2 DEF Revoked, TypeOK
  <2>5. invite'[i].status = "open" /\ \A k \in Invite : k # i => invite'[k] = invite[k]
    BY <1>1, <2>1 DEF NewInvite, TypeOK
  <2>6. Spent' = Spent
    BY <2>1, <2>5, SameTables
  <2> QED
    BY <2>1, <2>3, <2>4, <2>6, PlacesStay, Contract
<1>4. ASSUME NEW b \in Brokerage, EvaluationRevoke(b) PROVE Members!Next
  <2>1. /\ evaluation' = [evaluation EXCEPT ![b] = "revoked"]
        /\ account' = account /\ member' = member /\ invite' = invite
    BY <1>4 DEF EvaluationRevoke
  <2>2. Revoked' = Revoked \cup {b}
    BY <1>1, <2>1 DEF Revoked, TypeOK
  <2> QED
    BY <2>1, <2>2, PlacesStay, SameTables, Contract
<1>5. ASSUME NEW b \in Brokerage, NEW status \in {"active", "suspended"}, SetAccount(b, status)
      PROVE  UNCHANGED Members!membershipVars
  <2>1. /\ account[b] # "none" /\ account' = [account EXCEPT ![b] = status]
        /\ evaluation' = evaluation /\ member' = member /\ invite' = invite
    BY <1>5 DEF SetAccount
  <2>2. \A d \in Brokerage : account'[d] = "none" <=> account[d] = "none"
    BY <1>1, <2>1 DEF TypeOK
  <2> QED
    BY <2>1, <2>2, PlacesStay, SameTables, Contract
<1>6. ASSUME NEW u \in Leaver, DeleteUser(u) PROVE Members!Next
  <2>1. /\ u \in User /\ account' = account /\ evaluation' = evaluation
        /\ member' = [b \in Brokerage |-> [member[b] EXCEPT ![u] = "none"]]
        /\ invite' = [i \in Invite |-> IF invite[i] # Nothing /\ invite[i].by = u
                                       THEN [invite[i] EXCEPT !.by = Nobody] ELSE invite[i]]
    BY <1>6, SpineAssumption DEF DeleteUser
  <2>2. \A b \in Brokerage, v \in User : member'[b][v] = IF v = u THEN "none" ELSE member[b][v]
    BY <1>1, <2>1 DEF TypeOK
  <2>3. PlaceOf(u)' = Nobody
    BY <2>1, <2>2 DEF PlaceOf, Belongs
  <2>4. Places' = [Places EXCEPT ![u] = Nobody]
    BY <2>1, <2>2, <2>3, PlaceMoves
  <2>5. \A i \in Invite : invite'[i] # Nothing /\ invite'[i].status # "open"
                              <=> invite[i] # Nothing /\ invite[i].status # "open"
    <3> TAKE i \in Invite
    <3>1. CASE invite[i] # Nothing /\ invite[i].by = u
      <4>1. invite[i] \in InviteRow /\ invite'[i] = [invite[i] EXCEPT !.by = Nobody]
        BY <1>1, <2>1, <3>1 DEF TypeOK
      <4>2. invite'[i] \in InviteRow /\ invite'[i].status = invite[i].status
        BY <4>1 DEF InviteRow
      <4> QED
        BY <3>1, <4>2, RowsAssumption
    <3>2. CASE ~(invite[i] # Nothing /\ invite[i].by = u)
      BY <2>1, <3>2
    <3> QED
      BY <3>1, <3>2
  <2> QED
    BY <2>1, <2>4, <2>5, SameTables, Contract
<1> QED
  BY <1>2, <1>3, <1>4, <1>5, <1>6 DEF SpineWorld

(* The spine, with all its sessions, locks and migrations at once, does    *)
(* nothing the contract of Membership does not allow: one place a person,  *)
(* one use an invite, no joining a revoked brokerage.                      *)
THEOREM SpineImplementsMembership == Spec => ImplementsMembership
<1>1. Init => Members!Init
  <2> SUFFICES ASSUME Init PROVE Members!Init
    OBVIOUS
  <2>1. Made = {} /\ Revoked = {} /\ Spent = {}
    BY DEF Init, Made, Revoked, Spent
  <2>2. \A u \in User : PlaceOf(u) = Nobody
    <3>1. \A u \in User, b \in Brokerage : member[b][u] = "none"
      BY DEF Init
    <3> QED
      BY <3>1, NoPlace
  <2> QED
    BY <2>1, <2>2, Contract DEF Places
<1>2. Core /\ [Next]_spineVars => [Members!Next]_Members!membershipVars
  <2> SUFFICES ASSUME Core, [Next]_spineVars PROVE Members!Next \/ UNCHANGED Members!membershipVars
    OBVIOUS
  <2>1. CASE UNCHANGED spineVars
    BY <2>1, PlacesStay, SameTables, Contract DEF spineVars
  <2>2. ASSUME NEW s \in Session, Quiet(s) PROVE UNCHANGED Members!membershipVars
    BY <2>2, QuietStep, PlacesStay, SameTables, Contract
  <2>3. ASSUME NEW s \in Session, Commit(s) PROVE Members!Next \/ UNCHANGED Members!membershipVars
    BY <2>3, RedeemMaps, SignupMaps, ChangeMaps, InviteMaps DEF Commit
  <2> QED
    BY <2>1, <2>2, <2>3, WorldMaps DEF Next, Quiet
<1> QED
  BY <1>1, <1>2, CoreHolds, PTL DEF Spec, ImplementsMembership, Members!Spec

-----------------------------------------------------------------------------
(* Waiting: whoever asks waits for a session that holds a lock, and that   *)
(* one, if it waits, for one at its write or its count, which waits for    *)
(* nobody; so waits are two deep in any state, reachable or not.           *)

LEMMA AskersWaitForHolders ==
    ASSUME NEW s \in Session, pc[s] = "asked"
    PROVE  \A t \in WaitsFor(s) : pc[t] # "asked"
<1>1. ~AtInsert(s) /\ pc[s] # "locked"
  BY DEF AtInsert
<1>2. WaitsFor(s) = FirstHolders(s)
  BY <1>1 DEF WaitsFor
<1>3. \/ FirstHolders(s) = EvaluationHolders(job[s].brokerage)
      \/ FirstHolders(s) = SignupHolders(job[s].user)
      \/ FirstHolders(s) = MemberHolders(job[s].brokerage, job[s].target)
  BY DEF FirstHolders
<1>4. \A t \in FirstHolders(s) : pc[t] \in HeldSteps \cup {"counting"}
  BY <1>3 DEF EvaluationHolders, SignupHolders, MemberHolders, Running
<1> QED
  BY <1>2, <1>4 DEF HeldSteps

LEMMA HoldersWaitForWriters ==
    ASSUME NEW s \in Session, pc[s] # "asked"
    PROVE  \A t \in WaitsFor(s) : pc[t] \in {"counting", "written"}
<1>1. CASE AtInsert(s)
  <2>1. pc[s] \in {"seated", "unattached"}
    BY <1>1 DEF AtInsert
  <2>2. WaitsFor(s) = WritesFor(job[s].user)
    BY <1>1, <2>1 DEF WaitsFor
  <2> QED
    BY <2>2 DEF WritesFor, Running
<1>2. CASE ~AtInsert(s) /\ pc[s] = "locked" /\ job[s].op = "change" /\ Unmakes(s)
  BY <1>2 DEF WaitsFor, AccountHolders, Running
<1>3. CASE ~AtInsert(s) /\ ~(pc[s] = "locked" /\ job[s].op = "change" /\ Unmakes(s))
  BY <1>3 DEF WaitsFor
<1> QED
  BY <1>1, <1>2, <1>3

LEMMA WritersDoNotWait ==
    ASSUME NEW s \in Session, pc[s] \in {"counting", "written"}
    PROVE  WaitsFor(s) = {}
BY DEF WaitsFor, AtInsert

LEMMA WaitsEnd == NoCycleOfWaits
<1> SUFFICES ASSUME NEW S \in SUBSET Session, S # {}
             PROVE  \E s \in S : WaitsFor(s) \cap S = {}
  BY DEF NoCycleOfWaits
<1>1. CASE \E s \in S : pc[s] \in {"counting", "written"}
  BY <1>1, WritersDoNotWait
<1>2. CASE /\ \A s \in S : pc[s] \notin {"counting", "written"}
           /\ \E s \in S : pc[s] # "asked"
  BY <1>2, HoldersWaitForWriters
<1>3. CASE \A s \in S : pc[s] = "asked"
  BY <1>3, AskersWaitForHolders
<1> QED
  BY <1>1, <1>2, <1>3

(* No sessions wait for one another in a circle, however many there are.   *)
THEOREM NobodyDeadlocks == Spec => []NoCycleOfWaits
BY WaitsEnd, PTL
=============================================================================

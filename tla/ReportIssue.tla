----------------------------- MODULE ReportIssue -----------------------------
(***************************************************************************)
(* Issuing a Development Activity report: one database transaction that    *)
(* stores a report and charges it to the brokerage's free evaluation or to *)
(* its paid month, or answers a retried key from the ledgers.              *)
(*                                                                         *)
(*   docs/brokerage-billing.sql         brokerage_report_issue,            *)
(*                                      billing_paid_issue                 *)
(*   docs/evaluation-entitlement.sql    evaluation_report_issue,           *)
(*                                      evaluation_revoke                  *)
(*   docs/report-snapshot.sql           report_snapshot_issue              *)
(*                                                                         *)
(* Transactions run at READ COMMITTED: every statement reads what was      *)
(* committed when it started, so memberships, accounts and the plan may    *)
(* change between two statements of one call.  Only the ledgers and the    *)
(* evaluation's status stand still, because every writer of them holds the *)
(* lock on the brokerage's evaluation row.  A call's own writes are in     *)
(* `draft` until it commits.                                               *)
(***************************************************************************)
EXTENDS Integers, FiniteSets

CONSTANTS
    Brokerage, User, Key,
    Report,         \* report ids: a call draws an unused one
    Call,           \* slots for concurrent calls
    Binding,        \* the live subscription bindings
    MayJoin,        \* the brokerages that would ever invite each user
    ExpiresAt,      \* evaluation.expires_at of each brokerage, or Never
    FreeLimit,      \* evaluation_report_limit()
    PaidLimit,      \* billing_report_limit()
    MonthLength,    \* clock ticks in a paid month
    MaxClock,       \* bound on the clock
    Never, Nobody, Nothing

ASSUME IssueAssumption ==
    /\ FreeLimit \in Nat \ {0} /\ PaidLimit \in Nat \ {0}
    /\ MonthLength \in Nat \ {0} /\ MaxClock \in Nat
    /\ MayJoin \in [User -> SUBSET Brokerage]
    /\ ExpiresAt \in [Brokerage -> Nat \cup {Never}]
    /\ Never \notin Nat
    /\ Nobody \notin Brokerage \cup Call
    /\ Nothing \notin Report \cup Binding

VARIABLES
    clock,
    account,        \* brokerage_account.status
    memberOf,       \* the brokerage of a user's active membership, or Nobody
    plan,           \* what billing_plan_of says of a brokerage
    evaluation,     \* evaluation.status
    free,           \* evaluation_credit, by brokerage
    paid,           \* brokerage_paid_credit, by brokerage
    snapshots,      \* report_snapshot: the stored reports
    lock,           \* which call holds the brokerage's evaluation row
    pc,             \* where a call is
    job,            \* what it was asked, and its transaction's now()
    draft,          \* the ledger row it has written and not committed
    answer          \* what the call that just ended returned, if one just did

ledgerVars == <<evaluation, free, paid, snapshots>>
worldVars  == <<clock, account, memberOf, plan>>
callVars   == <<lock, pc, job, draft>>
issueVars  == <<clock, account, memberOf, plan, evaluation, free, paid, snapshots,
                lock, pc, job, draft, answer>>

FreeRow == [ordinal : Nat, key : Key, report : Report]
PaidRow == [binding : Binding, period : Nat, ordinal : Nat, number : Nat,
            key : Key, report : Report]
Plan    == [paid : BOOLEAN, binding : Binding \cup {Nothing}, since : Nat]

(* No row is mistaken for the absence of one.                              *)
ASSUME RowAssumption == Nothing \notin FreeRow \cup PaidRow

(* A call: `brokerage` is the one its first look-up named, `charged` the   *)
(* one whose ledgers it answers from.  They differ only when the caller    *)
(* changed brokerage between the two look-ups of the free path.            *)
Job     == [user : User, key : Key, at : Nat, brokerage : Brokerage, charged : Brokerage, plan : Plan]

Refusals == {"NOT_ENTITLED", "EVALUATION_COMPLETE", "ALLOTMENT_COMPLETE", "SNAPSHOT_REFUSED", "LOST"}
Answer   == [brokerage : Brokerage, key : Key, word : Refusals \cup {"charged", "replayed"},
             report : Report \cup {Nothing}]

NoPlan == [paid |-> FALSE, binding |-> Nothing, since |-> 0]

Init ==
    /\ clock = 0
    /\ account = [b \in Brokerage |-> "active"]
    /\ memberOf = [u \in User |-> Nobody]
    /\ plan = [b \in Brokerage |-> NoPlan]
    /\ evaluation = [b \in Brokerage |-> "active"]
    /\ free = [b \in Brokerage |-> {}]
    /\ paid = [b \in Brokerage |-> {}]
    /\ snapshots = {}
    /\ lock = [b \in Brokerage |-> Nobody]
    /\ pc = [c \in Call |-> "idle"]
    /\ job = [c \in Call |-> Nothing]
    /\ draft = [c \in Call |-> Nothing]
    /\ answer = Nothing

-----------------------------------------------------------------------------
(* The readers a call uses.                                                *)

(* brokerage_membership_of, asked about one brokerage.                     *)
Entitled(u, b) == memberOf[u] = b /\ account[b] = "active"

Standing(b, t) ==
    /\ evaluation[b] # "revoked"
    /\ ExpiresAt[b] # Never => t < ExpiresAt[b]

(* Fault: a key is not looked up in the free ledger.                       *)
FreeKeyIgnored(b, k) == {}

FreeWithKey(b, k) == {x \in free[b] : x.key = k}

(* Fault: a key is looked up among the reports of every brokerage.         *)
PaidOfAnyone(b, k) == {x \in UNION {paid[d] : d \in Brokerage} : x.key = k}

PaidWithKey(b, k) == {x \in paid[b] : x.key = k}

(* Fault: no first month for a binding made after the call began.          *)
PeriodUncut(since, t) == (t - since) \div MonthLength

(* billing_period_index: whole months since the binding, never negative.   *)
Period(since, t) == IF t < since THEN 0 ELSE (t - since) \div MonthLength

InMonth(b, x, p) == {y \in paid[b] : y.binding = x /\ y.period = p}

NextFreeOrdinal(b) ==
    IF free[b] = {} THEN 1 ELSE 1 + (CHOOSE m \in {x.ordinal : x \in free[b]} :
                                        \A x \in free[b] : x.ordinal <= m)

Drafted == {draft[c].report : c \in {d \in Call : draft[d] # Nothing}}

(* Fault: the row is read without `for update`.                            *)
UnlockedFor(c, b) == TRUE

(* Whether the evaluation row is there to take: nobody else's transaction  *)
(* holds it.                                                               *)
LockableBy(c, b) == lock[b] \in {Nobody, c}

-----------------------------------------------------------------------------
(* The world outside the call.                                             *)

Tick ==
    /\ clock < MaxClock
    /\ clock' = clock + 1
    /\ answer' = Nothing
    /\ UNCHANGED <<account, memberOf, plan, ledgerVars, callVars>>

(* An administrator, or the payment side: an account's status and its plan *)
(* change under no lock a call takes.  A plan that is paid has a binding,  *)
(* bound no later than now.                                                *)
PlanOrAccountMoves(b) ==
    /\ \/ \E status \in {"active", "suspended"} :
            account' = [account EXCEPT ![b] = status] /\ UNCHANGED plan
       \/ plan' = [plan EXCEPT ![b].paid = FALSE] /\ UNCHANGED account
       \/ \E x \in Binding, t \in 0..clock :
            /\ plan' = [plan EXCEPT ![b] = [paid |-> TRUE, binding |-> x, since |-> t]]
            /\ UNCHANGED account
    /\ answer' = Nothing
    /\ UNCHANGED <<clock, memberOf, ledgerVars, callVars>>

(* A membership ends (deactivation, or deletion of the person's account);  *)
(* a person with no active membership redeems an invite, which holds the   *)
(* evaluation's row of the brokerage joined (evaluation_invite_redeem).    *)
Leave(u) ==
    /\ memberOf[u] # Nobody
    /\ memberOf' = [memberOf EXCEPT ![u] = Nobody]
    /\ answer' = Nothing
    /\ UNCHANGED <<clock, account, plan, ledgerVars, callVars>>

(* Fault: a person joins without taking the evaluation's row.              *)
JoinUnlocked(u, b) ==
    /\ memberOf[u] = Nobody /\ b \in MayJoin[u]
    /\ account[b] = "active" /\ Standing(b, clock)
    /\ memberOf' = [memberOf EXCEPT ![u] = b]
    /\ answer' = Nothing
    /\ UNCHANGED <<clock, account, plan, ledgerVars, callVars>>

Join(u, b) ==
    /\ memberOf[u] = Nobody /\ b \in MayJoin[u]
    /\ lock[b] = Nobody
    /\ account[b] = "active" /\ Standing(b, clock)
    /\ memberOf' = [memberOf EXCEPT ![u] = b]
    /\ answer' = Nothing
    /\ UNCHANGED <<clock, account, plan, ledgerVars, callVars>>

(* Fault: the evaluation is revoked without waiting for its row.           *)
RevokeUnlocked(b) ==
    /\ evaluation[b] # "revoked"
    /\ evaluation' = [evaluation EXCEPT ![b] = "revoked"]
    /\ answer' = Nothing
    /\ UNCHANGED <<worldVars, free, paid, snapshots, callVars>>

(* evaluation_revoke takes the same row lock; its one transaction is one   *)
(* step, since nobody else sees its middle.                                *)
RevokeEvaluation(b) ==
    /\ lock[b] = Nobody
    /\ evaluation[b] # "revoked"
    /\ evaluation' = [evaluation EXCEPT ![b] = "revoked"]
    /\ answer' = Nothing
    /\ UNCHANGED <<worldVars, free, paid, snapshots, callVars>>

-----------------------------------------------------------------------------
(* One call of brokerage_report_issue.                                     *)

Release(c) == lock' = [b \in Brokerage |-> IF lock[b] = c THEN Nobody ELSE lock[b]]

(* The call returns or raises: its transaction ends and lets its locks go. *)
Finish(c, word, report) ==
    /\ pc' = [pc EXCEPT ![c] = "idle"]
    /\ job' = [job EXCEPT ![c] = Nothing]
    /\ draft' = [draft EXCEPT ![c] = Nothing]
    /\ answer' = [brokerage |-> job[c].charged, key |-> job[c].key, word |-> word, report |-> report]
    /\ Release(c)

Refuse(c, word) == Finish(c, word, Nothing) /\ UNCHANGED <<worldVars, ledgerVars>>

Replay(c, row) == Finish(c, "replayed", row.report) /\ UNCHANGED <<worldVars, ledgerVars>>

Goto(c, label) ==
    /\ pc' = [pc EXCEPT ![c] = label]
    /\ answer' = Nothing
    /\ UNCHANGED <<worldVars, ledgerVars, draft>>

(* The transaction starts, and the resolver names the caller's brokerage.  *)
(* A caller it names none for is refused at once, and changes nothing.     *)
Start(c, u, k, b) ==
    /\ pc[c] = "idle"
    /\ Entitled(u, b)
    /\ job' = [job EXCEPT ![c] = [user |-> u, key |-> k, at |-> clock,
                                  brokerage |-> b, charged |-> b, plan |-> NoPlan]]
    /\ Goto(c, "waiting") /\ UNCHANGED lock

(* select ... from evaluation ... for update.                              *)
TakeLock(c) ==
    LET b == job[c].brokerage IN
    /\ pc[c] = "waiting"
    /\ LockableBy(c, b)
    /\ lock' = [lock EXCEPT ![b] = c]
    /\ Goto(c, "holding") /\ UNCHANGED job

(* The lock may have waited: ask again, then look the key up in the paid   *)
(* ledger.                                                                 *)
AskAgain(c) ==
    LET b == job[c].brokerage
        entitled == Entitled(job[c].user, b) /\ Standing(b, job[c].at)
        prior == PaidWithKey(b, job[c].key)
    IN  /\ pc[c] = "holding"
        /\ \/ ~entitled /\ Refuse(c, "NOT_ENTITLED")
           \/ entitled /\ \E row \in prior : Replay(c, row)
           \/ entitled /\ prior = {} /\ Goto(c, "choosing") /\ UNCHANGED <<lock, job>>

(* Which allotment: the paid month when the plan is paid and the key is    *)
(* not already a free report's, otherwise the free evaluation.             *)
Choose(c) ==
    LET b == job[c].brokerage
        toPaid == plan[b].paid /\ account[b] = "active" /\ FreeWithKey(b, job[c].key) = {}
    IN  /\ pc[c] = "choosing"
        /\ \/ toPaid /\ Goto(c, "paid") /\ job' = [job EXCEPT ![c].plan = plan[b]]
           \/ ~toPaid /\ Goto(c, "free") /\ UNCHANGED job
        /\ UNCHANGED lock

(* evaluation_report_issue asks the resolver for itself, and takes the     *)
(* row of the brokerage it is told: its own, or one the caller has joined  *)
(* since.                                                                  *)
AskFree(c) ==
    /\ pc[c] = "free"
    /\ \/ (\A d \in Brokerage : ~Entitled(job[c].user, d)) /\ Refuse(c, "NOT_ENTITLED")
       \/ \E d \in Brokerage :
            /\ Entitled(job[c].user, d)
            /\ job' = [job EXCEPT ![c].charged = d]
            /\ Goto(c, "queued") /\ UNCHANGED lock

TakeFreeLock(c) ==
    LET d == job[c].charged IN
    /\ pc[c] = "queued"
    /\ LockableBy(c, d)
    /\ lock' = [lock EXCEPT ![d] = c]
    /\ Goto(c, "issuing") /\ UNCHANGED job

(* report_snapshot_issue and the ledger insert, not yet committed.         *)
Write(c, row) ==
    /\ draft' = [draft EXCEPT ![c] = row]
    /\ pc' = [pc EXCEPT ![c] = "written"]
    /\ answer' = Nothing
    /\ UNCHANGED <<worldVars, ledgerVars, lock, job>>

(* The rest of evaluation_report_issue: entitlement, once more; the key;   *)
(* the limit; the snapshot, which may refuse the body; the ledger row.     *)
IssueFree(c) ==
    LET d == job[c].charged
        k == job[c].key
        entitled == Entitled(job[c].user, d) /\ Standing(d, job[c].at)
        prior == FreeWithKey(d, k)
        open == evaluation[d] = "active" /\ Cardinality(free[d]) < FreeLimit
    IN  /\ pc[c] = "issuing"
        /\ \/ ~entitled /\ Refuse(c, "NOT_ENTITLED")
           \/ entitled /\ \E row \in prior : Replay(c, row)
           \/ entitled /\ prior = {} /\ ~open /\ Refuse(c, "EVALUATION_COMPLETE")
           \/ entitled /\ prior = {} /\ open /\ Refuse(c, "SNAPSHOT_REFUSED")
           \/ /\ entitled /\ prior = {} /\ open
              /\ \E r \in Report \ (snapshots \cup Drafted) :
                   Write(c, [ordinal |-> NextFreeOrdinal(d), key |-> k, report |-> r])

(* Fault: the next paid number counts the free reports twice.              *)
NumberAfterAll(b) == FreeLimit + Cardinality(free[b]) + Cardinality(paid[b]) + 1

NextNumber(b) == FreeLimit + Cardinality(paid[b]) + 1

(* billing_paid_issue: the month's limit; the next number; the snapshot;   *)
(* the ledger row, whose month the insert trigger stamps.                  *)
IssuePaid(c) ==
    LET b == job[c].brokerage
        x == job[c].plan.binding
        p == Period(job[c].plan.since, job[c].at)
        used == Cardinality(InMonth(b, x, p))
    IN  /\ pc[c] = "paid"
        /\ \/ used >= PaidLimit /\ Refuse(c, "ALLOTMENT_COMPLETE")
           \/ used < PaidLimit /\ Refuse(c, "SNAPSHOT_REFUSED")
           \/ /\ used < PaidLimit
              /\ \E r \in Report \ (snapshots \cup Drafted) :
                   Write(c, [binding |-> x, period |-> p, ordinal |-> used + 1,
                             number |-> NextNumber(b), key |-> job[c].key, report |-> r])

(* The tables' constraints: the keys and the checks of each ledger.        *)
FreeAllowed(b, row) ==
    /\ row.ordinal \in 1..FreeLimit
    /\ \A x \in free[b] : x.ordinal # row.ordinal /\ x.key # row.key

PaidAllowed(b, row) ==
    /\ row.ordinal \in 1..PaidLimit /\ row.number > FreeLimit
    /\ \A x \in paid[b] :
         /\ <<x.binding, x.period, x.ordinal>> # <<row.binding, row.period, row.ordinal>>
         /\ x.number # row.number /\ x.key # row.key

(* Fault: the trigger waits for a credit beyond the last.                  *)
CompletesPastLimit(b, row) == row.ordinal > FreeLimit /\ evaluation[b] = "active"

Completes(b, row) == row.ordinal = FreeLimit /\ evaluation[b] = "active"

(* Commit: the report and its ledger row appear together; the trigger on   *)
(* the row that uses the last free credit completes the evaluation.  A row *)
(* the tables refuse is an error, and the call can only be lost.           *)
CommitFree(c) ==
    LET d == job[c].charged
        row == draft[c]
    IN  /\ pc[c] = "written" /\ row \in FreeRow
        /\ FreeAllowed(d, row)
        /\ free' = [free EXCEPT ![d] = @ \cup {row}]
        /\ snapshots' = snapshots \cup {row.report}
        /\ evaluation' = IF Completes(d, row) THEN [evaluation EXCEPT ![d] = "complete"] ELSE evaluation
        /\ Finish(c, "charged", row.report)
        /\ UNCHANGED <<worldVars, paid>>

CommitPaid(c) ==
    LET b == job[c].brokerage
        row == draft[c]
    IN  /\ pc[c] = "written" /\ row \in PaidRow
        /\ PaidAllowed(b, row)
        /\ paid' = [paid EXCEPT ![b] = @ \cup {row}]
        /\ snapshots' = snapshots \cup {row.report}
        /\ Finish(c, "charged", row.report)
        /\ UNCHANGED <<worldVars, evaluation, free>>

(* Fault: the report was stored in a transaction of its own.               *)
LoseButKeepSnapshot(c) ==
    /\ pc[c] # "idle"
    /\ Finish(c, "LOST", Nothing)
    /\ snapshots' = IF draft[c] = Nothing THEN snapshots ELSE snapshots \cup {draft[c].report}
    /\ UNCHANGED <<worldVars, evaluation, free, paid>>

(* The connection drops or a statement raises: everything is rolled back.  *)
Lose(c) ==
    /\ pc[c] # "idle"
    /\ Refuse(c, "LOST")

Step(c) ==
    \/ AskAgain(c) \/ Choose(c) \/ AskFree(c) \/ IssueFree(c) \/ IssuePaid(c)
    \/ CommitFree(c) \/ CommitPaid(c)

CallSteps(c) ==
    \/ \E u \in User, k \in Key, b \in Brokerage : Start(c, u, k, b)
    \/ TakeLock(c) \/ TakeFreeLock(c)
    \/ Step(c)
    \/ Lose(c)

WorldSteps ==
    \/ Tick
    \/ \E b \in Brokerage : PlanOrAccountMoves(b) \/ RevokeEvaluation(b)
    \/ \E u \in User : Leave(u) \/ \E b \in Brokerage : Join(u, b)

Next == WorldSteps \/ \E c \in Call : CallSteps(c)

Spec == Init /\ [][Next]_issueVars

(* The database grants a row lock to its waiters in turn, and runs the     *)
(* transaction that holds it to its end.                                   *)
FairSpec ==
    /\ Spec
    /\ \A c \in Call :
         /\ SF_issueVars(TakeLock(c) \/ TakeFreeLock(c))
         /\ WF_issueVars(Step(c))

-----------------------------------------------------------------------------
(* Types: what each table and each call in flight may hold.                *)
TypeOK ==
    /\ clock \in Nat
    /\ account \in [Brokerage -> {"active", "suspended"}]
    /\ memberOf \in [User -> Brokerage \cup {Nobody}]
    /\ plan \in [Brokerage -> Plan]
    /\ evaluation \in [Brokerage -> {"active", "complete", "revoked"}]
    /\ free \in [Brokerage -> SUBSET FreeRow]
    /\ paid \in [Brokerage -> SUBSET PaidRow]
    /\ snapshots \subseteq Report
    /\ lock \in [Brokerage -> Call \cup {Nobody}]
    /\ pc \in [Call -> {"idle", "waiting", "holding", "choosing", "free", "queued", "issuing",
                    "paid", "written"}]
    /\ job \in [Call -> Job \cup {Nothing}]
    /\ draft \in [Call -> FreeRow \cup PaidRow \cup {Nothing}]
    /\ answer \in Answer \cup {Nothing}

(* The ownership view evaluation_credit_all: every report of a brokerage,  *)
(* with the number it carries for ever.                                    *)
Owned(b) ==
    {[number |-> x.ordinal, key |-> x.key, report |-> x.report] : x \in free[b]} \cup
    {[number |-> x.number, key |-> x.key, report |-> x.report] : x \in paid[b]}

(* A retried key is never charged twice, across both ledgers               *)
(* (brokerage-billing.sql, rule 6): no constraint spans the two tables, so *)
(* only the lock and the order of the look-ups keep this.                  *)
KeyChargedOnce ==
    \A b \in Brokerage :
        /\ \A x, y \in free[b] : x.key = y.key => x = y
        /\ \A x, y \in paid[b] : x.key = y.key => x = y
        /\ \A x \in free[b], y \in paid[b] : x.key # y.key

(* Reports are numbered 1 to the free limit and on from there with no gap, *)
(* and each paid month from 1 to its limit (evaluation_check and           *)
(* billing_check: ledger_with_gaps, number_gaps, ordinal_gaps).            *)
NumbersHaveNoGaps ==
    \A b \in Brokerage :
        /\ {x.ordinal : x \in free[b]} = 1..Cardinality(free[b])
        /\ Cardinality(free[b]) <= FreeLimit
        /\ {x.number : x \in paid[b]} = (FreeLimit + 1)..(FreeLimit + Cardinality(paid[b]))
        /\ \A y \in paid[b] : LET month == InMonth(b, y.binding, y.period) IN
             /\ {x.ordinal : x \in month} = 1..Cardinality(month)
             /\ Cardinality(month) <= PaidLimit

(* The evaluation is complete exactly when its ledger is full, unless it   *)
(* was revoked (evaluation_check: complete_without_a_full_ledger,          *)
(* active_with_a_full_ledger).                                             *)
StatusTellsTheLedger ==
    \A b \in Brokerage : evaluation[b] # "revoked" =>
        (evaluation[b] = "complete" <=> Cardinality(free[b]) = FreeLimit)

(* A stored report is charged, a charged report is stored, and one report  *)
(* is owned once in one brokerage (billing_check: report_owned_twice,      *)
(* paid_credit_without_a_snapshot; evaluation-entitlement.sql 501-503).    *)
EachReportOwnedOnce ==
    /\ snapshots = UNION {{x.report : x \in Owned(b)} : b \in Brokerage}
    /\ \A b, d \in Brokerage : \A x \in Owned(b), y \in Owned(d) :
         x.report = y.report => b = d /\ x = y

(* What the two checks of the database ask of its ledgers, at every moment *)
(* (evaluation_check, billing_check).                                      *)
LedgersAreSound == NumbersHaveNoGaps /\ StatusTellsTheLedger /\ EachReportOwnedOnce

(* A report that was returned, new or retried, is the report this          *)
(* brokerage's ledgers hold for that very key.                             *)
AnswerIsInTheLedger ==
    answer # Nothing /\ answer.report # Nothing =>
        \E x \in Owned(answer.brokerage) : x.key = answer.key /\ x.report = answer.report

(* EVALUATION_COMPLETE and ALLOTMENT_COMPLETE are never said of a key that *)
(* was charged: a retried key still returns its report                     *)
(* (evaluation-entitlement.sql 82).                                        *)
ChargedKeyIsNeverRefusedAsUsedUp ==
    answer # Nothing /\ answer.word \in {"EVALUATION_COMPLETE", "ALLOTMENT_COMPLETE"} =>
        \A x \in Owned(answer.brokerage) : x.key # answer.key

(* A payment adds an allotment, never standing: once an evaluation is      *)
(* revoked nothing more is charged to its brokerage, by a call that was    *)
(* already past its checks either (brokerage-billing.sql 406-408).         *)
NothingChargedAfterRevocation ==
    [][ \A b \in Brokerage :
          evaluation[b] = "revoked" => free'[b] = free[b] /\ paid'[b] = paid[b] ]_issueVars

(* Every call ends: none waits for ever on an evaluation's row, its own or *)
(* that of a brokerage its caller has moved to, and none wait for each     *)
(* other in a circle.  The free path asks for a second row while it holds  *)
(* the first, and in no fixed order; what prevents the circle is that      *)
(* joining a brokerage needs its row too.                                  *)
CallsEnd == \A c \in Call : pc[c] = "waiting" ~> pc[c] = "idle"

(* The two ledgers and the evaluation's status implement the contract of   *)
(* ReportNumbers: every step of a call charges one report by its rules, or *)
(* changes nothing the contract speaks of.                                 *)
Numbers == INSTANCE ReportNumbers WITH
    reports <- [b \in Brokerage |-> Owned(b)],
    closed  <- [b \in Brokerage |-> evaluation[b] = "revoked"]

ImplementsNumbers == Numbers!Spec
=============================================================================

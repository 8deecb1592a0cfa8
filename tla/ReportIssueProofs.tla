-------------------------- MODULE ReportIssueProofs --------------------------
(***************************************************************************)
(* Proofs about ReportIssue, for any number of brokerages, people, keys,   *)
(* reports and concurrent calls and for any limits.                        *)
(***************************************************************************)
EXTENDS ReportIssue, FiniteSetTheorems, WellFoundedInduction, TLAPS

Labels == {"idle", "waiting", "holding", "choosing", "free", "queued", "issuing", "paid", "written"}

(* The labels at which a call holds its brokerage's row, and those past    *)
(* the check of its standing.                                              *)
Holding == {"holding", "choosing", "free", "queued", "issuing", "paid", "written"}
Checked == Holding \ {"holding"}

-----------------------------------------------------------------------------
(* The facts the types rest on: a call at work has a job; a paid plan has  *)
(* a binding, and so has the plan a call has chosen; the ledgers are       *)
(* finite; and the free numbers are within the limit.                      *)
Ledgers ==
    /\ \A c \in Call : pc[c] # "idle" => job[c] \in Job
    /\ \A b \in Brokerage : plan[b].paid => plan[b].binding \in Binding
    /\ \A c \in Call : pc[c] = "paid" => job[c].plan.binding \in Binding
    /\ \A b \in Brokerage : IsFiniteSet(free[b]) /\ IsFiniteSet(paid[b])
    /\ \A b \in Brokerage : \A x \in free[b] : x.ordinal \in 1..FreeLimit

(* A non-empty set of naturals with an upper bound has a largest member.   *)
LEMMA Largest ==
    ASSUME NEW S, NEW n \in Nat, S \subseteq 1..n, S # {}
    PROVE  \E m \in S : \A x \in S : x <= m
<1> DEFINE T == {n - x : x \in S}
<1>1. T \subseteq Nat
  OBVIOUS
<1>2. T # {}
  OBVIOUS
<1>3. PICK t \in T : \A y \in T : <<y, t>> \notin OpToRel(<, Nat)
  <2> HIDE DEF T
  <2> QED BY <1>1, <1>2, NatLessThanWellFounded, WFMin, Zenon
<1>4. PICK m \in S : t = n - m
  OBVIOUS
<1>5. ASSUME NEW x \in S PROVE x <= m
  <2>1. n - x \in T /\ n - x \in Nat /\ t \in Nat
    BY <1>1
  <2>2. <<n - x, t>> \in Nat \X Nat
    BY <2>1
  <2>3. ~(n - x < t)
    BY <1>3, <2>1, <2>2 DEF OpToRel
  <2> QED BY <1>4, <2>1, <2>3
<1> QED BY <1>4, <1>5

(* The next free number is a number.                                       *)
LEMMA NextFreeType ==
    ASSUME TypeOK, Ledgers, NEW b \in Brokerage
    PROVE  NextFreeOrdinal(b) \in Nat
<1> DEFINE S == {x.ordinal : x \in free[b]}
<1>1. CASE free[b] = {}
  BY <1>1 DEF NextFreeOrdinal
<1>2. CASE free[b] # {}
  <2>1. S \subseteq 1..FreeLimit /\ S # {}
    BY <1>2 DEF Ledgers
  <2>2. \E m \in S : \A x \in S : x <= m
    <3> HIDE DEF S
    <3> QED BY <2>1, Largest, IssueAssumption
  <2> DEFINE m == CHOOSE k \in S : \A x \in free[b] : x.ordinal <= k
  <2>3. m \in S
    BY <2>2
  <2>4. m \in Nat
    <3> HIDE DEF S, m
    <3> QED BY <2>1, <2>3, IssueAssumption
  <2>5. NextFreeOrdinal(b) = 1 + m
    BY <1>2 DEF NextFreeOrdinal
  <2> QED BY <2>4, <2>5
<1> QED BY <1>1, <1>2

-----------------------------------------------------------------------------
(* The months a call writes are numbers.                                   *)
LEMMA PeriodType ==
    ASSUME NEW s \in Nat, NEW t \in Nat
    PROVE  Period(s, t) \in Nat
BY IssueAssumption DEF Period

(* A count of the rows of a ledger, or of one month of it, is a number.    *)
LEMMA CountType ==
    ASSUME Ledgers, NEW b \in Brokerage
    PROVE  /\ Cardinality(free[b]) \in Nat
           /\ Cardinality(paid[b]) \in Nat
           /\ \A x, p : Cardinality(InMonth(b, x, p)) \in Nat
<1>1. IsFiniteSet(free[b]) /\ IsFiniteSet(paid[b])
  BY DEF Ledgers
<1>2. ASSUME NEW x, NEW p PROVE IsFiniteSet(InMonth(b, x, p))
  BY <1>1, FS_Subset DEF InMonth
<1> QED BY <1>1, <1>2, FS_CardinalityType

(* What a call that ends leaves.                                           *)
LEMMA FinishTypes ==
    ASSUME TypeOK, NEW c \in Call, job[c] \in Job, NEW word \in Refusals \cup {"charged", "replayed"},
           NEW report \in Report \cup {Nothing}, Finish(c, word, report)
    PROVE  /\ pc' = [pc EXCEPT ![c] = "idle"]
           /\ job' = [job EXCEPT ![c] = Nothing]
           /\ draft' = [draft EXCEPT ![c] = Nothing]
           /\ lock' \in [Brokerage -> Call \cup {Nobody}]
           /\ pc' \in [Call -> Labels]
           /\ job' \in [Call -> Job \cup {Nothing}]
           /\ draft' \in [Call -> FreeRow \cup PaidRow \cup {Nothing}]
           /\ answer' \in Answer \cup {Nothing}
BY DEF TypeOK, Finish, Release, Labels, Answer, Job

LEMMA RefuseTypes ==
    ASSUME TypeOK, Ledgers, NEW c \in Call, pc[c] # "idle",
           NEW word \in Refusals, Refuse(c, word)
    PROVE  TypeOK' /\ Ledgers'
<1>1. job[c] \in Job
  BY DEF Ledgers
<1>2. Finish(c, word, Nothing) /\ UNCHANGED <<worldVars, ledgerVars>>
  BY DEF Refuse
<1>3. TypeOK'
  BY <1>1, <1>2, FinishTypes DEF TypeOK, worldVars, ledgerVars, Labels
<1>4. Ledgers'
  BY <1>1, <1>2 DEF Ledgers, TypeOK, Finish, worldVars, ledgerVars
<1> QED BY <1>3, <1>4

LEMMA ReplayTypes ==
    ASSUME TypeOK, Ledgers, NEW c \in Call, pc[c] # "idle",
           NEW row, row.report \in Report, Replay(c, row)
    PROVE  TypeOK' /\ Ledgers'
<1>1. job[c] \in Job
  BY DEF Ledgers
<1>2. Finish(c, "replayed", row.report) /\ UNCHANGED <<worldVars, ledgerVars>>
  BY DEF Replay
<1>3. TypeOK'
  BY <1>1, <1>2, FinishTypes DEF TypeOK, worldVars, ledgerVars, Labels
<1>4. Ledgers'
  BY <1>1, <1>2 DEF Ledgers, TypeOK, Finish, worldVars, ledgerVars
<1> QED BY <1>3, <1>4

(* A step of the world changes no ledger but for the evaluation's status,  *)
(* and no call.                                                            *)
LEMMA WorldTypes ==
    ASSUME TypeOK, Ledgers, WorldSteps
    PROVE  TypeOK' /\ Ledgers'
<1> USE DEF worldVars, ledgerVars, callVars
<1>1. CASE Tick
  BY <1>1 DEF Tick, TypeOK, Ledgers
<1>2. ASSUME NEW b \in Brokerage, PlanOrAccountMoves(b) PROVE TypeOK' /\ Ledgers'
  <2>1. UNCHANGED <<clock, memberOf, ledgerVars, callVars>> /\ answer' = Nothing
    BY <1>2 DEF PlanOrAccountMoves
  <2>2. ASSUME NEW new \in Plan, new.paid => new.binding \in Binding,
               plan' = [plan EXCEPT ![b] = new], UNCHANGED account
        PROVE  TypeOK' /\ Ledgers'
    BY <2>1, <2>2 DEF TypeOK, Ledgers
  <2>3. CASE plan' = [plan EXCEPT ![b].paid = FALSE] /\ UNCHANGED account
    <3>1. [plan[b] EXCEPT !.paid = FALSE] \in Plan /\ [plan[b] EXCEPT !.paid = FALSE].paid = FALSE
      BY DEF TypeOK, Plan
    <3>2. plan' = [plan EXCEPT ![b] = [plan[b] EXCEPT !.paid = FALSE]]
      BY <2>3
    <3> QED BY <2>2, <2>3, <3>1, <3>2
  <2>4. ASSUME NEW x \in Binding, NEW t \in 0..clock,
               plan' = [plan EXCEPT ![b] = [paid |-> TRUE, binding |-> x, since |-> t]], UNCHANGED account
        PROVE  TypeOK' /\ Ledgers'
    <3>1. [paid |-> TRUE, binding |-> x, since |-> t] \in Plan
      BY DEF TypeOK, Plan
    <3> QED BY <2>2, <2>4, <3>1
  <2>5. ASSUME NEW status \in {"active", "suspended"}, account' = [account EXCEPT ![b] = status], UNCHANGED plan
        PROVE  TypeOK' /\ Ledgers'
    BY <2>1, <2>5 DEF TypeOK, Ledgers
  <2> QED BY <1>2, <2>3, <2>4, <2>5 DEF PlanOrAccountMoves
<1>3. ASSUME NEW b \in Brokerage, RevokeEvaluation(b) PROVE TypeOK' /\ Ledgers'
  BY <1>3 DEF RevokeEvaluation, TypeOK, Ledgers
<1>4. ASSUME NEW u \in User, Leave(u) PROVE TypeOK' /\ Ledgers'
  BY <1>4 DEF Leave, TypeOK, Ledgers
<1>5. ASSUME NEW u \in User, NEW b \in Brokerage, Join(u, b) PROVE TypeOK' /\ Ledgers'
  BY <1>5 DEF Join, TypeOK, Ledgers
<1> QED BY <1>1, <1>2, <1>3, <1>4, <1>5 DEF WorldSteps

LEMMA CallTypes ==
    ASSUME TypeOK, Ledgers, NEW c \in Call, CallSteps(c)
    PROVE  TypeOK' /\ Ledgers'
<1> USE DEF worldVars, ledgerVars
<1>1. ASSUME NEW u \in User, NEW k \in Key, NEW b \in Brokerage, Start(c, u, k, b)
      PROVE  TypeOK' /\ Ledgers'
  <2>1. NoPlan \in Plan
    BY DEF NoPlan, Plan
  <2>2. job'[c] \in Job /\ job' = [job EXCEPT ![c] = job'[c]]
    BY <1>1, <2>1 DEF Start, TypeOK, Job
  <2> QED BY <1>1, <2>2 DEF Start, Goto, TypeOK, Ledgers
<1>2. CASE TakeLock(c)
  <2>1. job[c].brokerage \in Brokerage
    BY <1>2 DEF TakeLock, Ledgers, Job
  <2> QED BY <1>2, <2>1 DEF TakeLock, Goto, TypeOK, Ledgers
<1>3. CASE TakeFreeLock(c)
  <2>1. job[c].charged \in Brokerage
    BY <1>3 DEF TakeFreeLock, Ledgers, Job
  <2> QED BY <1>3, <2>1 DEF TakeFreeLock, Goto, TypeOK, Ledgers
<1>4. CASE AskAgain(c)
  <2>1. \A row \in PaidWithKey(job[c].brokerage, job[c].key) : row.report \in Report
    BY <1>4 DEF AskAgain, PaidWithKey, TypeOK, Ledgers, Job, PaidRow
  <2>2. CASE Refuse(c, "NOT_ENTITLED")
    BY <1>4, <2>2, RefuseTypes DEF AskAgain, Refusals
  <2>3. CASE \E row \in PaidWithKey(job[c].brokerage, job[c].key) : Replay(c, row)
    BY <1>4, <2>1, <2>3, ReplayTypes DEF AskAgain
  <2>4. CASE Goto(c, "choosing") /\ UNCHANGED <<lock, job>>
    BY <1>4, <2>4 DEF AskAgain, Goto, TypeOK, Ledgers
  <2> QED BY <1>4, <2>2, <2>3, <2>4 DEF AskAgain
<1>5. CASE Choose(c)
  <2>1. job[c] \in Job /\ job[c].brokerage \in Brokerage
    BY <1>5 DEF Choose, Ledgers, Job
  <2>2. CASE Goto(c, "free") /\ UNCHANGED job
    BY <1>5, <2>2 DEF Choose, Goto, TypeOK, Ledgers
  <2>3. CASE plan[job[c].brokerage].paid /\ Goto(c, "paid")
             /\ job' = [job EXCEPT ![c].plan = plan[job[c].brokerage]]
    <3>1. plan[job[c].brokerage] \in Plan
      BY <2>1 DEF TypeOK
    <3>2. [job[c] EXCEPT !.plan = plan[job[c].brokerage]] \in Job
      BY <2>1, <3>1 DEF Job
    <3>3. job' = [job EXCEPT ![c] = [job[c] EXCEPT !.plan = plan[job[c].brokerage]]]
      BY <2>3
    <3>4. job' \in [Call -> Job \cup {Nothing}] /\ job'[c] \in Job
          /\ job'[c].plan = plan[job[c].brokerage] /\ \A d \in Call \ {c} : job'[d] = job[d]
      BY <2>1, <3>2, <3>3 DEF TypeOK, Job
    <3>5. job'[c].plan.binding \in Binding
      BY <2>1, <2>3, <3>4 DEF Ledgers
    <3>6. pc' \in [Call -> Labels] /\ \A d \in Call \ {c} : pc'[d] = pc[d]
      BY <2>3 DEF Goto, TypeOK, Labels
    <3> QED BY <1>5, <2>3, <3>4, <3>5, <3>6 DEF Choose, Goto, TypeOK, Ledgers, Labels
  <2> QED BY <1>5, <2>2, <2>3 DEF Choose
<1>6. CASE AskFree(c)
  <2>1. CASE Refuse(c, "NOT_ENTITLED")
    BY <1>6, <2>1, RefuseTypes DEF AskFree, Refusals
  <2>2. ASSUME NEW d \in Brokerage, job' = [job EXCEPT ![c].charged = d], Goto(c, "queued"), UNCHANGED lock
        PROVE  TypeOK' /\ Ledgers'
    <3>1. [job[c] EXCEPT !.charged = d] \in Job
      BY <1>6 DEF AskFree, Ledgers, Job
    <3>2. job' = [job EXCEPT ![c] = [job[c] EXCEPT !.charged = d]]
      BY <2>2
    <3>3. job' \in [Call -> Job \cup {Nothing}] /\ job'[c] \in Job /\ \A e \in Call \ {c} : job'[e] = job[e]
      BY <3>1, <3>2 DEF TypeOK
    <3>4. pc' = [pc EXCEPT ![c] = "queued"]
      BY <2>2 DEF Goto
    <3> QED BY <2>2, <3>3, <3>4 DEF Goto, TypeOK, Ledgers
  <2> QED BY <1>6, <2>1, <2>2 DEF AskFree
<1>7. ASSUME NEW row \in FreeRow \cup PaidRow, Write(c, row), pc[c] # "idle" PROVE TypeOK' /\ Ledgers'
  BY <1>7 DEF Write, TypeOK, Ledgers
<1>8. CASE IssueFree(c)
  <2> DEFINE d == job[c].charged
  <2>1. d \in Brokerage /\ job[c].key \in Key
    BY <1>8 DEF IssueFree, Ledgers, Job
  <2>2. ASSUME NEW word \in Refusals, Refuse(c, word) PROVE TypeOK' /\ Ledgers'
    BY <1>8, <2>2, RefuseTypes DEF IssueFree
  <2>3. CASE \E row \in FreeWithKey(d, job[c].key) : Replay(c, row)
    <3>1. \A row \in FreeWithKey(d, job[c].key) : row.report \in Report
      BY <2>1 DEF FreeWithKey, TypeOK, FreeRow
    <3> QED BY <1>8, <2>3, <3>1, ReplayTypes DEF IssueFree
  <2>4. ASSUME NEW r \in Report, Write(c, [ordinal |-> NextFreeOrdinal(d), key |-> job[c].key, report |-> r])
        PROVE  TypeOK' /\ Ledgers'
    <3>1. NextFreeOrdinal(d) \in Nat
      BY <2>1, NextFreeType
    <3>2. [ordinal |-> NextFreeOrdinal(d), key |-> job[c].key, report |-> r] \in FreeRow
      BY <2>1, <3>1 DEF FreeRow
    <3> QED BY <1>7, <1>8, <2>4, <3>2 DEF IssueFree
  <2> QED BY <1>8, <2>2, <2>3, <2>4 DEF IssueFree, Refusals
<1>9. CASE IssuePaid(c)
  <2> DEFINE b == job[c].brokerage
             x == job[c].plan.binding
             p == Period(job[c].plan.since, job[c].at)
             used == Cardinality(InMonth(b, x, p))
  <2>1. b \in Brokerage /\ job[c].key \in Key /\ job[c].plan \in Plan /\ job[c].at \in Nat
    BY <1>9 DEF IssuePaid, Ledgers, Job
  <2>2. x \in Binding
    BY <1>9 DEF IssuePaid, Ledgers
  <2>3. p \in Nat
    BY <2>1, PeriodType DEF Plan
  <2>4. used \in Nat /\ NextNumber(b) \in Nat
    BY <2>1, CountType, IssueAssumption DEF NextNumber
  <2>5. ASSUME NEW word \in Refusals, Refuse(c, word) PROVE TypeOK' /\ Ledgers'
    BY <1>9, <2>5, RefuseTypes DEF IssuePaid
  <2>6. ASSUME NEW r \in Report,
               Write(c, [binding |-> x, period |-> p, ordinal |-> used + 1,
                         number |-> NextNumber(b), key |-> job[c].key, report |-> r])
        PROVE  TypeOK' /\ Ledgers'
    <3>1. [binding |-> x, period |-> p, ordinal |-> used + 1,
           number |-> NextNumber(b), key |-> job[c].key, report |-> r] \in PaidRow
      BY <2>1, <2>2, <2>3, <2>4 DEF PaidRow
    <3> QED BY <1>7, <1>9, <2>6, <3>1 DEF IssuePaid
  <2> QED BY <1>9, <2>5, <2>6 DEF IssuePaid, Refusals
<1>10. CASE CommitFree(c)
  <2> DEFINE d == job[c].charged
  <2>1. job[c] \in Job /\ d \in Brokerage /\ draft[c] \in FreeRow /\ draft[c].report \in Report
    BY <1>10 DEF CommitFree, Ledgers, Job, FreeRow
  <2>2. Finish(c, "charged", draft[c].report)
    BY <1>10 DEF CommitFree
  <2>3. free' = [free EXCEPT ![d] = free[d] \cup {draft[c]}] /\ draft[c].ordinal \in 1..FreeLimit
    BY <1>10 DEF CommitFree, FreeAllowed
  <2>4. free' \in [Brokerage -> SUBSET FreeRow]
    BY <2>1, <2>3 DEF TypeOK
  <2>5. evaluation' \in [Brokerage -> {"active", "complete", "revoked"}] /\ snapshots' \subseteq Report
    BY <1>10, <2>1 DEF CommitFree, TypeOK
  <2>6. TypeOK'
    BY <1>10, <2>1, <2>2, <2>4, <2>5, FinishTypes DEF CommitFree, TypeOK, Labels
  <2>7. IsFiniteSet(free[d] \cup {draft[c]})
    BY <2>1, FS_AddElement DEF Ledgers
  <2>8. \A b \in Brokerage : IsFiniteSet(free'[b]) /\ \A y \in free'[b] : y.ordinal \in 1..FreeLimit
    BY <2>1, <2>3, <2>7 DEF TypeOK, Ledgers
  <2>9. pc' = [pc EXCEPT ![c] = "idle"] /\ job' = [job EXCEPT ![c] = Nothing] /\ UNCHANGED <<plan, paid>>
    BY <1>10, <2>2 DEF CommitFree, Finish
  <2> QED BY <2>6, <2>8, <2>9 DEF Ledgers, TypeOK
<1>11. CASE CommitPaid(c)
  <2> DEFINE b == job[c].brokerage
  <2>1. job[c] \in Job /\ b \in Brokerage /\ draft[c] \in PaidRow /\ draft[c].report \in Report
    BY <1>11 DEF CommitPaid, Ledgers, Job, PaidRow
  <2>2. Finish(c, "charged", draft[c].report)
    BY <1>11 DEF CommitPaid
  <2>3. paid' = [paid EXCEPT ![b] = paid[b] \cup {draft[c]}]
    BY <1>11 DEF CommitPaid
  <2>4. paid' \in [Brokerage -> SUBSET PaidRow] /\ snapshots' \subseteq Report
    BY <1>11, <2>1, <2>3 DEF CommitPaid, TypeOK
  <2>5. TypeOK'
    BY <1>11, <2>1, <2>2, <2>4, FinishTypes DEF CommitPaid, TypeOK, Labels
  <2>6. IsFiniteSet(paid[b] \cup {draft[c]})
    BY <2>1, FS_AddElement DEF Ledgers
  <2>7. \A d \in Brokerage : IsFiniteSet(paid'[d])
    BY <2>1, <2>3, <2>6 DEF TypeOK, Ledgers
  <2>8. pc' = [pc EXCEPT ![c] = "idle"] /\ job' = [job EXCEPT ![c] = Nothing] /\ UNCHANGED <<plan, free>>
    BY <1>11, <2>2 DEF CommitPaid, Finish
  <2> QED BY <2>5, <2>7, <2>8 DEF Ledgers, TypeOK
<1>12. CASE Lose(c)
  BY <1>12, RefuseTypes DEF Lose, Refusals
<1> QED BY <1>1, <1>2, <1>3, <1>4, <1>5, <1>6, <1>8, <1>9, <1>10, <1>11, <1>12 DEF CallSteps, Step

(* Every table and every call in flight hold what TypeOK says.             *)
THEOREM TypeCorrect == Spec => [](TypeOK /\ Ledgers)
<1>1. Init => TypeOK /\ Ledgers
  <2> SUFFICES ASSUME Init PROVE TypeOK /\ Ledgers
    OBVIOUS
  <2>1. NoPlan \in Plan /\ ~NoPlan.paid
    BY DEF NoPlan, Plan
  <2> QED BY <2>1, FS_EmptySet DEF Init, TypeOK, Ledgers
<1>2. TypeOK /\ Ledgers /\ [Next]_issueVars => (TypeOK /\ Ledgers)'
  <2> SUFFICES ASSUME TypeOK, Ledgers, [Next]_issueVars PROVE TypeOK' /\ Ledgers'
    OBVIOUS
  <2>1. CASE WorldSteps
    BY <2>1, WorldTypes
  <2>2. ASSUME NEW c \in Call, CallSteps(c) PROVE TypeOK' /\ Ledgers'
    BY <2>2, CallTypes
  <2>3. CASE UNCHANGED issueVars
    BY <2>3 DEF issueVars, TypeOK, Ledgers
  <2> QED BY <2>1, <2>2, <2>3 DEF Next
<1> QED BY <1>1, <1>2, PTL DEF Spec

-----------------------------------------------------------------------------
(* What the row locks give: from the check of its standing until it ends,  *)
(* a call holds the row of its brokerage, and when it writes it holds the  *)
(* row of the brokerage it charges, neither of them revoked.               *)
Locks ==
    /\ \A c \in Call : pc[c] \in Holding => lock[job[c].brokerage] = c
    /\ \A c \in Call : pc[c] \in {"issuing", "written"} => lock[job[c].charged] = c
    /\ \A c \in Call : pc[c] \in Checked => evaluation[job[c].brokerage] # "revoked"
    /\ \A c \in Call : pc[c] = "written" => evaluation[job[c].charged] # "revoked"
    /\ \A c \in Call : pc[c] \in {"waiting", "holding", "choosing", "free", "paid"} =>
                         job[c].charged = job[c].brokerage

(* A call that ends takes nothing from the others.                         *)
LEMMA EndLocks ==
    ASSUME TypeOK, Ledgers, Locks, NEW c \in Call, NEW word, NEW report, Finish(c, word, report),
           \A b \in Brokerage : evaluation[b] # "revoked" => evaluation'[b] # "revoked"
    PROVE  Locks'
<1>1. pc'[c] = "idle" /\ \A e \in Call \ {c} : pc'[e] = pc[e] /\ job'[e] = job[e]
  BY DEF Finish, TypeOK
<1>2. \A b \in Brokerage, e \in Call \ {c} : lock[b] = e => lock'[b] = e
  BY DEF Finish, Release, TypeOK
<1>3. \A e \in Call : pc[e] # "idle" => job[e].brokerage \in Brokerage /\ job[e].charged \in Brokerage
  BY DEF Ledgers, Job
<1> QED BY <1>1, <1>2, <1>3 DEF Locks, Holding, Checked

(* A call that moves on to another label, keeping its locks.               *)
LEMMA MoveLocks ==
    ASSUME TypeOK, Ledgers, Locks, NEW c \in Call, NEW label \in Labels,
           pc' = [pc EXCEPT ![c] = label], UNCHANGED <<lock, evaluation>>,
           pc[c] \in Holding, label \in Checked,
           \A e \in Call \ {c} : job'[e] = job[e],
           job'[c].brokerage = job[c].brokerage,
           evaluation[job[c].brokerage] # "revoked",
           label \in {"choosing", "free", "paid"} => job'[c].charged = job[c].brokerage,
           label \in {"issuing", "written"} => lock[job'[c].charged] = c,
           label = "written" => evaluation[job'[c].charged] # "revoked"
    PROVE  Locks'
BY DEF Locks, Holding, Checked, TypeOK, Labels

LEMMA WorldLocks ==
    ASSUME TypeOK, Ledgers, Locks, WorldSteps
    PROVE  Locks'
<1> USE DEF worldVars, ledgerVars, callVars
<1>1. CASE UNCHANGED <<evaluation, lock, pc, job>>
  BY <1>1 DEF Locks
<1>2. ASSUME NEW b \in Brokerage, RevokeEvaluation(b) PROVE Locks'
  <2>1. UNCHANGED <<lock, pc, job>> /\ lock[b] = Nobody
        /\ \A d \in Brokerage \ {b} : evaluation'[d] = evaluation[d]
    BY <1>2 DEF RevokeEvaluation, TypeOK
  <2>2. \A c \in Call : lock[b] # c
    BY <2>1, IssueAssumption
  <2>3. \A c \in Call : pc[c] # "idle" => job[c].brokerage \in Brokerage /\ job[c].charged \in Brokerage
    BY DEF Ledgers, Job
  <2> QED BY <2>1, <2>2, <2>3 DEF Locks, Holding, Checked
<1> QED BY <1>1, <1>2 DEF WorldSteps, Tick, PlanOrAccountMoves, Leave, Join

LEMMA CallLocks ==
    ASSUME TypeOK, Ledgers, Locks, NEW c \in Call, CallSteps(c)
    PROVE  Locks'
<1> USE DEF worldVars, ledgerVars
<1>1. \A word \in Refusals : Refuse(c, word) => Locks'
  BY EndLocks DEF Refuse
<1>2. \A row : Replay(c, row) => Locks'
  BY EndLocks DEF Replay
<1>3. ASSUME NEW u \in User, NEW k \in Key, NEW b \in Brokerage, Start(c, u, k, b) PROVE Locks'
  BY <1>3 DEF Start, Goto, Locks, TypeOK, Holding, Checked
<1>4. CASE TakeLock(c)
  <2>1. UNCHANGED <<job, evaluation>> /\ lock' = [lock EXCEPT ![job[c].brokerage] = c]
        /\ pc' = [pc EXCEPT ![c] = "holding"] /\ pc[c] = "waiting"
    BY <1>4 DEF TakeLock, Goto
  <2>2. \A e \in Call : pc[e] # "idle" => job[e].brokerage \in Brokerage /\ job[e].charged \in Brokerage
    BY DEF Ledgers, Job
  <2>3. \A e \in Call \ {c} : lock[job[c].brokerage] # e
    BY <1>4, IssueAssumption DEF TakeLock, LockableBy
  <2> QED BY <2>1, <2>2, <2>3 DEF Locks, Holding, Checked, TypeOK
<1>5. CASE TakeFreeLock(c)
  <2>1. UNCHANGED <<job, evaluation>> /\ lock' = [lock EXCEPT ![job[c].charged] = c]
        /\ pc' = [pc EXCEPT ![c] = "issuing"] /\ pc[c] = "queued"
    BY <1>5 DEF TakeFreeLock, Goto
  <2>2. \A e \in Call : pc[e] # "idle" => job[e].brokerage \in Brokerage /\ job[e].charged \in Brokerage
    BY DEF Ledgers, Job
  <2>3. \A e \in Call \ {c} : lock[job[c].charged] # e
    BY <1>5, IssueAssumption DEF TakeFreeLock, LockableBy
  <2> QED BY <2>1, <2>2, <2>3 DEF Locks, Holding, Checked, TypeOK
<1>6. CASE AskAgain(c)
  <2>1. CASE /\ Goto(c, "choosing") /\ UNCHANGED <<lock, job>>
             /\ Standing(job[c].brokerage, job[c].at) /\ pc[c] = "holding"
    <3>1. evaluation[job[c].brokerage] # "revoked" /\ job[c].charged = job[c].brokerage
      BY <2>1 DEF Standing, Locks
    <3> QED BY <2>1, <3>1, MoveLocks DEF Goto, Labels, Holding, Checked
  <2> QED BY <1>1, <1>2, <1>6, <2>1 DEF AskAgain, Refusals
<1>7. CASE Choose(c)
  <2>1. pc[c] = "choosing" /\ evaluation[job[c].brokerage] # "revoked" /\ job[c].charged = job[c].brokerage
    BY <1>7 DEF Choose, Locks, Checked, Holding
  <2>2. job[c] \in Job
    BY <2>1 DEF Ledgers
  <2>3. CASE Goto(c, "free") /\ UNCHANGED <<lock, job>>
    BY <2>1, <2>3, MoveLocks DEF Goto, Labels, Holding, Checked
  <2>4. CASE Goto(c, "paid") /\ UNCHANGED lock /\ job' = [job EXCEPT ![c].plan = plan[job[c].brokerage]]
    <3>1. job'[c].brokerage = job[c].brokerage /\ job'[c].charged = job[c].charged
          /\ \A e \in Call \ {c} : job'[e] = job[e]
      BY <2>2, <2>4 DEF TypeOK, Job
    <3> QED BY <2>1, <2>4, <3>1, MoveLocks DEF Goto, Labels, Holding, Checked
  <2> QED BY <1>7, <2>3, <2>4 DEF Choose
<1>8. CASE AskFree(c)
  <2>1. ASSUME NEW d \in Brokerage, job' = [job EXCEPT ![c].charged = d], Goto(c, "queued"), UNCHANGED lock
        PROVE  Locks'
    <3>1. pc[c] = "free" /\ evaluation[job[c].brokerage] # "revoked"
      BY <1>8 DEF AskFree, Locks, Checked, Holding
    <3>2. job[c] \in Job
      BY <3>1 DEF Ledgers
    <3>3. job'[c].brokerage = job[c].brokerage /\ \A e \in Call \ {c} : job'[e] = job[e]
      BY <2>1, <3>2 DEF TypeOK, Job
    <3> QED BY <2>1, <3>1, <3>3, MoveLocks DEF Goto, Labels, Holding, Checked
  <2> QED BY <1>1, <1>8, <2>1 DEF AskFree, Refusals
<1>9. CASE IssueFree(c)
  <2>1. ASSUME NEW row, Write(c, row), Standing(job[c].charged, job[c].at) PROVE Locks'
    <3>1. pc[c] = "issuing" /\ evaluation[job[c].brokerage] # "revoked" /\ lock[job[c].charged] = c
          /\ evaluation[job[c].charged] # "revoked"
      BY <1>9, <2>1 DEF IssueFree, Standing, Locks, Checked, Holding
    <3> QED BY <2>1, <3>1, MoveLocks DEF Write, Labels, Holding, Checked
  <2> QED BY <1>1, <1>2, <1>9, <2>1 DEF IssueFree, Refusals
<1>10. CASE IssuePaid(c)
  <2>1. ASSUME NEW row, Write(c, row) PROVE Locks'
    <3>1. pc[c] = "paid" /\ evaluation[job[c].brokerage] # "revoked" /\ lock[job[c].brokerage] = c
          /\ job[c].charged = job[c].brokerage
      BY <1>10 DEF IssuePaid, Locks, Checked, Holding
    <3> QED BY <2>1, <3>1, MoveLocks DEF Write, Labels, Holding, Checked
  <2> QED BY <1>1, <1>10, <2>1 DEF IssuePaid, Refusals
<1>11. CASE CommitFree(c)
  <2>1. \A b \in Brokerage : evaluation[b] # "revoked" => evaluation'[b] # "revoked"
    BY <1>11 DEF CommitFree, TypeOK
  <2> QED BY <1>11, <2>1, EndLocks DEF CommitFree
<1>12. CASE CommitPaid(c)
  BY <1>12, EndLocks DEF CommitPaid
<1>13. CASE Lose(c)
  BY <1>1, <1>13 DEF Lose, Refusals
<1> QED BY <1>3, <1>4, <1>5, <1>6, <1>7, <1>8, <1>9, <1>10, <1>11, <1>12, <1>13 DEF CallSteps, Step

(* A call that passed its checks holds the rows it relies on.              *)
THEOREM LocksHold == Spec => []Locks
<1>1. Init => Locks
  BY DEF Init, Locks, Holding, Checked
<1>2. TypeOK /\ Ledgers /\ Locks /\ [Next]_issueVars => Locks'
  <2> SUFFICES ASSUME TypeOK, Ledgers, Locks, [Next]_issueVars PROVE Locks'
    OBVIOUS
  <2>1. CASE WorldSteps
    BY <2>1, WorldLocks
  <2>2. ASSUME NEW c \in Call, CallSteps(c) PROVE Locks'
    BY <2>2, CallLocks
  <2>3. CASE UNCHANGED issueVars
    BY <2>3 DEF issueVars, Locks
  <2> QED BY <2>1, <2>2, <2>3 DEF Next
<1> QED BY <1>1, <1>2, TypeCorrect, PTL DEF Spec

-----------------------------------------------------------------------------
(* Only a commit touches a ledger, and it adds its draft to one of them.   *)
LEMMA WhoCharges ==
    ASSUME TypeOK, Ledgers, [Next]_issueVars
    PROVE  \/ UNCHANGED <<free, paid>>
           \/ \E c \in Call : CommitFree(c)
           \/ \E c \in Call : CommitPaid(c)
<1> USE DEF worldVars, ledgerVars, callVars
<1>1. CASE WorldSteps
  BY <1>1 DEF WorldSteps, Tick, PlanOrAccountMoves, RevokeEvaluation, Leave, Join
<1>2. ASSUME NEW c \in Call, CallSteps(c), ~CommitFree(c), ~CommitPaid(c)
      PROVE  UNCHANGED <<free, paid>>
  <2>1. \A word, row : Refuse(c, word) \/ Replay(c, row) => UNCHANGED <<free, paid>>
    BY DEF Refuse, Replay
  <2>2. \A label, row : Goto(c, label) \/ Write(c, row) => UNCHANGED <<free, paid>>
    BY DEF Goto, Write
  <2>3. CASE TakeLock(c) \/ TakeFreeLock(c) \/ Lose(c)
             \/ \E u \in User, k \in Key, b \in Brokerage : Start(c, u, k, b)
    BY <2>1, <2>2, <2>3 DEF TakeLock, TakeFreeLock, Lose, Start
  <2>4. CASE AskAgain(c) \/ Choose(c) \/ AskFree(c)
    BY <2>1, <2>2, <2>4 DEF AskAgain, Choose, AskFree
  <2>5. CASE IssueFree(c) \/ IssuePaid(c)
    BY <2>1, <2>2, <2>5 DEF IssueFree, IssuePaid
  <2> QED BY <1>2, <2>3, <2>4, <2>5 DEF CallSteps, Step
<1>3. CASE UNCHANGED issueVars
  BY <1>3 DEF issueVars
<1> QED BY <1>1, <1>2, <1>3 DEF Next

(* Once an evaluation is revoked nothing more is charged to its brokerage. *)
THEOREM RevocationIsFinal == Spec => NothingChargedAfterRevocation
<1> DEFINE Frozen == \A b \in Brokerage :
                       evaluation[b] = "revoked" => free'[b] = free[b] /\ paid'[b] = paid[b]
<1>1. TypeOK /\ Ledgers /\ Locks /\ [Next]_issueVars => [Frozen]_issueVars
  <2> SUFFICES ASSUME TypeOK, Ledgers, Locks, [Next]_issueVars PROVE Frozen
    OBVIOUS
  <2>1. ASSUME NEW c \in Call, CommitFree(c) PROVE Frozen
    <3>1. evaluation[job[c].charged] # "revoked"
      BY <2>1 DEF CommitFree, Locks
    <3> QED BY <2>1, <3>1 DEF CommitFree, TypeOK
  <2>2. ASSUME NEW c \in Call, CommitPaid(c) PROVE Frozen
    <3>1. evaluation[job[c].brokerage] # "revoked"
      BY <2>2 DEF CommitPaid, Locks, Checked, Holding
    <3> QED BY <2>2, <3>1 DEF CommitPaid, TypeOK
  <2> QED BY <2>1, <2>2, WhoCharges
<1>2. Spec => [][Frozen]_issueVars
  BY <1>1, TypeCorrect, LocksHold, PTL DEF Spec
<1> QED BY <1>2 DEF NothingChargedAfterRevocation

-----------------------------------------------------------------------------
(* Why a key is charged once while nobody changes brokerage: past its      *)
(* look-up in the paid ledger a call's key is not there, when it writes it *)
(* is not in the free ledger either, and the lock keeps both so.           *)
Keys ==
    /\ \A u \in User : memberOf[u] # Nobody => memberOf[u] \in MayJoin[u]
    /\ \A c \in Call : pc[c] # "idle" => job[c].brokerage \in MayJoin[job[c].user]
                                         /\ job[c].charged = job[c].brokerage
    /\ \A c \in Call : pc[c] \in Checked => PaidWithKey(job[c].brokerage, job[c].key) = {}
    /\ \A c \in Call : pc[c] \in {"paid", "written"} =>
                         FreeWithKey(job[c].brokerage, job[c].key) = {}
    /\ \A c \in Call : pc[c] = "written" => draft[c].key = job[c].key
    /\ KeyChargedOnce

Settlement == \A u \in User : \A b, d \in MayJoin[u] : b = d

(* A call that ends without charging.                                      *)
LEMMA EndKeys ==
    ASSUME TypeOK, Ledgers, Keys, NEW c \in Call, NEW word, NEW report, Finish(c, word, report),
           UNCHANGED <<memberOf, free, paid>>
    PROVE  Keys'
<1>1. pc'[c] = "idle" /\ \A e \in Call \ {c} : pc'[e] = pc[e] /\ job'[e] = job[e] /\ draft'[e] = draft[e]
  BY DEF Finish, TypeOK
<1> QED BY <1>1 DEF Keys, KeyChargedOnce, FreeWithKey, PaidWithKey, Checked, Holding

(* A call that moves on without ending.                                    *)
LEMMA MoveKeys ==
    ASSUME TypeOK, Ledgers, Keys, NEW c \in Call, NEW label \in Labels,
           pc' = [pc EXCEPT ![c] = label], UNCHANGED <<memberOf, free, paid>>,
           \A e \in Call \ {c} : job'[e] = job[e] /\ draft'[e] = draft[e],
           label # "idle" => /\ job'[c].brokerage \in MayJoin[job'[c].user]
                             /\ job'[c].charged = job'[c].brokerage,
           label \in Checked => PaidWithKey(job'[c].brokerage, job'[c].key) = {},
           label \in {"paid", "written"} => FreeWithKey(job'[c].brokerage, job'[c].key) = {},
           label = "written" => draft'[c].key = job'[c].key
    PROVE  Keys'
<1>1. pc'[c] = label /\ \A e \in Call \ {c} : pc'[e] = pc[e]
  BY DEF TypeOK
<1> QED BY <1>1 DEF Keys, KeyChargedOnce, FreeWithKey, PaidWithKey

LEMMA WorldKeys ==
    ASSUME TypeOK, Ledgers, Keys, WorldSteps
    PROVE  Keys'
<1> USE DEF worldVars, ledgerVars, callVars
<1>1. UNCHANGED <<free, paid, pc, job, draft>>
  BY DEF WorldSteps, Tick, PlanOrAccountMoves, RevokeEvaluation, Leave, Join
<1>2. \A u \in User : memberOf'[u] # Nobody => memberOf'[u] \in MayJoin[u]
  BY DEF WorldSteps, Tick, PlanOrAccountMoves, RevokeEvaluation, Leave, Join, TypeOK, Keys
<1> QED BY <1>1, <1>2 DEF Keys, KeyChargedOnce, FreeWithKey, PaidWithKey

(* A commit adds one row to one ledger of the brokerage whose row it holds.*)
LEMMA CommitKeys ==
    ASSUME TypeOK, Ledgers, Locks, Keys, NEW c \in Call, CommitFree(c) \/ CommitPaid(c)
    PROVE  Keys'
<1> DEFINE b == job[c].brokerage
           row == draft[c]
<1>1. /\ pc[c] = "written" /\ b \in Brokerage /\ job[c].charged = b
      /\ lock[b] = c /\ row.key = job[c].key
      /\ FreeWithKey(b, row.key) = {} /\ PaidWithKey(b, row.key) = {}
  BY DEF CommitFree, CommitPaid, Ledgers, Job, Locks, Keys, Checked, Holding
<1>2. \A x \in free[b] \cup paid[b] : x.key # row.key
  BY <1>1 DEF FreeWithKey, PaidWithKey
<1>3. \A d \in Brokerage \ {b} : free'[d] = free[d] /\ paid'[d] = paid[d]
  BY <1>1 DEF CommitFree, CommitPaid, TypeOK
<1>4. \/ free'[b] = free[b] \cup {row} /\ paid'[b] = paid[b]
      \/ paid'[b] = paid[b] \cup {row} /\ free'[b] = free[b]
  BY <1>1 DEF CommitFree, CommitPaid, TypeOK
<1>5. KeyChargedOnce'
  <2> SUFFICES ASSUME NEW d \in Brokerage
               PROVE  /\ \A x, y \in free'[d] : x.key = y.key => x = y
                      /\ \A x, y \in paid'[d] : x.key = y.key => x = y
                      /\ \A x \in free'[d], y \in paid'[d] : x.key # y.key
    BY DEF KeyChargedOnce
  <2>1. CASE d # b
    BY <1>3, <2>1 DEF Keys, KeyChargedOnce
  <2>2. CASE d = b
    BY <1>1, <1>2, <1>4, <2>2 DEF Keys, KeyChargedOnce
  <2> QED BY <2>1, <2>2
<1>6. pc'[c] = "idle" /\ \A e \in Call \ {c} : pc'[e] = pc[e] /\ job'[e] = job[e] /\ draft'[e] = draft[e]
  BY DEF CommitFree, CommitPaid, Finish, TypeOK
<1>7. \A e \in Call \ {c} : pc[e] \in Holding => job[e].brokerage \in Brokerage \ {b}
  BY <1>1 DEF Locks, Ledgers, Job, Holding
<1>8. UNCHANGED memberOf
  BY DEF CommitFree, CommitPaid, worldVars
<1> QED BY <1>3, <1>5, <1>6, <1>7, <1>8 DEF Keys, FreeWithKey, PaidWithKey, Checked, Holding

LEMMA CallKeys ==
    ASSUME Settlement, TypeOK, Ledgers, Locks, Keys, NEW c \in Call, CallSteps(c)
    PROVE  Keys'
<1> USE DEF worldVars, ledgerVars
<1>1. \A word : Refuse(c, word) => Keys'
  BY EndKeys DEF Refuse
<1>2. \A row : Replay(c, row) => Keys'
  BY EndKeys DEF Replay
<1>3. ASSUME NEW u \in User, NEW k \in Key, NEW b \in Brokerage, Start(c, u, k, b) PROVE Keys'
  <2>1. b \in MayJoin[u]
    BY <1>3, IssueAssumption DEF Start, Entitled, Keys
  <2>2. /\ job'[c].brokerage = b /\ job'[c].charged = b /\ job'[c].user = u
        /\ \A e \in Call \ {c} : job'[e] = job[e] /\ draft'[e] = draft[e]
    BY <1>3 DEF Start, Goto, TypeOK
  <2> QED BY <1>3, <2>1, <2>2, MoveKeys DEF Start, Goto, Labels, Checked, Holding
<1>4. CASE TakeLock(c)
  BY <1>4, MoveKeys DEF TakeLock, Goto, Labels, Checked, Holding, Keys
<1>5. CASE TakeFreeLock(c)
  BY <1>5, MoveKeys DEF TakeFreeLock, Goto, Labels, Checked, Holding, Keys
<1>6. CASE AskAgain(c)
  <2>1. CASE /\ PaidWithKey(job[c].brokerage, job[c].key) = {} /\ pc[c] = "holding"
             /\ Goto(c, "choosing") /\ UNCHANGED <<lock, job>>
    BY <2>1, MoveKeys DEF Goto, Labels, Keys
  <2> QED BY <1>1, <1>2, <1>6, <2>1 DEF AskAgain
<1>7. CASE Choose(c)
  <2>1. pc[c] = "choosing" /\ PaidWithKey(job[c].brokerage, job[c].key) = {} /\ job[c] \in Job
    BY <1>7 DEF Choose, Keys, Checked, Holding, Ledgers
  <2>2. CASE Goto(c, "free") /\ UNCHANGED job
    BY <2>1, <2>2, MoveKeys DEF Goto, Labels, Keys
  <2>3. CASE /\ FreeWithKey(job[c].brokerage, job[c].key) = {}
             /\ Goto(c, "paid") /\ job' = [job EXCEPT ![c].plan = plan[job[c].brokerage]]
    <3>1. /\ job'[c].brokerage = job[c].brokerage /\ job'[c].charged = job[c].charged
          /\ job'[c].user = job[c].user /\ job'[c].key = job[c].key
          /\ \A e \in Call \ {c} : job'[e] = job[e]
      BY <2>1, <2>3 DEF TypeOK, Job
    <3> QED BY <2>1, <2>3, <3>1, MoveKeys DEF Goto, Labels, Keys
  <2> QED BY <1>7, <2>2, <2>3 DEF Choose
<1>8. CASE AskFree(c)
  <2>1. ASSUME NEW d \in Brokerage, Entitled(job[c].user, d), job' = [job EXCEPT ![c].charged = d],
               Goto(c, "queued")
        PROVE  Keys'
    <3>1. pc[c] = "free" /\ job[c] \in Job /\ PaidWithKey(job[c].brokerage, job[c].key) = {}
      BY <1>8 DEF AskFree, Ledgers, Keys, Checked, Holding
    <3>2. d \in MayJoin[job[c].user]
      BY <2>1, <3>1, IssueAssumption DEF Entitled, Keys, Job
    <3>3. d = job[c].brokerage
      BY <3>1, <3>2 DEF Settlement, Keys, Job
    <3>4. /\ job'[c].brokerage = d /\ job'[c].charged = d
          /\ job'[c].user = job[c].user /\ job'[c].key = job[c].key
          /\ \A e \in Call \ {c} : job'[e] = job[e]
      BY <2>1, <3>1, <3>3 DEF TypeOK, Job
    <3> QED BY <2>1, <3>1, <3>2, <3>3, <3>4, MoveKeys DEF Goto, Labels
  <2> QED BY <1>1, <1>8, <2>1 DEF AskFree
<1>9. ASSUME NEW row, row.key = job[c].key, Write(c, row), pc[c] \in {"issuing", "paid"},
             FreeWithKey(job[c].brokerage, job[c].key) = {}
      PROVE  Keys'
  <2>1. PaidWithKey(job[c].brokerage, job[c].key) = {}
    BY <1>9 DEF Keys, Checked, Holding
  <2>2. draft'[c] = row /\ \A e \in Call \ {c} : draft'[e] = draft[e]
    BY <1>9 DEF Write, TypeOK
  <2> QED BY <1>9, <2>1, <2>2, MoveKeys DEF Write, Labels, Keys
<1>10. CASE IssueFree(c)
  <2>1. job[c].charged = job[c].brokerage
    BY <1>10 DEF IssueFree, Keys
  <2>2. ASSUME NEW r, Write(c, [ordinal |-> NextFreeOrdinal(job[c].charged), key |-> job[c].key, report |-> r]),
               FreeWithKey(job[c].charged, job[c].key) = {}
        PROVE  Keys'
    BY <1>9, <1>10, <2>1, <2>2 DEF IssueFree
  <2> QED BY <1>1, <1>2, <1>10, <2>2 DEF IssueFree
<1>11. CASE IssuePaid(c)
  <2>1. FreeWithKey(job[c].brokerage, job[c].key) = {}
    BY <1>11 DEF IssuePaid, Keys
  <2>2. \A x, p, n, m, r : Write(c, [binding |-> x, period |-> p, ordinal |-> n, number |-> m,
                                     key |-> job[c].key, report |-> r]) => Keys'
    BY <1>9, <1>11, <2>1 DEF IssuePaid
  <2> QED BY <1>1, <1>11, <2>2 DEF IssuePaid
<1>12. CASE CommitFree(c) \/ CommitPaid(c)
  BY <1>12, CommitKeys
<1>13. CASE Lose(c)
  BY <1>1, <1>13 DEF Lose
<1> QED BY <1>3, <1>4, <1>5, <1>6, <1>7, <1>8, <1>10, <1>11, <1>12, <1>13 DEF CallSteps, Step

LEMMA SettledKeys == ASSUME Settlement PROVE Spec => []Keys
<1>1. Init => Keys
  BY DEF Init, Keys, KeyChargedOnce, Checked, Holding
<1>2. TypeOK /\ Ledgers /\ Locks /\ Keys /\ [Next]_issueVars => Keys'
  <2> SUFFICES ASSUME TypeOK, Ledgers, Locks, Keys, [Next]_issueVars PROVE Keys'
    OBVIOUS
  <2>1. CASE WorldSteps
    BY <2>1, WorldKeys
  <2>2. ASSUME NEW c \in Call, CallSteps(c) PROVE Keys'
    BY <2>2, CallKeys
  <2>3. CASE UNCHANGED issueVars
    BY <2>3 DEF issueVars, Keys, KeyChargedOnce, FreeWithKey, PaidWithKey
  <2> QED BY <2>1, <2>2, <2>3 DEF Next
<1> QED BY <1>1, <1>2, TypeCorrect, LocksHold, PTL DEF Spec

(* While nobody changes brokerage, a key is charged once across both       *)
(* ledgers (brokerage-billing.sql, rule 6).                                *)
THEOREM SettledKeyChargedOnce == ASSUME Settlement PROVE Spec => []KeyChargedOnce
<1>1. Keys => KeyChargedOnce
  BY DEF Keys
<1> QED BY <1>1, SettledKeys, PTL

-----------------------------------------------------------------------------
(* What a call has written and not committed: the next row of the ledger   *)
(* it charges, because the lock it holds keeps that ledger still, for a    *)
(* report no other call and no brokerage has.                              *)
Drafts ==
    /\ \A c \in Call : pc[c] # "written" => draft[c] = Nothing
    /\ \A c \in Call : draft[c] # Nothing => draft[c].report \in Report \ snapshots
    /\ \A c, e \in Call : draft[c] # Nothing /\ draft[e] # Nothing
                          /\ draft[c].report = draft[e].report => c = e

NextFree(c) ==
    /\ draft[c] \in FreeRow
    /\ draft[c].ordinal = Cardinality(free[job[c].charged]) + 1
    /\ evaluation[job[c].charged] = "active"

NextPaid(c) ==
    /\ draft[c] \in PaidRow
    /\ job[c].charged = job[c].brokerage
    /\ draft[c].number = NextNumber(job[c].brokerage)
    /\ draft[c].ordinal =
         Cardinality(InMonth(job[c].brokerage, draft[c].binding, draft[c].period)) + 1

Places ==
    \A c \in Call : pc[c] = "written" =>
        draft[c].key = job[c].key /\ (NextFree(c) \/ NextPaid(c))

(* Every month a binding could have, the empty ones too.                   *)
Months ==
    \A b \in Brokerage, x \in Binding, p \in Nat :
        /\ {y.ordinal : y \in InMonth(b, x, p)} = 1..Cardinality(InMonth(b, x, p))
        /\ Cardinality(InMonth(b, x, p)) <= PaidLimit

Series ==
    \A b \in Brokerage :
        /\ {x.ordinal : x \in free[b]} = 1..Cardinality(free[b])
        /\ Cardinality(free[b]) <= FreeLimit
        /\ {x.number : x \in paid[b]} = (FreeLimit + 1)..(FreeLimit + Cardinality(paid[b]))

Accounts == Series /\ Months /\ StatusTellsTheLedger /\ EachReportOwnedOnce

(* A row is of one ledger only.                                            *)
LEMMA RowsApart ==
    ASSUME NEW row \in FreeRow
    PROVE  row \notin PaidRow
<1>1. DOMAIN row = {"ordinal", "key", "report"}
  BY DEF FreeRow
<1>2. row \in PaidRow => DOMAIN row = {"binding", "period", "ordinal", "number", "key", "report"}
  BY DEF PaidRow
<1> QED BY <1>1, <1>2

(* In a ledger without gaps the next free number counts its rows.          *)
LEMMA NextFreeCounts ==
    ASSUME Ledgers, NEW b \in Brokerage,
           {x.ordinal : x \in free[b]} = 1..Cardinality(free[b])
    PROVE  NextFreeOrdinal(b) = Cardinality(free[b]) + 1
<1> DEFINE n == Cardinality(free[b])
           S == {x.ordinal : x \in free[b]}
<1>1. n \in Nat
  BY CountType
<1>2. CASE free[b] = {}
  BY <1>2, FS_EmptySet DEF NextFreeOrdinal
<1>3. CASE free[b] # {}
  <2>1. n # 0
    BY <1>3, FS_EmptySet DEF Ledgers
  <2>2. n \in S /\ \A x \in free[b] : x.ordinal \in 1..n
    BY <1>1, <2>1
  <2>3. \A m \in S : (\A x \in free[b] : x.ordinal <= m) <=> m = n
    <3> SUFFICES ASSUME NEW m \in S
                 PROVE  (\A x \in free[b] : x.ordinal <= m) <=> m = n
      OBVIOUS
    <3>1. m \in 1..n
      BY <2>2
    <3>2. m = n => \A x \in free[b] : x.ordinal <= m
      BY <1>1, <2>2
    <3>3. PICK y \in free[b] : y.ordinal = n
      BY <2>2
    <3>4. (\A x \in free[b] : x.ordinal <= m) => m = n
      BY <1>1, <3>1, <3>3
    <3> QED BY <3>2, <3>4
  <2> DEFINE largest == CHOOSE m \in S : \A x \in free[b] : x.ordinal <= m
  <2>4. largest = n
    <3>1. \E m \in S : \A x \in free[b] : x.ordinal <= m
      BY <2>2, <2>3
    <3>2. largest \in S /\ \A x \in free[b] : x.ordinal <= largest
      BY <3>1, Zenon
    <3> HIDE DEF largest, S, n
    <3>3. largest \in S => ((\A x \in free[b] : x.ordinal <= largest) <=> largest = n)
      BY <2>3, Zenon
    <3> QED BY <3>2, <3>3, Zenon
  <2>5. NextFreeOrdinal(b) = 1 + largest
    BY <1>3 DEF NextFreeOrdinal
  <2> HIDE DEF largest
  <2> QED BY <1>1, <2>4, <2>5
<1> QED BY <1>2, <1>3

(* A series 1..n, or k+1..k+n, that gets its next number has no gap.       *)
LEMMA SeriesGrows ==
    ASSUME NEW k \in Nat, NEW n \in Nat
    PROVE  ((k + 1)..(k + n)) \cup {k + n + 1} = (k + 1)..(k + (n + 1))
OBVIOUS

(* A draft stays the next row of its ledger while that ledger stands still.*)
LEMMA DraftStands ==
    ASSUME NEW e \in Call, job'[e] = job[e], draft'[e] = draft[e],
           free'[job[e].charged] = free[job[e].charged],
           paid'[job[e].brokerage] = paid[job[e].brokerage],
           evaluation[job[e].charged] = "active" => evaluation'[job[e].charged] = "active",
           NextFree(e) \/ NextPaid(e)
    PROVE  NextFree(e)' \/ NextPaid(e)'
<1>1. CASE NextFree(e)
  BY <1>1 DEF NextFree
<1>2. CASE NextPaid(e)
  <2> DEFINE month  == {y \in paid[job[e].brokerage] :
                          y.binding = draft[e].binding /\ y.period = draft[e].period}
             monthN == {y \in paid'[job'[e].brokerage] :
                          y.binding = draft'[e].binding /\ y.period = draft'[e].period}
  <2>1. monthN = month
    OBVIOUS
  <2>2. /\ draft[e] \in PaidRow /\ job[e].charged = job[e].brokerage
        /\ draft[e].number = FreeLimit + Cardinality(paid[job[e].brokerage]) + 1
        /\ draft[e].ordinal = Cardinality(month) + 1
    BY <1>2 DEF NextPaid, NextNumber, InMonth
  <2>3. /\ draft'[e] \in PaidRow /\ job'[e].charged = job'[e].brokerage
        /\ draft'[e].number = FreeLimit + Cardinality(paid'[job'[e].brokerage]) + 1
        /\ draft'[e].ordinal = Cardinality(monthN) + 1
    <3> HIDE DEF month, monthN
    <3> QED BY <2>1, <2>2
  <2> QED BY <2>3 DEF NextPaid, NextNumber, InMonth
<1> QED BY <1>1, <1>2

(* A call that ends without charging leaves the drafts of the others.      *)
LEMMA EndDrafts ==
    ASSUME TypeOK, Ledgers, Drafts, Places, NEW c \in Call, NEW word, NEW report,
           Finish(c, word, report), UNCHANGED <<evaluation, free, paid, snapshots>>
    PROVE  Drafts' /\ Places'
<1>1. /\ pc'[c] = "idle" /\ draft'[c] = Nothing
      /\ \A e \in Call \ {c} : pc'[e] = pc[e] /\ job'[e] = job[e] /\ draft'[e] = draft[e]
  BY DEF Finish, TypeOK
<1>2. Drafts'
  BY <1>1 DEF Drafts
<1>3. Places'
  <2> SUFFICES ASSUME NEW e \in Call, pc'[e] = "written"
               PROVE  draft'[e].key = job'[e].key /\ (NextFree(e)' \/ NextPaid(e)')
    BY DEF Places
  <2>1. e # c
    BY <1>1
  <2>2. draft[e].key = job[e].key /\ (NextFree(e) \/ NextPaid(e))
    BY <1>1, <2>1 DEF Places
  <2> QED BY <1>1, <2>1, <2>2, DraftStands
<1> QED BY <1>2, <1>3

(* A call that moves on without writing.                                   *)
LEMMA MoveDrafts ==
    ASSUME TypeOK, Ledgers, Drafts, Places, NEW c \in Call, NEW label \in Labels \ {"written"},
           pc[c] # "written", pc' = [pc EXCEPT ![c] = label],
           UNCHANGED <<draft, evaluation, free, paid, snapshots>>,
           \A e \in Call \ {c} : job'[e] = job[e]
    PROVE  Drafts' /\ Places'
<1>1. pc'[c] = label /\ \A e \in Call \ {c} : pc'[e] = pc[e]
  BY DEF TypeOK
<1>2. Drafts'
  BY <1>1 DEF Drafts
<1>3. Places'
  <2> SUFFICES ASSUME NEW e \in Call, pc'[e] = "written"
               PROVE  draft'[e].key = job'[e].key /\ (NextFree(e)' \/ NextPaid(e)')
    BY DEF Places
  <2>1. e # c
    BY <1>1
  <2>2. draft[e].key = job[e].key /\ (NextFree(e) \/ NextPaid(e))
    BY <1>1, <2>1 DEF Places
  <2> QED BY <1>1, <2>1, <2>2, DraftStands
<1> QED BY <1>2, <1>3

(* A call that writes the next row of a ledger, for a report nobody has.   *)
LEMMA WriteDrafts ==
    ASSUME TypeOK, Ledgers, Drafts, Places, NEW c \in Call, NEW row \in FreeRow \cup PaidRow,
           Write(c, row), row.report \in Report \ (snapshots \cup Drafted), row.key = job[c].key,
           \/ /\ row \in FreeRow
              /\ row.ordinal = Cardinality(free[job[c].charged]) + 1
              /\ evaluation[job[c].charged] = "active"
           \/ /\ row \in PaidRow
              /\ job[c].charged = job[c].brokerage
              /\ row.number = NextNumber(job[c].brokerage)
              /\ row.ordinal = Cardinality(InMonth(job[c].brokerage, row.binding, row.period)) + 1
    PROVE  Drafts' /\ Places'
<1> USE DEF worldVars, ledgerVars
<1>1. /\ pc'[c] = "written" /\ draft'[c] = row
      /\ \A e \in Call \ {c} : pc'[e] = pc[e] /\ draft'[e] = draft[e]
      /\ UNCHANGED <<job, evaluation, free, paid, snapshots>>
  BY DEF Write, TypeOK
<1>2. \A e \in Call : draft[e] # Nothing => draft[e].report # row.report
  BY DEF Drafted
<1>3. Drafts'
  BY <1>1, <1>2 DEF Drafts
<1>4. Places'
  <2> SUFFICES ASSUME NEW e \in Call, pc'[e] = "written"
               PROVE  draft'[e].key = job'[e].key /\ (NextFree(e)' \/ NextPaid(e)')
    BY DEF Places
  <2>1. CASE e # c
    <3>1. draft[e].key = job[e].key /\ (NextFree(e) \/ NextPaid(e))
      BY <1>1, <2>1 DEF Places
    <3> QED BY <1>1, <2>1, <3>1, DraftStands
  <2>2. CASE e = c
    <3> DEFINE month  == {y \in paid[job[c].brokerage] : y.binding = row.binding /\ y.period = row.period}
               monthN == {y \in paid'[job'[c].brokerage] :
                            y.binding = draft'[c].binding /\ y.period = draft'[c].period}
    <3>1. monthN = month
      BY <1>1
    <3>2. CASE /\ row \in FreeRow
               /\ row.ordinal = Cardinality(free[job[c].charged]) + 1
               /\ evaluation[job[c].charged] = "active"
      BY <1>1, <2>2, <3>2 DEF NextFree
    <3>3. CASE /\ row \in PaidRow
               /\ job[c].charged = job[c].brokerage
               /\ row.number = NextNumber(job[c].brokerage)
               /\ row.ordinal = Cardinality(InMonth(job[c].brokerage, row.binding, row.period)) + 1
      <4>1. /\ row.number = FreeLimit + Cardinality(paid[job[c].brokerage]) + 1
            /\ row.ordinal = Cardinality(month) + 1
        BY <3>3 DEF NextNumber, InMonth
      <4>2. /\ draft'[c] \in PaidRow /\ job'[c].charged = job'[c].brokerage
            /\ draft'[c].number = FreeLimit + Cardinality(paid'[job'[c].brokerage]) + 1
            /\ draft'[c].ordinal = Cardinality(monthN) + 1
        <5> HIDE DEF month, monthN
        <5> QED BY <1>1, <3>1, <3>3, <4>1
      <4> QED BY <1>1, <2>2, <4>2 DEF NextPaid, NextNumber, InMonth
    <3> QED BY <1>1, <2>2, <3>2, <3>3
  <2> QED BY <2>1, <2>2
<1> QED BY <1>3, <1>4

(* Revoking waits for the row of the evaluation, so it disturbs no draft;  *)
(* nothing else outside the calls touches a ledger.                        *)
LEMMA WorldDrafts ==
    ASSUME TypeOK, Ledgers, Locks, Drafts, Places, WorldSteps
    PROVE  Drafts' /\ Places'
<1> USE DEF worldVars, ledgerVars, callVars
<1>1. /\ UNCHANGED <<free, paid, snapshots, lock, pc, job, draft>>
      /\ \A b \in Brokerage : lock[b] # Nobody => evaluation'[b] = evaluation[b]
  BY DEF WorldSteps, Tick, PlanOrAccountMoves, RevokeEvaluation, Leave, Join, TypeOK
<1>2. Drafts'
  BY <1>1 DEF Drafts
<1>3. Places'
  <2> SUFFICES ASSUME NEW e \in Call, pc[e] = "written"
               PROVE  draft'[e].key = job'[e].key /\ (NextFree(e)' \/ NextPaid(e)')
    BY <1>1 DEF Places
  <2>1. draft[e].key = job[e].key /\ (NextFree(e) \/ NextPaid(e))
    BY DEF Places
  <2>2. evaluation'[job[e].charged] = evaluation[job[e].charged]
    BY <1>1, IssueAssumption DEF Locks, Ledgers, Job
  <2> QED BY <1>1, <2>1, <2>2, DraftStands
<1> QED BY <1>2, <1>3

(* Every step of a call but its commit.                                    *)
LEMMA CallDrafts ==
    ASSUME TypeOK, Ledgers, Locks, Drafts, Places, Series, NEW c \in Call,
           CallSteps(c), ~CommitFree(c), ~CommitPaid(c)
    PROVE  Drafts' /\ Places'
<1> USE DEF worldVars, ledgerVars
<1>1. \A word : Refuse(c, word) => Drafts' /\ Places'
  BY EndDrafts DEF Refuse
<1>2. \A row : Replay(c, row) => Drafts' /\ Places'
  BY EndDrafts DEF Replay
<1>3. ASSUME NEW label \in Labels \ {"written"}, Goto(c, label), pc[c] # "written",
             \A e \in Call \ {c} : job'[e] = job[e]
      PROVE  Drafts' /\ Places'
  BY <1>3, MoveDrafts DEF Goto
<1>4. ASSUME NEW u \in User, NEW k \in Key, NEW b \in Brokerage, Start(c, u, k, b)
      PROVE  Drafts' /\ Places'
  BY <1>3, <1>4 DEF Start, TypeOK, Labels
<1>5. CASE TakeLock(c) \/ TakeFreeLock(c)
  BY <1>3, <1>5 DEF TakeLock, TakeFreeLock, Labels
<1>6. CASE AskAgain(c)
  BY <1>1, <1>2, <1>3, <1>6 DEF AskAgain, Labels
<1>7. CASE Choose(c)
  <2>1. \A e \in Call \ {c} : job'[e] = job[e]
    BY <1>7 DEF Choose, TypeOK
  <2> QED BY <1>3, <1>7, <2>1 DEF Choose, Labels
<1>8. CASE AskFree(c)
  <2>1. ASSUME NEW d \in Brokerage, job' = [job EXCEPT ![c].charged = d], Goto(c, "queued")
        PROVE  Drafts' /\ Places'
    <3>1. \A e \in Call \ {c} : job'[e] = job[e]
      BY <2>1 DEF TypeOK
    <3> QED BY <1>3, <1>8, <2>1, <3>1 DEF AskFree, Labels
  <2> QED BY <1>1, <1>8, <2>1 DEF AskFree
<1>9. CASE IssueFree(c)
  <2> DEFINE d == job[c].charged
  <2>1. pc[c] = "issuing" /\ d \in Brokerage /\ job[c].key \in Key
    BY <1>9 DEF IssueFree, Ledgers, Job
  <2>2. NextFreeOrdinal(d) = Cardinality(free[d]) + 1 /\ Cardinality(free[d]) \in Nat
    BY <2>1, NextFreeCounts, CountType DEF Series
  <2>3. ASSUME NEW r \in Report \ (snapshots \cup Drafted), evaluation[d] = "active",
               Write(c, [ordinal |-> NextFreeOrdinal(d), key |-> job[c].key, report |-> r])
        PROVE  Drafts' /\ Places'
    <3> DEFINE row == [ordinal |-> NextFreeOrdinal(d), key |-> job[c].key, report |-> r]
    <3>1. /\ row \in FreeRow /\ row.report = r /\ row.key = job[c].key
          /\ row.ordinal = Cardinality(free[d]) + 1
      BY <2>1, <2>2 DEF FreeRow
    <3> HIDE DEF row
    <3> QED BY <2>3, <3>1, WriteDrafts DEF row
  <2> QED BY <1>1, <1>2, <1>9, <2>3 DEF IssueFree
<1>10. CASE IssuePaid(c)
  <2> DEFINE b == job[c].brokerage
             x == job[c].plan.binding
             p == Period(job[c].plan.since, job[c].at)
             used == Cardinality(InMonth(b, x, p))
  <2>1. /\ pc[c] = "paid" /\ b \in Brokerage /\ job[c].key \in Key /\ job[c].charged = b
        /\ job[c].plan \in Plan /\ job[c].at \in Nat /\ x \in Binding
    BY <1>10 DEF IssuePaid, Ledgers, Job, Locks
  <2>2. p \in Nat
    BY <2>1, PeriodType DEF Plan
  <2>3. used \in Nat /\ NextNumber(b) \in Nat
    BY <2>1, CountType, IssueAssumption DEF NextNumber
  <2>4. ASSUME NEW r \in Report \ (snapshots \cup Drafted),
               Write(c, [binding |-> x, period |-> p, ordinal |-> used + 1,
                         number |-> NextNumber(b), key |-> job[c].key, report |-> r])
        PROVE  Drafts' /\ Places'
    <3> DEFINE row == [binding |-> x, period |-> p, ordinal |-> used + 1,
                       number |-> NextNumber(b), key |-> job[c].key, report |-> r]
    <3>1. /\ row \in PaidRow /\ row.report = r /\ row.key = job[c].key
          /\ row.number = NextNumber(b) /\ row.ordinal = used + 1
          /\ row.binding = x /\ row.period = p
      BY <2>1, <2>2, <2>3 DEF PaidRow
    <3>2. Write(c, row)
      BY <2>4
    <3> HIDE DEF row
    <3>3. row.ordinal = Cardinality(InMonth(b, row.binding, row.period)) + 1
      BY <3>1
    <3> QED BY <2>1, <3>1, <3>2, <3>3, WriteDrafts
  <2> QED BY <1>1, <1>10, <2>4 DEF IssuePaid
<1>11. CASE Lose(c)
  BY <1>1, <1>11 DEF Lose
<1> QED BY <1>4, <1>5, <1>6, <1>7, <1>8, <1>9, <1>10, <1>11 DEF CallSteps, Step

(* Past its own commit a call has no draft, and the drafts of the others   *)
(* are for ledgers whose rows they hold.                                   *)
LEMMA CommitDrafts ==
    ASSUME TypeOK, Ledgers, Locks, Drafts, Places, NEW c \in Call, CommitFree(c) \/ CommitPaid(c)
    PROVE  Drafts' /\ Places'
<1> DEFINE b == job[c].charged
<1>1. pc[c] = "written" /\ b \in Brokerage /\ lock[b] = c
  BY DEF CommitFree, CommitPaid, Ledgers, Job, Locks
<1>2. CommitPaid(c) => job[c].brokerage = b
  BY <1>1, RowsApart DEF CommitPaid, Places, NextFree, NextPaid
<1>3. /\ \A d \in Brokerage \ {b} : free'[d] = free[d] /\ paid'[d] = paid[d]
                                    /\ evaluation'[d] = evaluation[d]
      /\ snapshots' = snapshots \cup {draft[c].report}
  BY <1>1, <1>2 DEF CommitFree, CommitPaid, TypeOK
<1>4. /\ pc'[c] = "idle" /\ draft'[c] = Nothing
      /\ \A e \in Call \ {c} : pc'[e] = pc[e] /\ job'[e] = job[e] /\ draft'[e] = draft[e]
  BY DEF CommitFree, CommitPaid, Finish, TypeOK
<1>5. draft[c] # Nothing
  BY RowAssumption DEF CommitFree, CommitPaid
<1>6. Drafts'
  BY <1>3, <1>4, <1>5 DEF Drafts
<1>7. Places'
  <2> SUFFICES ASSUME NEW e \in Call, pc'[e] = "written"
               PROVE  draft'[e].key = job'[e].key /\ (NextFree(e)' \/ NextPaid(e)')
    BY DEF Places
  <2>1. e # c /\ pc[e] = "written"
    BY <1>4
  <2>2. draft[e].key = job[e].key /\ (NextFree(e) \/ NextPaid(e))
    BY <2>1 DEF Places
  <2>3. job[e].brokerage \in Brokerage \ {b} /\ job[e].charged \in Brokerage \ {b}
    BY <1>1, <2>1 DEF Locks, Holding, Ledgers, Job
  <2> QED BY <1>3, <1>4, <2>1, <2>2, <2>3, DraftStands
<1> QED BY <1>6, <1>7

-----------------------------------------------------------------------------
(* What one brokerage's rows are to everybody: a stored report more.       *)
LEMMA OwnedGrows ==
    ASSUME EachReportOwnedOnce, NEW b \in Brokerage, NEW entry, entry.report \notin snapshots,
           snapshots' = snapshots \cup {entry.report},
           Owned(b)' = Owned(b) \cup {entry},
           \A d \in Brokerage \ {b} : Owned(d)' = Owned(d)
    PROVE  EachReportOwnedOnce'
<1>1. \A d \in Brokerage : \A x \in Owned(d) : x.report \in snapshots
  BY DEF EachReportOwnedOnce
<1>2. snapshots' = UNION {{x.report : x \in Owned(d)'} : d \in Brokerage}
  <2>1. \A d \in Brokerage : \A x \in Owned(d)' : x.report \in snapshots'
    BY <1>1
  <2>2. ASSUME NEW r \in snapshots' PROVE \E d \in Brokerage : \E x \in Owned(d)' : x.report = r
    <3>1. CASE r = entry.report
      BY <3>1
    <3>2. CASE r \in snapshots
      <4>1. PICK d \in Brokerage : \E x \in Owned(d) : x.report = r
        BY <3>2 DEF EachReportOwnedOnce
      <4> QED BY <4>1
    <3> QED BY <3>1, <3>2
  <2> QED BY <2>1, <2>2
<1>3. ASSUME NEW d \in Brokerage, NEW e \in Brokerage, NEW x \in Owned(d)', NEW y \in Owned(e)',
             x.report = y.report
      PROVE  d = e /\ x = y
  <2>1. CASE x \in Owned(d) /\ y \in Owned(e)
    BY <1>3, <2>1 DEF EachReportOwnedOnce
  <2>2. CASE x \notin Owned(d) \/ y \notin Owned(e)
    BY <1>1, <1>3, <2>2
  <2> QED BY <2>1, <2>2
<1> QED BY <1>2, <1>3 DEF EachReportOwnedOnce

(* What a committed row adds to the reports of its brokerage.              *)
LEMMA FreeRowOwned ==
    ASSUME NEW d \in Brokerage, NEW row, free'[d] = free[d] \cup {row}, UNCHANGED paid,
           \A e \in Brokerage \ {d} : free'[e] = free[e]
    PROVE  /\ Owned(d)' = Owned(d) \cup {[number |-> row.ordinal, key |-> row.key, report |-> row.report]}
           /\ \A e \in Brokerage \ {d} : Owned(e)' = Owned(e)
<1> DEFINE Entry(x) == [number |-> x.ordinal, key |-> x.key, report |-> x.report]
<1>1. {Entry(x) : x \in free[d] \cup {row}} = {Entry(x) : x \in free[d]} \cup {Entry(row)}
  OBVIOUS
<1> QED BY <1>1 DEF Owned

LEMMA PaidRowOwned ==
    ASSUME NEW b \in Brokerage, NEW row, paid'[b] = paid[b] \cup {row}, UNCHANGED free,
           \A e \in Brokerage \ {b} : paid'[e] = paid[e]
    PROVE  /\ Owned(b)' = Owned(b) \cup {[number |-> row.number, key |-> row.key, report |-> row.report]}
           /\ \A e \in Brokerage \ {b} : Owned(e)' = Owned(e)
<1> DEFINE Entry(x) == [number |-> x.number, key |-> x.key, report |-> x.report]
<1>1. {Entry(x) : x \in paid[b] \cup {row}} = {Entry(x) : x \in paid[b]} \cup {Entry(row)}
  OBVIOUS
<1> QED BY <1>1 DEF Owned

(* The committed free row: the next ordinal, and the status with it.       *)
LEMMA CommitFreeAccounts ==
    ASSUME TypeOK, Ledgers, Locks, Drafts, Places, Accounts, NEW c \in Call, CommitFree(c),
           NEW d, d = job[c].charged, NEW row, row = draft[c]
    PROVE  Accounts'
<1> DEFINE n == Cardinality(free[d])
<1>1. pc[c] = "written" /\ d \in Brokerage /\ row \in FreeRow /\ FreeAllowed(d, row)
  BY DEF CommitFree, Ledgers, Job
<1>2. row.ordinal = n + 1 /\ evaluation[d] = "active"
  BY <1>1, RowsApart DEF Places, NextFree, NextPaid
<1>3. /\ free'[d] = free[d] \cup {row} /\ \A e \in Brokerage \ {d} : free'[e] = free[e]
      /\ snapshots' = snapshots \cup {row.report} /\ UNCHANGED paid
      /\ evaluation' = IF Completes(d, row) THEN [evaluation EXCEPT ![d] = "complete"] ELSE evaluation
  BY <1>1 DEF CommitFree, TypeOK
<1>4. n \in Nat /\ n + 1 \in 1..FreeLimit /\ row \notin free[d]
  BY <1>1, <1>2, CountType DEF FreeAllowed
<1>5. Cardinality(free'[d]) = n + 1
  <2>1. IsFiniteSet(free[d])
    BY <1>1 DEF Ledgers
  <2>2. Cardinality(free[d] \cup {row}) = n + 1
    BY <1>4, <2>1, FS_AddElement
  <2> QED BY <1>3, <2>2
<1>6. Series'
  <2>1. {x.ordinal : x \in free'[d]} = {x.ordinal : x \in free[d]} \cup {n + 1}
    <3> HIDE DEF n
    <3> QED BY <1>2, <1>3
  <2>2. {x.ordinal : x \in free[d]} = 1..n
    BY <1>1 DEF Accounts, Series
  <2>3. {x.ordinal : x \in free'[d]} = 1..(n + 1)
    <3>1. (1..n) \cup {n + 1} = 1..(n + 1)
      BY <1>4
    <3> QED BY <2>1, <2>2, <3>1
  <2>4. n + 1 <= FreeLimit
    BY <1>4, IssueAssumption
  <2> HIDE DEF n
  <2>5. \A e \in Brokerage : {x.ordinal : x \in free'[e]} = 1..Cardinality(free'[e])
                               /\ Cardinality(free'[e]) <= FreeLimit
    BY <1>3, <1>5, <2>3, <2>4 DEF Accounts, Series
  <2> QED BY <1>3, <2>5 DEF Accounts, Series
<1>7. Months'
  BY <1>3 DEF Accounts, Months, InMonth
<1>8. StatusTellsTheLedger'
  <2> SUFFICES ASSUME NEW e \in Brokerage, evaluation'[e] # "revoked"
               PROVE  evaluation'[e] = "complete" <=> Cardinality(free'[e]) = FreeLimit
    BY DEF StatusTellsTheLedger
  <2>1. CASE e # d
    <3>1. evaluation'[e] = evaluation[e] /\ free'[e] = free[e]
      BY <1>3, <2>1 DEF TypeOK
    <3> QED BY <3>1 DEF Accounts, StatusTellsTheLedger
  <2>2. CASE e = d
    <3> HIDE DEF n
    <3>1. evaluation'[d] = IF n + 1 = FreeLimit THEN "complete" ELSE "active"
      BY <1>1, <1>2, <1>3 DEF Completes, TypeOK
    <3> QED BY <1>5, <2>2, <3>1
  <2> QED BY <2>1, <2>2
<1>9. EachReportOwnedOnce'
  <2> DEFINE entry == [number |-> row.ordinal, key |-> row.key, report |-> row.report]
  <2>1. Owned(d)' = Owned(d) \cup {entry} /\ \A e \in Brokerage \ {d} : Owned(e)' = Owned(e)
    BY <1>1, <1>3, FreeRowOwned
  <2>2. entry.report = row.report /\ row.report \notin snapshots
    BY <1>1, RowAssumption DEF Drafts
  <2> HIDE DEF entry
  <2> QED BY <1>1, <1>3, <2>1, <2>2, OwnedGrows DEF Accounts
<1> QED BY <1>6, <1>7, <1>8, <1>9 DEF Accounts

(* The committed paid row: the next number, and the next of its month.     *)
LEMMA CommitPaidAccounts ==
    ASSUME TypeOK, Ledgers, Locks, Drafts, Places, Accounts, NEW c \in Call, CommitPaid(c),
           NEW b, b = job[c].brokerage, NEW row, row = draft[c]
    PROVE  Accounts'
<1> DEFINE n == Cardinality(paid[b])
           m == Cardinality(InMonth(b, row.binding, row.period))
<1>1. /\ pc[c] = "written" /\ b \in Brokerage /\ row \in PaidRow /\ PaidAllowed(b, row)
  BY DEF CommitPaid, Ledgers, Job
<1>2. row.number = FreeLimit + n + 1 /\ row.ordinal = m + 1
  BY <1>1, RowsApart DEF Places, NextFree, NextPaid, NextNumber
<1>3. /\ paid'[b] = paid[b] \cup {row} /\ \A e \in Brokerage \ {b} : paid'[e] = paid[e]
      /\ snapshots' = snapshots \cup {row.report} /\ UNCHANGED <<free, evaluation>>
  BY <1>1 DEF CommitPaid, TypeOK
<1>4. n \in Nat /\ m \in Nat /\ m + 1 \in 1..PaidLimit /\ row \notin paid[b]
  <2>1. n \in Nat /\ m \in Nat
    BY <1>1, CountType
  <2>2. row.ordinal \in 1..PaidLimit /\ row \notin paid[b]
    BY <1>1 DEF PaidAllowed
  <2> QED BY <1>2, <2>1, <2>2
<1>5. Cardinality(paid'[b]) = n + 1
  <2>1. IsFiniteSet(paid[b])
    BY <1>1 DEF Ledgers
  <2>2. Cardinality(paid[b] \cup {row}) = n + 1
    BY <1>4, <2>1, FS_AddElement
  <2> QED BY <1>3, <2>2
<1>6. Series'
  <2>1. {x.number : x \in paid'[b]} = {x.number : x \in paid[b]} \cup {FreeLimit + n + 1}
    <3> HIDE DEF n
    <3> QED BY <1>2, <1>3
  <2>2. {x.number : x \in paid[b]} = (FreeLimit + 1)..(FreeLimit + n)
    BY <1>1 DEF Accounts, Series
  <2>3. {x.number : x \in paid'[b]} = (FreeLimit + 1)..(FreeLimit + (n + 1))
    <3>1. FreeLimit \in Nat
      BY IssueAssumption
    <3> HIDE DEF n
    <3> QED BY <1>4, <2>1, <2>2, <3>1, SeriesGrows
  <2> HIDE DEF n
  <2>4. \A e \in Brokerage : {x.number : x \in paid'[e]}
                                = (FreeLimit + 1)..(FreeLimit + Cardinality(paid'[e]))
    BY <1>3, <1>5, <2>3 DEF Accounts, Series
  <2> QED BY <1>3, <2>4 DEF Accounts, Series
<1>7. Months'
  <2> SUFFICES ASSUME NEW e \in Brokerage, NEW x \in Binding, NEW p \in Nat
               PROVE  /\ {y.ordinal : y \in InMonth(e, x, p)'} = 1..Cardinality(InMonth(e, x, p)')
                      /\ Cardinality(InMonth(e, x, p)') <= PaidLimit
    BY DEF Months
  <2>1. CASE <<e, x, p>> # <<b, row.binding, row.period>>
    <3>1. InMonth(e, x, p)' = InMonth(e, x, p)
      BY <1>3, <2>1 DEF InMonth
    <3> QED BY <3>1 DEF Accounts, Months
  <2>2. CASE <<e, x, p>> = <<b, row.binding, row.period>>
    <3>1. e = b /\ x = row.binding /\ p = row.period
      BY <2>2
    <3> DEFINE month == InMonth(e, x, p)
    <3>2. InMonth(e, x, p)' = month \cup {row} /\ row \notin month
      BY <1>3, <1>4, <3>1 DEF InMonth
    <3>3. IsFiniteSet(month)
      BY <1>1, <3>1, FS_Subset DEF InMonth, Ledgers
    <3>4. m = Cardinality(month) /\ {y.ordinal : y \in month} = 1..m
      BY <3>1 DEF Accounts, Months
    <3> HIDE DEF month, m
    <3>5. Cardinality(month \cup {row}) = m + 1
      BY <3>2, <3>3, <3>4, FS_AddElement
    <3>6. {y.ordinal : y \in month \cup {row}} = {y.ordinal : y \in month} \cup {m + 1}
      BY <1>2
    <3>7. (1..m) \cup {m + 1} = 1..(m + 1) /\ m + 1 <= PaidLimit
      BY <1>4, IssueAssumption
    <3> QED BY <3>2, <3>4, <3>5, <3>6, <3>7
  <2> QED BY <2>1, <2>2
<1>8. StatusTellsTheLedger'
  BY <1>3 DEF Accounts, StatusTellsTheLedger
<1>9. EachReportOwnedOnce'
  <2> DEFINE entry == [number |-> row.number, key |-> row.key, report |-> row.report]
  <2>1. Owned(b)' = Owned(b) \cup {entry} /\ \A e \in Brokerage \ {b} : Owned(e)' = Owned(e)
    BY <1>1, <1>3, PaidRowOwned
  <2>2. entry.report = row.report /\ row.report \notin snapshots
    BY <1>1, RowAssumption DEF Drafts
  <2> HIDE DEF entry
  <2> QED BY <1>1, <1>3, <2>1, <2>2, OwnedGrows DEF Accounts
<1> QED BY <1>6, <1>7, <1>8, <1>9 DEF Accounts

(* Months of rows that are there are months of a binding.                  *)
LEMMA AccountsAreSound ==
    ASSUME TypeOK, Accounts
    PROVE  LedgersAreSound
<1>1. \A b \in Brokerage : \A y \in paid[b] : y.binding \in Binding /\ y.period \in Nat
  BY DEF TypeOK, PaidRow
<1> QED BY <1>1 DEF Accounts, LedgersAreSound, NumbersHaveNoGaps, Series, Months

(* A step that touches no ledger, and of the status no more than revoking. *)
LEMMA QuietAccounts ==
    ASSUME Accounts, UNCHANGED <<free, paid, snapshots>>,
           \A b \in Brokerage : evaluation'[b] \in {evaluation[b], "revoked"}
    PROVE  Accounts'
<1>1. \A b \in Brokerage : Owned(b)' = Owned(b)
  BY DEF Owned
<1>2. \A b \in Brokerage, x \in Binding, p \in Nat : InMonth(b, x, p)' = InMonth(b, x, p)
  BY DEF InMonth
<1>3. Series' /\ StatusTellsTheLedger'
  BY DEF Accounts, Series, StatusTellsTheLedger
<1>4. Months'
  BY <1>2 DEF Accounts, Months
<1>5. EachReportOwnedOnce'
  BY <1>1 DEF Accounts, EachReportOwnedOnce
<1> QED BY <1>3, <1>4, <1>5 DEF Accounts

(* Which steps leave the ledgers and the status alone: all but a commit    *)
(* and a revocation.                                                       *)
LEMMA WhoSettles ==
    ASSUME TypeOK, [Next]_issueVars
    PROVE  \/ /\ UNCHANGED <<free, paid, snapshots>>
              /\ \A b \in Brokerage : evaluation'[b] \in {evaluation[b], "revoked"}
           \/ \E c \in Call : CommitFree(c) \/ CommitPaid(c)
<1> USE DEF worldVars, ledgerVars, callVars
<1>1. CASE WorldSteps
  BY <1>1 DEF WorldSteps, Tick, PlanOrAccountMoves, RevokeEvaluation, Leave, Join, TypeOK
<1>2. ASSUME NEW c \in Call, CallSteps(c), ~CommitFree(c), ~CommitPaid(c)
      PROVE  UNCHANGED ledgerVars
  <2>1. \A word, row : Refuse(c, word) \/ Replay(c, row) => UNCHANGED ledgerVars
    BY DEF Refuse, Replay
  <2>2. \A label, row : Goto(c, label) \/ Write(c, row) => UNCHANGED ledgerVars
    BY DEF Goto, Write
  <2> QED BY <1>2, <2>1, <2>2 DEF CallSteps, Step, Start, TakeLock, TakeFreeLock, AskAgain, Choose,
                                  AskFree, IssueFree, IssuePaid, Lose
<1>3. CASE UNCHANGED issueVars
  BY <1>3 DEF issueVars
<1> QED BY <1>1, <1>2, <1>3 DEF Next

(* The drafts and the ledgers, together: neither holds without the other.  *)
LEMMA Bookkeeping == Spec => [](Drafts /\ Places /\ Accounts)
<1> DEFINE Inv == Drafts /\ Places /\ Accounts
<1>1. Init => Inv
  <2> SUFFICES ASSUME Init PROVE Inv
    OBVIOUS
  <2>1. Drafts /\ Places
    BY DEF Init, Drafts, Places
  <2>2. \A b \in Brokerage : free[b] = {} /\ paid[b] = {} /\ Owned(b) = {}
    BY DEF Init, Owned
  <2>3. \A b \in Brokerage : \A x, p : InMonth(b, x, p) = {}
    BY <2>2 DEF InMonth
  <2>4. Cardinality({}) = 0 /\ FreeLimit \in Nat \ {0} /\ PaidLimit \in Nat
    BY FS_EmptySet, IssueAssumption
  <2>5. Series
    <3>1. 1..0 = {} /\ (FreeLimit + 1)..(FreeLimit + 0) = {} /\ 0 <= FreeLimit
      BY <2>4
    <3>2. {x.ordinal : x \in {}} = {} /\ {x.number : x \in {}} = {}
      OBVIOUS
    <3>3. \A b \in Brokerage : /\ {x.ordinal : x \in free[b]} = {} /\ {x.number : x \in paid[b]} = {}
                                /\ Cardinality(free[b]) = 0 /\ Cardinality(paid[b]) = 0
      BY <2>2, <2>4, <3>2
    <3> QED BY <3>1, <3>3, Zenon DEF Series
  <2>6. Months
    BY <2>3, <2>4 DEF Months
  <2>7. StatusTellsTheLedger
    BY <2>2, <2>4 DEF Init, StatusTellsTheLedger
  <2>8. EachReportOwnedOnce
    BY <2>2 DEF Init, EachReportOwnedOnce
  <2> QED BY <2>1, <2>5, <2>6, <2>7, <2>8 DEF Accounts
<1>2. TypeOK /\ Ledgers /\ Locks /\ Inv /\ [Next]_issueVars => Inv'
  <2> SUFFICES ASSUME TypeOK, Ledgers, Locks, Inv, [Next]_issueVars PROVE Inv'
    OBVIOUS
  <2>1. Drafts' /\ Places'
    <3>1. CASE WorldSteps
      BY <3>1, WorldDrafts
    <3>2. ASSUME NEW c \in Call, CallSteps(c) PROVE Drafts' /\ Places'
      BY <3>2, CallDrafts, CommitDrafts DEF Accounts
    <3>3. CASE UNCHANGED issueVars
      BY <3>3 DEF issueVars, Drafts, Places, NextFree, NextPaid, NextNumber, InMonth
    <3> QED BY <3>1, <3>2, <3>3 DEF Next
  <2>2. Accounts'
    BY WhoSettles, QuietAccounts, CommitFreeAccounts, CommitPaidAccounts
  <2> QED BY <2>1, <2>2
<1> QED BY <1>1, <1>2, TypeCorrect, LocksHold, PTL DEF Spec

(* At every moment the ledgers pass what the database's two checks ask:    *)
(* numbers without gaps within the limits, the evaluation complete just    *)
(* when its ledger is full, and every stored report owned once.  This      *)
(* holds for people who change brokerage in the middle of a call, too.     *)
THEOREM LedgersStaySound == Spec => []LedgersAreSound
<1>1. TypeOK /\ Accounts => LedgersAreSound
  BY AccountsAreSound
<1> QED BY <1>1, TypeCorrect, Bookkeeping, PTL

-----------------------------------------------------------------------------
(* What a step may say: nothing, what it said before, a refusal that names *)
(* no report, a row it found under its key, or the row it commits.         *)
LEMMA WhoAnswers ==
    ASSUME TypeOK, Ledgers, Locks, [Next]_issueVars
    PROVE  \/ answer' = Nothing
           \/ UNCHANGED <<answer, free, paid>>
           \/ \E c \in Call, word \in Refusals : Refuse(c, word)
           \/ \E c \in Call : /\ pc[c] \in {"holding", "issuing"}
                             /\ \E row \in PaidWithKey(job[c].charged, job[c].key)
                                          \cup FreeWithKey(job[c].charged, job[c].key) : Replay(c, row)
           \/ \E c \in Call : CommitFree(c) \/ CommitPaid(c)
<1>1. CASE WorldSteps
  BY <1>1 DEF WorldSteps, Tick, PlanOrAccountMoves, RevokeEvaluation, Leave, Join
<1>2. ASSUME NEW c \in Call, CallSteps(c), ~CommitFree(c), ~CommitPaid(c)
      PROVE  \/ answer' = Nothing
             \/ \E word \in Refusals : Refuse(c, word)
             \/ /\ pc[c] \in {"holding", "issuing"}
                /\ \E row \in PaidWithKey(job[c].charged, job[c].key)
                             \cup FreeWithKey(job[c].charged, job[c].key) : Replay(c, row)
  <2>1. \A label, row : Goto(c, label) \/ Write(c, row) => answer' = Nothing
    BY DEF Goto, Write
  <2>2. CASE TakeLock(c) \/ TakeFreeLock(c) \/ Lose(c)
             \/ \E u \in User, k \in Key, b \in Brokerage : Start(c, u, k, b)
    BY <2>1, <2>2 DEF TakeLock, TakeFreeLock, Lose, Start, Refusals
  <2>3. CASE AskAgain(c)
    <3>1. pc[c] = "holding" /\ job[c].charged = job[c].brokerage
      BY <2>3 DEF AskAgain, Locks
    <3> QED BY <2>1, <2>3, <3>1 DEF AskAgain, Refusals
  <2>4. CASE Choose(c) \/ AskFree(c)
    BY <2>1, <2>4 DEF Choose, AskFree, Refusals
  <2>5. CASE IssueFree(c) \/ IssuePaid(c)
    BY <2>1, <2>5 DEF IssueFree, IssuePaid, Refusals
  <2> QED BY <1>2, <2>2, <2>3, <2>4, <2>5 DEF CallSteps, Step
<1>3. CASE UNCHANGED issueVars
  BY <1>3 DEF issueVars
<1> QED BY <1>1, <1>2, <1>3 DEF Next

(* A retried key is answered from the ledgers it was found in.             *)
LEMMA ReplayAnswers ==
    ASSUME Ledgers, NEW c \in Call, pc[c] # "idle",
           NEW row \in PaidWithKey(job[c].charged, job[c].key) \cup FreeWithKey(job[c].charged, job[c].key),
           Replay(c, row)
    PROVE  AnswerIsInTheLedger'
<1> DEFINE entry(n) == [number |-> n, key |-> row.key, report |-> row.report]
<1>1. /\ answer' = [brokerage |-> job[c].charged, key |-> job[c].key, word |-> "replayed",
                    report |-> row.report]
      /\ UNCHANGED <<free, paid>>
  BY DEF Replay, Finish, ledgerVars
<1>2. PICK d : d = job[c].charged
  OBVIOUS
<1>3. /\ row.key = job[c].key
      /\ row \in free[d] \/ row \in paid[d]
  BY <1>2 DEF PaidWithKey, FreeWithKey
<1>4. \E x \in Owned(d) : x.key = row.key /\ x.report = row.report
  <2>1. CASE row \in free[d]
    <3>1. entry(row.ordinal) \in Owned(d)
      BY <2>1 DEF Owned
    <3> QED BY <3>1
  <2>2. CASE row \in paid[d]
    <3>1. entry(row.number) \in Owned(d)
      BY <2>2 DEF Owned
    <3> QED BY <3>1
  <2> QED BY <1>3, <2>1, <2>2
<1>5. Owned(d)' = Owned(d)
  BY <1>1 DEF Owned
<1>6. \E x \in Owned(d)' : x.key = job[c].key /\ x.report = row.report
  BY <1>3, <1>4, <1>5
<1>7. answer'.brokerage = d /\ answer'.key = job[c].key /\ answer'.report = row.report
  BY <1>1, <1>2
<1> QED BY <1>6, <1>7 DEF AnswerIsInTheLedger, Owned

(* A new report is answered with the row that went into its ledger.        *)
LEMMA CommitAnswers ==
    ASSUME TypeOK, Ledgers, Places, NEW c \in Call, CommitFree(c) \/ CommitPaid(c)
    PROVE  AnswerIsInTheLedger'
<1>1. PICK d, row : d = job[c].charged /\ row = draft[c]
  OBVIOUS
<1>2. pc[c] = "written" /\ d \in Brokerage /\ row.key = job[c].key
  BY <1>1 DEF CommitFree, CommitPaid, Ledgers, Job, Places
<1>3. answer'.brokerage = d /\ answer'.key = row.key /\ answer'.report = row.report
  BY <1>1, <1>2 DEF CommitFree, CommitPaid, Finish
<1>4. \E x \in Owned(d)' : x.key = row.key /\ x.report = row.report
  <2>1. CASE CommitFree(c)
    <3>1. /\ free'[d] = free[d] \cup {row} /\ UNCHANGED paid
          /\ \A e \in Brokerage \ {d} : free'[e] = free[e]
      BY <1>1, <1>2, <2>1 DEF CommitFree, TypeOK
    <3> DEFINE entry == [number |-> row.ordinal, key |-> row.key, report |-> row.report]
    <3>3. entry \in Owned(d)'
      BY <1>2, <3>1, FreeRowOwned
    <3> QED BY <3>3
  <2>2. CASE CommitPaid(c)
    <3>1. job[c].brokerage = d
      BY <1>1, <1>2, <2>2, RowsApart DEF CommitPaid, Places, NextFree, NextPaid
    <3>2. /\ paid'[d] = paid[d] \cup {row} /\ UNCHANGED free
          /\ \A e \in Brokerage \ {d} : paid'[e] = paid[e]
      BY <1>1, <1>2, <2>2, <3>1 DEF CommitPaid, TypeOK
    <3> DEFINE entry == [number |-> row.number, key |-> row.key, report |-> row.report]
    <3>3. entry \in Owned(d)'
      BY <1>2, <3>2, PaidRowOwned
    <3> QED BY <3>3
  <2> QED BY <2>1, <2>2
<1> QED BY <1>3, <1>4 DEF AnswerIsInTheLedger, Owned

(* A report that was returned, new or retried, is the one the ledgers of   *)
(* the brokerage charged hold for that key, for people who change          *)
(* brokerage in the middle of a call too.                                  *)
THEOREM AnswersAreInTheLedgers == Spec => []AnswerIsInTheLedger
<1>1. Init => AnswerIsInTheLedger
  BY DEF Init, AnswerIsInTheLedger
<1>2. TypeOK /\ Ledgers /\ Locks /\ Places /\ AnswerIsInTheLedger /\ [Next]_issueVars
        => AnswerIsInTheLedger'
  <2> SUFFICES ASSUME TypeOK, Ledgers, Locks, Places, AnswerIsInTheLedger, [Next]_issueVars
               PROVE  AnswerIsInTheLedger'
    OBVIOUS
  <2>1. CASE answer' = Nothing
    BY <2>1 DEF AnswerIsInTheLedger
  <2>2. CASE UNCHANGED <<answer, free, paid>>
    BY <2>2 DEF AnswerIsInTheLedger, Owned
  <2>3. ASSUME NEW c \in Call, NEW word, Refuse(c, word) PROVE AnswerIsInTheLedger'
    <3>1. answer'.report = Nothing
      BY <2>3 DEF Refuse, Finish
    <3> QED BY <3>1 DEF AnswerIsInTheLedger
  <2> QED BY <2>1, <2>2, <2>3, WhoAnswers, ReplayAnswers, CommitAnswers
<1> QED BY <1>1, <1>2, TypeCorrect, LocksHold, Bookkeeping, PTL DEF Spec

-----------------------------------------------------------------------------
(* Which refusals speak of an allotment that is used up, and what such a   *)
(* call has looked up by then.                                             *)
LEMMA WhoIsUsedUp ==
    ASSUME TypeOK, Ledgers, Locks, Keys, [Next]_issueVars,
           answer' # Nothing, answer'.word \in {"EVALUATION_COMPLETE", "ALLOTMENT_COMPLETE"}
    PROVE  \/ UNCHANGED <<answer, free, paid>>
           \/ /\ UNCHANGED <<free, paid>>
              /\ \E c \in Call :
                   /\ answer'.brokerage = job[c].charged /\ answer'.key = job[c].key
                   /\ FreeWithKey(job[c].charged, job[c].key) = {}
                   /\ PaidWithKey(job[c].charged, job[c].key) = {}
<1> DEFINE UsedUp == {"EVALUATION_COMPLETE", "ALLOTMENT_COMPLETE"}
<1>1. CASE WorldSteps
  BY <1>1 DEF WorldSteps, Tick, PlanOrAccountMoves, RevokeEvaluation, Leave, Join
<1>2. ASSUME NEW c \in Call, CallSteps(c)
      PROVE  /\ UNCHANGED <<free, paid>>
             /\ answer'.brokerage = job[c].charged /\ answer'.key = job[c].key
             /\ FreeWithKey(job[c].charged, job[c].key) = {}
             /\ PaidWithKey(job[c].charged, job[c].key) = {}
  <2>1. \A label, row : ~Goto(c, label) /\ ~Write(c, row)
    BY DEF Goto, Write
  <2>2. \A word, row : Refuse(c, word) => /\ UNCHANGED <<free, paid>> /\ word \in UsedUp
                                          /\ answer'.brokerage = job[c].charged /\ answer'.key = job[c].key
    BY DEF Refuse, Finish, ledgerVars
  <2>3. \A row : ~Replay(c, row)
    BY DEF Replay, Finish
  <2>4. ~CommitFree(c) /\ ~CommitPaid(c)
    BY DEF CommitFree, CommitPaid, Finish
  <2>5. \/ /\ pc[c] = "issuing" /\ FreeWithKey(job[c].charged, job[c].key) = {}
           /\ Refuse(c, "EVALUATION_COMPLETE")
        \/ pc[c] = "paid" /\ Refuse(c, "ALLOTMENT_COMPLETE")
    <3>1. ~Refuse(c, "NOT_ENTITLED") /\ ~Refuse(c, "SNAPSHOT_REFUSED") /\ ~Refuse(c, "LOST")
      BY <2>2
    <3>2. ~TakeLock(c) /\ ~TakeFreeLock(c) /\ ~Lose(c)
          /\ ~\E u \in User, k \in Key, b \in Brokerage : Start(c, u, k, b)
      BY <2>1, <3>1 DEF Start, TakeLock, TakeFreeLock, Lose
    <3>3. ~AskAgain(c) /\ ~Choose(c) /\ ~AskFree(c)
      BY <2>1, <2>3, <3>1 DEF AskAgain, Choose, AskFree
    <3>4. IssueFree(c) \/ IssuePaid(c)
      BY <1>2, <2>4, <3>2, <3>3 DEF CallSteps, Step
    <3>5. CASE IssueFree(c)
      BY <2>1, <2>3, <3>1, <3>5 DEF IssueFree
    <3>6. CASE IssuePaid(c)
      BY <2>1, <3>1, <3>6 DEF IssuePaid
    <3> QED BY <3>4, <3>5, <3>6
  <2> QED BY <2>2, <2>5 DEF Keys, Checked, Holding
<1>3. CASE UNCHANGED issueVars
  BY <1>3 DEF issueVars
<1> QED BY <1>1, <1>2, <1>3 DEF Next

(* While nobody changes brokerage, no call is told that an allotment is    *)
(* used up for a key that was charged, by either ledger: its retry returns *)
(* the report (evaluation-entitlement.sql 82).                             *)
THEOREM SettledRetryIsNotUsedUp ==
    ASSUME Settlement PROVE Spec => []ChargedKeyIsNeverRefusedAsUsedUp
<1>1. Init => ChargedKeyIsNeverRefusedAsUsedUp
  BY DEF Init, ChargedKeyIsNeverRefusedAsUsedUp
<1>2. TypeOK /\ Ledgers /\ Locks /\ Keys /\ ChargedKeyIsNeverRefusedAsUsedUp /\ [Next]_issueVars
        => ChargedKeyIsNeverRefusedAsUsedUp'
  <2> SUFFICES ASSUME TypeOK, Ledgers, Locks, Keys, ChargedKeyIsNeverRefusedAsUsedUp, [Next]_issueVars,
                      answer' # Nothing,
                      answer'.word \in {"EVALUATION_COMPLETE", "ALLOTMENT_COMPLETE"}
               PROVE  \A x \in Owned(answer.brokerage)' : x.key # answer'.key
    BY DEF ChargedKeyIsNeverRefusedAsUsedUp
  <2>1. CASE UNCHANGED <<answer, free, paid>>
    BY <2>1 DEF ChargedKeyIsNeverRefusedAsUsedUp, Owned
  <2>2. ASSUME NEW c \in Call, UNCHANGED <<free, paid>>,
               answer'.brokerage = job[c].charged, answer'.key = job[c].key,
               FreeWithKey(job[c].charged, job[c].key) = {},
               PaidWithKey(job[c].charged, job[c].key) = {}
        PROVE  \A x \in Owned(answer.brokerage)' : x.key # answer'.key
    BY <2>2 DEF Owned, FreeWithKey, PaidWithKey
  <2> QED BY <2>1, <2>2, WhoIsUsedUp
<1> QED BY <1>1, <1>2, TypeCorrect, LocksHold, SettledKeys, PTL DEF Spec

-----------------------------------------------------------------------------
(* The numbers of a brokerage's reports: the free series, then the paid.   *)
LEMMA OwnedNumbers ==
    ASSUME Series, NEW b \in Brokerage
    PROVE  {x.number : x \in Owned(b)}
             = (1..Cardinality(free[b])) \cup ((FreeLimit + 1)..(FreeLimit + Cardinality(paid[b])))
<1> DEFINE F(x) == [number |-> x.ordinal, key |-> x.key, report |-> x.report]
           P(x) == [number |-> x.number, key |-> x.key, report |-> x.report]
<1>1. {x.number : x \in Owned(b)} = {x.ordinal : x \in free[b]} \cup {x.number : x \in paid[b]}
  <2>1. \A x : F(x).number = x.ordinal /\ P(x).number = x.number
    OBVIOUS
  <2>2. Owned(b) = {F(x) : x \in free[b]} \cup {P(x) : x \in paid[b]}
    BY DEF Owned
  <2> HIDE DEF F, P
  <2>3. {x.number : x \in Owned(b)} = {F(x).number : x \in free[b]} \cup {P(x).number : x \in paid[b]}
    BY <2>2
  <2> QED BY <2>1, <2>3
<1> QED BY <1>1 DEF Series

(* A row that a step adds to a brokerage, in the words of ReportNumbers.   *)
LEMMA ChargeMaps ==
    ASSUME NEW d \in Brokerage, NEW n, NEW row,
           evaluation[d] # "revoked",
           \A b \in Brokerage : evaluation'[b] = "revoked" <=> evaluation[b] = "revoked",
           n \notin {x.number : x \in Owned(d)},
           n \in {1, FreeLimit + 1} \/ n - 1 \in {x.number : x \in Owned(d)},
           \A x \in Owned(d) : x.key # row.key,
           \A b \in Brokerage : \A x \in Owned(b) : x.report # row.report,
           Owned(d)' = Owned(d) \cup {[number |-> n, key |-> row.key, report |-> row.report]},
           \A b \in Brokerage \ {d} : Owned(b)' = Owned(b)
    PROVE  Numbers!Next
<1> DEFINE reports == [b \in Brokerage |-> Owned(b)]
           closed == [b \in Brokerage |-> evaluation[b] = "revoked"]
           entry == [number |-> n, key |-> row.key, report |-> row.report]
<1>1. ~closed[d] /\ closed' = closed
  OBVIOUS
<1>2. Numbers!Numbers(d) = {x.number : x \in Owned(d)}
  BY DEF Numbers!Numbers
<1>3. Numbers!IsNext(d, n)
  BY <1>2 DEF Numbers!IsNext
<1>4. \A b \in Brokerage : reports[b] = Owned(b) /\ reports'[b] = Owned(b)'
  OBVIOUS
<1>5. reports' = [reports EXCEPT ![d] = reports[d] \cup {entry}]
  OBVIOUS
<1>6. Numbers!Charge(d, n, row.key, row.report)
  BY <1>1, <1>3, <1>4, <1>5 DEF Numbers!Charge
<1>7. entry \in reports'[d] /\ entry.number = n /\ entry.key = row.key /\ entry.report = row.report
  BY <1>4
<1>8. \E x \in reports'[d] : Numbers!Charge(d, x.number, x.key, x.report)
  <2> HIDE DEF reports, entry
  <2> QED BY <1>6, <1>7
<1> QED BY <1>8 DEF Numbers!Next

(* What a commit finds in the ledgers of its brokerage.                    *)
LEMMA CommitIsNew ==
    ASSUME TypeOK, Ledgers, Locks, Keys, Drafts, Places, Accounts, NEW c \in Call,
           CommitFree(c) \/ CommitPaid(c), NEW d, d = job[c].charged, NEW row, row = draft[c]
    PROVE  /\ pc[c] = "written" /\ d \in Brokerage /\ d = job[c].brokerage
           /\ evaluation[d] # "revoked"
           /\ \A x \in Owned(d) : x.key # row.key
           /\ \A b \in Brokerage : \A x \in Owned(b) : x.report # row.report
<1>1. pc[c] = "written" /\ d \in Brokerage /\ d = job[c].brokerage /\ row # Nothing
  BY RowAssumption DEF CommitFree, CommitPaid, Ledgers, Job, Keys
<1>2. evaluation[d] # "revoked"
  BY <1>1 DEF Locks
<1>3. \A x \in free[d] \cup paid[d] : x.key # row.key
  BY <1>1 DEF Keys, Checked, Holding, FreeWithKey, PaidWithKey
<1>4. \A x \in Owned(d) : x.key # row.key
  BY <1>3 DEF Owned
<1>5. \A b \in Brokerage : \A x \in Owned(b) : x.report # row.report
  BY <1>1 DEF Drafts, Accounts, EachReportOwnedOnce
<1> QED BY <1>1, <1>2, <1>4, <1>5

LEMMA CommitMaps ==
    ASSUME TypeOK, Ledgers, Locks, Keys, Drafts, Places, Accounts, NEW c \in Call,
           CommitFree(c) \/ CommitPaid(c)
    PROVE  Numbers!Next
<1>1. PICK d, row : d = job[c].charged /\ row = draft[c]
  OBVIOUS
<1>2. /\ pc[c] = "written" /\ d \in Brokerage /\ d = job[c].brokerage
      /\ evaluation[d] # "revoked"
      /\ \A x \in Owned(d) : x.key # row.key
      /\ \A b \in Brokerage : \A x \in Owned(b) : x.report # row.report
  BY <1>1, CommitIsNew
<1> DEFINE n == Cardinality(free[d])
           m == Cardinality(paid[d])
           numbers == {x.number : x \in Owned(d)}
<1>3. /\ n \in Nat /\ m \in Nat /\ n <= FreeLimit /\ FreeLimit \in Nat
      /\ numbers = (1..n) \cup ((FreeLimit + 1)..(FreeLimit + m))
  BY <1>2, CountType, OwnedNumbers, IssueAssumption DEF Accounts, Series
<1>4. CASE CommitFree(c)
  <2>1. row.ordinal = n + 1 /\ n + 1 <= FreeLimit /\ evaluation[d] = "active"
    <3>1. row \in FreeRow /\ row.ordinal \in 1..FreeLimit
      BY <1>1, <1>4 DEF CommitFree, FreeAllowed
    <3>2. ~NextPaid(c)
      BY <1>1, <3>1, RowsApart DEF NextPaid
    <3>3. row.ordinal = n + 1 /\ evaluation[d] = "active"
      BY <1>1, <1>2, <3>2 DEF Places, NextFree
    <3> HIDE DEF n
    <3> QED BY <1>3, <3>1, <3>3
  <2>2. /\ free'[d] = free[d] \cup {row} /\ UNCHANGED paid
        /\ \A e \in Brokerage \ {d} : free'[e] = free[e]
        /\ \A b \in Brokerage : evaluation'[b] = "revoked" <=> evaluation[b] = "revoked"
    BY <1>1, <1>2, <1>4, <2>1 DEF CommitFree, TypeOK
  <2>3. row.ordinal \notin numbers /\ (row.ordinal = 1 \/ row.ordinal - 1 \in numbers)
    <3> HIDE DEF n, m, numbers
    <3> QED BY <1>3, <2>1
  <2>4. /\ Owned(d)' = Owned(d) \cup {[number |-> row.ordinal, key |-> row.key, report |-> row.report]}
        /\ \A b \in Brokerage \ {d} : Owned(b)' = Owned(b)
    BY <1>2, <2>2, FreeRowOwned
  <2>5. row.ordinal \in {1, FreeLimit + 1} \/ row.ordinal - 1 \in numbers
    BY <2>3
  <2>6. \A b \in Brokerage : evaluation'[b] = "revoked" <=> evaluation[b] = "revoked"
    BY <2>2
  <2>7. row.ordinal \notin {x.number : x \in Owned(d)}
    BY <2>3
  <2>8. PICK i : i = row.ordinal
    OBVIOUS
  <2>9. Owned(d)' = Owned(d) \cup {[number |-> i, key |-> row.key, report |-> row.report]}
    BY <2>4, <2>8
  <2>10. /\ i \notin {x.number : x \in Owned(d)}
         /\ i \in {1, FreeLimit + 1} \/ i - 1 \in {x.number : x \in Owned(d)}
    BY <2>5, <2>7, <2>8
  <2>11. \A b \in Brokerage \ {d} : Owned(b)' = Owned(b)
    BY <2>4
  <2> QED BY <1>2, <2>6, <2>9, <2>10, <2>11, ChargeMaps
<1>5. CASE CommitPaid(c)
  <2>1. row.number = FreeLimit + m + 1
    BY <1>1, <1>2, <1>5, RowsApart DEF CommitPaid, Places, NextFree, NextPaid, NextNumber
  <2>2. /\ paid'[d] = paid[d] \cup {row} /\ UNCHANGED <<free, evaluation>>
        /\ \A e \in Brokerage \ {d} : paid'[e] = paid[e]
    BY <1>1, <1>2, <1>5 DEF CommitPaid, TypeOK
  <2>3. row.number \notin numbers /\ (row.number = FreeLimit + 1 \/ row.number - 1 \in numbers)
    <3> HIDE DEF n, m, numbers
    <3> QED BY <1>3, <2>1
  <2>4. /\ Owned(d)' = Owned(d) \cup {[number |-> row.number, key |-> row.key, report |-> row.report]}
        /\ \A b \in Brokerage \ {d} : Owned(b)' = Owned(b)
    BY <1>2, <2>2, PaidRowOwned
  <2>5. row.number \in {1, FreeLimit + 1} \/ row.number - 1 \in numbers
    BY <2>3
  <2>6. \A b \in Brokerage : evaluation'[b] = "revoked" <=> evaluation[b] = "revoked"
    BY <2>2
  <2>7. row.number \notin {x.number : x \in Owned(d)}
    BY <2>3
  <2>8. PICK i : i = row.number
    OBVIOUS
  <2>9. Owned(d)' = Owned(d) \cup {[number |-> i, key |-> row.key, report |-> row.report]}
    BY <2>4, <2>8
  <2>10. /\ i \notin {x.number : x \in Owned(d)}
         /\ i \in {1, FreeLimit + 1} \/ i - 1 \in {x.number : x \in Owned(d)}
    BY <2>5, <2>7, <2>8
  <2>11. \A b \in Brokerage \ {d} : Owned(b)' = Owned(b)
    BY <2>4
  <2> QED BY <1>2, <2>6, <2>9, <2>10, <2>11, ChargeMaps
<1> QED BY <1>4, <1>5

(* A step that charges nothing is one that revokes, or a stutter of the    *)
(* contract.                                                               *)
LEMMA QuietMaps ==
    ASSUME TypeOK, [Next]_issueVars, \A c \in Call : ~CommitFree(c) /\ ~CommitPaid(c)
    PROVE  [Numbers!Next]_Numbers!numbersVars
<1> USE DEF worldVars, ledgerVars, callVars
<1>1. UNCHANGED <<free, paid>>
  BY WhoSettles
<1>2. \A b \in Brokerage : Owned(b)' = Owned(b)
  BY <1>1 DEF Owned
<1>3. CASE UNCHANGED evaluation
  BY <1>2, <1>3 DEF Numbers!numbersVars
<1>4. ASSUME NEW b \in Brokerage, RevokeEvaluation(b) PROVE Numbers!Next
  <2>1. evaluation' = [evaluation EXCEPT ![b] = "revoked"]
    BY <1>4 DEF RevokeEvaluation
  <2>2. Numbers!Close(b)
    BY <1>2, <2>1 DEF TypeOK, Numbers!Close
  <2> QED BY <2>2 DEF Numbers!Next
<1>5. UNCHANGED evaluation \/ \E b \in Brokerage : RevokeEvaluation(b)
  <2>1. CASE WorldSteps
    BY <2>1 DEF WorldSteps, Tick, PlanOrAccountMoves, Leave, Join
  <2>2. ASSUME NEW c \in Call, CallSteps(c) PROVE UNCHANGED evaluation
    <3>1. \A word, row : Refuse(c, word) \/ Replay(c, row) => UNCHANGED evaluation
      BY DEF Refuse, Replay
    <3>2. \A label, row : Goto(c, label) \/ Write(c, row) => UNCHANGED evaluation
      BY DEF Goto, Write
    <3> QED BY <2>2, <3>1, <3>2 DEF CallSteps, Step, Start, TakeLock, TakeFreeLock, AskAgain, Choose,
                                    AskFree, IssueFree, IssuePaid, Lose
  <2>3. CASE UNCHANGED issueVars
    BY <2>3 DEF issueVars
  <2> QED BY <2>1, <2>2, <2>3 DEF Next
<1> QED BY <1>3, <1>4, <1>5

(* The ledgers, with all the steps, locks and retries of the calls that    *)
(* write them, do nothing the contract of ReportNumbers does not allow,    *)
(* while nobody changes brokerage.                                         *)
THEOREM SettledImplementsNumbers == ASSUME Settlement PROVE Spec => ImplementsNumbers
<1>1. Init => Numbers!Init
  <2> SUFFICES ASSUME Init PROVE Numbers!Init
    OBVIOUS
  <2>1. \A b \in Brokerage : Owned(b) = {} /\ evaluation[b] # "revoked"
    BY DEF Init, Owned
  <2> QED BY <2>1 DEF Numbers!Init
<1>2. TypeOK /\ Ledgers /\ Locks /\ Keys /\ Drafts /\ Places /\ Accounts /\ [Next]_issueVars
        => [Numbers!Next]_Numbers!numbersVars
  BY QuietMaps, CommitMaps
<1> QED BY <1>1, <1>2, TypeCorrect, LocksHold, SettledKeys, Bookkeeping, PTL
        DEF Spec, ImplementsNumbers, Numbers!Spec

-----------------------------------------------------------------------------
(* Why no calls wait for one another in a circle.  Only the free path asks *)
(* for a second row while it holds one, and only of a brokerage its caller *)
(* has joined since; joining needed that row, so a call that holds it now  *)
(* took it later.  Ranked by when they took the row of their brokerage,    *)
(* calls wait only for later ones.                                         *)

(* Whose row a call is waiting for.                                        *)
WaitsFor(c) ==
    {e \in Call \ {c} : \/ pc[c] = "waiting" /\ lock[job[c].brokerage] = e
                        \/ pc[c] = "queued" /\ lock[job[c].charged] = e}

(* Of any calls, one waits for none of the others: the safety half of      *)
(* CallsEnd.                                                               *)
NoCircleOfWaits == \A S \in SUBSET Call : S # {} => \E c \in S : WaitsFor(c) \cap S = {}

(* A row is held by a call at work: for its brokerage, or for the one it   *)
(* charges.                                                                *)
Owners ==
    \A b \in Brokerage, c \in Call : lock[b] = c =>
        /\ pc[c] \in Holding
        /\ job[c].brokerage = b \/ (pc[c] \in {"issuing", "written"} /\ job[c].charged = b)

(* The brokerage whose row the free path will ask for, or has asked for.   *)
BoundFor(c) == IF pc[c] = "queued" THEN job[c].charged ELSE memberOf[job[c].user]

Later(c, e) ==
    /\ pc[c] \in {"choosing", "free", "queued"}
    /\ BoundFor(c) \in Brokerage \ {job[c].brokerage}
    /\ pc[e] \in Holding /\ job[e].brokerage = BoundFor(c)

Ranked == \E n \in Nat : \E rank \in [Call -> 1..n] : \A c, e \in Call : Later(c, e) => rank[c] < rank[e]

(* A step that makes no call later than another keeps the ranks.           *)
LEMMA SameRanks ==
    ASSUME Ranked, \A c, e \in Call : Later(c, e)' => Later(c, e)
    PROVE  Ranked'
BY DEF Ranked

LEMMA EndWaits ==
    ASSUME TypeOK, Ledgers, Locks, Owners, Ranked, NEW c \in Call, NEW word, NEW report,
           Finish(c, word, report), UNCHANGED memberOf
    PROVE  Owners' /\ Ranked'
<1>1. pc'[c] = "idle" /\ \A e \in Call \ {c} : pc'[e] = pc[e] /\ job'[e] = job[e]
  BY DEF Finish, TypeOK
<1>2. \A b \in Brokerage, e \in Call : lock'[b] = e => lock[b] = e /\ e # c
  BY IssueAssumption DEF Finish, Release, TypeOK
<1>3. Owners'
  BY <1>1, <1>2 DEF Owners
<1>4. \A d, e \in Call : Later(d, e)' => Later(d, e)
  BY <1>1 DEF Later, BoundFor, Holding
<1> QED BY <1>3, <1>4, SameRanks

(* A call that moves on, keeping its rows and bound for no new brokerage.  *)
LEMMA MoveWaits ==
    ASSUME TypeOK, Ledgers, Owners, Ranked, NEW c \in Call, NEW label \in Labels,
           pc' = [pc EXCEPT ![c] = label], UNCHANGED <<lock, memberOf>>,
           pc[c] \in Holding, label \in Holding,
           \A e \in Call \ {c} : job'[e] = job[e],
           job'[c].brokerage = job[c].brokerage,
           pc[c] \in {"issuing", "written"} =>
               label \in {"issuing", "written"} /\ job'[c].charged = job[c].charged,
           label \in {"choosing", "free", "queued"} =>
               \/ BoundFor(c)' = job[c].brokerage
               \/ pc[c] \in {"choosing", "free", "queued"} /\ BoundFor(c)' = BoundFor(c)
    PROVE  Owners' /\ Ranked'
<1>1. pc'[c] = label /\ \A e \in Call \ {c} : pc'[e] = pc[e]
  BY DEF TypeOK
<1>2. Owners'
  BY <1>1 DEF Owners
<1>3. ASSUME NEW d \in Call, NEW e \in Call, Later(d, e)' PROVE Later(d, e)
  <2>1. pc[e] \in Holding /\ job'[e].brokerage = job[e].brokerage
    BY <1>1, <1>3 DEF Later
  <2>2. CASE d = c
    BY <1>1, <1>3, <2>1, <2>2 DEF Later
  <2>3. CASE d # c
    BY <1>1, <1>3, <2>1, <2>3 DEF Later, BoundFor
  <2> QED BY <2>2, <2>3
<1> QED BY <1>2, <1>3, SameRanks

LEMMA WorldWaits ==
    ASSUME TypeOK, Ledgers, Locks, Owners, Ranked, WorldSteps
    PROVE  Owners' /\ Ranked'
<1> USE DEF worldVars, ledgerVars, callVars
<1>1. UNCHANGED <<lock, pc, job>>
  BY DEF WorldSteps, Tick, PlanOrAccountMoves, RevokeEvaluation, Leave, Join
<1>2. Owners'
  BY <1>1 DEF Owners
<1>3. CASE UNCHANGED memberOf
  BY <1>1, <1>2, <1>3, SameRanks DEF Later, BoundFor
<1>4. ASSUME NEW u \in User, Leave(u) PROVE Ranked'
  <2>1. \A v \in User : memberOf'[v] \in {memberOf[v], Nobody}
    BY <1>4 DEF Leave, TypeOK
  <2>2. \A c \in Call : pc[c] # "idle" => job[c].user \in User
    BY DEF Ledgers, Job
  <2>3. \A c \in Call : pc[c] # "idle" => BoundFor(c)' \in {BoundFor(c), Nobody}
    BY <1>1, <2>1, <2>2 DEF BoundFor
  <2>4. Nobody \notin Brokerage
    BY IssueAssumption
  <2>5. \A c, e \in Call : Later(c, e)' => Later(c, e)
    BY <1>1, <2>3, <2>4 DEF Later
  <2> QED BY <2>5, SameRanks
<1>5. ASSUME NEW u \in User, NEW b \in Brokerage, Join(u, b) PROVE Ranked'
  <2>1. \A v \in User : memberOf'[v] \in {memberOf[v], b}
    BY <1>5 DEF Join, TypeOK
  <2>2. \A c \in Call : pc[c] # "idle" => job[c].user \in User
    BY DEF Ledgers, Job
  <2>3. \A c \in Call : pc[c] # "idle" => BoundFor(c)' \in {BoundFor(c), b}
    BY <1>1, <2>1, <2>2 DEF BoundFor
  <2>4. \A e \in Call : lock[b] # e
    BY <1>5, IssueAssumption DEF Join
  <2>5. \A e \in Call : pc[e] \in Holding => job[e].brokerage # b
    BY <2>4 DEF Locks
  <2>6. \A c, e \in Call : Later(c, e)' => Later(c, e)
    BY <1>1, <2>3, <2>5 DEF Later
  <2> QED BY <2>6, SameRanks
<1> QED BY <1>2, <1>3, <1>4, <1>5 DEF WorldSteps, Tick, PlanOrAccountMoves, RevokeEvaluation

(* The call that takes the row of its brokerage is ranked after all others.*)
LEMMA TakingRanksLast ==
    ASSUME TypeOK, Ledgers, Locks, Owners, Ranked, NEW c \in Call, TakeLock(c)
    PROVE  Owners' /\ Ranked'
<1>1. UNCHANGED <<job, memberOf>> /\ lock' = [lock EXCEPT ![job[c].brokerage] = c]
      /\ pc' = [pc EXCEPT ![c] = "holding"] /\ pc[c] = "waiting"
  BY DEF TakeLock, Goto, worldVars
<1>2. pc'[c] = "holding" /\ \A e \in Call \ {c} : pc'[e] = pc[e]
  BY <1>1 DEF TypeOK
<1>3. \A b \in Brokerage : lock'[b] = lock[b] \/ (lock'[b] = c /\ b = job[c].brokerage)
  BY <1>1 DEF TypeOK
<1>4. Owners'
  BY <1>1, <1>2, <1>3 DEF Owners, Holding
<1>5. PICK n \in Nat : \E rank \in [Call -> 1..n] : \A d, e \in Call : Later(d, e) => rank[d] < rank[e]
  BY DEF Ranked
<1>6. PICK rank \in [Call -> 1..n] : \A d, e \in Call : Later(d, e) => rank[d] < rank[e]
  BY <1>5
<1> DEFINE next == [rank EXCEPT ![c] = n + 1]
<1>7. next \in [Call -> 1..(n + 1)] /\ next[c] = n + 1 /\ \A e \in Call \ {c} : next[e] = rank[e]
  OBVIOUS
<1>8. \A d, e \in Call : Later(d, e)' => d # c /\ (e # c => Later(d, e))
  BY <1>1, <1>2 DEF Later, BoundFor
<1>9. \A d \in Call : rank[d] \in 1..n
  OBVIOUS
<1>10. \A d, e \in Call : Later(d, e)' => next[d] < next[e]
  <2> HIDE DEF next
  <2> QED BY <1>6, <1>7, <1>8, <1>9
<1>11. n + 1 \in Nat
  OBVIOUS
<1>12. Ranked'
  <2> HIDE DEF next
  <2> QED BY <1>7, <1>10, <1>11 DEF Ranked
<1> QED BY <1>4, <1>12

LEMMA CallWaits ==
    ASSUME TypeOK, Ledgers, Locks, Owners, Ranked, NEW c \in Call, CallSteps(c)
    PROVE  Owners' /\ Ranked'
<1> USE DEF worldVars, ledgerVars
<1>1. \A word \in Refusals : Refuse(c, word) => Owners' /\ Ranked'
  BY EndWaits DEF Refuse
<1>2. \A row : Replay(c, row) => Owners' /\ Ranked'
  BY EndWaits DEF Replay
<1>3. ASSUME NEW u \in User, NEW k \in Key, NEW b \in Brokerage, Start(c, u, k, b)
      PROVE  Owners' /\ Ranked'
  <2>1. /\ UNCHANGED <<lock, memberOf>>
        /\ pc[c] = "idle" /\ pc'[c] = "waiting"
        /\ \A e \in Call \ {c} : pc'[e] = pc[e] /\ job'[e] = job[e]
    BY <1>3 DEF Start, Goto, TypeOK
  <2>2. \A d \in Brokerage : lock[d] # c
    BY <2>1 DEF Owners, Holding
  <2>3. Owners'
    BY <2>1, <2>2 DEF Owners
  <2>4. \A d, e \in Call : Later(d, e)' => Later(d, e)
    BY <2>1 DEF Later, BoundFor, Holding
  <2> QED BY <2>3, <2>4, SameRanks
<1>4. CASE TakeLock(c)
  BY <1>4, TakingRanksLast
<1>5. CASE TakeFreeLock(c)
  <2>1. UNCHANGED <<job, memberOf>> /\ lock' = [lock EXCEPT ![job[c].charged] = c]
        /\ pc' = [pc EXCEPT ![c] = "issuing"] /\ pc[c] = "queued"
    BY <1>5 DEF TakeFreeLock, Goto
  <2>2. pc'[c] = "issuing" /\ \A e \in Call \ {c} : pc'[e] = pc[e]
    BY <2>1 DEF TypeOK
  <2>3. \A b \in Brokerage : lock'[b] = lock[b] \/ (lock'[b] = c /\ b = job[c].charged)
    BY <2>1 DEF TypeOK
  <2>4. Owners'
    BY <2>1, <2>2, <2>3 DEF Owners, Holding
  <2>5. \A d, e \in Call : Later(d, e)' => Later(d, e)
    BY <2>1, <2>2 DEF Later, BoundFor, Holding
  <2> QED BY <2>4, <2>5, SameRanks
<1>6. CASE AskAgain(c)
  <2>1. CASE /\ Goto(c, "choosing") /\ UNCHANGED <<lock, job>>
             /\ Entitled(job[c].user, job[c].brokerage) /\ pc[c] = "holding"
    <3>1. BoundFor(c)' = job[c].brokerage
      BY <2>1 DEF Goto, Entitled, BoundFor, TypeOK
    <3> QED BY <2>1, <3>1, MoveWaits DEF Goto, Labels, Holding
  <2> QED BY <1>1, <1>2, <1>6, <2>1 DEF AskAgain, Refusals
<1>7. CASE Choose(c)
  <2>1. pc[c] = "choosing" /\ job[c] \in Job /\ UNCHANGED memberOf
    BY <1>7 DEF Choose, Goto, Ledgers
  <2>2. CASE Goto(c, "free") /\ UNCHANGED <<lock, job>>
    <3>1. BoundFor(c)' = BoundFor(c)
      BY <2>1, <2>2 DEF Goto, BoundFor, TypeOK
    <3> QED BY <2>1, <2>2, <3>1, MoveWaits DEF Goto, Labels, Holding
  <2>3. CASE Goto(c, "paid") /\ UNCHANGED lock /\ job' = [job EXCEPT ![c].plan = plan[job[c].brokerage]]
    <3>1. job'[c].brokerage = job[c].brokerage /\ \A e \in Call \ {c} : job'[e] = job[e]
      BY <2>1, <2>3 DEF TypeOK, Job
    <3> QED BY <2>1, <2>3, <3>1, MoveWaits DEF Goto, Labels, Holding
  <2> QED BY <1>7, <2>2, <2>3 DEF Choose
<1>8. CASE AskFree(c)
  <2>1. ASSUME NEW d \in Brokerage, Entitled(job[c].user, d),
               job' = [job EXCEPT ![c].charged = d], Goto(c, "queued"), UNCHANGED lock
        PROVE  Owners' /\ Ranked'
    <3>1. pc[c] = "free" /\ job[c] \in Job
      BY <1>8 DEF AskFree, Ledgers
    <3>2. job'[c].brokerage = job[c].brokerage /\ job'[c].charged = d
          /\ \A e \in Call \ {c} : job'[e] = job[e]
      BY <2>1, <3>1 DEF TypeOK, Job
    <3>3. BoundFor(c) = d /\ BoundFor(c)' = d
      BY <2>1, <3>1, <3>2 DEF Goto, Entitled, BoundFor, TypeOK
    <3> QED BY <2>1, <3>1, <3>2, <3>3, MoveWaits DEF Goto, Labels, Holding
  <2> QED BY <1>1, <1>8, <2>1 DEF AskFree, Refusals
<1>9. ASSUME NEW row, Write(c, row), pc[c] \in {"issuing", "paid"} PROVE Owners' /\ Ranked'
  BY <1>9, MoveWaits DEF Write, Labels, Holding
<1>10. CASE IssueFree(c)
  BY <1>1, <1>2, <1>9, <1>10 DEF IssueFree, Refusals
<1>11. CASE IssuePaid(c)
  BY <1>1, <1>9, <1>11 DEF IssuePaid, Refusals
<1>12. CASE CommitFree(c) \/ CommitPaid(c)
  BY <1>12, EndWaits DEF CommitFree, CommitPaid
<1>13. CASE Lose(c)
  BY <1>1, <1>13 DEF Lose, Refusals
<1> QED BY <1>3, <1>4, <1>5, <1>6, <1>7, <1>8, <1>10, <1>11, <1>12, <1>13 DEF CallSteps, Step

LEMMA RanksHold == Spec => [](Owners /\ Ranked)
<1>1. Init => Owners /\ Ranked
  <2> SUFFICES ASSUME Init PROVE Owners /\ Ranked
    OBVIOUS
  <2>1. Owners
    BY IssueAssumption DEF Init, Owners
  <2>2. \A c, e \in Call : ~Later(c, e)
    BY DEF Init, Later
  <2>3. [c \in Call |-> 1] \in [Call -> 1..1] /\ 1 \in Nat
    OBVIOUS
  <2> QED BY <2>1, <2>2, <2>3 DEF Ranked
<1>2. TypeOK /\ Ledgers /\ Locks /\ Owners /\ Ranked /\ [Next]_issueVars => (Owners /\ Ranked)'
  <2> SUFFICES ASSUME TypeOK, Ledgers, Locks, Owners, Ranked, [Next]_issueVars
               PROVE  Owners' /\ Ranked'
    OBVIOUS
  <2>1. CASE WorldSteps
    BY <2>1, WorldWaits
  <2>2. ASSUME NEW c \in Call, CallSteps(c) PROVE Owners' /\ Ranked'
    BY <2>2, CallWaits
  <2>3. CASE UNCHANGED issueVars
    BY <2>3, SameRanks DEF issueVars, Owners, Later, BoundFor
  <2> QED BY <2>1, <2>2, <2>3 DEF Next
<1> QED BY <1>1, <1>2, TypeCorrect, LocksHold, PTL DEF Spec

(* A call that waits for one that waits too is queued for its second row,  *)
(* and waits for a later one.                                              *)
LEMMA WaitsForLater ==
    ASSUME TypeOK, Ledgers, Locks, Owners, NEW c \in Call, NEW e \in WaitsFor(c),
           NEW f \in WaitsFor(e)
    PROVE  pc[e] = "queued" /\ (pc[c] = "queued" => Later(c, e))
<1>1. e \in Call \ {c} /\ pc[e] \in {"waiting", "queued"} /\ pc[c] \in {"waiting", "queued"}
  BY DEF WaitsFor
<1>2. job[c].brokerage \in Brokerage /\ job[c].charged \in Brokerage
  BY <1>1 DEF Ledgers, Job
<1>3. pc[e] = "queued"
  BY <1>1, <1>2 DEF WaitsFor, Owners, Holding
<1>4. ASSUME pc[c] = "queued" PROVE Later(c, e)
  <2>1. lock[job[c].charged] = e
    BY <1>4 DEF WaitsFor
  <2>2. job[e].brokerage = job[c].charged
    BY <1>1, <1>2, <1>3, <2>1 DEF Owners
  <2>3. lock[job[c].brokerage] = c
    BY <1>4 DEF Locks, Holding
  <2> QED BY <1>1, <1>2, <1>3, <1>4, <2>1, <2>2, <2>3 DEF Later, BoundFor, Holding
<1> QED BY <1>3, <1>4

LEMMA RankedWaitsEnd ==
    ASSUME TypeOK, Ledgers, Locks, Owners, Ranked
    PROVE  NoCircleOfWaits
<1> SUFFICES ASSUME NEW S \in SUBSET Call, S # {}, \A c \in S : WaitsFor(c) \cap S # {}
             PROVE  FALSE
  BY DEF NoCircleOfWaits
<1>1. PICK n \in Nat : \E rank \in [Call -> 1..n] : \A c, e \in Call : Later(c, e) => rank[c] < rank[e]
  BY DEF Ranked
<1>2. PICK rank \in [Call -> 1..n] : \A c, e \in Call : Later(c, e) => rank[c] < rank[e]
  BY <1>1
<1> DEFINE Queued == {c \in S : pc[c] = "queued"}
           Ranks == {rank[c] : c \in Queued}
<1>3. ASSUME NEW c \in S PROVE \E e \in Queued : pc[c] = "queued" => Later(c, e)
  <2>1. PICK e \in S : e \in WaitsFor(c)
    BY <1>3
  <2>2. PICK f : f \in WaitsFor(e)
    BY <2>1
  <2> QED BY <2>1, <2>2, WaitsForLater
<1>4. Queued # {}
  BY <1>3
<1>5. Ranks \subseteq 1..n /\ Ranks # {}
  BY <1>4
<1>6. PICK m \in Ranks : \A x \in Ranks : x <= m
  <2> HIDE DEF Ranks
  <2> QED BY <1>5, Largest
<1>7. PICK c \in Queued : rank[c] = m
  OBVIOUS
<1>8. PICK e \in Queued : Later(c, e)
  BY <1>3
<1>9. rank[c] < rank[e] /\ rank[e] \in Ranks
  BY <1>2, <1>8
<1>10. rank[c] \in 1..n /\ rank[e] \in 1..n
  OBVIOUS
<1>11. rank[e] <= rank[c]
  BY <1>6, <1>7, <1>9
<1> QED BY <1>9, <1>10, <1>11

(* No calls wait for one another in a circle, however many there are and   *)
(* however their callers move between brokerages: the free path takes an   *)
(* evaluation's row (evaluation-entitlement.sql 539) while it holds the    *)
(* one brokerage_report_issue took (brokerage-billing.sql 401), and        *)
(* redeeming an invite takes the row of the brokerage joined (405).        *)
THEOREM NoCallDeadlocks == Spec => []NoCircleOfWaits
BY RankedWaitsEnd, RanksHold, TypeCorrect, LocksHold, PTL
=============================================================================

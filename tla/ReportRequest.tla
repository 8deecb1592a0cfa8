---------------------------- MODULE ReportRequest ----------------------------
(***************************************************************************)
(* Asking for a report: the customer page, which keeps one key per attempt *)
(* and repeats it after a lost answer, and the report function, which      *)
(* reads the caller's trial and plan, does the work, and asks the database *)
(* to store and charge the report.                                         *)
(*                                                                         *)
(*   development-activity-reports.html                 run, post, onSession*)
(*   functions/get-development-activity-report         makeHandler         *)
(*   functions/_shared/admin-gate.ts                   authorizeReportCaller*)
(*                                                                         *)
(* One brokerage.  The database's issue is one step here; ReportIssue has  *)
(* its statements.  Answers may be lost, function instances may die, and   *)
(* an answer to a question the page gave up on is read by nobody.          *)
(***************************************************************************)
EXTENDS Naturals, FiniteSets

CONSTANTS
    Page, User, Address, Key,
    Request,        \* slots for requests in flight
    FreeLimit,      \* the free reports
    PaidLimit,      \* the reports of a paid month
    Nobody, Nothing

VARIABLES
    session,        \* who is signed in on a page
    attempt,        \* the page's key and the address it is for
    subject,        \* the address field
    waiting,        \* the request whose answer the page waits for
    sameSession,    \* whether sessionEpoch stands as it did at the press
    shown,          \* the report on the screen
    errand,         \* history: the keys sent for an address since an answer last came whole
    broken,         \* history: those of them whose answer broke off after its status
    request,        \* the requests the function is working on
    charges,        \* the ledger: what the database stored and charged
    paidPlan,       \* whether billing_plan_of says paid
    ended           \* whether the trial was revoked

pageVars == <<session, attempt, subject, waiting, sameSession, shown, errand, broken>>
databaseVars == <<charges, paidPlan, ended>>
requestVars == <<session, attempt, subject, waiting, sameSession, shown, errand, broken,
                 request, charges, paidPlan, ended>>

Attempt == [key : Key, address : Address]
Charge == [key : Key, address : Address, paid : BOOLEAN]
Refusals == {"signin", "forbidden", "used_up", "limited", "unavailable", "reused", "not_a_report"}
Answers == Refusals \cup {"free_of_charge", "charged", "replayed"}
Posted == [page : Page, user : User, key : Key, address : Address,
           pc : {"gate", "plan", "claim", "work", "issue", "replay", "answered"},
           complete : BOOLEAN, answer : Answers \cup {Nothing}]
Screen == [user : User, key : Key, address : Address, charged : BOOLEAN]

ASSUME RequestAssumption ==
    /\ FreeLimit \in Nat \ {0} /\ PaidLimit \in Nat \ {0}
    /\ Nobody \notin User
    /\ Nothing \notin Request \cup Address \cup Attempt \cup Posted \cup Screen \cup Answers

RequestInit ==
    /\ session = [p \in Page |-> Nobody]
    /\ attempt = [p \in Page |-> Nothing]
    /\ subject = [p \in Page |-> Nothing]
    /\ waiting = [p \in Page |-> Nothing]
    /\ sameSession = [p \in Page |-> TRUE]
    /\ shown = [p \in Page |-> Nothing]
    /\ errand = [p \in Page |-> {}] /\ broken = [p \in Page |-> {}]
    /\ request = [q \in Request |-> Nothing]
    /\ charges = {}
    /\ paidPlan = FALSE
    /\ ended = FALSE

-----------------------------------------------------------------------------
(* The page.                                                               *)

ErrandEnds(p) ==
    /\ errand' = [errand EXCEPT ![p] = {}]
    /\ broken' = [broken EXCEPT ![p] = {}]

(* onSession: another person, or nobody, is signed in.  The report on      *)
(* screen goes; the attempt goes only with a sign-out.                     *)
SessionMoves(p) ==
    \E u \in (User \cup {Nobody}) \ {session[p]} :
        /\ session' = [session EXCEPT ![p] = u]
        /\ sameSession' = [sameSession EXCEPT ![p] = FALSE]
        /\ shown' = [shown EXCEPT ![p] = Nothing]
        /\ attempt' = IF u = Nobody THEN [attempt EXCEPT ![p] = Nothing] ELSE attempt
        /\ IF u = Nobody THEN ErrandEnds(p) ELSE UNCHANGED <<errand, broken>>
        /\ UNCHANGED <<subject, waiting, request, databaseVars>>

UsedKeys ==
    {attempt[p].key : p \in {x \in Page : attempt[x] # Nothing}} \cup
    {request[q].key : q \in {x \in Request : request[x] # Nothing}} \cup
    {x.key : x \in charges} \cup UNION {errand[p] : p \in Page}

(* Fault: each press makes a key of its own.                               *)
AlwaysNewKey(p, a) == {[key |-> k, address |-> a] : k \in Key \ UsedKeys}

(* The same address after a lost answer reuses its key; anything else is a *)
(* new report.                                                             *)
AttemptFor(p, a) ==
    IF attempt[p] # Nothing /\ attempt[p].address = a
    THEN {attempt[p]}
    ELSE {[key |-> k, address |-> a] : k \in Key \ UsedKeys}

Press(p) ==
    \E a \in Address, q \in Request : \E try \in AttemptFor(p, a) :
        /\ waiting[p] = Nothing /\ session[p] # Nobody
        /\ request[q] = Nothing
        /\ attempt' = [attempt EXCEPT ![p] = try]
        /\ errand' = [errand EXCEPT ![p] = IF a = subject[p] THEN @ \cup {try.key} ELSE {try.key}]
        /\ broken' = [broken EXCEPT ![p] = IF a = subject[p] THEN @ ELSE {}]
        /\ subject' = [subject EXCEPT ![p] = a]
        /\ request' = [request EXCEPT ![q] =
             [page |-> p, user |-> session[p], key |-> try.key, address |-> a,
              pc |-> "gate", complete |-> FALSE, answer |-> Nothing]]
        /\ waiting' = [waiting EXCEPT ![p] = q]
        /\ sameSession' = [sameSession EXCEPT ![p] = TRUE]
        /\ shown' = [shown EXCEPT ![p] = Nothing]
        /\ UNCHANGED <<session, databaseVars>>

(* No answer reached the page: the network, or the 60 seconds it waits.    *)
(* The request may still be at work.                                       *)
GiveUp(p) ==
    /\ waiting[p] # Nothing
    /\ waiting' = [waiting EXCEPT ![p] = Nothing]
    /\ attempt' = IF sameSession[p] THEN attempt ELSE [attempt EXCEPT ![p] = Nothing]
    /\ IF sameSession[p] THEN UNCHANGED <<errand, broken>> ELSE ErrandEnds(p)
    /\ UNCHANGED <<session, subject, sameSession, shown, request, databaseVars>>

(* Fault: the answer is shown to whoever is signed in when it lands.       *)
ShowsAnyone(p, r) == r.answer \in {"free_of_charge", "charged", "replayed"}

(* The person who asked is still the one signed in, and it is a report.    *)
Shows(p, r) == sameSession[p] /\ r.answer \in {"free_of_charge", "charged", "replayed"}

(* The answer lands: the attempt is over, whatever the answer says.        *)
Land(p) ==
    LET q == waiting[p]
        r == request[q]
    IN  /\ q # Nothing /\ r.pc = "answered"
        /\ waiting' = [waiting EXCEPT ![p] = Nothing]
        /\ attempt' = [attempt EXCEPT ![p] = Nothing]
        /\ ErrandEnds(p)
        /\ shown' = [shown EXCEPT ![p] =
             IF Shows(p, r)
             THEN [user |-> r.user, key |-> r.key, address |-> r.address, charged |-> r.answer # "free_of_charge"]
             ELSE Nothing]
        /\ session' = IF sameSession[p] /\ r.answer = "signin" THEN [session EXCEPT ![p] = Nobody] ELSE session
        /\ request' = [request EXCEPT ![q] = Nothing]
        /\ UNCHANGED <<subject, sameSession, databaseVars>>

At(q, pc) == request[q] # Nothing /\ request[q].pc = pc

Unheard(q) == waiting[request[q].page] # q

(* The status arrives and the body does not (the connection, or the 60     *)
(* seconds): to the page the server answered, and the key is gone.  (A 401 *)
(* is its status: without its body it does what it does in Land.)          *)
CutShort(p) ==
    /\ waiting[p] # Nothing /\ request[waiting[p]].pc = "answered"
    /\ request[waiting[p]].answer # "signin"
    /\ waiting' = [waiting EXCEPT ![p] = Nothing]
    /\ attempt' = [attempt EXCEPT ![p] = Nothing]
    /\ IF sameSession[p]
       THEN broken' = [broken EXCEPT ![p] = @ \cup {request[waiting[p]].key}] /\ UNCHANGED errand
       ELSE ErrandEnds(p)
    /\ request' = [request EXCEPT ![waiting[p]] = Nothing]
    /\ UNCHANGED <<session, subject, sameSession, shown, databaseVars>>

(* An answer nobody waits for.                                             *)
Vanish(q) ==
    /\ At(q, "answered") /\ Unheard(q)
    /\ request' = [request EXCEPT ![q] = Nothing]
    /\ UNCHANGED <<pageVars, databaseVars>>

-----------------------------------------------------------------------------
(* The function.                                                           *)

Continue(q, pc) ==
    /\ request' = [request EXCEPT ![q].pc = pc]
    /\ UNCHANGED <<pageVars, databaseVars>>

Reply(q, word) == request' = [request EXCEPT ![q].pc = "answered", ![q].answer = word]

Say(q, word) == Reply(q, word) /\ UNCHANGED <<pageVars, databaseVars>>

FreeUsed == Cardinality({x \in charges : ~x.paid})
PaidUsed == Cardinality({x \in charges : x.paid})

(* authorizeReportCaller: a signed-in member of a trial that stands; the   *)
(* handler keeps what it read of the free reports.                         *)
Gate(q) ==
    /\ At(q, "gate")
    /\ \/ Say(q, "signin")
       \/ ended /\ Say(q, "forbidden")
       \/ /\ ~ended
          /\ request' = [request EXCEPT ![q].pc = "plan", ![q].complete = FreeUsed >= FreeLimit]
          /\ UNCHANGED <<pageVars, databaseVars>>

(* The plan, read once; then the early refusals, before any work.          *)
ReadPlan(q) ==
    LET usedUp == IF paidPlan THEN PaidUsed >= PaidLimit ELSE request[q].complete
    IN  /\ At(q, "plan")
        /\ \/ usedUp /\ Say(q, "used_up")
           \/ ~usedUp /\ Continue(q, "claim")

(* report_rate_claim: the windows of the person and of the brokerage.      *)
ClaimOfRateLimit(q) ==
    /\ At(q, "claim")
    /\ Say(q, "limited") \/ Continue(q, "work")

(* Geocode, read, assemble, and the one credit decision.                   *)
Work(q) ==
    /\ At(q, "work")
    /\ Say(q, "not_a_report") \/ Say(q, "free_of_charge") \/ Continue(q, "issue")

(* What the database does with a key: a replay, a charge to an allotment   *)
(* that has room, or a refusal.                                            *)
Known(k) == \E x \in charges : x.key = k
Room == IF paidPlan THEN PaidUsed < PaidLimit ELSE FreeUsed < FreeLimit

(* Fault: the report is given although the ledger refused to charge it.    *)
GivesItAnyway(q) == Say(q, "charged")

RefusedByLedger(q) == Say(q, "used_up")

(* brokerage_report_issue; the answer of a transaction that committed may  *)
(* be lost on its way back, and is then "unavailable".                     *)
Issue(q) ==
    LET r == request[q] IN
    /\ At(q, "issue")
    /\ \/ ended /\ Say(q, "forbidden")
       \/ ~ended /\ Known(r.key) /\ Continue(q, "replay")
       \/ ~ended /\ ~Known(r.key) /\ ~Room /\ RefusedByLedger(q)
       \/ /\ ~ended /\ ~Known(r.key) /\ Room
          /\ charges' = charges \cup {[key |-> r.key, address |-> r.address, paid |-> paidPlan]}
          /\ Reply(q, "charged") \/ Reply(q, "unavailable")
          /\ UNCHANGED <<pageVars, paidPlan, ended>>

SameAddress(q) == \E x \in charges : x.key = request[q].key /\ x.address = request[q].address

(* The key was charged before: the first report, if its private context    *)
(* still says it is this property.                                         *)
Replay(q) ==
    /\ At(q, "replay")
    /\ Say(q, "reused") \/ (SameAddress(q) /\ Say(q, "replayed"))

(* A read fails, or the instance is killed: the caller hears a 5xx.        *)
Fail(q) ==
    /\ request[q] # Nothing /\ request[q].pc # "answered"
    /\ Say(q, "unavailable")

PlanMoves == paidPlan' = ~paidPlan /\ UNCHANGED <<pageVars, request, charges, ended>>
TrialEnds == ~ended /\ ended' = TRUE /\ UNCHANGED <<pageVars, request, charges, paidPlan>>

RequestNext ==
    \/ \E p \in Page : SessionMoves(p) \/ Press(p) \/ GiveUp(p) \/ Land(p) \/ CutShort(p)
    \/ \E q \in Request :
         Vanish(q) \/ Gate(q) \/ ReadPlan(q) \/ ClaimOfRateLimit(q) \/ Work(q) \/ Issue(q) \/ Replay(q) \/ Fail(q)
    \/ PlanMoves \/ TrialEnds

RequestSpec == RequestInit /\ [][RequestNext]_requestVars

-----------------------------------------------------------------------------
(* Types, and a page waits for a request of its own.                       *)
RequestTypeOK ==
    /\ session \in [Page -> User \cup {Nobody}]
    /\ attempt \in [Page -> Attempt \cup {Nothing}]
    /\ subject \in [Page -> Address \cup {Nothing}]
    /\ waiting \in [Page -> Request \cup {Nothing}]
    /\ sameSession \in [Page -> BOOLEAN]
    /\ shown \in [Page -> Screen \cup {Nothing}]
    /\ errand \in [Page -> SUBSET Key] /\ \A p \in Page : broken[p] \subseteq errand[p]
    /\ request \in [Request -> Posted \cup {Nothing}]
    /\ \A p \in Page : waiting[p] # Nothing => request[waiting[p]] # Nothing /\ request[waiting[p]].page = p
    /\ charges \subseteq Charge
    /\ paidPlan \in BOOLEAN /\ ended \in BOOLEAN

Charged(keys) == Cardinality({x \in charges : x.key \in keys})

(* Until an answer has come, pressing again for the same address never     *)
(* uses a second report, though the first request may still be at work     *)
(* (development-activity-reports.html 679-680, 1973).                      *)
RetryChargesOnce == \A p \in Page : Charged(errand[p] \ broken[p]) <= 1

(* The same where an answer that broke off after its status counts as the  *)
(* lost answer it is: the code's promise as it is worded (the same lines). *)
LostAnswerChargesOnce == \A p \in Page : Charged(errand[p]) <= 1

(* A report on the screen belongs to the person who asked for it and is    *)
(* signed in, whoever came and went while it was made                      *)
(* (development-activity-reports.html 1972).                               *)
ShownToItsAsker == \A p \in Page : shown[p] # Nothing => shown[p].user = session[p]

(* A report of the kind that is charged is on the screen only if the       *)
(* ledger charged its key, for that address (handler.ts 286: a report      *)
(* given anyway would be a free report).                                   *)
NoReportGivenFree ==
    \A p \in Page : shown[p] # Nothing /\ shown[p].charged =>
        \E x \in charges : x.key = shown[p].key /\ x.address = shown[p].address

(* What is on the screen is its asker's, and charged if it is of that kind. *)
ShownAsCharged == ShownToItsAsker /\ NoReportGivenFree

(* Of a key that was charged nobody hears that the reports are used up:    *)
(* the retry gets its report back (report-engine-2026-09-30.md 192-194).   *)
ChargedKeyIsAnswered ==
    \A q \in Request : request[q] # Nothing /\ request[q].answer = "used_up" => ~Known(request[q].key)
=============================================================================

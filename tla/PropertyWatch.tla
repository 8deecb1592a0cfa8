---------------------------- MODULE PropertyWatch ----------------------------
(***************************************************************************)
(* The daily check of watched properties.                                  *)
(*                                                                         *)
(*   manage-property-watch   an agent starts and stops a watch             *)
(*   run-property-watch      a wake leases the watches that are due and    *)
(*                           checks them one by one: standing, point, what *)
(*                           is near, what was told, one mail, the record  *)
(*   property-watch.sql      the rows, the leases, the slots and retries   *)
(*                                                                         *)
(* All watches here are of one stored report.  Time is what it lets        *)
(* happen: a slot comes round, a retry falls due, a lease lapses.  A run   *)
(* may die anywhere, and any call may fail with or without its effect.     *)
(***************************************************************************)
EXTENDS Naturals, FiniteSets

CONSTANTS
    Watch,          \* ids, each used once
    Agent,          \* people of the report's brokerage
    Run,            \* wakes at work at the same time
    Change,         \* what the ledger may record; a larger one is newer
    EmailRoom,      \* how many changes one email lists
    ClaimLimit,     \* watches leased by one wake
    NoOne

ASSUME WatchAssumption ==
    /\ Change \subseteq Nat
    /\ EmailRoom \in Nat \ {0} /\ ClaimLimit \in Nat \ {0}
    /\ NoOne \notin Run \cup Watch \cup Agent

VARIABLES
    watch,          \* property_watch and property_watch_seen
    standing,       \* who may open the report
    kept,           \* whether the private layer still keeps the property
    changes,        \* changes recorded after the report
    run,            \* one wake
    mails,          \* the provider: what it accepted, by idempotency key
    recorded        \* history: the mails that were recorded as told

watchVars == <<watch, standing, kept, changes, run, mails, recorded>>

Row == [state : {"unused", "on", "gone"}, agent : Agent \cup {NoOne}, told : SUBSET Change,
        slot : BOOLEAN, retry : BOOLEAN, lease : Run \cup {NoOne}]
Mail == [watch : Watch, told : SUBSET Change]
Steps == {"idle", "loop", "open", "point", "read", "seen", "send", "record", "end", "fail"}
Wakes == [pc : Steps, todo : SUBSET Watch, at : Watch \cup {NoOne}, found : SUBSET Change]

Unused == [state |-> "unused", agent |-> NoOne, told |-> {}, slot |-> FALSE, retry |-> FALSE, lease |-> NoOne]
Asleep == [pc |-> "idle", todo |-> {}, at |-> NoOne, found |-> {}]

WatchInit ==
    /\ watch = [w \in Watch |-> Unused]
    /\ standing = [a \in Agent |-> TRUE]
    /\ kept = TRUE
    /\ changes = {}
    /\ run = [r \in Run |-> Asleep]
    /\ mails = {} /\ recorded = {}

On(w) == watch[w].state = "on"

-----------------------------------------------------------------------------
(* The agent.                                                              *)

(* Starting again what is being watched changes nothing.                   *)
StartWatch(a, w) ==
    /\ standing[a] /\ kept
    /\ watch[w].state = "unused"
    /\ \A v \in Watch : On(v) => watch[v].agent # a
    /\ watch' = [watch EXCEPT ![w] = [Unused EXCEPT !.state = "on", !.agent = a]]
    /\ UNCHANGED <<standing, kept, changes, run, mails, recorded>>

(* What the agent was told goes with the watch.                            *)
Removed(w) == [watch EXCEPT ![w].state = "gone", ![w].told = {}, ![w].lease = NoOne,
                            ![w].slot = FALSE, ![w].retry = FALSE]

Stop(w) ==
    /\ On(w)
    /\ watch' = Removed(w)
    /\ UNCHANGED <<standing, kept, changes, run, mails, recorded>>

-----------------------------------------------------------------------------
(* The world.                                                              *)

LoseStanding(a) ==
    /\ standing[a] /\ standing' = [standing EXCEPT ![a] = FALSE]
    /\ UNCHANGED <<watch, kept, changes, run, mails, recorded>>

PurgeContext ==
    /\ kept /\ kept' = FALSE
    /\ UNCHANGED <<watch, standing, changes, run, mails, recorded>>

RecordChange(c) ==
    /\ c \notin changes /\ changes' = changes \cup {c}
    /\ UNCHANGED <<watch, standing, kept, run, mails, recorded>>

(* A wake is over long before its leases are (100 seconds and one check    *)
(* against ten minutes), and so before the day or the hour that its record *)
(* put off.                                                                *)
Holds(r, w) == run[r].at = w \/ w \in run[r].todo

SlotComes(w) ==
    /\ watch[w].slot /\ \A r \in Run : ~Holds(r, w)
    /\ watch' = [watch EXCEPT ![w].slot = FALSE]
    /\ UNCHANGED <<standing, kept, changes, run, mails, recorded>>

RetryComes(w) ==
    /\ watch[w].retry /\ \A r \in Run : ~Holds(r, w)
    /\ watch' = [watch EXCEPT ![w].retry = FALSE]
    /\ UNCHANGED <<standing, kept, changes, run, mails, recorded>>

(* Fault: a lease stays until its run gives it back.                       *)
LeaseStays(w) == watch[w].lease # NoOne /\ FALSE /\ UNCHANGED watchVars

WatchLeaseLapses(w) ==
    /\ watch[w].lease # NoOne /\ ~Holds(watch[w].lease, w)
    /\ watch' = [watch EXCEPT ![w].lease = NoOne]
    /\ UNCHANGED <<standing, kept, changes, run, mails, recorded>>

-----------------------------------------------------------------------------
(* One wake.                                                               *)

Due(w) == On(w) /\ ~watch[w].slot /\ ~watch[w].retry /\ watch[w].lease = NoOne

ClaimDue(r) ==
    LET due == {w \in Watch : Due(w)}
    IN  /\ run[r].pc = "idle"
        /\ \E taken \in SUBSET due :
             /\ IF Cardinality(due) <= ClaimLimit THEN taken = due ELSE Cardinality(taken) = ClaimLimit
             /\ watch' = [w \in Watch |-> IF w \in taken THEN [watch[w] EXCEPT !.lease = r] ELSE watch[w]]
             /\ run' = [run EXCEPT ![r] = [Asleep EXCEPT !.pc = "loop", !.todo = taken]]
        /\ UNCHANGED <<standing, kept, changes, mails, recorded>>

GotoStep(r, pc) == run' = [run EXCEPT ![r].pc = pc]
NextWatch(r) == run' = [run EXCEPT ![r].pc = "loop", ![r].at = NoOne, ![r].found = {}]

Begin(r, w) ==
    /\ run[r].pc = "loop" /\ w \in run[r].todo
    /\ run' = [run EXCEPT ![r].pc = "open", ![r].at = w, ![r].todo = @ \ {w}]
    /\ UNCHANGED <<watch, standing, kept, changes, mails, recorded>>

(* Nothing left, or no time for it: what was not reached stays leased.     *)
GoToSleep(r) ==
    /\ run[r].pc = "loop"
    /\ run' = [run EXCEPT ![r] = Asleep]
    /\ UNCHANGED <<watch, standing, kept, changes, mails, recorded>>

AskStanding(r, w) ==
    /\ run[r].pc = "open" /\ run[r].at = w
    /\ GotoStep(r, IF standing[watch[w].agent] THEN "point" ELSE "end")
    /\ UNCHANGED <<watch, standing, kept, changes, mails, recorded>>

AskPoint(r, w) ==
    /\ run[r].pc = "point" /\ run[r].at = w
    /\ GotoStep(r, IF kept THEN "read" ELSE "end")
    /\ UNCHANGED <<watch, standing, kept, changes, mails, recorded>>

EndWatch(r, w) ==
    /\ run[r].pc = "end" /\ run[r].at = w
    /\ watch' = IF On(w) THEN Removed(w) ELSE watch
    /\ NextWatch(r)
    /\ UNCHANGED <<standing, kept, changes, mails, recorded>>

ReadLedger(r, w) ==
    /\ run[r].pc = "read" /\ run[r].at = w
    /\ run' = [run EXCEPT ![r].pc = "seen", ![r].found = changes]
    /\ UNCHANGED <<watch, standing, kept, changes, mails, recorded>>

(* The newest ones that fit; the rest is left for a later email.           *)
Selected(new) ==
    {c \in new : Cardinality({d \in new : d > c}) < EmailRoom}

(* Fault: what was told is not taken out.                                  *)
AllFound(r, w) == run[r].found

Untold(r, w) == run[r].found \ watch[w].told

AfterSeen(new) == IF new = {} THEN "record" ELSE "send"

ReadSeen(r, w) ==
    LET new == Untold(r, w)
    IN  /\ run[r].pc = "seen" /\ run[r].at = w
        /\ run' = [run EXCEPT ![r].pc = AfterSeen(new), ![r].found = new]
        /\ UNCHANGED <<watch, standing, kept, changes, mails, recorded>>

Email(r) == [watch |-> run[r].at, told |-> Selected(run[r].found)]

(* A repeated key is answered and not sent again.  The answer may be lost. *)
Send(r, w) ==
    /\ run[r].pc = "send" /\ run[r].at = w
    /\ mails' = mails \cup {Email(r)}
    /\ GotoStep(r, "record")
    /\ UNCHANGED <<watch, standing, kept, changes, recorded>>

LoseAnswerOfSend(r) ==
    /\ run[r].pc = "send"
    /\ mails' = mails \cup {Email(r)}
    /\ GotoStep(r, "fail")
    /\ UNCHANGED <<watch, standing, kept, changes, recorded>>

(* Fault: what did not fit is recorded as told too.                        *)
ToldAll(r) == run[r].found
Told(r) == Selected(run[r].found)

RunOutcome(r, w) ==
    IF ~On(w) THEN UNCHANGED <<watch, recorded>>
    ELSE /\ watch' = [watch EXCEPT ![w].told = @ \cup Told(r), ![w].slot = TRUE,
                                   ![w].retry = FALSE, ![w].lease = NoOne]
         /\ recorded' = IF Told(r) = {} THEN recorded ELSE recorded \cup {Email(r)}

RecordRun(r, w) ==
    /\ run[r].pc = "record" /\ run[r].at = w
    /\ RunOutcome(r, w) /\ NextWatch(r)
    /\ UNCHANGED <<standing, kept, changes, mails>>

LoseAnswerOfRecord(r) ==
    /\ run[r].pc = "record"
    /\ RunOutcome(r, run[r].at) /\ GotoStep(r, "fail")
    /\ UNCHANGED <<standing, kept, changes, mails>>

(* A call that fails without its effect, an unreadable answer, no address. *)
CannotFinish(r) ==
    /\ run[r].pc \in {"open", "point", "end", "read", "seen", "send", "record"}
    /\ GotoStep(r, "fail")
    /\ UNCHANGED <<watch, standing, kept, changes, mails, recorded>>

RecordFailure(r, w) ==
    /\ run[r].pc = "fail" /\ run[r].at = w
    /\ watch' = IF On(w) THEN [watch EXCEPT ![w].retry = TRUE, ![w].lease = NoOne] ELSE watch
    /\ NextWatch(r)
    /\ UNCHANGED <<standing, kept, changes, mails, recorded>>

FailureLost(r) ==
    /\ run[r].pc = "fail" /\ NextWatch(r)
    /\ UNCHANGED <<watch, standing, kept, changes, mails, recorded>>

Die(r) ==
    /\ run[r].pc # "idle"
    /\ run' = [run EXCEPT ![r] = Asleep]
    /\ UNCHANGED <<watch, standing, kept, changes, mails, recorded>>

Checks(r, w) ==
    \/ Begin(r, w) \/ AskStanding(r, w) \/ AskPoint(r, w) \/ EndWatch(r, w) \/ ReadLedger(r, w)
    \/ ReadSeen(r, w) \/ Send(r, w) \/ RecordRun(r, w) \/ RecordFailure(r, w)

WatchNext ==
    \/ \E w \in Watch : \E a \in Agent : StartWatch(a, w)
    \/ \E w \in Watch : Stop(w) \/ SlotComes(w) \/ RetryComes(w) \/ WatchLeaseLapses(w)
    \/ \E a \in Agent : LoseStanding(a)
    \/ PurgeContext
    \/ \E c \in Change : RecordChange(c)
    \/ \E r \in Run :
         \/ ClaimDue(r) \/ GoToSleep(r)
         \/ \E w \in Watch : Checks(r, w)
         \/ LoseAnswerOfSend(r) \/ LoseAnswerOfRecord(r)
         \/ CannotFinish(r) \/ FailureLost(r) \/ Die(r)

(* The scheduler wakes every ten minutes and takes the longest due first;  *)
(* days pass; what is tried again and again succeeds at last.              *)
Fairness ==
    \A w \in Watch :
        /\ WF_watchVars(SlotComes(w)) /\ WF_watchVars(RetryComes(w)) /\ WF_watchVars(WatchLeaseLapses(w))
        /\ \A r \in Run : WF_watchVars(GoToSleep(r)) /\ WF_watchVars(RecordFailure(r, w) \/ FailureLost(r))
        /\ SF_watchVars(\E r \in Run : ClaimDue(r) /\ watch'[w].lease # watch[w].lease)
        /\ SF_watchVars(\E r \in Run : Begin(r, w))
        /\ SF_watchVars(\E r \in Run : AskStanding(r, w))
        /\ SF_watchVars(\E r \in Run : AskPoint(r, w))
        /\ SF_watchVars(\E r \in Run : EndWatch(r, w))
        /\ SF_watchVars(\E r \in Run : ReadLedger(r, w))
        /\ SF_watchVars(\E r \in Run : ReadSeen(r, w))
        /\ SF_watchVars(\E r \in Run : Send(r, w))
        /\ SF_watchVars(\E r \in Run : RecordRun(r, w))

WatchSpec == WatchInit /\ [][WatchNext]_watchVars
FairSpec == WatchSpec /\ Fairness

-----------------------------------------------------------------------------
(* Types.                                                                  *)
WatchTypeOK ==
    /\ watch \in [Watch -> Row]
    /\ standing \in [Agent -> BOOLEAN] /\ kept \in BOOLEAN
    /\ changes \subseteq Change
    /\ run \in [Run -> Wakes]
    /\ mails \subseteq Mail /\ recorded \subseteq mails

(* What is kept as told is what some accepted mail listed, whatever died   *)
(* or failed in between and however little fits one mail                   *)
(* (property-watch.sql, rule 10).                                          *)
ToldWasMailed ==
    \A w \in Watch : \A c \in watch[w].told :
        \E m \in mails : m.watch = w /\ c \in m.told

(* No change is in two recorded mails of one watch: not through two wakes  *)
(* at once, a lapsed lease, a retry or a lost answer (run-property-watch,  *)
(* processWatch; property-watch.sql, rule 9).                              *)
RecordedMailsAreApart ==
    \A m, n \in recorded : m.watch = n.watch /\ m # n => m.told \cap n.told = {}

(* The same of every mail that was sent, as property-watch.sql says of a   *)
(* retried run.                                                            *)
ToldOnce ==
    \A m, n \in mails : m.watch = n.watch /\ m # n => m.told \cap n.told = {}

(* What the ledger recorded is told in the end, or the watch is over       *)
(* (property-watch.ts: what does not fit rolls into the next email).       *)
EachChangeTold ==
    \A w \in Watch : \A c \in Change :
        (On(w) /\ c \in changes) ~> (~On(w) \/ \E m \in mails : m.watch = w /\ c \in m.told)
=============================================================================

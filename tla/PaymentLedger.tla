---------------------------- MODULE PaymentLedger ----------------------------
(***************************************************************************)
(* The payment side of a brokerage: the processor's signed subscription    *)
(* events, the append-only event ledger, the binding of a subscription to  *)
(* one brokerage, and the plan state derived from them.                    *)
(*                                                                         *)
(*   docs/payment-event-ledger.sql   payment_event, payment_event_record   *)
(*   docs/brokerage-billing.sql      billing_event_apply, billing_plan_of  *)
(*   supabase/functions/_shared/lemon-billing.ts      translate            *)
(*   supabase/functions/development-activity-billing-webhook/handler.ts    *)
(*                                                                         *)
(* The processor delivers an event late, several times or out of order.    *)
(* Each delivery is one database transaction, with the steps Deliver,   *)
(* Lock and Apply; it may die at any of them.                              *)
(***************************************************************************)
EXTENDS Integers, Sequences, FiniteSets

CONSTANTS
    Brokerage,      \* brokerage accounts
    Subscription,   \* a subscription's identity: processor, livemode and ref
    Live,           \* the subscriptions created in live mode
    Rank,           \* the order of the bindings' random ids, which breaks a tie
    StatusWord,         \* the mapped status words the processor sends
    EventName,      \* the names of the subscription events
    Delivery,       \* slots for concurrent webhook transactions
    MaxTime,        \* bound on the clock
    MaxEvents,      \* bound on the events the processor emits
    NoRow         \* no binding, no event

ASSUME PaymentAssumption ==
    /\ Live \subseteq Subscription
    /\ Rank \in [Subscription -> Nat]
    /\ \A s, t \in Subscription : Rank[s] = Rank[t] => s = t
    /\ StatusWord \subseteq {"active", "trialing", "paused", "past_due", "unpaid", "canceled", "unknown"}
    /\ MaxTime \in Nat /\ MaxEvents \in Nat
    /\ NoRow \notin Brokerage \cup Subscription
    /\ NoRow \notin [brokerage : Brokerage, at : 0..MaxTime]

VARIABLES
    now,        \* the clock: the server's now() and the processor's updated_at
    account,    \* brokerage_account.status
    emitted,    \* the events the processor has produced (external)
    ledger,     \* payment_event: a row's index is its event_id
    binding,    \* brokerage_subscription, by subscription
    dtx,        \* the webhook transactions in flight
    acked       \* the events answered 200, which the processor stops retrying

paymentVars == <<now, account, emitted, ledger, binding, dtx, acked>>

(* A verified event.  `brokerage` rides in the checkout's custom data and  *)
(* is not stored in the ledger; a row keeps it here for the properties.    *)
Event == [sub : Subscription, name : EventName, at : 0..MaxTime,
          status : StatusWord, brokerage : Brokerage]

(* translate: the key names the event, the subscription's id and its       *)
(* last-updated time, not the status it reports.  Nor does it name the     *)
(* mode, which the ids of two subscriptions are taken to tell apart.       *)
IdempotencyKey(e) == <<e.name, e.sub, e.at>>

(* What a binding row holds beside the subscription's identity.            *)
Bound == [brokerage : Brokerage, at : 0..MaxTime]

Transaction == [pc : {"begun", "locked"}, event : Event, at : 0..MaxTime,
                seen : Bound \cup {NoRow}]

LedgerInit ==
    /\ now = 0
    /\ account = [b \in Brokerage |-> "active"]
    /\ emitted = {} /\ acked = {}
    /\ ledger = <<>>
    /\ binding = [s \in Subscription |-> NoRow]
    /\ dtx = [d \in Delivery |-> NoRow]

-----------------------------------------------------------------------------
(* The readers.                                                            *)

Rows(s) == {i \in DOMAIN ledger : ledger[i].sub = s}

(* Fault: the latest event is the last to arrive.                          *)
NotAfterByArrival(i, j) == i <= j

(* payment_event_latest_id: the processor's time, arrival to break a tie.  *)
NotAfter(i, j) ==
    \/ ledger[i].at < ledger[j].at
    \/ ledger[i].at = ledger[j].at /\ i <= j

LatestId(s) == CHOOSE i \in Rows(s) : \A j \in Rows(s) : NotAfter(j, i)

BindingsOf(b) == {s \in Subscription : binding[s] # NoRow /\ binding[s].brokerage = b}

(* Fault: the latest binding is current, test or live.                     *)
YieldsByTimeOnly(s, t) ==
    \/ binding[s].at < binding[t].at
    \/ binding[s].at = binding[t].at /\ Rank[t] <= Rank[s]

(* The order by of billing_plan_of: live before test, then the later       *)
(* bound_at, then the binding's id.                                        *)
Yields(s, t) ==
    \/ s \notin Live /\ t \in Live
    \/ /\ s \in Live <=> t \in Live
       /\ \/ binding[s].at < binding[t].at
          \/ binding[s].at = binding[t].at /\ Rank[t] <= Rank[s]

CurrentBinding(b) == CHOOSE t \in BindingsOf(b) : \A s \in BindingsOf(b) : Yields(s, t)

(* billing_plan_of.  "none" also stands for no row at all: the brokerage   *)
(* never subscribed, which every caller reads as none.                     *)
StateOfWord(word) ==
    CASE word = "active" -> "paid"
      [] word \in {"paused", "past_due", "unpaid"} -> "past_due"
      [] OTHER -> word

PlanState(b) ==
    LET s == CurrentBinding(b) IN
    CASE BindingsOf(b) = {} -> "none"
      [] BindingsOf(b) # {} /\ account[b] # "active" -> "suspended"
      [] BindingsOf(b) # {} /\ account[b] = "active" /\ s \notin Live -> "test_only"
      [] OTHER -> IF Rows(s) = {} THEN "none" ELSE StateOfWord(ledger[LatestId(s)].status)

-----------------------------------------------------------------------------
(* The clock, the administrator and the processor.                         *)

Tick ==
    /\ now < MaxTime
    /\ now' = now + 1
    /\ UNCHANGED <<account, emitted, ledger, binding, dtx, acked>>

SetAccount(b, status) ==
    /\ account[b] # status
    /\ account' = [account EXCEPT ![b] = status]
    /\ UNCHANGED <<now, emitted, ledger, binding, dtx, acked>>

Emit(e) ==
    /\ Cardinality(emitted) < MaxEvents
    /\ e.at = now /\ e \notin emitted
    /\ emitted' = emitted \cup {e}
    /\ UNCHANGED <<now, account, ledger, binding, dtx, acked>>

-----------------------------------------------------------------------------
(* One delivery: billing_event_apply.                                      *)

(* A delivery or a redelivery opens a transaction, whose now() is its      *)
(* start, however long it then waits for the lock.                         *)
Deliver(d, e) ==
    /\ dtx[d] = NoRow
    /\ e \in emitted
    /\ dtx' = [dtx EXCEPT ![d] = [pc |-> "begun", event |-> e, at |-> now, seen |-> NoRow]]
    /\ UNCHANGED <<now, account, emitted, ledger, binding, acked>>

(* The advisory lock of the subscription, then the read of its binding.    *)
LockedSubs == {dtx[d].event.sub : d \in {x \in Delivery : dtx[x] # NoRow /\ dtx[x].pc = "locked"}}

Lock(d) ==
    /\ dtx[d] # NoRow /\ dtx[d].pc = "begun"
    /\ dtx[d].event.sub \notin LockedSubs
    /\ dtx' = [dtx EXCEPT ![d].pc = "locked", ![d].seen = binding[dtx[d].event.sub]]
    /\ UNCHANGED <<now, account, emitted, ledger, binding, acked>>

(* Faults: no unique key; no BINDING_CONFLICT; a reused key is taken for a *)
(* retry whatever it carries.                                              *)
NoUniqueKey(e) == {}

NeverConflicts(t) == FALSE

SameKey(e) == {i \in DOMAIN ledger : IdempotencyKey(ledger[i]) = IdempotencyKey(e)}

(* A subscription of another brokerage is refused before anything is       *)
(* written; a key already used must be the very event it was used for.     *)
Conflicts(t) == t.seen # NoRow /\ t.seen.brokerage # t.event.brokerage

OutcomeAnyStatus(t) ==
    CASE Conflicts(t) -> "BINDING_CONFLICT"
      [] ~Conflicts(t) /\ SameKey(t.event) = {} -> "RECORDED"
      [] OTHER -> "DUPLICATE"

Outcome(t) ==
    CASE Conflicts(t) -> "BINDING_CONFLICT"
      [] ~Conflicts(t) /\ SameKey(t.event) = {} -> "RECORDED"
      [] ~Conflicts(t) /\ SameKey(t.event) # {} ->
           IF \A i \in SameKey(t.event) : ledger[i].status = t.event.status
           THEN "DUPLICATE" ELSE "REFUSED"

(* The rest of the call and its commit: record, and bind an unbound        *)
(* subscription, in one transaction, or raise and leave nothing.           *)
Apply(d) ==
    LET t == dtx[d]
        outcome == Outcome(t)
        stored == outcome \in {"RECORDED", "DUPLICATE"}
    IN  /\ t # NoRow /\ t.pc = "locked"
        /\ ledger' = IF outcome = "RECORDED" THEN Append(ledger, t.event) ELSE ledger
        /\ binding' = IF stored /\ t.seen = NoRow
                      THEN [binding EXCEPT ![t.event.sub] = [brokerage |-> t.event.brokerage, at |-> t.at]]
                      ELSE binding
        /\ acked' = IF stored THEN acked \cup {t.event} ELSE acked
        /\ dtx' = [dtx EXCEPT ![d] = NoRow]
        /\ UNCHANGED <<now, account, emitted>>

(* The connection or the database dies before the commit: rolled back, the *)
(* webhook answers 503 and the processor may deliver the event again.      *)
DeliveryDies(d) ==
    /\ dtx[d] # NoRow
    /\ dtx' = [dtx EXCEPT ![d] = NoRow]
    /\ UNCHANGED <<now, account, emitted, ledger, binding, acked>>

LedgerNext ==
    \/ Tick
    \/ \E b \in Brokerage, status \in {"active", "suspended"} : SetAccount(b, status)
    \/ \E e \in Event : Emit(e)
    \/ \E d \in Delivery :
         \/ \E e \in emitted : Deliver(d, e)
         \/ Lock(d)
         \/ Apply(d)
         \/ DeliveryDies(d)

LedgerSpec == LedgerInit /\ [][LedgerNext]_paymentVars

-----------------------------------------------------------------------------
(* Types: what each table and each transaction in flight may hold.         *)
LedgerTypeOK ==
    /\ now \in 0..MaxTime
    /\ account \in [Brokerage -> {"active", "suspended"}]
    /\ emitted \subseteq Event /\ acked \subseteq emitted
    /\ ledger \in Seq(Event)
    /\ binding \in [Subscription -> Bound \cup {NoRow}]
    /\ dtx \in [Delivery -> Transaction \cup {NoRow}]

(* A subscription belongs to one brokerage for ever, and a conflict        *)
(* records nothing: every recorded event named the brokerage its           *)
(* subscription is bound to, and binding and first event commit together   *)
(* (brokerage-billing.sql, rule 8 and billing_event_apply).                *)
LedgerAgreesWithBinding ==
    \A s \in Subscription :
        /\ binding[s] # NoRow <=> Rows(s) # {}
        /\ \A i \in Rows(s) : ledger[i].brokerage = binding[s].brokerage

(* An event is recorded once, whatever the retries                         *)
(* (payment-event-ledger.sql, rule 1).                                     *)
RecordedOnce ==
    \A i, j \in DOMAIN ledger : IdempotencyKey(ledger[i]) = IdempotencyKey(ledger[j]) => i = j

(* The processor is told 200, and so stops retrying, only for an event     *)
(* that is in the ledger with the status it carried (handler.ts 16-22).    *)
AcknowledgedIsRecorded ==
    \A e \in acked : \E i \in DOMAIN ledger : ledger[i] = e

(* What is answered 200 is in the ledger as it was sent, once, and named    *)
(* the brokerage its subscription is bound to, whichever deliveries race    *)
(* (brokerage-billing.sql, rule 8; payment-event-ledger.sql, rule 1;        *)
(* development-activity-billing-webhook/handler.ts 16-22).                 *)
LedgerIsFaithful == LedgerAgreesWithBinding /\ RecordedOnce /\ AcknowledgedIsRecorded

(* A brokerage is paid only while the newest word, in the processor's own  *)
(* time, of a live subscription of its own is active, and no live          *)
(* subscription was bound to it later (brokerage-billing.sql, rules 1, 2). *)
PaidOnNewestLiveWord ==
    \A b \in Brokerage : PlanState(b) = "paid" =>
        /\ account[b] = "active"
        /\ \E s \in Live :
            /\ binding[s] # NoRow /\ binding[s].brokerage = b
            /\ \A t \in Live \ {s} :
                 binding[t] # NoRow /\ binding[t].brokerage = b => binding[t].at <= binding[s].at
            /\ \E i \in Rows(s) :
                 /\ ledger[i].status = "active"
                 /\ \A j \in Rows(s) : ledger[j].at <= ledger[i].at

(* Arrival time never decides: recording an event older than one its bound *)
(* subscription already has moves no plan (payment-event-ledger.sql,       *)
(* rule 2).                                                                *)
LateEventMovesNoPlan ==
    [][ Len(ledger') > Len(ledger) /\ (\E i \in DOMAIN ledger :
            /\ ledger[i].sub = ledger'[Len(ledger')].sub
            /\ ledger[i].at > ledger'[Len(ledger')].at)
        => \A b \in Brokerage : PlanState(b)' = PlanState(b) ]_paymentVars

(* Test never grants and never displaces: a test-mode event moves no plan  *)
(* of a brokerage that has a live subscription, and makes none paid        *)
(* (brokerage-billing.sql, rule 2; payment-event-ledger.sql, rule 6).      *)
TestEventsDecideNothing ==
    [][ Len(ledger') > Len(ledger) /\ ledger'[Len(ledger')].sub \notin Live
        => \A b \in Brokerage :
             /\ BindingsOf(b) \cap Live # {} => PlanState(b)' = PlanState(b)
             /\ PlanState(b)' = "paid" => PlanState(b) = "paid" ]_paymentVars

(* An event older than one already recorded moves no plan, and a test-mode  *)
(* event none of a brokerage with a live subscription                      *)
(* (payment-event-ledger.sql, rule 2; brokerage-billing.sql, rule 2).      *)
PlansMoveForAReason == LateEventMovesNoPlan /\ TestEventsDecideNothing
=============================================================================

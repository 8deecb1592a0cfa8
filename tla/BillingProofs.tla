---------------------------- MODULE BillingProofs ----------------------------
(***************************************************************************)
(* The payment side for any brokerages, subscriptions and words, and any   *)
(* number of deliveries at once, repeated, late and out of order; then one  *)
(* brokerage's checkout slot for any number of presses and pages.          *)
(*                                                                         *)
(* A delivery writes by the binding it read under its subscription's lock, *)
(* so LedgerSound says that lock is one delivery's and what was seen still *)
(* stands.  The plan needs besides that both readers' orders have one      *)
(* greatest element.  CheckoutSound says a press that has the slot is alive *)
(* and dated, and how far every shown page lies behind the clock.          *)
(***************************************************************************)
EXTENDS PaymentLedger, Checkout, WellFoundedInduction, TLAPS

(* A delivery that has the lock of its subscription.                       *)
HasLock(d) == dtx[d] # NoRow /\ dtx[d].pc = "locked"

(* What the processor repeats it has said.                                 *)
WasEmitted == \A d \in Delivery : dtx[d] # NoRow => dtx[d].event \in emitted

(* One delivery to a subscription is past the lock.                        *)
OneLock ==
    \A d, e \in Delivery :
        HasLock(d) /\ HasLock(e) /\ dtx[d].event.sub = dtx[e].event.sub => d = e

(* So that the binding it read under the lock still stands when it writes. *)
SeenStands == \A d \in Delivery : HasLock(d) => dtx[d].seen = binding[dtx[d].event.sub]

LedgerSound == LedgerTypeOK /\ WasEmitted /\ OneLock /\ SeenStands /\ LedgerIsFaithful

LEMMA InitLedgerSound == ASSUME LedgerInit PROVE LedgerSound
<1>1. LedgerTypeOK
    BY PaymentAssumption DEF LedgerInit, LedgerTypeOK
<1>2. WasEmitted /\ OneLock /\ SeenStands
    BY DEF LedgerInit, WasEmitted, OneLock, SeenStands, HasLock
<1>3. LedgerIsFaithful
    BY DEF LedgerInit, LedgerIsFaithful, LedgerAgreesWithBinding, RecordedOnce, AcknowledgedIsRecorded, Rows
<1> QED
    BY <1>1, <1>2, <1>3 DEF LedgerSound

(* What leaves the tables and the deliveries alone keeps what is said of   *)
(* them.                                                                   *)
LEMMA FaithfulStays ==
    ASSUME LedgerIsFaithful, UNCHANGED <<ledger, binding, acked>>
    PROVE  LedgerIsFaithful'
BY DEF LedgerIsFaithful, LedgerAgreesWithBinding, RecordedOnce, AcknowledgedIsRecorded, Rows

(* The clock, the administrator and the processor.                         *)
LEMMA ProcessorKeeps ==
    ASSUME LedgerSound,
           \/ Tick
           \/ \E b \in Brokerage, status \in {"active", "suspended"} : SetAccount(b, status)
           \/ \E e \in Event : Emit(e)
           \/ UNCHANGED paymentVars
    PROVE  LedgerSound'
<1>1. /\ UNCHANGED <<ledger, binding, dtx, acked>>
      /\ now' \in 0..MaxTime /\ account' \in [Brokerage -> {"active", "suspended"}]
      /\ emitted \subseteq emitted' /\ emitted' \subseteq Event
    BY PaymentAssumption DEF LedgerSound, LedgerTypeOK, Tick, SetAccount, Emit, paymentVars
<1>2. LedgerTypeOK' /\ WasEmitted' /\ OneLock' /\ SeenStands'
    BY <1>1 DEF LedgerSound, LedgerTypeOK, WasEmitted, OneLock, SeenStands, HasLock
<1> QED
    BY <1>1, <1>2, FaithfulStays DEF LedgerSound

(* A delivery opens, or dies: it does not have the lock.                    *)
LEMMA OpenOrDieKeeps ==
    ASSUME LedgerSound, NEW d \in Delivery,
           DeliveryDies(d) \/ \E e \in emitted : Deliver(d, e)
    PROVE  LedgerSound'
<1>1. /\ UNCHANGED <<now, account, emitted, ledger, binding, acked>>
      /\ \A x \in Delivery \ {d} : dtx'[x] = dtx[x]
      /\ ~HasLock(d)' /\ dtx' \in [Delivery -> Transaction \cup {NoRow}]
      /\ dtx'[d] # NoRow => dtx'[d].event \in emitted
  <2>1. CASE DeliveryDies(d)
      BY <2>1 DEF DeliveryDies, HasLock, LedgerSound, LedgerTypeOK
  <2>2. ASSUME NEW e \in emitted, Deliver(d, e)
        PROVE  /\ UNCHANGED <<now, account, emitted, ledger, binding, acked>>
               /\ \A x \in Delivery \ {d} : dtx'[x] = dtx[x]
               /\ ~HasLock(d)' /\ dtx' \in [Delivery -> Transaction \cup {NoRow}]
               /\ dtx'[d] # NoRow => dtx'[d].event \in emitted
    <3> DEFINE opened == [pc |-> "begun", event |-> e, at |-> now, seen |-> NoRow]
    <3>1. opened \in Transaction
        BY DEF Transaction, LedgerSound, LedgerTypeOK
    <3>2. dtx' = [dtx EXCEPT ![d] = opened] /\ UNCHANGED <<now, account, emitted, ledger, binding, acked>>
        BY <2>2 DEF Deliver
    <3>3. dtx'[d] = opened /\ \A x \in Delivery \ {d} : dtx'[x] = dtx[x]
        BY <3>2 DEF LedgerSound, LedgerTypeOK
    <3> HIDE DEF opened
    <3>4. dtx' \in [Delivery -> Transaction \cup {NoRow}]
        BY <3>1, <3>2 DEF LedgerSound, LedgerTypeOK
    <3>5. opened.pc = "begun" /\ opened.event = e
        BY DEF opened
    <3> QED
        BY <3>2, <3>3, <3>4, <3>5 DEF HasLock
  <2> QED
      BY <2>1, <2>2
<1>2. LedgerTypeOK'
    BY <1>1 DEF LedgerSound, LedgerTypeOK
<1>3. WasEmitted'
    BY <1>1 DEF LedgerSound, WasEmitted
<1>4. OneLock' /\ SeenStands'
    BY <1>1 DEF LedgerSound, OneLock, SeenStands, HasLock
<1> QED
    BY <1>1, <1>2, <1>3, <1>4, FaithfulStays DEF LedgerSound

(* The lock is taken when no other delivery to the subscription has it, and *)
(* the binding is read under it.                                           *)
LEMMA LockKeeps == ASSUME LedgerSound, NEW d \in Delivery, Lock(d) PROVE LedgerSound'
<1> DEFINE s == dtx[d].event.sub
<1>1. /\ UNCHANGED <<now, account, emitted, ledger, binding, acked>>
      /\ dtx[d] \in Transaction /\ s \in Subscription /\ s \notin LockedSubs
    BY DEF Lock, LedgerSound, LedgerTypeOK, Transaction, Event
<1>2. /\ dtx' = [dtx EXCEPT ![d] = [dtx[d] EXCEPT !.pc = "locked", !.seen = binding[s]]]
    BY <1>1 DEF Lock, LedgerSound, LedgerTypeOK, Transaction
<1>3. /\ \A x \in Delivery \ {d} : dtx'[x] = dtx[x]
      /\ dtx'[d] \in Transaction /\ dtx'[d].event = dtx[d].event /\ dtx'[d].seen = binding[s]
    BY <1>1, <1>2 DEF LedgerSound, LedgerTypeOK, Transaction
<1>4. LedgerTypeOK'
  <2>1. dtx' \in [Delivery -> Transaction \cup {NoRow}]
      BY <1>2, <1>3 DEF LedgerSound, LedgerTypeOK
  <2> QED
      BY <1>1, <2>1 DEF LedgerSound, LedgerTypeOK
<1>5. WasEmitted'
    BY <1>1, <1>3 DEF LedgerSound, WasEmitted, Lock
<1>6. \A x \in Delivery \ {d} : HasLock(x) => dtx[x].event.sub # s
    BY <1>1 DEF LockedSubs, HasLock
<1>7. OneLock'
    BY <1>3, <1>6 DEF LedgerSound, OneLock, HasLock
<1>8. SeenStands'
    BY <1>1, <1>3 DEF LedgerSound, SeenStands, HasLock
<1> QED
    BY <1>1, <1>4, <1>5, <1>7, <1>8, FaithfulStays DEF LedgerSound

-----------------------------------------------------------------------------
(* The commit.                                                             *)

LEMMA AppendRows ==
    ASSUME ledger \in Seq(Event), NEW e \in Event, ledger' = Append(ledger, e)
    PROVE  /\ ledger' \in Seq(Event) /\ DOMAIN ledger' = DOMAIN ledger \cup {Len(ledger) + 1}
           /\ Len(ledger) + 1 \notin DOMAIN ledger
           /\ \A i \in DOMAIN ledger : ledger'[i] = ledger[i]
           /\ ledger'[Len(ledger) + 1] = e
           /\ Rows(e.sub)' = Rows(e.sub) \cup {Len(ledger) + 1}
           /\ \A r \in Subscription \ {e.sub} : Rows(r)' = Rows(r)
<1>1. /\ ledger' \in Seq(Event) /\ DOMAIN ledger' = DOMAIN ledger \cup {Len(ledger) + 1}
      /\ Len(ledger) + 1 \notin DOMAIN ledger
      /\ \A i \in DOMAIN ledger : ledger'[i] = ledger[i]
      /\ ledger'[Len(ledger) + 1] = e
    OBVIOUS
<1> QED
    BY <1>1 DEF Rows

(* A new event is recorded, and a subscription nobody had is bound to its   *)
(* brokerage.                                                              *)
LEMMA RecordedKeeps ==
    ASSUME LedgerSound, NEW d \in Delivery, Apply(d), Outcome(dtx[d]) = "RECORDED"
    PROVE  LedgerIsFaithful'
<1>0. PICK e \in Event : e = dtx[d].event
    BY DEF Apply, LedgerSound, LedgerTypeOK, Transaction
<1> DEFINE s == e.sub
<1>1. /\ dtx[d] \in Transaction /\ e \in Event /\ s \in Subscription /\ e.brokerage \in Brokerage
      /\ HasLock(d) /\ dtx[d].seen = binding[s] /\ ledger \in Seq(Event) /\ dtx[d].at \in 0..MaxTime
      /\ binding \in [Subscription -> Bound \cup {NoRow}]
    BY <1>0 DEF Apply, HasLock, LedgerSound, LedgerTypeOK, SeenStands, Transaction, Event
<1>2. ~Conflicts(dtx[d]) /\ SameKey(e) = {}
    BY <1>0 DEF Outcome
<1>3. /\ ledger' = Append(ledger, e) /\ acked' = acked \cup {e}
      /\ binding' = IF binding[s] = NoRow
                    THEN [binding EXCEPT ![s] = [brokerage |-> e.brokerage, at |-> dtx[d].at]] ELSE binding
    BY <1>0, <1>1 DEF Apply
<1>4. /\ binding'[s] # NoRow /\ binding'[s].brokerage = e.brokerage
      /\ binding[s] # NoRow => binding[s].brokerage = e.brokerage
      /\ \A r \in Subscription \ {s} : binding'[r] = binding[r]
  <2>1. CASE binding[s] = NoRow
    <3>1. [brokerage |-> e.brokerage, at |-> dtx[d].at] \in [brokerage : Brokerage, at : 0..MaxTime]
        BY <1>1
    <3>2. [brokerage |-> e.brokerage, at |-> dtx[d].at] # NoRow
        BY <3>1, PaymentAssumption
    <3> QED
        BY <1>1, <1>3, <2>1, <3>2
  <2>2. CASE binding[s] # NoRow
      BY <1>0, <1>1, <1>2, <1>3, <2>2 DEF Conflicts
  <2> QED
      BY <2>1, <2>2
<1> DEFINE n == Len(ledger) + 1
<1>5. /\ DOMAIN ledger' = DOMAIN ledger \cup {n} /\ n \notin DOMAIN ledger
      /\ \A i \in DOMAIN ledger : ledger'[i] = ledger[i]
      /\ ledger'[n] = e /\ Rows(s)' = Rows(s) \cup {n}
      /\ \A r \in Subscription \ {s} : Rows(r)' = Rows(r)
    BY <1>1, <1>3, AppendRows
<1> HIDE DEF s, n
<1>6. LedgerAgreesWithBinding'
  <2>1. ASSUME NEW r \in Subscription
        PROVE  /\ binding'[r] # NoRow <=> Rows(r)' # {}
               /\ \A i \in Rows(r)' : ledger'[i].brokerage = binding'[r].brokerage
    <3>1. \A i \in Rows(r) : ledger'[i] = ledger[i]
        BY <1>5 DEF Rows
    <3>2. /\ binding[r] # NoRow <=> Rows(r) # {}
          /\ \A i \in Rows(r) : ledger[i].brokerage = binding[r].brokerage
        BY DEF LedgerSound, LedgerIsFaithful, LedgerAgreesWithBinding
    <3>3. CASE r = s
        BY <1>4, <1>5, <3>1, <3>2, <3>3
    <3>4. CASE r # s
        BY <1>4, <1>5, <3>1, <3>2, <3>4
    <3> QED
        BY <3>3, <3>4
  <2> QED
      BY <2>1 DEF LedgerAgreesWithBinding
<1>7. RecordedOnce'
  <2>1. \A i \in DOMAIN ledger : IdempotencyKey(ledger[i]) # IdempotencyKey(e)
      BY <1>2 DEF SameKey
  <2>2. ASSUME NEW i \in DOMAIN ledger', NEW j \in DOMAIN ledger',
               IdempotencyKey(ledger'[i]) = IdempotencyKey(ledger'[j])
        PROVE  i = j
      BY <1>5, <2>1, <2>2 DEF LedgerSound, LedgerIsFaithful, RecordedOnce
  <2> QED
      BY <2>2 DEF RecordedOnce, IdempotencyKey
<1>8. AcknowledgedIsRecorded'
    BY <1>3, <1>5 DEF LedgerSound, LedgerIsFaithful, AcknowledgedIsRecorded
<1> QED
    BY <1>6, <1>7, <1>8 DEF LedgerIsFaithful

LEMMA SameEvent ==
    ASSUME NEW x \in Event, NEW y \in Event, x.sub = y.sub, x.name = y.name, x.at = y.at,
           x.status = y.status, x.brokerage = y.brokerage
    PROVE  x = y
BY DEF Event

(* A repeated event is answered from the row that its key already has, and  *)
(* what is refused changes nothing.                                        *)
LEMMA RepeatedKeeps ==
    ASSUME LedgerSound, NEW d \in Delivery, Apply(d), Outcome(dtx[d]) # "RECORDED"
    PROVE  LedgerIsFaithful'
<1> DEFINE e == dtx[d].event
           s == e.sub
<1>1. /\ dtx[d] \in Transaction /\ e \in Event /\ s \in Subscription
      /\ HasLock(d) /\ dtx[d].seen = binding[s] /\ ledger \in Seq(Event)
    BY DEF Apply, HasLock, LedgerSound, LedgerTypeOK, SeenStands, Transaction, Event
<1>2. ledger' = ledger
    BY DEF Apply
<1>3. CASE Outcome(dtx[d]) = "DUPLICATE"
  <2>1. PICK i \in DOMAIN ledger : IdempotencyKey(ledger[i]) = IdempotencyKey(e) /\ ledger[i].status = e.status
      BY <1>3 DEF Outcome, SameKey
  <2>2. ~Conflicts(dtx[d])
      BY <1>3 DEF Outcome
  <2>3. ledger[i] \in Event
      BY <1>1
  <2>4. ledger[i].name = e.name /\ ledger[i].sub = s /\ ledger[i].at = e.at
      BY <2>1 DEF IdempotencyKey
  <2>5. binding[s] # NoRow /\ ledger[i].brokerage = binding[s].brokerage
      BY <1>1, <2>4 DEF LedgerSound, LedgerIsFaithful, LedgerAgreesWithBinding, Rows
  <2>6. e.brokerage = ledger[i].brokerage
      BY <1>1, <2>2, <2>5 DEF Conflicts
  <2>7. ledger[i] = e
      BY <1>1, <2>1, <2>3, <2>4, <2>6, SameEvent
  <2>8. binding' = binding /\ acked' = acked \cup {e}
      BY <1>1, <1>3, <2>5 DEF Apply
  <2> QED
      BY <1>2, <2>7, <2>8 DEF LedgerSound, LedgerIsFaithful, LedgerAgreesWithBinding, RecordedOnce, AcknowledgedIsRecorded,
          Rows
<1>4. CASE Outcome(dtx[d]) # "DUPLICATE"
  <2>1. UNCHANGED <<ledger, binding, acked>>
      BY <1>4 DEF Apply
  <2> QED
      BY <2>1, FaithfulStays DEF LedgerSound
<1> QED
    BY <1>3, <1>4

LEMMA ApplyKeeps == ASSUME LedgerSound, NEW d \in Delivery, Apply(d) PROVE LedgerSound'
<1> DEFINE e == dtx[d].event
           s == e.sub
<1>1. /\ dtx[d] \in Transaction /\ e \in Event /\ s \in Subscription /\ e \in emitted /\ HasLock(d)
      /\ e.brokerage \in Brokerage /\ dtx[d].at \in 0..MaxTime
    BY DEF Apply, HasLock, LedgerSound, LedgerTypeOK, WasEmitted, Transaction, Event
<1>2. /\ UNCHANGED <<now, account, emitted>> /\ dtx' = [dtx EXCEPT ![d] = NoRow]
      /\ acked' \in {acked, acked \cup {e}} /\ ledger' \in {ledger, Append(ledger, e)}
      /\ \A r \in Subscription \ {s} : binding'[r] = binding[r]
      /\ binding' \in [Subscription -> Bound \cup {NoRow}]
  <2>1. [brokerage |-> e.brokerage, at |-> dtx[d].at] \in Bound
      BY <1>1 DEF Bound
  <2>2. \/ binding' = binding
        \/ binding' = [binding EXCEPT ![s] = [brokerage |-> e.brokerage, at |-> dtx[d].at]]
      BY DEF Apply
  <2>3. binding \in [Subscription -> Bound \cup {NoRow}]
      BY DEF LedgerSound, LedgerTypeOK
  <2>4. /\ \A r \in Subscription \ {s} : binding'[r] = binding[r]
        /\ binding' \in [Subscription -> Bound \cup {NoRow}]
      BY <1>1, <2>1, <2>2, <2>3
  <2> QED
      BY <2>4 DEF Apply
<1>3. LedgerTypeOK'
  <2>1. ledger' \in Seq(Event)
      BY <1>1, <1>2 DEF LedgerSound, LedgerTypeOK
  <2>2. dtx' \in [Delivery -> Transaction \cup {NoRow}]
      BY <1>2 DEF LedgerSound, LedgerTypeOK
  <2> QED
      BY <1>1, <1>2, <2>1, <2>2 DEF LedgerSound, LedgerTypeOK
<1>4. \A x \in Delivery \ {d} : dtx'[x] = dtx[x]
    BY <1>2 DEF LedgerSound, LedgerTypeOK
<1>5. dtx'[d] = NoRow
    BY <1>2 DEF LedgerSound, LedgerTypeOK
<1>6. WasEmitted' /\ OneLock'
    BY <1>2, <1>4, <1>5 DEF LedgerSound, WasEmitted, OneLock, HasLock
<1>7. SeenStands'
  <2>1. ASSUME NEW x \in Delivery \ {d}, HasLock(x) PROVE dtx[x].event.sub \in Subscription \ {s}
      BY <1>1, <2>1 DEF LedgerSound, LedgerTypeOK, OneLock, HasLock, Transaction, Event
  <2> QED
      BY <1>2, <1>4, <1>5, <2>1 DEF LedgerSound, SeenStands, HasLock
<1> QED
    BY <1>3, <1>6, <1>7, RecordedKeeps, RepeatedKeeps DEF LedgerSound

LEMMA NextLedgerSound == ASSUME LedgerSound, [LedgerNext]_paymentVars PROVE LedgerSound'
BY ProcessorKeeps, OpenOrDieKeeps, LockKeeps, ApplyKeeps DEF LedgerNext

(* What is recorded named the brokerage its subscription is bound to, is    *)
(* recorded once, and all that was acknowledged is recorded, whichever      *)
(* deliveries race, repeat and overtake each other (brokerage-billing.sql,  *)
(* rule 8; payment-event-ledger.sql, rule 1; handler.ts 16-22).            *)
THEOREM LedgerStaysFaithful ==
    LedgerSpec => [](LedgerTypeOK /\ LedgerIsFaithful)
<1>1. LedgerInit => LedgerSound
    BY InitLedgerSound
<1>2. LedgerSound /\ [LedgerNext]_paymentVars => LedgerSound'
    BY NextLedgerSound
<1>3. LedgerSound => LedgerTypeOK /\ LedgerIsFaithful
    BY DEF LedgerSound
<1> QED
    BY <1>1, <1>2, <1>3, PTL DEF LedgerSpec

-----------------------------------------------------------------------------
(* The plan: the orders of the two readers have a greatest row and a       *)
(* greatest binding, and only one.                                         *)

LEMMA HasLeast == ASSUME NEW S \in SUBSET Nat, S # {} PROVE \E m \in S : \A n \in S : m <= n
<1> DEFINE R == {pair \in Nat \X Nat : pair[1] < pair[2]}
<1>1. IsWellFoundedOn(R, Nat)
    BY NatLessThanWellFounded DEF OpToRel
<1> HIDE DEF R
<1>2. PICK m \in S : \A n \in S : ~(<<n, m>> \in R)
    BY <1>1, WFMin
<1> USE DEF R
<1>3. ASSUME NEW n \in S PROVE m <= n
  <2>1. <<n, m>> \in Nat \X Nat /\ <<n, m>>[1] = n /\ <<n, m>>[2] = m
      OBVIOUS
  <2>2. ~(n < m)
      BY <1>2, <2>1
  <2> QED
      BY <2>2
<1> QED
    BY <1>3

LEMMA RowsAreTyped ==
    ASSUME LedgerTypeOK
    PROVE  /\ Len(ledger) \in Nat
           /\ \A s \in Subscription : \A i \in Rows(s) :
                i \in 1..Len(ledger) /\ ledger[i] \in Event /\ ledger[i].at \in 0..MaxTime /\ ledger[i].status \in StatusWord
<1>1. ledger \in Seq(Event) /\ Len(ledger) \in Nat /\ DOMAIN ledger = 1..Len(ledger)
    BY DEF LedgerTypeOK
<1>2. \A i \in 1..Len(ledger) : ledger[i] \in Event
    BY <1>1
<1> QED
    BY <1>1, <1>2 DEF Rows, Event

(* payment_event_latest_id returns the greatest row.                       *)
LEMMA LatestIsNewest ==
    ASSUME LedgerTypeOK, NEW s \in Subscription, Rows(s) # {}
    PROVE  LatestId(s) \in Rows(s) /\ \A j \in Rows(s) : NotAfter(j, LatestId(s))
<1>1. \A i \in Rows(s) : i \in 1..Len(ledger) /\ ledger[i].at \in 0..MaxTime
    BY RowsAreTyped
<1> DEFINE Ages == {MaxTime - ledger[i].at : i \in Rows(s)}
<1>2. PICK a \in Ages : \A c \in Ages : a <= c
  <2>1. Ages \in SUBSET Nat /\ Ages # {}
      BY <1>1, PaymentAssumption
  <2> QED
      BY <2>1, HasLeast
<1> DEFINE Last == {Len(ledger) - i : i \in {x \in Rows(s) : MaxTime - ledger[x].at = a}}
<1>3. PICK m \in Last : \A c \in Last : m <= c
  <2>1. Last \in SUBSET Nat /\ Last # {}
      BY <1>1, <1>2 DEF LedgerTypeOK
  <2> QED
      BY <2>1, HasLeast
<1>4. PICK i \in Rows(s) : MaxTime - ledger[i].at = a /\ m = Len(ledger) - i
    BY <1>3
<1> HIDE DEF Ages, Last
<1>5. ASSUME NEW j \in Rows(s) PROVE NotAfter(j, i)
  <2>1. a <= MaxTime - ledger[j].at
      BY <1>2 DEF Ages
  <2>2. MaxTime - ledger[j].at = a => m <= Len(ledger) - j
      BY <1>3 DEF Last
  <2>3. /\ i \in Nat /\ j \in Nat /\ Len(ledger) \in Nat /\ MaxTime \in Nat
        /\ ledger[i].at \in Nat /\ ledger[j].at \in Nat
      BY <1>1, <1>4, RowsAreTyped, PaymentAssumption
  <2>4. ledger[j].at <= ledger[i].at
    <3>1. PICK p \in Nat, q \in Nat, n \in Nat : p = ledger[i].at /\ q = ledger[j].at /\ n = MaxTime
        BY <2>3
    <3>2. n - p <= n - q
        BY <1>4, <2>1, <3>1
    <3>3. q <= p
        BY <3>2
    <3> QED
        BY <3>1, <3>3
  <2>5. ledger[j].at = ledger[i].at => j <= i
      BY <1>4, <2>2, <2>3
  <2> QED
      BY <2>3, <2>4, <2>5 DEF NotAfter
<1> QED
    BY <1>5 DEF LatestId

(* billing_plan_of reads the greatest binding.                             *)
LEMMA CurrentIsNewest ==
    ASSUME LedgerTypeOK, NEW b \in Brokerage, BindingsOf(b) # {}
    PROVE  CurrentBinding(b) \in BindingsOf(b) /\ \A s \in BindingsOf(b) : Yields(s, CurrentBinding(b))
<1> DEFINE B == BindingsOf(b)
           Preferred == IF B \cap Live # {} THEN B \cap Live ELSE B
<1>1. /\ \A s \in B : s \in Subscription /\ binding[s].at \in 0..MaxTime /\ Rank[s] \in Nat
      /\ Preferred \subseteq B /\ Preferred # {}
    BY PaymentAssumption DEF BindingsOf, LedgerTypeOK, Bound
<1> DEFINE Ages == {MaxTime - binding[s].at : s \in Preferred}
<1>2. PICK a \in Ages : \A c \in Ages : a <= c
  <2>1. Ages \in SUBSET Nat /\ Ages # {}
      BY <1>1, PaymentAssumption
  <2> QED
      BY <2>1, HasLeast
<1> DEFINE Ranks == {Rank[s] : s \in {x \in Preferred : MaxTime - binding[x].at = a}}
<1>3. PICK m \in Ranks : \A c \in Ranks : m <= c
  <2>1. Ranks \in SUBSET Nat /\ Ranks # {}
      BY <1>1, <1>2
  <2> QED
      BY <2>1, HasLeast
<1>4. PICK t \in Preferred : MaxTime - binding[t].at = a /\ m = Rank[t]
    BY <1>3
<1>5. ASSUME NEW s \in B PROVE Yields(s, t)
  <2>1. CASE s \in Preferred
    <3>1. a <= MaxTime - binding[s].at
        BY <1>2, <2>1
    <3>2. MaxTime - binding[s].at = a => m <= Rank[s]
        BY <1>3, <2>1
    <3>3. s \in Live <=> t \in Live
        BY <1>4, <2>1
    <3> QED
        BY <1>1, <1>4, <3>1, <3>2, <3>3, PaymentAssumption DEF Yields
  <2>2. CASE s \notin Preferred
      BY <1>4, <2>2 DEF Yields
  <2> QED
      BY <2>1, <2>2
<1> QED
    BY <1>1, <1>4, <1>5 DEF CurrentBinding

(* A brokerage is paid only on the newest word of the newest live          *)
(* subscription of its own, whatever else arrives and in whatever order    *)
(* (brokerage-billing.sql, rules 1, 2).                                    *)
LEMMA PaidIsEarned == LedgerTypeOK => PaidOnNewestLiveWord
<1> SUFFICES ASSUME LedgerTypeOK, NEW b \in Brokerage, PlanState(b) = "paid"
             PROVE  /\ account[b] = "active"
                    /\ \E s \in Live :
                        /\ binding[s] # NoRow /\ binding[s].brokerage = b
                        /\ \A t \in Live \ {s} :
                             binding[t] # NoRow /\ binding[t].brokerage = b => binding[t].at <= binding[s].at
                        /\ \E i \in Rows(s) :
                             /\ ledger[i].status = "active"
                             /\ \A j \in Rows(s) : ledger[j].at <= ledger[i].at
    BY DEF PaidOnNewestLiveWord
<1> DEFINE s == CurrentBinding(b)
           i == LatestId(s)
<1>1. /\ BindingsOf(b) # {} /\ account[b] = "active" /\ s \in Live /\ Rows(s) # {}
      /\ StateOfWord(ledger[i].status) = "paid"
    BY DEF PlanState
<1>2. s \in BindingsOf(b) /\ \A t \in BindingsOf(b) : Yields(t, s)
    BY <1>1, CurrentIsNewest
<1>3. s \in Subscription /\ binding[s] # NoRow /\ binding[s].brokerage = b
    BY <1>2 DEF BindingsOf
<1>4. ASSUME NEW t \in Live \ {s}, binding[t] # NoRow, binding[t].brokerage = b
      PROVE  binding[t].at <= binding[s].at
  <2>1. t \in Subscription /\ t \in BindingsOf(b)
      BY <1>4, PaymentAssumption DEF BindingsOf
  <2>2. binding[t].at \in 0..MaxTime /\ binding[s].at \in 0..MaxTime
      BY <1>3, <1>4, <2>1 DEF LedgerTypeOK, Bound
  <2>3. Yields(t, s)
      BY <1>2, <2>1
  <2> QED
      BY <1>1, <2>2, <2>3, <1>4, PaymentAssumption DEF Yields
<1>5. i \in Rows(s) /\ \A j \in Rows(s) : NotAfter(j, i)
    BY <1>1, <1>3, LatestIsNewest
<1>6. \A j \in Rows(s) : ledger[j].at \in 0..MaxTime /\ ledger[j].status \in StatusWord
    BY <1>3, RowsAreTyped
<1>7. ledger[i].status = "active"
    BY <1>1, <1>5, <1>6, PaymentAssumption DEF StateOfWord
<1>8. \A j \in Rows(s) : ledger[j].at <= ledger[i].at
    BY <1>5, <1>6, PaymentAssumption DEF NotAfter
<1> QED
    BY <1>1, <1>3, <1>4, <1>5, <1>7, <1>8

-----------------------------------------------------------------------------
(* What moves a plan.                                                      *)

(* A new row that is older than one of its subscription leaves the newest. *)
LEMMA LatestStays ==
    ASSUME LedgerTypeOK, LedgerTypeOK', NEW s \in Subscription, Rows(s) # {}, Rows(s) \subseteq Rows(s)',
           \A i \in Rows(s) : ledger'[i] = ledger[i],
           \A j \in Rows(s)' : j \in Rows(s) \/ \E i \in Rows(s) : ledger[i].at > ledger'[j].at
    PROVE  LatestId(s)' = LatestId(s)
<1>1. PICK k \in Rows(s) : k = LatestId(s) /\ \A j \in Rows(s) : NotAfter(j, k)
    BY LatestIsNewest
<1>2. \A i \in Rows(s)' : i \in Nat /\ ledger'[i].at \in Nat
  <2>1. ledger' \in Seq(Event) /\ DOMAIN ledger' = 1..Len(ledger')
      BY DEF LedgerTypeOK
  <2>2. \A i \in DOMAIN ledger' : i \in Nat /\ ledger'[i] \in Event
      BY <2>1
  <2> QED
      BY <2>2, PaymentAssumption DEF Rows, Event
<1>3. ASSUME NEW j \in Rows(s)' PROVE NotAfter(j, k)'
  <2>1. /\ j \in Nat /\ k \in Nat /\ ledger'[j].at \in Nat /\ ledger'[k].at \in Nat
        /\ ledger'[k] = ledger[k]
      BY <1>1, <1>2
  <2>2. CASE j \in Rows(s)
      BY <1>1, <2>2 DEF NotAfter
  <2>3. CASE \E i \in Rows(s) : ledger[i].at > ledger'[j].at
    <3>1. PICK i \in Rows(s) : ledger[i].at > ledger'[j].at
        BY <2>3
    <3>2. NotAfter(i, k) /\ i \in Nat /\ ledger[i].at \in Nat
        BY <1>1, <1>2, <3>1
    <3>3. ledger'[j].at < ledger'[k].at
        BY <2>1, <3>1, <3>2 DEF NotAfter
    <3> QED
        BY <3>3 DEF NotAfter
  <2> QED
      BY <2>2, <2>3
<1>4. k \in Rows(s)'
    BY <1>1
<1>5. PICK l \in Rows(s)' : l = LatestId(s)' /\ \A j \in Rows(s)' : NotAfter(j, l)'
    BY <1>3, <1>4 DEF LatestId
<1>6. NotAfter(k, l)' /\ NotAfter(l, k)'
    BY <1>3, <1>4, <1>5
<1>7. /\ k \in Nat /\ l \in Nat /\ ledger'[k].at \in Nat /\ ledger'[l].at \in Nat
    BY <1>2, <1>4, <1>5
<1>8. k = l
    BY <1>6, <1>7 DEF NotAfter
<1> QED
    BY <1>1, <1>5, <1>8

(* A new binding in test mode leaves a live one the current.               *)
LEMMA CurrentStays ==
    ASSUME LedgerTypeOK, LedgerTypeOK', NEW b \in Brokerage, BindingsOf(b) # {},
           BindingsOf(b) \subseteq BindingsOf(b)', \A t \in BindingsOf(b) : binding'[t] = binding[t],
           \A t \in BindingsOf(b)' : t \in BindingsOf(b) \/ (t \notin Live /\ CurrentBinding(b) \in Live)
    PROVE  CurrentBinding(b)' = CurrentBinding(b)
<1>1. PICK c \in BindingsOf(b) : c = CurrentBinding(b) /\ \A t \in BindingsOf(b) : Yields(t, c)
    BY CurrentIsNewest
<1>2. \A t \in BindingsOf(b)' : t \in Subscription /\ binding'[t].at \in Nat /\ Rank[t] \in Nat
    BY PaymentAssumption DEF BindingsOf, LedgerTypeOK, Bound
<1>3. ASSUME NEW t \in BindingsOf(b)' PROVE Yields(t, c)'
  <2>1. CASE t \in BindingsOf(b)
    <3>1. Yields(t, c) /\ binding'[t] = binding[t] /\ binding'[c] = binding[c]
        BY <1>1, <2>1
    <3> QED
        BY <3>1 DEF Yields
  <2>2. CASE t \notin Live /\ c \in Live
      BY <2>2 DEF Yields
  <2> QED
      BY <1>1, <2>1, <2>2
<1>4. c \in BindingsOf(b)'
    BY <1>1
<1>5. PICK l \in BindingsOf(b)' : l = CurrentBinding(b)' /\ \A t \in BindingsOf(b)' : Yields(t, l)'
    BY <1>3, <1>4 DEF CurrentBinding
<1>6. Yields(c, l)' /\ Yields(l, c)'
    BY <1>3, <1>4, <1>5
<1>7. /\ c \in Subscription /\ l \in Subscription /\ Rank[c] \in Nat /\ Rank[l] \in Nat
      /\ binding'[c].at \in Nat /\ binding'[l].at \in Nat
    BY <1>2, <1>4, <1>5
<1>8. Rank[c] = Rank[l]
    BY <1>6, <1>7 DEF Yields
<1>9. c = l
    BY <1>7, <1>8, PaymentAssumption
<1> QED
    BY <1>1, <1>5, <1>9

(* A plan is what its account, its current binding and that one's newest   *)
(* row say.                                                                *)
LEMMA PlanStays ==
    ASSUME NEW b \in Brokerage, NEW c, c = CurrentBinding(b), CurrentBinding(b)' = c,
           account' = account, BindingsOf(b) # {}, BindingsOf(b)' # {},
           c \in Live =>
               /\ Rows(c)' = {} <=> Rows(c) = {}
               /\ Rows(c) # {} => ledger'[LatestId(c)'].status = ledger[LatestId(c)].status
    PROVE  PlanState(b)' = PlanState(b)
<1>1. CASE account[b] # "active"
    BY <1>1 DEF PlanState
<1>2. CASE account[b] = "active" /\ c \notin Live
    BY <1>2 DEF PlanState
<1>3. CASE account[b] = "active" /\ c \in Live
  <2>1. PlanState(b) = IF Rows(c) = {} THEN "none" ELSE StateOfWord(ledger[LatestId(c)].status)
      BY <1>3 DEF PlanState
  <2>2. PlanState(b)' = IF Rows(c)' = {} THEN "none" ELSE StateOfWord(ledger'[LatestId(c)'].status)
      BY <1>3 DEF PlanState, StateOfWord
  <2> QED
      BY <1>3, <2>1, <2>2
<1> QED
    BY <1>1, <1>2, <1>3

(* The ledger grows by one event, in a commit, which binds at most that     *)
(* event's subscription, and only if it was unbound.                       *)
LEMMA Growing ==
    ASSUME LedgerSound, [LedgerNext]_paymentVars, Len(ledger') > Len(ledger)
    PROVE  \E e \in Event :
              /\ account' = account /\ ledger' = Append(ledger, e)
              /\ binding[e.sub] # NoRow => binding' = binding
              /\ \A t \in Subscription \ {e.sub} : binding'[t] = binding[t]
<1>0. Len(ledger) \in Nat
    BY DEF LedgerSound, LedgerTypeOK
<1>1. ledger' # ledger
    BY <1>0
<1>2. PICK d \in Delivery : Apply(d)
    BY <1>1 DEF LedgerNext, paymentVars, Tick, SetAccount, Emit, Deliver, Lock, DeliveryDies
<1>3. PICK e \in Event : e = dtx[d].event
    BY <1>2 DEF Apply, LedgerSound, LedgerTypeOK, Transaction
<1>4. e.sub \in Subscription /\ HasLock(d) /\ dtx[d].seen = binding[e.sub]
      /\ binding \in [Subscription -> Bound \cup {NoRow}]
    BY <1>2, <1>3 DEF Apply, HasLock, LedgerSound, LedgerTypeOK, SeenStands, Event
<1>5. account' = account /\ ledger' = Append(ledger, e)
    BY <1>1, <1>2, <1>3 DEF Apply
<1>6. binding' = binding \/ (binding[e.sub] = NoRow /\
          binding' = [binding EXCEPT ![e.sub] = [brokerage |-> e.brokerage, at |-> dtx[d].at]])
    BY <1>2, <1>3, <1>4 DEF Apply
<1> QED
    BY <1>3, <1>4, <1>5, <1>6

(* An event older than one already recorded of its subscription moves no   *)
(* plan (payment-event-ledger.sql, rule 2).                                *)
LEMMA LateMovesNothing ==
    ASSUME LedgerSound, LedgerSound', [LedgerNext]_paymentVars, Len(ledger') > Len(ledger),
           \E i \in DOMAIN ledger :
               ledger[i].sub = ledger'[Len(ledger')].sub /\ ledger[i].at > ledger'[Len(ledger')].at,
           NEW b \in Brokerage
    PROVE  PlanState(b)' = PlanState(b)
<1>1. PICK e \in Event :
        /\ account' = account /\ ledger' = Append(ledger, e)
        /\ binding[e.sub] # NoRow => binding' = binding
    BY Growing
<1>2. /\ LedgerTypeOK /\ LedgerTypeOK' /\ ledger \in Seq(Event) /\ e.sub \in Subscription
      /\ LedgerAgreesWithBinding /\ ledger'[Len(ledger')] = e
    BY <1>1 DEF LedgerSound, LedgerIsFaithful, LedgerTypeOK, Event
<1>3. PICK m \in Rows(e.sub) : ledger[m].at > e.at
    BY <1>2 DEF Rows
<1>4. binding' = binding
    BY <1>1, <1>2, <1>3 DEF LedgerAgreesWithBinding
<1>5. BindingsOf(b)' = BindingsOf(b)
    BY <1>4 DEF BindingsOf
<1>6. CASE BindingsOf(b) = {}
    BY <1>5, <1>6 DEF PlanState
<1>7. CASE BindingsOf(b) # {}
  <2>1. CurrentBinding(b)' = CurrentBinding(b)
      BY <1>2, <1>4, <1>5, <1>7, CurrentStays
  <2>2. PICK c \in Subscription : c = CurrentBinding(b)
      BY <1>2, <1>7, CurrentIsNewest DEF BindingsOf
  <2>3. /\ Rows(e.sub)' = Rows(e.sub) \cup {Len(ledger) + 1} /\ ledger'[Len(ledger) + 1] = e
        /\ \A i \in DOMAIN ledger : ledger'[i] = ledger[i]
        /\ \A r \in Subscription \ {e.sub} : Rows(r)' = Rows(r)
      BY <1>1, <1>2, AppendRows
  <2>4. \A i \in Rows(c) : ledger'[i] = ledger[i]
      BY <2>3 DEF Rows
  <2>5. Rows(c) \subseteq Rows(c)' /\ (Rows(c)' = {} <=> Rows(c) = {})
      BY <1>3, <2>2, <2>3
  <2>6. ASSUME Rows(c) # {} PROVE LatestId(c)' = LatestId(c) /\ LatestId(c) \in Rows(c)
    <3>1. \A j \in Rows(c)' : j \in Rows(c) \/ \E i \in Rows(c) : ledger[i].at > ledger'[j].at
        BY <1>3, <2>2, <2>3
    <3> QED
        BY <1>2, <2>2, <2>4, <2>5, <2>6, <3>1, LatestStays, LatestIsNewest
  <2>7. Rows(c) # {} => ledger'[LatestId(c)'].status = ledger[LatestId(c)].status
      BY <2>4, <2>6
  <2> QED
      BY <1>1, <1>5, <1>7, <2>1, <2>2, <2>5, <2>7, PlanStays
<1> QED
    BY <1>6, <1>7

(* A test-mode event moves no plan of a brokerage with a live subscription, *)
(* and makes none paid (brokerage-billing.sql, rule 2;                     *)
(* payment-event-ledger.sql, rule 6).                                      *)
LEMMA TestMovesNothing ==
    ASSUME LedgerSound, LedgerSound', [LedgerNext]_paymentVars, Len(ledger') > Len(ledger),
           ledger'[Len(ledger')].sub \notin Live, NEW b \in Brokerage
    PROVE  /\ BindingsOf(b) \cap Live # {} => PlanState(b)' = PlanState(b)
           /\ PlanState(b)' = "paid" => PlanState(b) = "paid"
<1>1. PICK e \in Event :
        /\ account' = account /\ ledger' = Append(ledger, e)
        /\ binding[e.sub] # NoRow => binding' = binding
        /\ \A t \in Subscription \ {e.sub} : binding'[t] = binding[t]
    BY Growing
<1>2. /\ LedgerTypeOK /\ LedgerTypeOK' /\ ledger \in Seq(Event) /\ e.sub \in Subscription
      /\ ledger'[Len(ledger')] = e /\ e.sub \notin Live
    BY <1>1 DEF LedgerSound, LedgerTypeOK, Event
<1>3. BindingsOf(b) \cap Live = BindingsOf(b)' \cap Live
    BY <1>1, <1>2, PaymentAssumption DEF BindingsOf
<1>4. /\ BindingsOf(b) \subseteq BindingsOf(b)' /\ \A t \in BindingsOf(b) : binding'[t] = binding[t]
      /\ \A t \in BindingsOf(b)' : t \in BindingsOf(b) \/ t \notin Live
    BY <1>1, <1>2, <1>3 DEF BindingsOf
<1>5. ASSUME BindingsOf(b) \cap Live # {} PROVE PlanState(b)' = PlanState(b)
  <2>1. PICK c \in BindingsOf(b) : c = CurrentBinding(b) /\ \A t \in BindingsOf(b) : Yields(t, c)
      BY <1>2, <1>5, CurrentIsNewest
  <2>2. c \in Live /\ c \in Subscription /\ c # e.sub
      BY <1>2, <1>5, <2>1 DEF Yields, BindingsOf
  <2>3. CurrentBinding(b)' = c
      BY <1>2, <1>4, <1>5, <2>1, <2>2, CurrentStays
  <2>4. Rows(c)' = Rows(c) /\ \A i \in DOMAIN ledger : ledger'[i] = ledger[i]
      BY <1>1, <1>2, <2>2, AppendRows
  <2>5. \A i \in Rows(c) : ledger'[i] = ledger[i]
      BY <2>4 DEF Rows
  <2>6. ASSUME Rows(c) # {} PROVE LatestId(c)' = LatestId(c) /\ LatestId(c) \in Rows(c)
      BY <1>2, <2>2, <2>4, <2>5, <2>6, LatestStays, LatestIsNewest
  <2>7. Rows(c) # {} => ledger'[LatestId(c)'].status = ledger[LatestId(c)].status
      BY <2>5, <2>6
  <2> QED
      BY <1>1, <1>4, <1>5, <2>1, <2>3, <2>4, <2>7, PlanStays
<1>6. ASSUME PlanState(b)' = "paid" PROVE BindingsOf(b) \cap Live # {}
  <2>1. PaidOnNewestLiveWord'
    <3> LedgerTypeOK' => PaidOnNewestLiveWord'
        BY PaidIsEarned, PTL
    <3> QED
        BY <1>2
  <2>2. PICK s \in Live : binding'[s] # NoRow /\ binding'[s].brokerage = b
      BY <1>6, <2>1 DEF PaidOnNewestLiveWord
  <2>3. s \in BindingsOf(b)'
      BY <2>2, PaymentAssumption DEF BindingsOf
  <2> QED
      BY <1>3, <2>3
<1> QED
    BY <1>5, <1>6

LEMMA Sound == LedgerSpec => []LedgerSound
<1> QED
    BY InitLedgerSound, NextLedgerSound, PTL DEF LedgerSpec

(* A brokerage is paid only while the newest word of the newest live       *)
(* subscription of its own is active, whatever else was delivered, late or *)
(* out of order (brokerage-billing.sql, rules 1, 2).                       *)
THEOREM PaidIsPaidFor == LedgerSpec => []PaidOnNewestLiveWord
<1>1. LedgerSound => PaidOnNewestLiveWord
    BY PaidIsEarned DEF LedgerSound
<1> QED
    BY <1>1, Sound, PTL

(* An event older than one already recorded moves no plan, and a test-mode  *)
(* event none of a brokerage with a live subscription                      *)
(* (payment-event-ledger.sql, rule 2; brokerage-billing.sql, rule 2).      *)
THEOREM OnlyNewsMovesPlans == LedgerSpec => PlansMoveForAReason
<1>1. LedgerSound /\ LedgerSound' /\ [LedgerNext]_paymentVars =>
        [Len(ledger') > Len(ledger) /\ (\E i \in DOMAIN ledger :
            /\ ledger[i].sub = ledger'[Len(ledger')].sub
            /\ ledger[i].at > ledger'[Len(ledger')].at)
         => \A b \in Brokerage : PlanState(b)' = PlanState(b)]_paymentVars
    BY LateMovesNothing
<1>2. LedgerSound /\ LedgerSound' /\ [LedgerNext]_paymentVars =>
        [Len(ledger') > Len(ledger) /\ ledger'[Len(ledger')].sub \notin Live
         => \A b \in Brokerage :
              /\ BindingsOf(b) \cap Live # {} => PlanState(b)' = PlanState(b)
              /\ PlanState(b)' = "paid" => PlanState(b) = "paid"]_paymentVars
    BY TestMovesNothing
<1>3. LedgerSpec => LateEventMovesNoPlan
    BY <1>1, Sound, PTL DEF LedgerSpec, LateEventMovesNoPlan
<1>4. LedgerSpec => TestEventsDecideNothing
    BY <1>2, Sound, PTL DEF LedgerSpec, TestEventsDecideNothing
<1> QED
    BY <1>3, <1>4 DEF PlansMoveForAReason

-----------------------------------------------------------------------------
(* The checkout slot.                                                      *)

(* A press between its claim and its page, or its giving up.               *)
HasSlot(q) == At(q, "create") \/ At(q, "release")

(* A press claims as of a time within its life, and holds what it claimed.  *)
PressIsTimely(q) ==
    request[q] # Absent =>
        request[q].at <= request[q].asked /\ request[q].asked <= clock /\ clock <= request[q].at + RequestLife

HoldsSlot(q) == HasSlot(q) => slot # Absent /\ slot = request[q].asked

(* A page that is shown was made long enough ago, or its press has left    *)
(* the slot taken for long enough.                                         *)
SpacedFromNow(p) ==
    \/ clock >= page[p].made + SlotLife - RequestLife
    \/ slot # Absent /\ slot >= page[p].made - RequestLife /\ \A q \in Request : ~HasSlot(q)

CheckoutSound ==
    /\ CheckoutTypeOK
    /\ \A q \in Request : PressIsTimely(q) /\ HoldsSlot(q)
    /\ \A q, r \in Request : HasSlot(q) /\ HasSlot(r) => q = r
    /\ \A p \in Page : Seen(p) => SpacedFromNow(p)
    /\ PagesAreSpaced

LEMMA InitCheckoutSound == CheckoutInit => CheckoutSound
BY CheckoutAssumption DEF CheckoutInit, CheckoutSound, CheckoutTypeOK, PressIsTimely, HoldsSlot, HasSlot, At, Seen,
    PagesAreSpaced

(* Presses that come and go, or go on, without the slot, and the account.  *)
LEMMA NoSlotKeeps ==
    ASSUME CheckoutSound, NEW q \in Request,
           BeginPress(q) \/ ReadUsage(q) \/ BeginClaim(q)
    PROVE  CheckoutSound'
<1>1. /\ UNCHANGED <<clock, slot, page, current>> /\ active' = active /\ ~HasSlot(q) /\ ~HasSlot(q)'
      /\ \A r \in Request \ {q} : request'[r] = request[r]
      /\ request' \in [Request -> Press \cup {Absent}]
      /\ PressIsTimely(q)'
    BY CheckoutAssumption DEF CheckoutSound, CheckoutTypeOK, BeginPress, ReadUsage, BeginClaim, HasSlot, At, Goto, Finish,
        Press, PressIsTimely
<1>2. \A r \in Request : HasSlot(r)' <=> HasSlot(r)
    BY <1>1 DEF HasSlot, At
<1>3. CheckoutTypeOK' /\ PagesAreSpaced'
    BY <1>1 DEF CheckoutSound, CheckoutTypeOK, PagesAreSpaced, Seen
<1>4. \A r \in Request : PressIsTimely(r)' /\ HoldsSlot(r)'
    BY <1>1, <1>2 DEF CheckoutSound, PressIsTimely, HoldsSlot
<1>5. \A p \in Page : Seen(p)' => SpacedFromNow(p)'
    BY <1>1, <1>2 DEF CheckoutSound, Seen, SpacedFromNow
<1> QED
    BY <1>2, <1>3, <1>4, <1>5 DEF CheckoutSound

LEMMA Times ==
    ASSUME CheckoutSound
    PROVE  /\ clock \in Nat /\ clock <= MaxClock /\ (slot # Absent => slot \in Nat /\ slot <= clock)
           /\ RequestLife \in Nat /\ SlotLife \in Nat /\ MaxClock \in Nat /\ RequestLife < SlotLife
<1>1. clock \in 0..MaxClock /\ (slot # Absent => slot \in 0..clock)
    BY DEF CheckoutSound, CheckoutTypeOK
<1> QED
    BY <1>1, CheckoutAssumption

(* A press takes the slot: nobody has it, and what was shown before is     *)
(* long ago.                                                               *)
LEMMA SlotClaimKeeps == ASSUME CheckoutSound, NEW q \in Request, Claim(q) PROVE CheckoutSound'
<1>0. PICK at \in Nat : at = request[q].asked
    BY DEF Claim, CheckoutSound, CheckoutTypeOK, At, Press
<1>1. /\ UNCHANGED <<clock, active, page, current>> /\ request[q] # Absent
      /\ request[q] \in Press /\ request[q].pc = "waiting" /\ clock \in Nat /\ at <= clock /\ clock \in 0..MaxClock /\ slot # Absent => slot \in 0..clock
      /\ ~HasSlot(q) /\ RequestLife \in Nat /\ SlotLife \in Nat /\ RequestLife < SlotLife
    BY <1>0, CheckoutAssumption DEF Claim, CheckoutSound, CheckoutTypeOK, At, Press, PressIsTimely, HasSlot
<1>a. at <= clock
    BY <1>0, <1>1 DEF CheckoutSound, PressIsTimely
<1>2. /\ \A r \in Request \ {q} : request'[r] = request[r]
      /\ \/ request'[q] = Absent
         \/ /\ ~Busy(at) /\ request'[q].pc \in {"create", "waiting"}
            /\ request'[q].at = request[q].at /\ request'[q].asked = request[q].asked
      /\ request' \in [Request -> Press \cup {Absent}]
    BY <1>0, <1>1 DEF Claim, CheckoutSound, CheckoutTypeOK, Press, Goto, Finish
<1>3. PagesAreSpaced'
    BY <1>1 DEF CheckoutSound, PagesAreSpaced, Seen
<1>4. \A r \in Request \ {q} : (HasSlot(r)' <=> HasSlot(r)) /\ PressIsTimely(r)'
    BY <1>1, <1>2 DEF CheckoutSound, HasSlot, At, PressIsTimely
<1>5. PressIsTimely(q)'
    BY <1>1, <1>2 DEF CheckoutSound, PressIsTimely
<1>6. CASE Busy(at)
  <2>1. slot' = slot /\ request'[q] = Absent
      BY <1>0, <1>1, <1>6 DEF Claim, Finish, CheckoutSound, CheckoutTypeOK
  <2>2. \A r \in Request : HasSlot(r)' <=> HasSlot(r)
      BY <1>1, <1>4, <2>1 DEF HasSlot, At
  <2>3. CheckoutTypeOK'
      BY <1>1, <1>2, <2>1 DEF CheckoutSound, CheckoutTypeOK
  <2>4. \A r \in Request : HoldsSlot(r)'
      BY <1>1, <1>2, <2>1, <2>2 DEF CheckoutSound, HoldsSlot
  <2>5. \A p \in Page : Seen(p)' => SpacedFromNow(p)'
      BY <1>1, <2>1, <2>2 DEF CheckoutSound, Seen, SpacedFromNow
  <2> QED
      BY <1>3, <1>4, <1>5, <2>2, <2>3, <2>4, <2>5 DEF CheckoutSound
<1>7. CASE ~Busy(at)
  <2>1. slot' = at /\ at # Absent /\ (slot # Absent => slot \in Nat /\ slot <= at - SlotLife)
    <3>1. slot' = at
        BY <1>0, <1>7 DEF Claim, ClaimedAt
    <3>2. slot # Absent => slot \in Nat /\ ~(slot > at - SlotLife)
        BY <1>0, <1>7, Times DEF Busy
    <3>3. slot # Absent => slot <= at - SlotLife
        BY <3>2, Times
    <3> QED
        BY <3>1, <3>2, <3>3, CheckoutAssumption
  <2>2. ASSUME NEW r \in Request, HasSlot(r) PROVE FALSE
    <3>1. /\ slot # Absent /\ slot = request[r].asked /\ request[r].at <= request[r].asked
          /\ clock <= request[r].at + RequestLife /\ request[r].at \in Nat /\ request[r].asked \in Nat
        BY <2>2 DEF CheckoutSound, CheckoutTypeOK, HoldsSlot, HasSlot, At, PressIsTimely, Press
    <3>2. PICK start \in Nat, asked \in Nat : start = request[r].at /\ asked = request[r].asked
        BY <3>1
    <3>3. at <= clock /\ asked <= at - SlotLife /\ clock <= start + RequestLife /\ start <= asked
        BY <1>a, <2>1, <3>1, <3>2
    <3> QED
        BY <3>2, <3>3, Times
  <2>3. CheckoutTypeOK'
    <3>1. slot' \in 0..clock'
        BY <1>1, <1>a, <2>1, Times
    <3> QED
        BY <1>1, <1>2, <3>1 DEF CheckoutSound, CheckoutTypeOK
  <2>4. \A r \in Request \ {q} : ~HasSlot(r)'
      BY <1>4, <2>2
  <2>5. HoldsSlot(q)'
      BY <1>0, <1>1, <1>2, <2>1 DEF HoldsSlot, HasSlot, At
  <2>6. ASSUME NEW p \in Page, Seen(p)' PROVE clock' >= page'[p].made + SlotLife - RequestLife
    <3>1. SpacedFromNow(p) /\ page'[p] = page[p] /\ page[p].made \in Nat
        BY <1>1, <2>6 DEF CheckoutSound, CheckoutTypeOK, Seen, PaymentPage
    <3>2. PICK made \in Nat : made = page[p].made
        BY <3>1
    <3>3. clock >= made + SlotLife - RequestLife \/ (slot # Absent /\ slot >= made - RequestLife)
        BY <3>1, <3>2 DEF SpacedFromNow
    <3>4. at <= clock /\ (slot # Absent => slot <= at - SlotLife)
        BY <1>a, <2>1
    <3>5. clock >= made + SlotLife - RequestLife
        BY <3>3, <3>4, Times
    <3> QED
        BY <1>1, <3>1, <3>2, <3>5
  <2> QED
      BY <1>3, <1>4, <1>5, <2>3, <2>4, <2>5, <2>6 DEF CheckoutSound, HoldsSlot, SpacedFromNow
<1> QED
    BY <1>6, <1>7

(* The processor is asked: a page that is shown is made within the life of *)
(* the press that has the slot, which ends.                                *)
LEMMA CreateKeeps == ASSUME CheckoutSound, NEW q \in Request, CreateCheckout(q) PROVE CheckoutSound'
<1>1. /\ UNCHANGED <<clock, active, slot, current>> /\ HasSlot(q)
      /\ request[q] \in Press /\ request[q].pc = "create"
      /\ clock \in Nat /\ slot # Absent /\ slot \in 0..clock /\ slot = request[q].asked
      /\ clock <= slot + RequestLife
      /\ RequestLife \in Nat /\ SlotLife \in Nat /\ RequestLife < SlotLife
  <2>1. request[q] # Absent /\ request[q].pc = "create" /\ request[q] \in Press /\ HasSlot(q)
      BY DEF CreateCheckout, CheckoutSound, CheckoutTypeOK, At, HasSlot
  <2>2. /\ request[q].at \in Nat /\ request[q].asked \in Nat
        /\ request[q].at <= request[q].asked /\ clock <= request[q].at + RequestLife
        /\ slot # Absent /\ slot = request[q].asked /\ clock \in Nat
      BY <2>1, CheckoutAssumption DEF CheckoutSound, CheckoutTypeOK, PressIsTimely, HoldsSlot, Press
  <2> QED
      BY <2>1, <2>2, CheckoutAssumption DEF CreateCheckout, CheckoutSound, CheckoutTypeOK
<1>2. /\ \A r \in Request \ {q} : request'[r] = request[r]
      /\ \/ request'[q] = Absent
         \/ request'[q].at = request[q].at /\ request'[q].asked = request[q].asked
      /\ request' \in [Request -> Press \cup {Absent}]
    BY <1>1 DEF CreateCheckout, CheckoutSound, CheckoutTypeOK, Press, Goto, Finish
<1>3. \A r \in Request \ {q} : ~HasSlot(r) /\ ~HasSlot(r)'
    BY <1>1, <1>2 DEF CheckoutSound, HasSlot, At
<1>4. \A r \in Request : PressIsTimely(r)' /\ HoldsSlot(r)'
  <2>1. PressIsTimely(q)' /\ HoldsSlot(q)'
      BY <1>1, <1>2 DEF CheckoutSound, PressIsTimely, HoldsSlot, HasSlot, At
  <2>2. \A r \in Request \ {q} : PressIsTimely(r)' /\ HoldsSlot(r)'
      BY <1>1, <1>2, <1>3 DEF CheckoutSound, PressIsTimely, HoldsSlot
  <2> QED
      BY <2>1, <2>2
<1>5. ASSUME NEW p \in Page, Seen(p)
      PROVE  clock >= page[p].made + SlotLife - RequestLife /\ page[p].made \in Nat
    BY <1>1, <1>5 DEF CheckoutSound, CheckoutTypeOK, SpacedFromNow, Seen, PaymentPage
<1>6. CASE UNCHANGED page
  <2>1. CheckoutTypeOK' /\ PagesAreSpaced'
      BY <1>1, <1>2, <1>6 DEF CheckoutSound, CheckoutTypeOK, PagesAreSpaced, Seen
  <2>2. \A p \in Page : Seen(p)' => SpacedFromNow(p)'
      BY <1>1, <1>5, <1>6 DEF Seen, SpacedFromNow
  <2> QED
      BY <1>3, <1>4, <2>1, <2>2 DEF CheckoutSound
<1>7. ASSUME NEW p \in Page, NEW state \in {"open", "unseen"}, Make(q, p, state),
             state = "open" => request'[q] = Absent
      PROVE  CheckoutSound'
  <2>1. /\ page[p] = Absent /\ page'[p] = [made |-> clock, state |-> state]
        /\ [made |-> clock, state |-> state] \in PaymentPage
        /\ \A r \in Page \ {p} : page'[r] = page[r]
        /\ page' \in [Page -> PaymentPage \cup {Absent}]
    <3>1. [made |-> clock, state |-> state] \in PaymentPage
        BY <1>1 DEF PaymentPage, PageState
    <3> QED
        BY <1>7, <3>1 DEF Make, CheckoutSound, CheckoutTypeOK
  <2>2. CheckoutTypeOK'
      BY <1>1, <1>2, <2>1 DEF CheckoutSound, CheckoutTypeOK
  <2>3. /\ \A r \in Page \ {p} : (Seen(r)' <=> Seen(r)) /\ page'[r] = page[r]
        /\ Seen(p)' => page'[p].made = clock /\ request'[q] = Absent
      BY <1>7, <2>1 DEF Seen
  <2>4. PagesAreSpaced'
      BY <1>1, <1>5, <2>3 DEF CheckoutSound, PagesAreSpaced
  <2>5. Seen(p)' => SpacedFromNow(p)'
    <3>1. Seen(p)' => ~HasSlot(q)'
        BY <2>3 DEF HasSlot, At
    <3> QED
        BY <1>1, <1>3, <2>3, <3>1 DEF SpacedFromNow
  <2>6. \A r \in Page \ {p} : Seen(r)' => SpacedFromNow(r)'
      BY <1>1, <1>5, <2>3 DEF SpacedFromNow
  <2> QED
      BY <1>3, <1>4, <2>2, <2>4, <2>5, <2>6 DEF CheckoutSound
<1>8. CASE \E p \in Page : Make(q, p, "open") /\ Finish(q)
    BY <1>7, <1>8 DEF Finish, CheckoutSound, CheckoutTypeOK
<1>9. CASE \E p \in Page : Make(q, p, "unseen")
    BY <1>7, <1>9
<1> QED
    BY <1>6, <1>8, <1>9 DEF CreateCheckout

(* A press that fails frees the slot, or dies with it.                     *)
LEMMA RequestEndKeeps == ASSUME CheckoutSound, NEW q \in Request, Release(q) \/ PressDies(q) PROVE CheckoutSound'
<1>1. /\ UNCHANGED <<clock, active, page, current>> /\ request'[q] = Absent
      /\ \A r \in Request \ {q} : request'[r] = request[r]
      /\ request' \in [Request -> Press \cup {Absent}]
      /\ slot' = slot \/ (slot' = Absent /\ HasSlot(q))
    BY DEF Release, PressDies, Finish, CheckoutSound, CheckoutTypeOK, HasSlot
<1>2. /\ \A r \in Request \ {q} : (HasSlot(r)' <=> HasSlot(r)) /\ PressIsTimely(r)'
      /\ ~HasSlot(q)' /\ PressIsTimely(q)'
    BY <1>1 DEF CheckoutSound, HasSlot, At, PressIsTimely
<1>3. CheckoutTypeOK' /\ PagesAreSpaced'
    BY <1>1 DEF CheckoutSound, CheckoutTypeOK, PagesAreSpaced, Seen
<1>4. \A r \in Request : HoldsSlot(r)'
    BY <1>1, <1>2 DEF CheckoutSound, HoldsSlot
<1>5. \A p \in Page : Seen(p)' => SpacedFromNow(p)'
    BY <1>1, <1>2 DEF CheckoutSound, Seen, SpacedFromNow
<1> QED
    BY <1>2, <1>3, <1>4, <1>5 DEF CheckoutSound

(* What the owner and the processor do with a page leaves it shown, made   *)
(* when it was.                                                            *)
LEMMA PageKeeps == ASSUME CheckoutSound, NEW p \in Page, Pay(p) \/ Record(p) \/ Cancel(p) PROVE CheckoutSound'
<1>1. /\ UNCHANGED <<clock, active, slot, request>> /\ page[p] \in PaymentPage /\ Seen(p)
      /\ current' \in Page \cup {Absent}
      /\ \E state \in PageState \ {"unseen"} : page' = [page EXCEPT ![p].state = state]
    BY DEF Pay, Record, Cancel, IsOpen, CheckoutSound, CheckoutTypeOK, Seen, PageState
<1>2. PICK state \in PageState \ {"unseen"} : page' = [page EXCEPT ![p].state = state]
    BY <1>1
<1>3. /\ page'[p] \in PaymentPage /\ page'[p].made = page[p].made /\ page'[p].state # "unseen"
      /\ \A r \in Page \ {p} : page'[r] = page[r]
      /\ page' \in [Page -> PaymentPage \cup {Absent}]
    BY <1>1, <1>2 DEF CheckoutSound, CheckoutTypeOK, PaymentPage
<1>4. \A r \in Page : page'[r] # Absent /\ page[r] # Absent => page'[r].made = page[r].made
    BY <1>3
<1>5. \A r \in Page : Seen(r)' <=> Seen(r)
    BY <1>1, <1>3, CheckoutAssumption DEF Seen
<1>6. CheckoutTypeOK'
    BY <1>1, <1>3 DEF CheckoutSound, CheckoutTypeOK
<1>7. PagesAreSpaced'
    BY <1>4, <1>5 DEF CheckoutSound, PagesAreSpaced, Seen
<1>8. \A r \in Page : Seen(r)' => SpacedFromNow(r)'
    BY <1>1, <1>4, <1>5 DEF CheckoutSound, SpacedFromNow, Seen, HasSlot, At
<1>9. \A r \in Request : PressIsTimely(r)' /\ HoldsSlot(r)' /\ (HasSlot(r)' <=> HasSlot(r))
    BY <1>1 DEF CheckoutSound, PressIsTimely, HoldsSlot, HasSlot, At
<1> QED
    BY <1>6, <1>7, <1>8, <1>9 DEF CheckoutSound

(* Time passes, but no press outlives its instance.                        *)
LEMMA TimeKeeps == ASSUME CheckoutSound, ClockTicks \/ SetActive \/ UNCHANGED checkoutVars PROVE CheckoutSound'
<1>1. /\ UNCHANGED <<slot, request, page, current>> /\ active' \in BOOLEAN
      /\ clock \in 0..MaxClock /\ clock' \in 0..MaxClock /\ clock <= clock'
      /\ \/ clock' = clock
         \/ /\ clock' = clock + 1
            /\ \A q \in Request : request[q] # Absent => clock < request[q].at + RequestLife
  <2>1. CASE ClockTicks
    <3>1. clock' = clock + 1 /\ clock < MaxClock
        BY <2>1 DEF ClockTicks
    <3>2. clock' \in 0..MaxClock /\ clock \in 0..MaxClock /\ clock <= clock'
        BY <3>1, Times
    <3> QED
        BY <2>1, <3>1, <3>2 DEF ClockTicks, CheckoutSound, CheckoutTypeOK
  <2>2. CASE SetActive \/ UNCHANGED checkoutVars
    <3>1. UNCHANGED <<clock, slot, request, page, current>>
        BY <2>2 DEF SetActive, checkoutVars
    <3>2. active' \in BOOLEAN
        BY <2>2 DEF SetActive, checkoutVars, CheckoutSound, CheckoutTypeOK
    <3>3. clock \in 0..MaxClock /\ clock <= clock
        BY Times
    <3> QED
        BY <3>1, <3>2, <3>3
  <2> QED
      BY <2>1, <2>2
<1>2. CheckoutTypeOK' /\ PagesAreSpaced'
    BY <1>1 DEF CheckoutSound, CheckoutTypeOK, PagesAreSpaced, Seen
<1>3. ASSUME NEW r \in Request PROVE PressIsTimely(r)' /\ HoldsSlot(r)' /\ (HasSlot(r)' <=> HasSlot(r))
  <2>1. request[r] # Absent => request[r].at \in Nat /\ request[r].asked \in Nat
      BY DEF CheckoutSound, CheckoutTypeOK, Press
  <2> QED
      BY <1>1, <2>1, CheckoutAssumption DEF CheckoutSound, PressIsTimely, HoldsSlot, HasSlot, At
<1>4. ASSUME NEW p \in Page, Seen(p)' PROVE SpacedFromNow(p)'
  <2>1. Seen(p) /\ SpacedFromNow(p) /\ page[p].made \in Nat
      BY <1>1, <1>4 DEF CheckoutSound, CheckoutTypeOK, Seen, PaymentPage
  <2> QED
      BY <1>1, <1>3, <2>1, CheckoutAssumption DEF SpacedFromNow
<1> QED
    BY <1>2, <1>3, <1>4 DEF CheckoutSound

(* However many presses and tabs race, and whichever of them fail and free *)
(* the slot, two payment pages that are shown were made the slot's life    *)
(* apart, less that of a request (manage-billing/handler.ts 104-107).      *)
THEOREM PagesStaySpaced == CheckoutSpec => [](CheckoutTypeOK /\ PagesAreSpaced)
<1>1. CheckoutSound /\ [CheckoutNext]_checkoutVars => CheckoutSound'
    BY NoSlotKeeps, SlotClaimKeeps, CreateKeeps, RequestEndKeeps, PageKeeps, TimeKeeps DEF CheckoutNext
<1>2. CheckoutSound => CheckoutTypeOK /\ PagesAreSpaced
    BY DEF CheckoutSound
<1> QED
    BY InitCheckoutSound, <1>1, <1>2, PTL DEF CheckoutSpec
=============================================================================

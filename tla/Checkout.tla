------------------------------ MODULE Checkout -------------------------------
(***************************************************************************)
(* Starting a subscription: a brokerage's one checkout slot, the presses   *)
(* that claim it and ask the processor for a payment page, and what the    *)
(* owner does with the pages.                                              *)
(*                                                                         *)
(*   docs/da-owner-safeguards.sql       billing_checkout_claim_at, _release*)
(*   functions/manage-billing           makeHandler, createCheckout        *)
(*   functions/_shared/lemon-billing.ts checkoutRequest                    *)
(*                                                                         *)
(* One brokerage: nothing of this is shared between two.  The processor's  *)
(* events reach the ledger as PaymentLedger says; here a payment is        *)
(* recorded some time after it is made.                                    *)
(***************************************************************************)
EXTENDS Integers, FiniteSets

CONSTANTS
    Request,        \* slots for presses in flight
    Page,           \* payment pages the processor may make
    SlotLife,       \* '10 minutes'
    PageLife,       \* CHECKOUT_LIFETIME_MS
    RequestLife,    \* longest a function instance lives
    MaxClock,       \* bound on the clock
    Absent

Press == [at : Nat, pc : {"usage", "claim", "waiting", "create", "release"}, asked : Nat]
PageState == {"unseen", "open", "paid", "recorded", "canceled"}
PaymentPage == [made : Nat, state : PageState]

ASSUME CheckoutAssumption ==
    /\ SlotLife \in Nat \ {0} /\ PageLife \in Nat \ {0} /\ MaxClock \in Nat
    /\ RequestLife \in Nat /\ RequestLife < SlotLife
    /\ Absent \notin Int \cup Page \cup Press \cup PaymentPage

VARIABLES
    clock,
    active,         \* whether brokerage_account.status is 'active'
    slot,           \* billing_checkout_claim.claimed_at
    request,        \* the presses in flight
    page,           \* the pages the processor made
    current         \* the page whose subscription billing_plan_of reads

checkoutVars == <<clock, active, slot, request, page, current>>

CheckoutInit ==
    /\ clock = 0
    /\ active = TRUE
    /\ slot = Absent
    /\ request = [q \in Request |-> Absent]
    /\ page = [p \in Page |-> Absent]
    /\ current = Absent

-----------------------------------------------------------------------------
(* The function.                                                           *)

At(q, pc) == request[q] # Absent /\ request[q].pc = pc

Goto(q, pc) == request' = [request EXCEPT ![q].pc = pc]
Finish(q) == request' = [request EXCEPT ![q] = Absent]

BeginPress(q) ==
    /\ request[q] = Absent
    /\ request' = [request EXCEPT ![q] = [at |-> clock, pc |-> "usage", asked |-> clock]]
    /\ UNCHANGED <<clock, active, slot, page, current>>

(* checkoutAvailability: a plan that was never paid for, or has ended.     *)
Available == current # Absent => page[current].state = "canceled"

ReadUsage(q) ==
    /\ At(q, "usage")
    /\ IF active /\ Available THEN Goto(q, "claim") ELSE Finish(q)
    /\ UNCHANGED <<clock, active, slot, page, current>>

(* The claim's transaction begins: its now() is fixed, the account is      *)
(* looked at, and it waits for the advisory lock.                          *)
BeginClaim(q) ==
    /\ At(q, "claim")
    /\ IF active
       THEN request' = [request EXCEPT ![q].pc = "waiting", ![q].asked = clock]
       ELSE Finish(q)
    /\ UNCHANGED <<clock, active, slot, page, current>>

(* Fault: the slot is not looked at.                                       *)
NeverBusy(at) == FALSE

Busy(at) == slot # Absent /\ slot > at - SlotLife

(* claimed_at.                                                             *)
ClaimedAt(at) == at

(* The lock is held from the look to the commit.  The answer may be lost,  *)
(* and the press then ends with the slot taken.                            *)
Claim(q) ==
    LET at == request[q].asked IN
    /\ At(q, "waiting")
    /\ IF Busy(at) THEN Finish(q) /\ UNCHANGED slot
       ELSE slot' = ClaimedAt(at) /\ (Goto(q, "create") \/ Finish(q))
    /\ UNCHANGED <<clock, active, page, current>>

Make(q, p, state) ==
    /\ page[p] = Absent
    /\ page' = [page EXCEPT ![p] = [made |-> clock, state |-> state]]

(* The processor is asked.  It may make the page and its answer be lost or *)
(* unreadable, which the function cannot tell from no page.                *)
CreateCheckout(q) ==
    /\ At(q, "create")
    /\ \/ \E p \in Page : Make(q, p, "open") /\ Finish(q)
       \/ \E p \in Page : Make(q, p, "unseen") /\ (Goto(q, "release") \/ Finish(q))
       \/ Goto(q, "release") /\ UNCHANGED page
    /\ UNCHANGED <<clock, active, slot, current>>

(* The slot is freed, whoever holds it; a failed call is swallowed.        *)
Release(q) ==
    /\ At(q, "release")
    /\ Finish(q)
    /\ slot' \in {slot, Absent}
    /\ UNCHANGED <<clock, active, page, current>>

PressDies(q) ==
    /\ request[q] # Absent
    /\ Finish(q)
    /\ UNCHANGED <<clock, active, slot, page, current>>

-----------------------------------------------------------------------------
(* The owner, the processor and the account.                               *)

IsOpen(p) == page[p] # Absent /\ page[p].state = "open" /\ clock < page[p].made + PageLife

Pay(p) ==
    /\ IsOpen(p)
    /\ page' = [page EXCEPT ![p].state = "paid"]
    /\ UNCHANGED <<clock, active, slot, request, current>>

(* The webhook: the subscription is bound, and is the newest binding.      *)
Record(p) ==
    /\ page[p] # Absent /\ page[p].state = "paid"
    /\ page' = [page EXCEPT ![p].state = "recorded"]
    /\ current' = p
    /\ UNCHANGED <<clock, active, slot, request>>

Cancel(p) ==
    /\ page[p] # Absent /\ page[p].state = "recorded"
    /\ page' = [page EXCEPT ![p].state = "canceled"]
    /\ UNCHANGED <<clock, active, slot, request, current>>

SetActive ==
    /\ active' = ~active
    /\ UNCHANGED <<clock, slot, request, page, current>>

ClockTicks ==
    /\ clock < MaxClock
    /\ \A q \in Request : request[q] # Absent => clock < request[q].at + RequestLife
    /\ clock' = clock + 1
    /\ UNCHANGED <<active, slot, request, page, current>>

CheckoutNext ==
    \/ \E q \in Request :
         BeginPress(q) \/ ReadUsage(q) \/ BeginClaim(q) \/ Claim(q) \/ CreateCheckout(q) \/ Release(q) \/ PressDies(q)
    \/ \E p \in Page : Pay(p) \/ Record(p) \/ Cancel(p)
    \/ SetActive \/ ClockTicks

CheckoutSpec == CheckoutInit /\ [][CheckoutNext]_checkoutVars

-----------------------------------------------------------------------------
(* Types; a claim is never dated ahead of the clock.                       *)
CheckoutTypeOK ==
    /\ clock \in 0..MaxClock /\ active \in BOOLEAN
    /\ slot # Absent => slot \in 0..clock
    /\ request \in [Request -> Press \cup {Absent}]
    /\ page \in [Page -> PaymentPage \cup {Absent}]
    /\ current \in Page \cup {Absent}

Seen(p) == page[p] # Absent /\ page[p].state # "unseen"

(* Two payment pages shown to the owner are made at least the slot's life  *)
(* apart, less the life of one request, however many presses and tabs race *)
(* and whichever of them fail and free the slot                            *)
(* (manage-billing/handler.ts 104-107).                                    *)
PagesAreSpaced ==
    \A p, r \in Page :
        p # r /\ Seen(p) /\ Seen(r) =>
            \/ page[p].made >= page[r].made + SlotLife - RequestLife
            \/ page[r].made >= page[p].made + SlotLife - RequestLife
=============================================================================

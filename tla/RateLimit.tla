------------------------------ MODULE RateLimit -------------------------------
(***************************************************************************)
(* The rate limit of report requests and of client-link views: fixed       *)
(* windows, several spans to a subject, one claim taking from every window *)
(* of its subjects or from none.                                           *)
(*                                                                         *)
(*   docs/report-rate-limit.sql      report_rate_claim_at, report_rate_claim*)
(*   docs/da-owner-safeguards.sql    share_view_claim_at, share_view_claim *)
(*                                                                         *)
(* The two functions are the same rule over different subjects: a person   *)
(* and the brokerage the resolver names, or a caller and the link asked    *)
(* for.  A claim's clock is its transaction's start, so a claim that       *)
(* waited for an advisory lock may count itself into a window that began   *)
(* after it did.                                                           *)
(***************************************************************************)
EXTENDS Naturals, FiniteSets

CONSTANTS
    First,          \* bucket 'user', or 'client'
    Second,         \* bucket 'brokerage', or 'link'
    Span,           \* window_secs
    Limit,          \* max_requests, by bucket and span
    Claim,          \* slots for claims in flight
    Retention,      \* age at which a claim deletes a row ('2 days'), or None
    Patience,       \* longest a claim is in flight
    MaxClock,       \* bound on the clock
    None

ASSUME RateAssumption ==
    /\ First \cap Second = {} /\ None \notin First \cup Second
    /\ Span \subseteq Nat \ {0}
    /\ Limit \in [{"first", "second"} -> [Span -> Nat \ {0}]]
    /\ MaxClock \in Nat /\ Patience \in Nat
    /\ Retention # None => Retention \in Nat /\ \A w \in Span : Retention + 1 >= w + Patience

VARIABLES
    clock,
    window,         \* report_rate_window / share_view_window, by subject and span
    claim,          \* the claims in flight
    granted         \* history: the claims allowed, with when they were asked for and given

rateVars == <<clock, window, claim, granted>>

Subject == First \cup Second
Row == [start : Nat, used : Nat \ {0}]
Grant == [subject : Subject, asked : 0..MaxClock, given : 0..MaxClock, nth : Nat]
InFlight == [first : First, second : Second \cup {None}, at : Nat,
             pc : {"asked", "one", "both", "room"}]

(* The absence of a row or of a claim is neither.                          *)
ASSUME RowsAreRows == None \notin Row \cup InFlight

LimitOf(x, w) == IF x \in First THEN Limit["first"][w] ELSE Limit["second"][w]

(* Where the window of length w that holds time t begins.                  *)
WindowStart(t, w) == (t \div w) * w

Init ==
    /\ clock = 0
    /\ window = [x \in Subject |-> [w \in Span |-> None]]
    /\ claim = [c \in Claim |-> None]
    /\ granted = {}

-----------------------------------------------------------------------------
(* Advisory locks: the first subject's, then the second's.                 *)

SubjectsOf(r) == {r.first} \cup ({r.second} \ {None})

(* Fault: no lock serialises two claims of one subject.                    *)
NobodyHolds(x) == {}

Holders(x) ==
    {c \in Claim : claim[c] # None /\
        \/ claim[c].pc \in {"one", "both", "room"} /\ claim[c].first = x
        \/ claim[c].pc \in {"both", "room"} /\ claim[c].second = x}

(* The resolver, or the caller's token, names a second subject or none.    *)
Ask(c) ==
    \E x \in First, y \in Second \cup {None} :
        /\ claim[c] = None
        /\ claim' = [claim EXCEPT ![c] = [first |-> x, second |-> y, at |-> clock, pc |-> "asked"]]
        /\ UNCHANGED <<clock, window, granted>>

Goto(c, pc) ==
    /\ claim' = [claim EXCEPT ![c].pc = pc]
    /\ UNCHANGED <<clock, window, granted>>

LockFirst(c) ==
    /\ claim[c] # None /\ claim[c].pc = "asked"
    /\ Holders(claim[c].first) = {}
    /\ Goto(c, "one")

LockSecond(c) ==
    /\ claim[c] # None /\ claim[c].pc = "one"
    /\ claim[c].second # None => Holders(claim[c].second) = {}
    /\ Goto(c, "both")

(* What the row says of the claim's window or of a later one.              *)
Used(x, w, at) ==
    IF window[x][w] # None /\ window[x][w].start >= WindowStart(at, w) THEN window[x][w].used ELSE 0

HasRoom(r) == \A x \in SubjectsOf(r), w \in Span : Used(x, w, r.at) < LimitOf(x, w)

(* The first pass only reads; a refusal consumes nothing.                  *)
Count(c) ==
    /\ claim[c] # None /\ claim[c].pc = "both"
    /\ \/ HasRoom(claim[c]) /\ Goto(c, "room")
       \/ /\ ~HasRoom(claim[c])
          /\ claim' = [claim EXCEPT ![c] = None]
          /\ UNCHANGED <<clock, window, granted>>

(* Fault: a window of its own starts at nothing.                           *)
TakenFromZero(row, w, at) ==
    IF row # None /\ row.start >= WindowStart(at, w)
    THEN [row EXCEPT !.used = @ + 1]
    ELSE [start |-> WindowStart(at, w), used |-> 0]

(* insert ... on conflict: into the row's window, or a window of its own.  *)
Taken(row, w, at) ==
    IF row # None /\ row.start >= WindowStart(at, w)
    THEN [row EXCEPT !.used = @ + 1]
    ELSE [start |-> WindowStart(at, w), used |-> 1]

(* Fault: a row may go once its window has begun, however long it lasts.   *)
DeadTooSoon(at) ==
    {p \in Subject \X Span : window[p[1]][p[2]] # None /\ window[p[1]][p[2]].start < at}

(* Housekeeping of the client-link table: rows old enough may go.          *)
Dead(at) ==
    {p \in Subject \X Span :
        /\ Retention # None /\ window[p[1]][p[2]] # None
        /\ window[p[1]][p[2]].start + Retention < at}

(* The second pass takes one from every window, and the claim commits.  A   *)
(* row of another's that housekeeping would delete may be locked: it waits, *)
(* and deletes nothing that was written meanwhile, so what is counted is    *)
(* as in one step; AskingProofs says who may wait for whom.                *)
Take(c) ==
    LET r == claim[c]
        dead == Dead(r.at)
    IN  /\ r # None /\ r.pc = "room"
        /\ window' = [x \in Subject |-> [w \in Span |->
             IF x \in SubjectsOf(r) THEN Taken(window[x][w], w, r.at)
             ELSE IF <<x, w>> \in dead THEN None ELSE window[x][w]]]
        /\ granted' = granted \cup
             {[subject |-> x, asked |-> r.at, given |-> clock,
               nth |-> Cardinality({g \in granted : g.subject = x /\ g.asked = r.at /\ g.given = clock})] :
              x \in SubjectsOf(r)}
        /\ claim' = [claim EXCEPT ![c] = None]
        /\ UNCHANGED clock

(* The connection drops: nothing was taken.                                *)
Lose(c) ==
    /\ claim[c] # None
    /\ claim' = [claim EXCEPT ![c] = None]
    /\ UNCHANGED <<clock, window, granted>>

(* Time passes, but a statement timeout ends a claim that waits too long.  *)
Tick ==
    /\ clock < MaxClock
    /\ \A c \in Claim : claim[c] # None => clock < claim[c].at + Patience
    /\ clock' = clock + 1
    /\ UNCHANGED <<window, claim, granted>>

Next ==
    \/ Tick
    \/ \E c \in Claim : Ask(c) \/ LockFirst(c) \/ LockSecond(c) \/ Count(c) \/ Take(c) \/ Lose(c)

Spec == Init /\ [][Next]_rateVars

-----------------------------------------------------------------------------
(* Types.                                                                  *)
TypeOK ==
    /\ clock \in 0..MaxClock
    /\ window \in [Subject -> [Span -> Row \cup {None}]]
    /\ claim \in [Claim -> InFlight \cup {None}]
    /\ granted \subseteq Grant

(* No window's counter ever stands above its limit, however many claims of *)
(* one person or brokerage run at once (report-rate-limit.sql 167-169).    *)
WithinLimit ==
    \A x \in Subject, w \in Span : window[x][w] # None => window[x][w].used <= LimitOf(x, w)

(* The claims that were asked for and allowed within any stretch of        *)
(* windows number at most the limit for each window of it: a claim that    *)
(* waited across a boundary is counted in one of the windows it spans, and *)
(* no row forgets what it counted (report-rate-limit.sql 16-19).           *)
AllowedIn(x, from, till) ==
    Cardinality({g \in granted : g.subject = x /\ g.asked >= from /\ g.given < till})

StretchWithinLimit ==
    \A x \in Subject, w \in Span :
        \A i \in 0..(MaxClock \div w) : \A j \in i..(MaxClock \div w) :
            AllowedIn(x, i * w, (j + 1) * w) <= LimitOf(x, w) * (j + 1 - i)

(* The rate limit's promise: no window's counter, and no stretch of        *)
(* windows, ever allows more than its limit.                               *)
LimitsHold == WithinLimit /\ StretchWithinLimit
=============================================================================

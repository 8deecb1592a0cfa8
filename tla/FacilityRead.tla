----------------------------- MODULE FacilityRead -----------------------------
(***************************************************************************)
(* One read of EPA's facilities around a place, by the report function.    *)
(*                                                                         *)
(*   sources/epa-frs.ts   the ladder: a circle EPA finds too large is      *)
(*                        shrunk, a call that fails is repeated, and the   *)
(*                        whole read ends by a deadline                    *)
(*   index.ts             facilitySites: the filter, the nearest few, the  *)
(*                        hint where to start and the way back from it     *)
(*   sources/planes.ts    the hard stop                                    *)
(*                                                                         *)
(* The page stores what the read brings as all there is, so what matters   *)
(* is which circle an answer speaks of.                                    *)
(***************************************************************************)
EXTENDS Naturals, FiniteSets

CONSTANTS
    Rung,           \* the radii of the ladder
    Requested,      \* the largest of them
    Facility,       \* what EPA registers here
    Distance,
    Industrial,     \* those the page is about
    MaxFacilities,  \* how many the page keeps
    Attempts,       \* at one radius
    Budget          \* time until the deadline

ASSUME ReadAssumption ==
    /\ Rung \subseteq Nat /\ IsFiniteSet(Rung)
    /\ Requested \in Rung /\ \A r \in Rung : r <= Requested
    /\ IsFiniteSet(Facility) /\ Distance \in [Facility -> Nat]
    /\ Industrial \subseteq Facility
    /\ MaxFacilities \in Nat /\ Attempts \in Nat \ {0} /\ Budget \in Nat

VARIABLES
    pc,             \* "start", "ladder", "judge", "done"
    start,          \* the rung this ladder started at
    rung,
    attempt,
    left,           \* time left before the deadline
    refused,        \* rungs EPA found too large in this ladder
    why,            \* how the ladder ended: "ok" or the reason it has no answer
    epa,            \* what the read reports: ok, and the radius that answered
    sites           \* the facilities it keeps

readVars == <<pc, start, rung, attempt, left, refused, why, epa, sites>>

Reasons == {"", "ok", "process_limit", "transient", "deadline", "schema", "partial_scope"}
Unavailable == [ok |-> FALSE, used |-> 0]

Within(r) == {f \in Facility : Distance[f] <= r}

(* The nearest few of a set, equally near ones in any order.               *)
NearestOf(S) ==
    {k \in SUBSET S :
        /\ Cardinality(k) <= MaxFacilities
        /\ Cardinality(k) < MaxFacilities => k = S
        /\ \A f \in k, g \in S \ k : Distance[f] <= Distance[g]}

Kept(r) == NearestOf(Industrial \cap Within(r))

Init ==
    /\ pc = "start" /\ start = Requested /\ rung = Requested
    /\ attempt = 1 /\ left = Budget /\ refused = {} /\ why = ""
    /\ epa = Unavailable /\ sites = {}

(* The stored list of this place may fit a smaller rung: start there.      *)
Start(hint) ==
    /\ pc = "start" /\ pc' = "ladder"
    /\ start' = hint /\ rung' = hint
    /\ UNCHANGED <<attempt, left, refused, why, epa, sites>>

-----------------------------------------------------------------------------
(* The ladder.                                                             *)

End(reason) == pc' = "judge" /\ why' = reason
InTime == pc = "ladder" /\ left > 0
Spend == \E rest \in 0..left : left' = rest

OutOfTime ==
    /\ pc = "ladder" /\ left = 0
    /\ End("deadline")
    /\ UNCHANGED <<start, rung, attempt, left, refused, epa, sites>>

(* Nothing in a smaller circle says nothing about the requested one.       *)
Answered ==
    /\ InTime /\ Spend
    /\ End(IF Within(rung) = {} /\ rung < Requested THEN "partial_scope" ELSE "ok")
    /\ UNCHANGED <<start, rung, attempt, refused, epa, sites>>

Unrecognised ==
    /\ InTime /\ Spend
    /\ End("schema")
    /\ UNCHANGED <<start, rung, attempt, refused, epa, sites>>

Smaller(r) == {s \in Rung : s < r}

Shrink(reason) ==
    \/ Smaller(rung) = {} /\ End(reason) /\ UNCHANGED <<rung, attempt>>
    \/ \E next \in Smaller(rung) :
         /\ \A s \in Smaller(rung) : s <= next
         /\ rung' = next /\ attempt' = 1
         /\ UNCHANGED <<pc, why>>

TooBig ==
    /\ InTime /\ Spend
    /\ refused' = refused \cup {rung}
    /\ Shrink("process_limit")
    /\ UNCHANGED <<start, epa, sites>>

(* Fault: a circle that failed too often is shrunk.                        *)
ShrinksWhenTired == Shrink("transient")

GivesUp == End("transient") /\ UNCHANGED <<rung, attempt>>

LastTry == attempt = Attempts

(* Waits before it asks again, if that leaves time to ask.                 *)
Transient ==
    /\ InTime /\ Spend
    /\ IF LastTry THEN GivesUp
       ELSE IF left' = 0 THEN End("deadline") /\ UNCHANGED <<rung, attempt>>
       ELSE attempt' = attempt + 1 /\ UNCHANGED <<pc, rung, why>>
    /\ UNCHANGED <<start, refused, epa, sites>>

-----------------------------------------------------------------------------
(* What facilitySites makes of it.                                         *)

Hinted == start # Requested

(* A hinted answer counts only when it must be the whole circle's.         *)
Doubts(kept) ==
    /\ Hinted
    /\ \/ why = "ok" /\ Cardinality(kept) < MaxFacilities
       \/ why = "partial_scope"

Judge ==
    /\ pc = "judge"
    /\ \E kept \in IF why = "ok" THEN Kept(rung) ELSE {{}} :
         IF Doubts(kept)
         THEN /\ pc' = "ladder" /\ start' = Requested /\ rung' = Requested
              /\ attempt' = 1 /\ refused' = {} /\ why' = ""
              /\ UNCHANGED <<epa, sites>>
         ELSE /\ pc' = "done" /\ sites' = kept
              /\ epa' = IF why = "ok" THEN [ok |-> TRUE, used |-> rung] ELSE Unavailable
              /\ UNCHANGED <<start, rung, attempt, refused, why>>
    /\ UNCHANGED left

(* The outer guard, or an error: no answer, never an empty one.            *)
HardStop ==
    /\ pc \in {"ladder", "judge"}
    /\ pc' = "done" /\ epa' = Unavailable /\ sites' = {}
    /\ UNCHANGED <<start, rung, attempt, left, refused, why>>

Done == pc = "done" /\ UNCHANGED readVars

Next ==
    \/ \E hint \in Rung : Start(hint)
    \/ OutOfTime \/ Answered \/ Unrecognised \/ TooBig \/ Transient
    \/ Judge \/ HardStop \/ Done

Spec == Init /\ [][Next]_readVars

-----------------------------------------------------------------------------
(* Types.                                                                  *)
TypeOK ==
    /\ pc \in {"start", "ladder", "judge", "done"}
    /\ start \in Rung /\ rung \in Rung
    /\ attempt \in 1..Attempts /\ left \in 0..Budget
    /\ refused \subseteq Rung /\ why \in Reasons
    /\ epa \in [ok : BOOLEAN, used : Rung \cup {0}]
    /\ sites \subseteq Industrial

(* What is kept is what the page would keep of the requested circle, or    *)
(* EPA refused every larger circle: neither failures nor the hint ever     *)
(* shrink the search (epa-frs.ts 308-319, index.ts 383-397).               *)
SmallCircleIsExcused ==
    pc = "done" /\ epa.ok =>
        \/ sites \in Kept(Requested)
        \/ \A r \in Rung : r > epa.used => r \in refused
=============================================================================

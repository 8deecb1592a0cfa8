---------------------------- MODULE MCBackground -----------------------------
(* What runs behind the pages, in one run: the processor's events and the   *)
(* checkout slot, the refresh of the ZIP pages, one read of EPA, the daily  *)
(* check of watched properties, a video on its way to Bluesky, the build of *)
(* a generation of the map, and which generation serves.  These share no    *)
(* state here: an initial state chooses the part that moves, and the        *)
(* variables of the others stand still.                                    *)
EXTENDS FacilityRead, MCRollingRefresh, VideoQueue, GenerationPublish, ShardBuild,
    PaymentLedger, Checkout, PropertyWatch, TLC

CONSTANTS x1, x2, y1, y2

VARIABLE part

(* Four facilities, two of them equally near.                              *)
MCFacility == {"near", "office", "far", "farthest"}
MCDistance == [f \in MCFacility |-> CASE f \in {"near", "office"} -> 1 [] f = "far" -> 2 [] OTHER -> 3]

(* Two live subscriptions, the order of their bindings' ids, and a test one. *)
MCRank == [live1 |-> 1, live2 |-> 2, test |-> 3]

(* Two shards; a key with a feature in the other's prefix, and a key that   *)
(* both state.                                                             *)
MCKeysOf == <<{"own", "shared"}, {"shared"}>>
MCKeyOf == <<"own", "own", "shared", "shared">>
MCPlace == <<0, 2, 1, 0>>

SumInit ==
    /\ part \in {"facility", "payment", "slot", "zips", "watching", "queue", "shards", "maps"}
    /\ Init /\ RefreshInit /\ LedgerInit /\ CheckoutInit /\ WatchInit /\ QueueInit /\ GenerationInit
    /\ part # "queue" => ~review.lacking
    /\ BuildInit /\ (part # "shards" => stored = {})
    /\ part # "zips" => turn = {}

(* The bounds on requests and crashes end every behaviour of a refresh.    *)
RefreshStops == fires = MaxFires /\ UNCHANGED refreshVars

(* A build ends when it is ready, or waits for an operator when a shard has *)
(* been tried as often as it may be.                                       *)
BuildStops ==
    /\ map.ready \/ \E z \in Shard : shard[z].tries = MaxTries /\ shard[z].state # "done"
    /\ UNCHANGED buildVars

SumNext ==
    /\ UNCHANGED part
    /\ \/ /\ part = "facility" /\ Next
          /\ UNCHANGED <<paymentVars, checkoutVars, refreshVars, watchVars, queueVars, buildVars, generationVars>>
       \/ /\ part = "payment" /\ LedgerNext
          /\ UNCHANGED <<readVars, checkoutVars, refreshVars, watchVars, queueVars, buildVars, generationVars>>
       \/ /\ part = "slot" /\ CheckoutNext
          /\ UNCHANGED <<readVars, paymentVars, refreshVars, watchVars, queueVars, buildVars, generationVars>>
       \/ /\ part = "zips" /\ (RefreshNext \/ RefreshStops)
          /\ UNCHANGED <<readVars, paymentVars, checkoutVars, watchVars, queueVars, buildVars, generationVars>>
       \/ /\ part = "watching" /\ WatchNext
          /\ UNCHANGED <<readVars, paymentVars, checkoutVars, refreshVars, queueVars, buildVars, generationVars>>
       \/ /\ part = "queue" /\ QueueNext
          /\ UNCHANGED <<readVars, paymentVars, checkoutVars, refreshVars, watchVars, buildVars, generationVars>>
       \/ /\ part = "maps" /\ GenerationNext
          /\ UNCHANGED <<readVars, paymentVars, checkoutVars, refreshVars, watchVars, queueVars, buildVars>>
       \/ /\ part = "shards" /\ (BuildNext \/ BuildStops)
          /\ UNCHANGED <<readVars, paymentVars, checkoutVars, refreshVars, watchVars, queueVars, generationVars>>

SumSpec ==
    /\ SumInit
    /\ [][SumNext]_<<part, readVars, paymentVars, checkoutVars, refreshVars, watchVars, queueVars, buildVars, generationVars>>

BackgroundSymmetry == Permutations({x1, x2}) \cup Permutations({y1, y2})

-----------------------------------------------------------------------------
(* The properties of the modules keep their names, and hold of their        *)
(* initial states in the other parts.                                      *)

(* Types of every table, request and lock of every part.                   *)
TypesOK ==
    /\ TypeOK /\ RefreshTypeOK /\ QueueTypeOK /\ GenerationTypeOK /\ LedgerTypeOK /\ CheckoutTypeOK
    /\ BuildTypeOK /\ WatchTypeOK
=============================================================================

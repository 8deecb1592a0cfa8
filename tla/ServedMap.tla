------------------------------ MODULE ServedMap ------------------------------
(***************************************************************************)
(* What the publication promises whoever reads the map: one generation     *)
(* serves; a generation is activated once and knows what served before it; *)
(* what was replaced is kept to be returned to, the one before the serving *)
(* generation in any case, until that one has been returned to itself; and  *)
(* what was discarded never serves again                                   *)
(* (docs/n5-generation-contract.sql 113-135, docs/n5-generation-publish.sql *)
(* 106-110).                                                               *)
(***************************************************************************)
CONSTANTS Generation, Legacy, Nothing

VARIABLES
    serving,    \* the generation that is served
    kept,       \* those that may be returned to
    gone,       \* those that were replaced and then discarded
    before,     \* what a generation replaced when it was activated, if it says
    returned    \* the generations that were returned to

servedVars == <<serving, kept, gone, before, returned>>

Init ==
    /\ serving = Legacy
    /\ kept = {} /\ gone = {} /\ returned = {}
    /\ before = [g \in Generation |-> Nothing]

Activate(g) ==
    /\ g # serving /\ serving' = g
    /\ g \notin kept \cup gone
    /\ kept' = kept \cup {serving}
    /\ \E b \in {serving, Nothing} : before' = [before EXCEPT ![g] = b]
    /\ UNCHANGED <<gone, returned>>

Return(g) ==
    /\ g \in kept
    /\ serving' = g
    /\ kept' = (kept \ {g}) \cup {serving}
    /\ returned' = returned \cup {g}
    /\ UNCHANGED <<gone, before>>

Discard(g) ==
    /\ g \in kept
    /\ before[serving] = g => serving \in returned
    /\ kept' = kept \ {g}
    /\ gone' = gone \cup {g}
    /\ UNCHANGED <<serving, before, returned>>

Next ==
    \/ \E g \in Generation : Activate(g)
    \/ \E g \in kept : Return(g) \/ Discard(g)

Spec == Init /\ [][Next]_servedVars
=============================================================================

-------------------------- MODULE GenerationPublish --------------------------
(***************************************************************************)
(* Which generation of the map's rows is served, and what may become of    *)
(* the others.                                                             *)
(*                                                                         *)
(*   docs/n5-generation-contract.sql       the states, one serving row     *)
(*   docs/n5-generation-publish.sql        the guard of the rows, rollback, *)
(*                                         fail                            *)
(*   docs/n5-generation-publish-part-d.sql ready, discard                  *)
(*   docs/n5-generation-publish-part-e.sql the publication of a prefix     *)
(*   docs/n5-generation-publish-part-h.sql the proof and the activation    *)
(*   scripts/n5_orchestrate.py             the hourly run and the operator  *)
(*                                                                         *)
(* A session is one call.  READ COMMITTED: a statement that waits for a    *)
(* row looks at it again when it has it, and at no other; it keeps the     *)
(* lock whatever it sees.  A step that holds one row from its first        *)
(* statement to its commit is one action.                                  *)
(***************************************************************************)
CONSTANTS Generation, Legacy, Session, Nothing

ASSUME GenerationAssumption ==
    Legacy \in Generation /\ Nothing \notin Generation

VARIABLES
    gen,             \* n5_generation: state, predecessor, superseded_from_state;
                     \* its rows, and whether the unresolved are accounted for
    proof,           \* the newest pre-activation proof of each
    tx,              \* the sessions, with the rows of n5_generation they hold
    replaced,        \* history: what served when a generation was first activated
    returned         \* history: the generations that serve again by a rollback

generationVars == <<gen, proof, tx, replaced, returned>>

ServingState == {"ACTIVE", "ACTIVE_LEGACY"}
State == {"none", "BUILDING", "READY", "SUPERSEDED", "FAILED"} \cup ServingState

Serves(g) == gen[g].state \in ServingState

(* n5_serving_generation_id; at most one row serves, by a unique index.    *)
Serving == IF \E g \in Generation : Serves(g) THEN CHOOSE g \in Generation : Serves(g) ELSE Nothing

Idle == [phase |-> "idle", gen |-> Nothing, seen |-> Nothing, old |-> Nothing, held |-> {}]

GenerationInit ==
    /\ gen = [g \in Generation |->
                [state |-> IF g = Legacy THEN "ACTIVE_LEGACY" ELSE "none",
                 pred |-> Nothing, from |-> "none",
                 rows |-> IF g = Legacy THEN "whole" ELSE "none", accounted |-> FALSE]]
    /\ proof = [g \in Generation |-> [base |-> Nothing, passed |-> FALSE]]
    /\ tx = [s \in Session |-> Idle]
    /\ replaced = [g \in Generation |-> Nothing]
    /\ returned = {}

Free(g) == \A s \in Session : g \notin tx[s].held
FreeFor(s, g) == \A t \in Session \ {s} : g \notin tx[t].held

Ends(s) == tx' = [tx EXCEPT ![s] = Idle]
Goes(s, phase, g, seen, held) ==
    tx' = [tx EXCEPT ![s] = [phase |-> phase, gen |-> g, seen |-> seen, old |-> Nothing, held |-> held]]

-----------------------------------------------------------------------------
(* The build.                                                              *)

open_generation(g) ==
    /\ gen[g].state = "none"
    /\ gen' = [gen EXCEPT ![g].state = "BUILDING"]
    /\ UNCHANGED <<proof, tx, replaced, returned>>

Builds(g) == Free(g) /\ gen[g].state = "BUILDING"

(* Some prefixes are there, then all; a prefix may be published again.     *)
n5_gen_publish_prefix(g) ==
    /\ Builds(g)
    /\ \E rows \in {"part", "whole"} :
         gen' = [gen EXCEPT ![g].rows = rows, ![g].accounted = FALSE]
    /\ UNCHANGED <<proof, tx, replaced, returned>>

n5_gen_record_unresolved(g) ==
    /\ Builds(g) /\ gen[g].rows = "whole"
    /\ gen' = [gen EXCEPT ![g].accounted = TRUE]
    /\ UNCHANGED <<proof, tx, replaced, returned>>

(* n5_generation_publish_problems finds none.                              *)
Complete(g) == gen[g].rows = "whole" /\ gen[g].accounted

n5_generation_mark_ready(g) ==
    /\ Builds(g) /\ Complete(g)
    /\ gen' = [gen EXCEPT ![g].state = "READY"]
    /\ UNCHANGED <<proof, tx, replaced, returned>>

n5_generation_fail(g) ==
    /\ Free(g) /\ gen[g].state \in {"BUILDING", "READY"}
    /\ gen' = [gen EXCEPT ![g].state = "FAILED"]
    /\ UNCHANGED <<proof, tx, replaced, returned>>

(* Fault: the guard reads the state and holds nothing.                     *)
GuardOnlyReads(g) == {}

(* n5_generation_row_guard: a writer holds the row it was let in by.       *)
GuardHolds(g) == {g}

(* Another writer of the rows: a script that deletes and inserts a prefix.  *)
BeginWrite(s, g) ==
    /\ tx[s].phase = "idle" /\ Builds(g)
    /\ Goes(s, "writing", g, Nothing, GuardHolds(g))
    /\ UNCHANGED <<gen, proof, replaced, returned>>

EndWrite(s) ==
    /\ tx[s].phase = "writing"
    /\ gen' = [gen EXCEPT ![tx[s].gen].rows = "part"]
    /\ Ends(s)
    /\ UNCHANGED <<proof, replaced, returned>>

-----------------------------------------------------------------------------
(* The proof: a browser draws the candidate beside what serves, and the    *)
(* result is recorded with what serves by then.                            *)

prove(s, g) ==
    /\ tx[s].phase = "idle"
    /\ gen[g].state = "READY" /\ Serving # Nothing
    /\ Goes(s, "drawing", g, Serving, {})
    /\ UNCHANGED <<gen, proof, replaced, returned>>

(* Fault: the proof is written beside the row, not under its lock.         *)
Unheld(g) == TRUE

(* One row lock keeps a proof and an activation apart.                     *)
Unhindered(g) == Free(g)

n5_generation_record_proof(s) ==
    LET g == tx[s].gen
    IN  /\ tx[s].phase = "drawing"
        /\ Unhindered(g) /\ gen[g].state = "READY"
        /\ \E passed \in BOOLEAN :
             /\ passed => tx[s].seen = Serving
             /\ proof' = [proof EXCEPT ![g] = [base |-> Serving, passed |-> passed]]
        /\ Ends(s)
        /\ UNCHANGED <<gen, replaced, returned>>

-----------------------------------------------------------------------------
(* The activation.                                                         *)

ProvenAgainstServing(g) == proof[g].passed /\ proof[g].base = Serving

(* It holds its own row while it counts everything again, for minutes.     *)
n5_generation_activate(s, g) ==
    /\ tx[s].phase = "idle"
    /\ Free(g) /\ gen[g].state = "READY" /\ Complete(g)
    /\ ProvenAgainstServing(g)
    /\ Goes(s, "checked", g, Nothing, {g})
    /\ UNCHANGED <<gen, proof, replaced, returned>>

SeekServing(s) ==
    /\ tx[s].phase = "checked"
    /\ Goes(s, "seeking", tx[s].gen, Serving, tx[s].held)
    /\ UNCHANGED <<gen, proof, replaced, returned>>

(* Fault: the row that was found is taken for the one that serves.         *)
WhatItFound(g) == g

(* The row that was found, if it still serves when it is had.              *)
StillServing(g) == IF Serves(g) THEN g ELSE Nothing

(* Its lock is kept to the end of the call, also where it serves no more.   *)
LockServing(s) ==
    LET found == tx[s].seen
    IN  /\ tx[s].phase = "seeking" /\ FreeFor(s, found)
        /\ Goes(s, "locked", tx[s].gen, StillServing(found), tx[s].held \cup {found})
        /\ UNCHANGED <<gen, proof, replaced, returned>>

(* n5_generation_one_serving                                               *)
OnlyOne(g, old) == \A h \in Generation \ {g, old} : ~Serves(h)

(* Fault: the state is written before it is kept.                          *)
RetiredFirst(g) == [gen[g] EXCEPT !.from = "SUPERSEDED", !.state = "SUPERSEDED"]

Retired(g) == [gen[g] EXCEPT !.from = gen[g].state, !.state = "SUPERSEDED"]

SeekOld(s) ==
    /\ tx[s].phase = "locked"
    /\ tx' = [tx EXCEPT ![s].phase = "replacing", ![s].old = Serving]
    /\ UNCHANGED <<gen, proof, replaced, returned>>

(* It supersedes what served when the statement began, if it does still;   *)
(* what it had locked is written down as its predecessor.                  *)
Replace(s) ==
    LET g == tx[s].gen
        old == tx[s].old
    IN  /\ tx[s].phase = "replacing" /\ FreeFor(s, old) /\ OnlyOne(g, StillServing(old))
        /\ gen' = [h \in Generation |->
                      IF h = g THEN [gen[g] EXCEPT !.state = "ACTIVE", !.pred = tx[s].seen]
                      ELSE IF h = StillServing(old) THEN Retired(h)
                      ELSE gen[h]]
        /\ replaced' = [replaced EXCEPT ![g] = old]
        /\ Ends(s)
        /\ UNCHANGED <<proof, returned>>

-----------------------------------------------------------------------------
(* The rollback.                                                           *)

(* The operator names any generation; its state is asked when both rows are *)
(* held.                                                                   *)
n5_generation_rollback(s, g) ==
    /\ tx[s].phase = "idle"
    /\ gen[g].state # "none"
    /\ Goes(s, "leaving", g, Serving, {})
    /\ UNCHANGED <<gen, proof, replaced, returned>>

(* What served may have been replaced meanwhile: then it gives up.         *)
LockCurrent(s) ==
    LET cur == tx[s].seen
    IN  /\ tx[s].phase = "leaving" /\ FreeFor(s, cur)
        /\ IF Serves(cur) THEN Goes(s, "back", tx[s].gen, cur, {cur}) ELSE Ends(s)
        /\ UNCHANGED <<gen, proof, replaced, returned>>

Restorable(g) == gen[g].state = "SUPERSEDED" /\ gen[g].from # "none" /\ gen[g].rows = "whole"

Restore(s) ==
    LET g == tx[s].gen
        cur == tx[s].seen
    IN  /\ tx[s].phase = "back" /\ FreeFor(s, g) /\ Restorable(g)
        /\ gen' = [gen EXCEPT ![cur] = Retired(cur),
                              ![g].state = gen[g].from, ![g].from = "none"]
        /\ returned' = returned \cup {g}
        /\ Ends(s)
        /\ UNCHANGED <<proof, replaced>>

-----------------------------------------------------------------------------
(* The discard: by an operator, or by the rule that keeps two.             *)

(* Fault: the predecessor is not spared.                                   *)
SparesNothing(g) == FALSE

(* Read without a lock on what serves.                                     *)
Spared(g) == Serving # Nothing /\ gen[Serving].pred = g

n5_generation_discard(s, g) ==
    /\ tx[s].phase = "idle"
    /\ Free(g) /\ gen[g].state \in {"FAILED", "SUPERSEDED"} /\ ~Spared(g)
    /\ Goes(s, "deleting", g, Nothing, {g})
    /\ UNCHANGED <<gen, proof, replaced, returned>>

Discarded(s) ==
    /\ tx[s].phase = "deleting"
    /\ gen' = [gen EXCEPT ![tx[s].gen].rows = "none", ![tx[s].gen].from = "none"]
    /\ Ends(s)
    /\ UNCHANGED <<proof, replaced, returned>>

(* A check refuses, a timeout or a lost connection ends the call: nothing  *)
(* it did remains.  The orchestrator looks at the state and never repeats. *)
Lose(s) ==
    /\ tx[s].phase # "idle" /\ Ends(s)
    /\ UNCHANGED <<gen, proof, replaced, returned>>

Candidate(g) ==
    \/ open_generation(g) \/ n5_gen_publish_prefix(g) \/ n5_gen_record_unresolved(g)
    \/ n5_generation_mark_ready(g) \/ n5_generation_fail(g)

Call(s, g) ==
    \/ BeginWrite(s, g) \/ prove(s, g) \/ n5_generation_activate(s, g)
    \/ n5_generation_rollback(s, g) \/ n5_generation_discard(s, g)

Go(s) ==
    \/ EndWrite(s) \/ n5_generation_record_proof(s) \/ SeekServing(s) \/ LockServing(s)
    \/ SeekOld(s) \/ Replace(s) \/ LockCurrent(s) \/ Restore(s) \/ Discarded(s) \/ Lose(s)

GenerationNext ==
    \/ \E g \in Generation : Candidate(g)
    \/ \E s \in Session, g \in Generation : Call(s, g)
    \/ \E s \in Session : Go(s)

GenerationSpec == GenerationInit /\ [][GenerationNext]_generationVars

-----------------------------------------------------------------------------
(* Types.                                                                  *)
Phase == {"idle", "writing", "drawing", "checked", "seeking", "locked", "replacing", "leaving", "back", "deleting"}

GenerationTypeOK ==
    /\ gen \in [Generation -> [state : State, pred : Generation \cup {Nothing},
                               from : {"none"} \cup ServingState,
                               rows : {"none", "part", "whole"}, accounted : BOOLEAN]]
    /\ proof \in [Generation -> [base : Generation \cup {Nothing}, passed : BOOLEAN]]
    /\ tx \in [Session -> [phase : Phase, gen : Generation \cup {Nothing},
                           seen : Generation \cup {Nothing}, old : Generation \cup {Nothing},
                           held : SUBSET Generation]]
    /\ replaced \in [Generation -> Generation \cup {Nothing}]
    /\ returned \subseteq Generation
    /\ \A s, t \in Session : s # t => tx[s].held \cap tx[t].held = {}

(* The map is served at every moment, by one generation, and all of its    *)
(* rows are there, whatever is activated, rolled back, written or discarded *)
(* at once (n5-generation-contract.sql 128, n5-generation-publish.sql      *)
(* 106-110, 163-169).                                                      *)
AlwaysServed ==
    \E g \in Generation : {h \in Generation : Serves(h)} = {g} /\ gen[g].rows = "whole"

(* Whatever else is activated or rolled back meanwhile, what a generation  *)
(* names as its predecessor is what it replaced when it first served       *)
(* (n5-generation-publish.sql, A1: the baseline of what became visible).   *)
NamesWhatItReplaced ==
    \A g \in Generation : gen[g].pred # Nothing => gen[g].pred = replaced[g]

(* The newest proof of what was activated passed, and was taken against    *)
(* another generation that had served (n5-generation-publish-part-h.sql,   *)
(* 185-192): a refusal recorded while the activation counts is not overrun. *)
ServedWasProven ==
    \A g \in Generation : Serves(g) /\ g # Legacy =>
        proof[g].passed /\ proof[g].base \in Generation \ {g}

(* What a newly activated generation replaced can be returned to, however  *)
(* a discard and an activation meet (n5-generation-publish.sql, A15).      *)
CanBeRolledBack ==
    \A g \in Generation : Serves(g) /\ gen[g].pred # Nothing /\ g \notin returned =>
        Restorable(gen[g].pred)

(* The rows as ServedMap speaks of them.                                   *)
Returnable == {g \in Generation : Restorable(g)}
Gone == {g \in Generation : gen[g].state = "SUPERSEDED" /\ ~Restorable(g)}
Before == [g \in Generation |-> gen[g].pred]

Contract == INSTANCE ServedMap WITH serving <- Serving, kept <- Returnable, gone <- Gone, before <- Before

(* The rows of n5_generation, statement by statement, keep the contract of *)
(* ServedMap: whatever waits and races, what is committed is one activation, *)
(* one return to what was kept, one discard, or nothing the map shows.     *)
ImplementsServedMap == Contract!Spec
=============================================================================

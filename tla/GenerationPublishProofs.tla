----------------------- MODULE GenerationPublishProofs -----------------------
(***************************************************************************)
(* For any generations and any number of calls at once.  What a call has   *)
(* checked stays so because it holds the row it checked: SoundCall says,   *)
(* phase by phase, what a call relies on.  That a replaced generation can   *)
(* be returned to needs besides that nobody is deleting it.                *)
(* Then its build: BuildSound says what a run past its look knows of the   *)
(* keys it does not ask for, Whence where what is on the map comes from.   *)
(***************************************************************************)
EXTENDS GenerationPublish, ShardBuild, TLAPS

Entries == [state : State, pred : Generation \cup {Nothing}, from : {"none"} \cup ServingState,
         rows : {"none", "part", "whole"}, accounted : BOOLEAN]
Proofs == [base : Generation \cup {Nothing}, passed : BOOLEAN]
Calls == [phase : Phase, gen : Generation \cup {Nothing}, seen : Generation \cup {Nothing},
          old : Generation \cup {Nothing}, held : SUBSET Generation]

WasProven(g) == proof[g].passed /\ proof[g].base \in Generation \ {g}

(* No generation that serves for the first time replaced this one.         *)
NotABase(g) == \A h \in Generation : Serves(h) /\ h \notin returned => gen[h].pred # g

(* What a call relies on.                                                  *)
SoundCall(t) ==
    /\ t.phase # "idle" => t.gen \in Generation
    /\ t.phase \in {"seeking", "leaving"} => t.seen \in Generation
    /\ t.phase = "writing" => t.gen \in t.held /\ gen[t.gen].state = "BUILDING"
    /\ t.phase \in {"checked", "seeking", "locked", "replacing"} =>
         /\ t.gen \in t.held /\ gen[t.gen].state = "READY"
         /\ gen[t.gen].rows = "whole" /\ WasProven(t.gen)
    /\ t.phase \in {"locked", "replacing"} /\ t.seen # Nothing => t.seen \in t.held /\ Serves(t.seen)
    /\ t.phase = "replacing" => t.old \in Generation /\ (t.seen # Nothing => t.old = t.seen)
    /\ t.phase = "back" => t.seen \in t.held /\ Serves(t.seen)
    /\ t.phase = "deleting" =>
         /\ t.gen \in t.held /\ gen[t.gen].state \in {"FAILED", "SUPERSEDED"}
         /\ NotABase(t.gen)

CallsAreSound == \A s \in Session : SoundCall(tx[s])

(* What has served keeps its proof when it is superseded.                  *)
ProofIsKept == \A g \in Generation \ {Legacy} : Serves(g) \/ gen[g].state = "SUPERSEDED" => WasProven(g)

PublishSound ==
    /\ GenerationTypeOK /\ AlwaysServed /\ CallsAreSound
    /\ ProofIsKept /\ NamesWhatItReplaced /\ CanBeRolledBack

-----------------------------------------------------------------------------

LEMMA PublishStartsSound == GenerationInit => PublishSound
<1> SUFFICES ASSUME GenerationInit PROVE PublishSound
  OBVIOUS
<1>1. gen \in [Generation -> Entries] /\ proof \in [Generation -> Proofs]
      /\ tx \in [Session -> Calls] /\ replaced \in [Generation -> Generation \cup {Nothing}]
  BY DEF GenerationInit, Entries, Proofs, Calls, State, ServingState, Idle, Phase
<1>2. GenerationTypeOK
  BY <1>1 DEF GenerationTypeOK, GenerationInit, Idle, Entries, Proofs, Calls
<1>3. \A g \in Generation : Serves(g) <=> g = Legacy
  BY DEF GenerationInit, Serves, ServingState
<1>4. AlwaysServed
  BY <1>3, GenerationAssumption DEF AlwaysServed, GenerationInit
<1>5. CallsAreSound
  BY DEF CallsAreSound, SoundCall, GenerationInit, Idle
<1>6. ProofIsKept
  BY <1>3 DEF ProofIsKept, GenerationInit
<1>7. NamesWhatItReplaced /\ CanBeRolledBack
  BY DEF NamesWhatItReplaced, CanBeRolledBack, GenerationInit
<1> QED
  BY <1>2, <1>4, <1>5, <1>6, <1>7 DEF PublishSound

(* Serving is the one that serves.                                         *)
LEMMA ServingIsTheOne ==
    ASSUME AlwaysServed
    PROVE  /\ Serving \in Generation /\ Serves(Serving) /\ gen[Serving].rows = "whole"
           /\ \A h \in Generation : Serves(h) => h = Serving
<1>1. PICK g \in Generation : {h \in Generation : Serves(h)} = {g} /\ gen[g].rows = "whole"
  BY DEF AlwaysServed
<1>2. Serves(g) /\ \A h \in Generation : Serves(h) => h = g
  BY <1>1
<1>3. Serving = g
  BY <1>2 DEF Serving
<1> QED
  BY <1>1, <1>2, <1>3

(* A call goes on, no row is written.                                      *)
LEMMA CallGoesOn ==
    ASSUME PublishSound, NEW s \in Session, NEW t \in Calls,
           tx' = [tx EXCEPT ![s] = t], UNCHANGED <<gen, replaced, returned, proof>>,
           SoundCall(t), \A u \in Session \ {s} : t.held \cap tx[u].held = {}
    PROVE  PublishSound'
<1>1. \A u \in Session : tx'[u] = IF u = s THEN t ELSE tx[u]
  BY DEF PublishSound, GenerationTypeOK
<1>2. GenerationTypeOK'
  <2>1. tx' \in [Session -> Calls]
    BY DEF PublishSound, GenerationTypeOK, Calls
  <2>2. \A u, v \in Session : u # v => tx'[u].held \cap tx'[v].held = {}
    BY <1>1 DEF PublishSound, GenerationTypeOK
  <2> QED
    BY <2>1, <2>2 DEF PublishSound, GenerationTypeOK, Calls
<1>3. CallsAreSound'
  BY <1>1 DEF PublishSound, CallsAreSound, SoundCall, WasProven, NotABase, Serves
<1>4. AlwaysServed' /\ ProofIsKept' /\ NamesWhatItReplaced' /\ CanBeRolledBack'
  BY DEF PublishSound, AlwaysServed, ProofIsKept, WasProven, NamesWhatItReplaced, CanBeRolledBack, Restorable, Serves
<1> QED
  BY <1>2, <1>3, <1>4 DEF PublishSound

(* A candidate that no call holds moves.                                   *)
LEMMA CandidateMoves ==
    ASSUME PublishSound, NEW g \in Generation, Free(g) \/ gen[g].state = "none",
           NEW r \in Entries, gen' = [gen EXCEPT ![g] = r], UNCHANGED <<proof, tx, replaced, returned>>,
           gen[g].state \in {"none", "BUILDING", "READY"}, r.state \in {"BUILDING", "READY", "FAILED"},
           r.pred = gen[g].pred
    PROVE  PublishSound'
<1>1. gen' \in [Generation -> Entries] /\ \A h \in Generation : gen'[h] = IF h = g THEN r ELSE gen[h]
  BY DEF PublishSound, GenerationTypeOK, Entries
<1>2. GenerationTypeOK'
  BY <1>1 DEF PublishSound, GenerationTypeOK, Entries
<1>3. \A h \in Generation : (Serves(h)' <=> Serves(h)) /\ (Serves(h) => h # g)
  BY <1>1 DEF Serves, ServingState
<1>4. AlwaysServed'
  BY <1>1, <1>3 DEF PublishSound, AlwaysServed
<1>5. ASSUME NEW s \in Session PROVE SoundCall(tx[s])'
  <2>1. SoundCall(tx[s])
    BY DEF PublishSound, CallsAreSound
  <2>2. \A h \in tx[s].held : h = g => gen[g].state = "none"
    BY DEF Free
  <2>3. tx[s].held \subseteq Generation
    BY DEF PublishSound, GenerationTypeOK
  <2>4. \A h \in Generation : NotABase(h) => NotABase(h)'
    BY <1>1, <1>3 DEF NotABase
  <2> QED
    BY <2>1, <2>2, <2>3, <2>4, <1>1, <1>3 DEF SoundCall, WasProven, Serves, ServingState
<1>6. CallsAreSound'
  BY <1>5 DEF CallsAreSound
<1>7. ProofIsKept'
  BY <1>1, <1>3 DEF PublishSound, ProofIsKept, WasProven
<1>8. NamesWhatItReplaced'
  BY <1>1 DEF PublishSound, NamesWhatItReplaced
<1>9. CanBeRolledBack'
  BY <1>1, <1>3 DEF PublishSound, GenerationTypeOK, CanBeRolledBack, Restorable
<1> QED
  BY <1>2, <1>4, <1>6, <1>7, <1>8, <1>9 DEF PublishSound

(* A call writes rows that no other holds, and ends.                       *)
LEMMA CallEnds ==
    ASSUME PublishSound, NEW s \in Session, tx' = [tx EXCEPT ![s] = Idle],
           gen' \in [Generation -> Entries], replaced' \in [Generation -> Generation \cup {Nothing}],
           returned' \subseteq Generation, UNCHANGED proof,
           \A g \in Generation : gen'[g] = gen[g] \/ FreeFor(s, g),
           \A u \in Session \ {s} : tx[u].phase = "deleting" => NotABase(tx[u].gen)'
    PROVE  GenerationTypeOK' /\ CallsAreSound'
<1>1. \A u \in Session : tx'[u] = IF u = s THEN Idle ELSE tx[u]
  BY DEF PublishSound, GenerationTypeOK
<1>2. GenerationTypeOK'
  <2>1. Idle \in Calls /\ Idle.held = {}
    BY DEF Idle, Calls, Phase
  <2>2. tx' \in [Session -> Calls]
    BY <2>1 DEF PublishSound, GenerationTypeOK, Calls
  <2>3. \A u, v \in Session : u # v => tx'[u].held \cap tx'[v].held = {}
    BY <1>1, <2>1 DEF PublishSound, GenerationTypeOK
  <2> QED
    BY <2>2, <2>3 DEF PublishSound, GenerationTypeOK, Calls, Entries
<1>3. ASSUME NEW u \in Session \ {s} PROVE SoundCall(tx[u])'
  <2>1. SoundCall(tx[u]) /\ tx'[u] = tx[u] /\ tx[u].held \subseteq Generation
    BY <1>1 DEF PublishSound, CallsAreSound, GenerationTypeOK
  <2>2. \A h \in tx[u].held : gen'[h] = gen[h]
    BY <2>1 DEF FreeFor
  <2> QED
    BY <2>1, <2>2 DEF SoundCall, WasProven, Serves
<1>4. ASSUME NEW u \in Session PROVE SoundCall(tx[u])'
  <2>1. CASE u = s
    BY <1>1, <2>1 DEF SoundCall, Idle
  <2>2. CASE u # s
    BY <1>3, <2>2
  <2> QED
    BY <2>1, <2>2
<1> QED
  BY <1>2, <1>4 DEF CallsAreSound

-----------------------------------------------------------------------------

LEMMA CandidateKeeps ==
    ASSUME PublishSound, NEW g \in Generation, Candidate(g)
    PROVE  PublishSound'
<1>0. gen \in [Generation -> Entries]
  BY DEF PublishSound, GenerationTypeOK, Entries
<1>1. CASE open_generation(g)
  <2> DEFINE r == [gen[g] EXCEPT !.state = "BUILDING"]
  <2>1. r \in Entries /\ r.state = "BUILDING" /\ r.pred = gen[g].pred /\ gen' = [gen EXCEPT ![g] = r]
    BY <1>0, <1>1 DEF open_generation, Entries, State
  <2> QED
    BY <2>1, <1>1, CandidateMoves DEF open_generation
<1>2. CASE n5_gen_publish_prefix(g)
  <2>1. PICK rows \in {"part", "whole"} :
           gen' = [gen EXCEPT ![g].rows = rows, ![g].accounted = FALSE]
    BY <1>2 DEF n5_gen_publish_prefix
  <2> DEFINE r == [gen[g] EXCEPT !.rows = rows, !.accounted = FALSE]
  <2>2. r \in Entries /\ r.state = gen[g].state /\ r.pred = gen[g].pred /\ gen' = [gen EXCEPT ![g] = r]
    BY <1>0, <2>1 DEF Entries
  <2> QED
    BY <2>2, <1>2, CandidateMoves DEF n5_gen_publish_prefix, Builds
<1>3. CASE n5_gen_record_unresolved(g)
  <2> DEFINE r == [gen[g] EXCEPT !.accounted = TRUE]
  <2>1. r \in Entries /\ r.state = gen[g].state /\ r.pred = gen[g].pred /\ gen' = [gen EXCEPT ![g] = r]
    BY <1>0, <1>3 DEF n5_gen_record_unresolved, Entries
  <2> QED
    BY <2>1, <1>3, CandidateMoves DEF n5_gen_record_unresolved, Builds
<1>4. CASE n5_generation_mark_ready(g)
  <2> DEFINE r == [gen[g] EXCEPT !.state = "READY"]
  <2>1. r \in Entries /\ r.state = "READY" /\ r.pred = gen[g].pred /\ gen' = [gen EXCEPT ![g] = r]
    BY <1>0, <1>4 DEF n5_generation_mark_ready, Entries, State
  <2> QED
    BY <2>1, <1>4, CandidateMoves DEF n5_generation_mark_ready, Builds
<1>5. CASE n5_generation_fail(g)
  <2> DEFINE r == [gen[g] EXCEPT !.state = "FAILED"]
  <2>1. r \in Entries /\ r.state = "FAILED" /\ r.pred = gen[g].pred /\ gen' = [gen EXCEPT ![g] = r]
    BY <1>0, <1>5 DEF n5_generation_fail, Entries, State
  <2> QED
    BY <2>1, <1>5, CandidateMoves DEF n5_generation_fail
<1> QED
  BY <1>1, <1>2, <1>3, <1>4, <1>5 DEF Candidate

(* A call begins.                                                          *)
LEMMA CallKeeps ==
    ASSUME PublishSound, NEW s \in Session, NEW g \in Generation, Call(s, g)
    PROVE  PublishSound'
<1>2. Serving \in Generation /\ Serves(Serving) /\ \A h \in Generation : Serves(h) => h = Serving
  BY ServingIsTheOne DEF PublishSound
<1>3. CASE BeginWrite(s, g)
  <2> DEFINE t == [phase |-> "writing", gen |-> g, seen |-> Nothing, old |-> Nothing, held |-> {g}]
  <2>1. t \in Calls /\ SoundCall(t)
    BY <1>3 DEF Calls, Phase, SoundCall, BeginWrite, Builds
  <2>2. \A u \in Session \ {s} : t.held \cap tx[u].held = {}
    BY <1>3 DEF BeginWrite, Builds, Free
  <2> QED
    BY <2>1, <2>2, <1>3, CallGoesOn DEF BeginWrite, Goes, GuardHolds
<1>4. CASE prove(s, g)
  <2> DEFINE t == [phase |-> "drawing", gen |-> g, seen |-> Serving, old |-> Nothing, held |-> {}]
  <2>1. t \in Calls /\ SoundCall(t)
    BY <1>2 DEF Calls, Phase, SoundCall
  <2> QED
    BY <2>1, <1>4, CallGoesOn DEF prove, Goes
<1>5. CASE n5_generation_activate(s, g)
  <2> DEFINE t == [phase |-> "checked", gen |-> g, seen |-> Nothing, old |-> Nothing, held |-> {g}]
  <2>1. ~Serves(g) /\ WasProven(g) /\ gen[g].state = "READY" /\ gen[g].rows = "whole"
    BY <1>5, <1>2 DEF n5_generation_activate, ProvenAgainstServing, WasProven, Serves, ServingState, Complete
  <2>2. t \in Calls /\ SoundCall(t)
    BY <2>1 DEF Calls, Phase, SoundCall
  <2>3. \A u \in Session \ {s} : t.held \cap tx[u].held = {}
    BY <1>5 DEF n5_generation_activate, Free
  <2> QED
    BY <2>2, <2>3, <1>5, CallGoesOn DEF n5_generation_activate, Goes
<1>6. CASE n5_generation_rollback(s, g)
  <2> DEFINE t == [phase |-> "leaving", gen |-> g, seen |-> Serving, old |-> Nothing, held |-> {}]
  <2>1. t \in Calls /\ SoundCall(t)
    BY <1>2 DEF Calls, Phase, SoundCall
  <2> QED
    BY <2>1, <1>6, CallGoesOn DEF n5_generation_rollback, Goes
<1>7. CASE n5_generation_discard(s, g)
  <2> DEFINE t == [phase |-> "deleting", gen |-> g, seen |-> Nothing, old |-> Nothing, held |-> {g}]
  <2>1. NotABase(g)
    BY <1>7, <1>2, GenerationAssumption DEF n5_generation_discard, Spared, NotABase
  <2>2. t \in Calls /\ SoundCall(t)
    BY <2>1, <1>7 DEF Calls, Phase, SoundCall, n5_generation_discard
  <2>3. \A u \in Session \ {s} : t.held \cap tx[u].held = {}
    BY <1>7 DEF n5_generation_discard, Free
  <2> QED
    BY <2>2, <2>3, <1>7, CallGoesOn DEF n5_generation_discard, Goes
<1> QED
  BY <1>3, <1>4, <1>5, <1>6, <1>7 DEF Call

(* A call locks what it found, or gives up.                                *)
LEMMA LookingKeeps ==
    ASSUME PublishSound, NEW s \in Session,
           SeekServing(s) \/ LockServing(s) \/ SeekOld(s) \/ LockCurrent(s) \/ Lose(s)
    PROVE  PublishSound'
<1>1. tx[s] \in Calls /\ SoundCall(tx[s]) /\ \A u \in Session \ {s} : tx[s].held \cap tx[u].held = {}
  BY DEF PublishSound, GenerationTypeOK, CallsAreSound, Calls
<1>2. Serving \in Generation /\ Serves(Serving) /\ \A h \in Generation : Serves(h) => h = Serving
  BY ServingIsTheOne DEF PublishSound
<1>3. CASE tx' = [tx EXCEPT ![s] = Idle] /\ UNCHANGED <<gen, proof, replaced, returned>>
  <2>1. Idle \in Calls /\ SoundCall(Idle) /\ Idle.held = {}
    BY DEF Idle, Calls, Phase, SoundCall
  <2> QED
    BY <2>1, <1>3, CallGoesOn
<1>4. CASE SeekServing(s)
  <2> DEFINE t == [phase |-> "seeking", gen |-> tx[s].gen, seen |-> Serving, old |-> Nothing, held |-> tx[s].held]
  <2>1. t \in Calls /\ SoundCall(t)
    BY <1>1, <1>2, <1>4 DEF SeekServing, Calls, Phase, SoundCall
  <2> QED
    BY <2>1, <1>1, <1>4, CallGoesOn DEF SeekServing, Goes
<1>5. CASE LockServing(s)
  <2> DEFINE prev == StillServing(tx[s].seen)
             t == [phase |-> "locked", gen |-> tx[s].gen, seen |-> prev, old |-> Nothing,
                   held |-> tx[s].held \cup {tx[s].seen}]
  <2>1. tx[s].phase = "seeking" /\ tx[s].seen \in Generation /\ FreeFor(s, tx[s].seen)
    BY <1>1, <1>5 DEF LockServing, SoundCall
  <2>2. prev = Nothing \/ (prev = tx[s].seen /\ Serves(prev))
    BY DEF StillServing
  <2>3. t \in Calls /\ SoundCall(t)
    BY <1>1, <2>1, <2>2 DEF Calls, Phase, SoundCall
  <2>4. \A u \in Session \ {s} : t.held \cap tx[u].held = {}
    BY <1>1, <2>1, <2>2 DEF FreeFor
  <2> QED
    BY <2>3, <2>4, <1>5, CallGoesOn DEF LockServing, Goes
<1>6. CASE SeekOld(s)
  <2> DEFINE t == [tx[s] EXCEPT !.phase = "replacing", !.old = Serving]
  <2>1. tx' = [tx EXCEPT ![s] = t] /\ t.held = tx[s].held
    BY <1>1, <1>6 DEF SeekOld, Calls, PublishSound, GenerationTypeOK
  <2>2. tx[s].seen # Nothing => Serving = tx[s].seen
    BY <1>1, <1>2, <1>6 DEF SeekOld, SoundCall, Calls
  <2>3. t \in Calls /\ SoundCall(t)
    BY <1>1, <1>2, <1>6, <2>2 DEF SeekOld, Calls, Phase, SoundCall
  <2> QED
    BY <2>1, <2>3, <1>1, <1>6, CallGoesOn DEF SeekOld
<1>7. CASE LockCurrent(s)
  <2> DEFINE cur == tx[s].seen
             t == [phase |-> "back", gen |-> tx[s].gen, seen |-> cur, old |-> Nothing, held |-> {cur}]
  <2>1. tx[s].phase = "leaving" /\ cur \in Generation /\ FreeFor(s, cur)
    BY <1>1, <1>7 DEF LockCurrent, SoundCall
  <2>2. CASE Serves(cur)
    <3>1. t \in Calls /\ SoundCall(t)
      BY <1>1, <2>1, <2>2 DEF Calls, Phase, SoundCall
    <3>2. \A u \in Session \ {s} : t.held \cap tx[u].held = {}
      BY <2>1 DEF FreeFor
    <3> QED
      BY <3>1, <3>2, <2>2, <1>7, CallGoesOn DEF LockCurrent, Goes
  <2>3. CASE ~Serves(cur)
    BY <2>3, <1>3, <1>7 DEF LockCurrent, Ends
  <2> QED
    BY <2>2, <2>3
<1> QED
  BY <1>3, <1>4, <1>5, <1>6, <1>7 DEF Lose, Ends

LEMMA EndWriteKeeps ==
    ASSUME PublishSound, NEW s \in Session, EndWrite(s) \/ Discarded(s)
    PROVE  PublishSound'
<1> DEFINE g == tx[s].gen
<1>1. /\ g \in Generation /\ g \in tx[s].held /\ ~Serves(g)
      /\ gen[g].state \in {"BUILDING", "FAILED", "SUPERSEDED"}
      /\ gen[g].state = "BUILDING" \/ NotABase(g)
  BY DEF PublishSound, CallsAreSound, SoundCall, EndWrite, Discarded, Serves, ServingState
<1>2. FreeFor(s, g)
  BY <1>1 DEF PublishSound, GenerationTypeOK, FreeFor
<1>3. PICK r \in Entries : /\ gen' = [gen EXCEPT ![g] = r]
                        /\ r.state = gen[g].state /\ r.pred = gen[g].pred
  <2>1. CASE EndWrite(s)
    <3> DEFINE r == [gen[g] EXCEPT !.rows = "part"]
    <3>1. r \in Entries /\ r.state = gen[g].state /\ r.pred = gen[g].pred /\ gen' = [gen EXCEPT ![g] = r]
      BY <2>1, <1>1 DEF EndWrite, PublishSound, GenerationTypeOK, Entries
    <3> QED
      BY <3>1
  <2>2. CASE Discarded(s)
    <3> DEFINE r == [gen[g] EXCEPT !.rows = "none", !.from = "none"]
    <3>1. r \in Entries /\ r.state = gen[g].state /\ r.pred = gen[g].pred /\ gen' = [gen EXCEPT ![g] = r]
      <4>1. gen \in [Generation -> Entries] /\ gen' = [gen EXCEPT ![g].rows = "none", ![g].from = "none"]
        BY <2>2 DEF Discarded, PublishSound, GenerationTypeOK, Entries
      <4>2. gen[g] \in Entries
        BY <4>1, <1>1
      <4>3. r \in Entries /\ r.state = gen[g].state /\ r.pred = gen[g].pred
        BY <4>2 DEF Entries
      <4> QED
        BY <4>1, <4>3, <1>1 DEF Entries
    <3> QED
      BY <3>1
  <2> QED
    BY <2>1, <2>2
<1>4. gen' \in [Generation -> Entries] /\ \A h \in Generation : gen'[h] = IF h = g THEN r ELSE gen[h]
  BY <1>3 DEF PublishSound, GenerationTypeOK, Entries
<1>5. \A h \in Generation : (Serves(h)' <=> Serves(h)) /\ gen'[h].pred = gen[h].pred /\ gen'[h].state = gen[h].state
  BY <1>3, <1>4 DEF Serves
<1>6. UNCHANGED <<proof, replaced, returned>> /\ tx' = [tx EXCEPT ![s] = Idle]
  BY DEF EndWrite, Discarded, Ends
<1>7. GenerationTypeOK' /\ CallsAreSound'
  <2>1. \A u \in Session : tx[u].phase = "deleting" => NotABase(tx[u].gen)
    BY DEF PublishSound, CallsAreSound, SoundCall
  <2>2. \A u \in Session \ {s} : tx[u].phase = "deleting" => NotABase(tx[u].gen)'
    BY <2>1, <1>5, <1>6 DEF NotABase
  <2> QED
    BY <2>2, <1>2, <1>4, <1>6, CallEnds DEF PublishSound, GenerationTypeOK
<1>8. AlwaysServed'
  BY <1>1, <1>4, <1>5 DEF PublishSound, AlwaysServed
<1>9. ProofIsKept' /\ NamesWhatItReplaced'
  BY <1>5, <1>6 DEF PublishSound, ProofIsKept, WasProven, NamesWhatItReplaced
<1>10. CanBeRolledBack'
  BY <1>1, <1>4, <1>5, <1>6 DEF PublishSound, GenerationTypeOK, CanBeRolledBack, Restorable, NotABase
<1> QED
  BY <1>7, <1>8, <1>9, <1>10 DEF PublishSound

LEMMA RecordProofKeeps ==
    ASSUME PublishSound, NEW s \in Session, n5_generation_record_proof(s)
    PROVE  PublishSound'
<1> DEFINE g == tx[s].gen
<1>1. g \in Generation /\ Free(g) /\ gen[g].state = "READY" /\ ~Serves(g)
  BY DEF PublishSound, CallsAreSound, SoundCall, n5_generation_record_proof, Unhindered, Serves, ServingState
<1>2. Serving \in Generation
  BY ServingIsTheOne DEF PublishSound
<1>3. PICK r \in Proofs : proof' = [proof EXCEPT ![g] = r]
  BY <1>2 DEF n5_generation_record_proof, Proofs
<1>4. proof' \in [Generation -> Proofs] /\ \A h \in Generation : h # g => proof'[h] = proof[h]
  BY <1>3 DEF PublishSound, GenerationTypeOK, Proofs
<1>5. tx' = [tx EXCEPT ![s] = Idle] /\ UNCHANGED <<gen, replaced, returned>>
  BY DEF n5_generation_record_proof, Ends
<1>6. \A u \in Session : tx'[u] = IF u = s THEN Idle ELSE tx[u]
  BY <1>5 DEF PublishSound, GenerationTypeOK
<1>7. GenerationTypeOK'
  <2>1. Idle \in Calls /\ Idle.held = {}
    BY DEF Idle, Calls, Phase
  <2>2. tx' \in [Session -> Calls]
    BY <2>1, <1>5 DEF PublishSound, GenerationTypeOK, Calls
  <2>3. \A u, v \in Session : u # v => tx'[u].held \cap tx'[v].held = {}
    BY <1>6, <2>1 DEF PublishSound, GenerationTypeOK
  <2> QED
    BY <2>2, <2>3, <1>4, <1>5 DEF PublishSound, GenerationTypeOK, Calls, Proofs
<1>8. ASSUME NEW u \in Session PROVE SoundCall(tx[u])'
  <2>1. CASE u = s
    BY <1>6, <2>1 DEF SoundCall, Idle
  <2>2. CASE u # s
    <3>1. SoundCall(tx[u]) /\ g \notin tx[u].held /\ tx'[u] = tx[u]
      BY <1>1, <1>6, <2>2 DEF PublishSound, CallsAreSound, Free
    <3> QED
      BY <3>1, <1>4, <1>5 DEF SoundCall, WasProven, NotABase, Serves
  <2> QED
    BY <2>1, <2>2
<1>9. CallsAreSound'
  BY <1>8 DEF CallsAreSound
<1>10. ProofIsKept'
  BY <1>1, <1>4, <1>5 DEF PublishSound, ProofIsKept, WasProven, Serves
<1>11. AlwaysServed' /\ NamesWhatItReplaced' /\ CanBeRolledBack'
  BY <1>5 DEF PublishSound, AlwaysServed, NamesWhatItReplaced, CanBeRolledBack, Restorable, Serves
<1> QED
  BY <1>7, <1>9, <1>10, <1>11 DEF PublishSound

LEMMA ReplaceKeeps ==
    ASSUME PublishSound, NEW s \in Session, Replace(s)
    PROVE  PublishSound'
<1> DEFINE g == tx[s].gen
           old == tx[s].old
<1>1. /\ g \in Generation /\ g \in tx[s].held /\ gen[g].state = "READY" /\ gen[g].rows = "whole"
      /\ WasProven(g) /\ old \in Generation /\ tx[s].seen \in {Nothing, old}
      /\ tx[s].seen # Nothing => Serves(old)
  BY DEF PublishSound, CallsAreSound, SoundCall, Replace
<1>2. FreeFor(s, g) /\ FreeFor(s, old) /\ ~Serves(g)
  BY <1>1 DEF PublishSound, GenerationTypeOK, FreeFor, Replace, Serves, ServingState
<1>3. PICK was \in Generation : Serves(was) /\ gen[was].rows = "whole" /\ \A h \in Generation : Serves(h) => h = was
  BY ServingIsTheOne DEF PublishSound
<1>4. Serves(old) /\ old = was /\ StillServing(old) = old
  BY <1>1, <1>2, <1>3, GenerationAssumption DEF Replace, OnlyOne, StillServing
<1>5. /\ gen \in [Generation -> Entries]
      /\ gen' = [h \in Generation |->
                   IF h = g THEN [gen[g] EXCEPT !.state = "ACTIVE", !.pred = tx[s].seen]
                   ELSE IF h = old THEN Retired(h) ELSE gen[h]]
  BY <1>4 DEF PublishSound, GenerationTypeOK, Entries, Replace
<1>6. gen[g] \in Entries /\ gen[old] \in Entries /\ gen[old].state \in ServingState
  BY <1>1, <1>4, <1>5 DEF Serves
<1>7. [gen[g] EXCEPT !.state = "ACTIVE", !.pred = tx[s].seen] \in Entries
  BY <1>1, <1>6 DEF Entries, State, ServingState
<1>8. Retired(old) \in Entries
  BY <1>6 DEF Entries, State, Retired
<1>9. gen' \in [Generation -> Entries]
  BY <1>5, <1>7, <1>8
<1>10. /\ gen'[g].state = "ACTIVE" /\ gen'[g].pred = tx[s].seen /\ gen'[g].rows = "whole"
       /\ g # old /\ gen'[old].state = "SUPERSEDED" /\ gen'[old].from # "none" /\ gen'[old].rows = "whole"
       /\ gen'[old].pred = gen[old].pred
       /\ \A h \in Generation \ {g, old} : gen'[h] = gen[h]
  BY <1>1, <1>2, <1>3, <1>4, <1>5, <1>6 DEF Entries, Retired, ServingState
<1>11. \A h \in Generation : Serves(h)' <=> h = g
  BY <1>1, <1>3, <1>4, <1>10 DEF Serves, ServingState
<1>12. /\ replaced' = [replaced EXCEPT ![g] = old] /\ tx' = [tx EXCEPT ![s] = Idle]
       /\ UNCHANGED <<proof, returned>>
  BY DEF Replace, Ends
<1>13. GenerationTypeOK' /\ CallsAreSound'
  <2>1. ASSUME NEW u \in Session \ {s}, tx[u].phase = "deleting" PROVE NotABase(tx[u].gen)'
    <3>1. tx[u].gen \in Generation /\ gen[tx[u].gen].state \in {"FAILED", "SUPERSEDED"}
      BY <2>1 DEF PublishSound, CallsAreSound, SoundCall
    <3>2. tx[u].gen # old /\ tx[u].gen # Nothing
      BY <3>1, <1>6, GenerationAssumption DEF ServingState
    <3> QED
      BY <3>2, <1>1, <1>10, <1>11, <1>6, <2>1, <1>12 DEF NotABase, PublishSound, GenerationTypeOK
  <2>2. replaced' \in [Generation -> Generation \cup {Nothing}] /\ returned' \subseteq Generation
    BY <1>1, <1>12 DEF PublishSound, GenerationTypeOK
  <2> QED
    BY <2>1, <2>2, <1>2, <1>9, <1>10, <1>12, CallEnds
<1>14. AlwaysServed'
  BY <1>1, <1>10, <1>11 DEF AlwaysServed
<1>15. ProofIsKept'
  BY <1>1, <1>4, <1>10, <1>11, <1>12 DEF PublishSound, ProofIsKept, WasProven
<1>16. NamesWhatItReplaced'
  BY <1>1, <1>10, <1>12 DEF PublishSound, GenerationTypeOK, NamesWhatItReplaced
<1>17. CanBeRolledBack'
  BY <1>1, <1>10, <1>11 DEF CanBeRolledBack, Restorable
<1> QED
  BY <1>13, <1>14, <1>15, <1>16, <1>17 DEF PublishSound

LEMMA RestoreKeeps ==
    ASSUME PublishSound, NEW s \in Session, Restore(s)
    PROVE  PublishSound'
<1> DEFINE g == tx[s].gen
           cur == tx[s].seen
<1>1. /\ g \in Generation /\ cur \in Generation /\ cur \in tx[s].held /\ Serves(cur)
      /\ FreeFor(s, g) /\ Restorable(g)
  BY DEF PublishSound, CallsAreSound, SoundCall, Restore, GenerationTypeOK
<1>2. FreeFor(s, cur) /\ g # cur
  BY <1>1 DEF PublishSound, GenerationTypeOK, FreeFor, Serves, ServingState, Restorable
<1>3. gen[cur].rows = "whole" /\ \A h \in Generation : Serves(h) => h = cur
  BY <1>1, ServingIsTheOne DEF PublishSound
<1>4. gen \in [Generation -> Entries] /\ gen[g] \in Entries /\ gen[cur] \in Entries /\ gen[cur].state \in ServingState
  BY <1>1 DEF PublishSound, GenerationTypeOK, Entries, Serves
<1> DEFINE back == [gen[g] EXCEPT !.state = gen[g].from, !.from = "none"]
<1>5. gen' = [gen EXCEPT ![cur] = Retired(cur), ![g] = back]
  BY <1>1, <1>2, <1>4 DEF Restore, Entries
<1>6. back \in Entries /\ back.state \in ServingState /\ back.rows = "whole" /\ back.pred = gen[g].pred
  BY <1>1, <1>4 DEF Entries, State, Restorable
<1>7. Retired(cur) \in Entries /\ Retired(cur).state = "SUPERSEDED" /\ Retired(cur).pred = gen[cur].pred
  BY <1>4 DEF Entries, State, Retired
<1>8. /\ gen' \in [Generation -> Entries] /\ gen'[g] = back /\ gen'[cur] = Retired(cur)
      /\ \A h \in Generation \ {g, cur} : gen'[h] = gen[h]
  BY <1>1, <1>2, <1>4, <1>5, <1>6, <1>7
<1>9. \A h \in Generation : Serves(h)' <=> h = g
  BY <1>1, <1>3, <1>6, <1>7, <1>8 DEF Serves, ServingState
<1>10. /\ returned' = returned \cup {g} /\ tx' = [tx EXCEPT ![s] = Idle]
       /\ UNCHANGED <<proof, replaced>>
  BY DEF Restore, Ends
<1>11. GenerationTypeOK' /\ CallsAreSound'
  <2>1. \A u \in Session \ {s} : tx[u].phase = "deleting" => NotABase(tx[u].gen)'
    BY <1>9, <1>10 DEF NotABase
  <2>2. replaced' \in [Generation -> Generation \cup {Nothing}] /\ returned' \subseteq Generation
    BY <1>1, <1>10 DEF PublishSound, GenerationTypeOK
  <2> QED
    BY <2>1, <2>2, <1>1, <1>2, <1>8, <1>10, CallEnds
<1>12. AlwaysServed'
  <2>1. gen'[g].rows = "whole" /\ {h \in Generation : Serves(h)'} = {g}
    BY <1>1, <1>6, <1>8, <1>9
  <2> QED
    BY <2>1, <1>1 DEF AlwaysServed
<1>13. ProofIsKept'
  BY <1>1, <1>8, <1>9, <1>10 DEF PublishSound, ProofIsKept, WasProven, Restorable
<1>14. NamesWhatItReplaced'
  BY <1>6, <1>7, <1>8, <1>10 DEF PublishSound, NamesWhatItReplaced
<1>15. CanBeRolledBack'
  BY <1>9, <1>10 DEF CanBeRolledBack
<1> QED
  BY <1>11, <1>12, <1>13, <1>14, <1>15 DEF PublishSound

LEMMA PublishStepKeeps == PublishSound /\ [GenerationNext]_generationVars => PublishSound'
<1> SUFFICES ASSUME PublishSound, [GenerationNext]_generationVars PROVE PublishSound'
  OBVIOUS
<1>1. CASE \E g \in Generation : Candidate(g)
  BY <1>1, CandidateKeeps
<1>2. CASE \E s \in Session, g \in Generation : Call(s, g)
  BY <1>2, CallKeeps
<1>3. ASSUME NEW s \in Session, Go(s) PROVE PublishSound'
  BY <1>3, LookingKeeps, EndWriteKeeps, RecordProofKeeps, ReplaceKeeps, RestoreKeeps DEF Go
<1>4. CASE UNCHANGED generationVars
  BY <1>4 DEF generationVars, PublishSound, GenerationTypeOK, AlwaysServed, CallsAreSound, SoundCall, WasProven, NotABase,
              ProofIsKept, NamesWhatItReplaced, CanBeRolledBack, Restorable, Serves
<1> QED
  BY <1>1, <1>2, <1>3, <1>4 DEF GenerationNext

LEMMA PublishStaysSound == GenerationSpec => []PublishSound
<1>1. GenerationInit => PublishSound
  BY PublishStartsSound
<1>2. PublishSound /\ [GenerationNext]_generationVars => PublishSound'
  BY PublishStepKeeps
<1> QED
  BY <1>1, <1>2, PTL DEF GenerationSpec

(* Generations, proofs and calls hold what their types say, and no row is  *)
(* held by two calls (n5_generation_row_guard, n5_generation_activate).    *)
THEOREM GenerationIsTyped == GenerationSpec => []GenerationTypeOK
<1>1. PublishSound => GenerationTypeOK
  BY DEF PublishSound
<1> QED
  BY <1>1, PublishStaysSound, PTL

(* At every moment one generation serves with all its rows: whatever is    *)
(* activated, rolled back, written, proven or discarded at once            *)
(* (n5_generation_row_guard, n5_generation_activate, n5_generation_rollback). *)
THEOREM OneIsAlwaysServed == GenerationSpec => []AlwaysServed
<1>1. PublishSound => AlwaysServed
  BY DEF PublishSound
<1> QED
  BY <1>1, PublishStaysSound, PTL

(* The predecessor an activation writes down is what it replaced           *)
(* (n5_generation_activate).                                               *)
THEOREM PredecessorWasReplaced == GenerationSpec => []NamesWhatItReplaced
<1>1. PublishSound => NamesWhatItReplaced
  BY DEF PublishSound
<1> QED
  BY <1>1, PublishStaysSound, PTL

(* What serves, the legacy generation apart, has a newest proof that       *)
(* passed, against another one (n5_generation_record_proof).               *)
THEOREM WhatServesWasProven == GenerationSpec => []ServedWasProven
<1>1. PublishSound => ServedWasProven
  BY DEF PublishSound, ProofIsKept, ServedWasProven, WasProven
<1> QED
  BY <1>1, PublishStaysSound, PTL

(* What a generation replaced when it first served can be returned to      *)
(* while it serves (n5_generation_discard, n5_generation_rollback).        *)
THEOREM ReplacedCanReturn == GenerationSpec => []CanBeRolledBack
<1>1. PublishSound => CanBeRolledBack
  BY DEF PublishSound
<1> QED
  BY <1>1, PublishStaysSound, PTL

-----------------------------------------------------------------------------
(* The contract of ServedMap.  The map shows which generation serves, what *)
(* is kept, what is gone and what each replaced; only three commits change  *)
(* that.                                                                   *)

LEMMA ContractSteps ==
    /\ Contract!Init <=> /\ Serving = Legacy /\ Returnable = {} /\ Gone = {} /\ returned = {}
                         /\ Before = [g \in Generation |-> Nothing]
    /\ UNCHANGED <<Serving, Returnable, Gone, Before, returned>> <=> UNCHANGED Contract!servedVars
    /\ \A g \in Generation, b \in {Serving, Nothing} :
         /\ g \notin {Serving} \cup Returnable \cup Gone /\ Serving' = g /\ Returnable' = Returnable \cup {Serving}
         /\ Before' = [Before EXCEPT ![g] = b] /\ UNCHANGED <<Gone, returned>>
         => Contract!Next
    /\ \A g \in Generation :
         /\ g \in Returnable /\ Serving' = g /\ Returnable' = (Returnable \ {g}) \cup {Serving}
         /\ returned' = returned \cup {g} /\ UNCHANGED <<Gone, Before>>
         => Contract!Next
    /\ \A g \in Generation :
         /\ g \in Returnable /\ (Before[Serving] = g => Serving \in returned)
         /\ Returnable' = Returnable \ {g} /\ Gone' = Gone \cup {g} /\ UNCHANGED <<Serving, Before, returned>>
         => Contract!Next
BY DEF Contract!Init, Contract!servedVars, Contract!Next, Contract!Activate, Contract!Return, Contract!Discard

LEMMA ServesNext ==
    ASSUME NEW g \in Generation, \A h \in Generation : gen'[h].state \in ServingState <=> h = g
    PROVE  Serving' = g
BY DEF Serving, Serves

(* Where states, origins and predecessors stay, and with them the rows of  *)
(* what was superseded, the map shows nothing.                             *)
LEMMA ShowsNothing ==
    ASSUME PublishSound, PublishSound', UNCHANGED returned,
           \A g \in Generation :
             /\ gen'[g].pred = gen[g].pred
             /\ Serves(g)' <=> Serves(g)
             /\ (gen'[g].state = "SUPERSEDED") <=> (gen[g].state = "SUPERSEDED")
             /\ gen[g].state = "SUPERSEDED" => Restorable(g)' = Restorable(g)
    PROVE  UNCHANGED Contract!servedVars
<1>1. Serving' = Serving
  <2>1. Serving \in Generation /\ Serves(Serving) /\ \A h \in Generation : Serves(h) => h = Serving
    BY ServingIsTheOne DEF PublishSound
  <2>2. \A h \in Generation : Serves(h)' <=> h = Serving
    BY <2>1
  <2> QED
    BY <2>1, <2>2 DEF Serving
<1>2. Returnable' = Returnable /\ Gone' = Gone
  BY DEF Returnable, Gone, Restorable
<1>3. Before' = Before
  BY DEF Before
<1> QED
  BY <1>1, <1>2, <1>3, ContractSteps

LEMMA ReplaceActivates ==
    ASSUME PublishSound, PublishSound', NEW s \in Session, Replace(s)
    PROVE  Contract!Next
<1> DEFINE g == tx[s].gen
           old == tx[s].old
<1>1. /\ g \in Generation /\ old \in Generation /\ gen[g].state = "READY" /\ ~Serves(g)
      /\ tx[s].seen \in {Nothing, old}
      /\ tx[s].seen # Nothing => Serves(old)
  BY DEF PublishSound, CallsAreSound, SoundCall, Replace, Serves, ServingState
<1>2. /\ Serving \in Generation /\ Serves(Serving) /\ gen[Serving].rows = "whole"
      /\ \A h \in Generation : Serves(h) => h = Serving
  BY ServingIsTheOne DEF PublishSound
<1>3. old = Serving /\ StillServing(old) = old
  BY <1>1, <1>2, GenerationAssumption DEF Replace, OnlyOne, StillServing
<1>4. gen \in [Generation -> Entries] /\ gen[g] \in Entries /\ gen[old] \in Entries
  BY <1>1 DEF PublishSound, GenerationTypeOK, Entries
<1>5. /\ gen' = [h \in Generation |->
                   IF h = g THEN [gen[g] EXCEPT !.state = "ACTIVE", !.pred = tx[s].seen]
                   ELSE IF h = old THEN Retired(h) ELSE gen[h]]
      /\ UNCHANGED returned
  BY <1>3 DEF Replace
<1>6. /\ gen'[g].state = "ACTIVE" /\ gen'[g].pred = tx[s].seen /\ g # old
      /\ gen'[old].state = "SUPERSEDED" /\ gen'[old].from = gen[old].state /\ gen'[old].rows = "whole"
      /\ gen'[old].pred = gen[old].pred
      /\ \A h \in Generation \ {g, old} : gen'[h] = gen[h]
  BY <1>1, <1>2, <1>3, <1>4, <1>5 DEF Entries, Retired
<1>7. gen[old].state \in ServingState /\ "none" \notin ServingState /\ "SUPERSEDED" \notin ServingState
  BY <1>2, <1>3 DEF Serves, ServingState
<1>8. Serving' = g
  <2>1. \A h \in Generation : gen'[h].state \in ServingState <=> h = g
    BY <1>1, <1>2, <1>3, <1>6 DEF Serves, ServingState
  <2> QED
    BY <1>1, <2>1, ServesNext
<1>9. /\ \A h \in Generation : Restorable(h)' <=> Restorable(h) \/ h = old
      /\ ~Restorable(g) /\ ~Restorable(old)
  BY <1>1, <1>6, <1>7 DEF Restorable
<1>10. g \notin {Serving} \cup Returnable \cup Gone
  BY <1>1, <1>3, <1>6 DEF Returnable, Gone, Restorable
<1>11. Returnable' = Returnable \cup {Serving}
  BY <1>1, <1>3, <1>9 DEF Returnable
<1>12. Gone' = Gone
  BY <1>1, <1>6, <1>7, <1>9 DEF Gone, Restorable
<1>13. Before' = [Before EXCEPT ![g] = tx[s].seen]
  BY <1>1, <1>6 DEF Before
<1>14. tx[s].seen \in {Serving, Nothing} /\ UNCHANGED <<Gone, returned>>
  BY <1>1, <1>3, <1>5, <1>12
<1>15. \A h \in Generation, b \in {Serving, Nothing} :
         /\ h \notin {Serving} \cup Returnable \cup Gone /\ Serving' = h /\ Returnable' = Returnable \cup {Serving}
         /\ Before' = [Before EXCEPT ![h] = b] /\ UNCHANGED <<Gone, returned>>
         => Contract!Next
  BY ContractSteps
<1> HIDE DEF g
<1> QED
  BY <1>1, <1>8, <1>10, <1>11, <1>13, <1>14, <1>15, Zenon

LEMMA RestoreReturns ==
    ASSUME PublishSound, PublishSound', NEW s \in Session, Restore(s)
    PROVE  Contract!Next
<1> DEFINE g == tx[s].gen
           cur == tx[s].seen
<1>1. g \in Generation /\ cur \in Generation /\ Serves(cur) /\ Restorable(g) /\ g # cur
  BY DEF PublishSound, CallsAreSound, SoundCall, Restore, GenerationTypeOK, Restorable, Serves, ServingState
<1>2. cur = Serving /\ gen[cur].rows = "whole" /\ \A h \in Generation : Serves(h) => h = cur
  BY <1>1, ServingIsTheOne DEF PublishSound
<1>3. gen \in [Generation -> Entries] /\ gen[g] \in Entries /\ gen[cur] \in Entries
  BY <1>1 DEF PublishSound, GenerationTypeOK, Entries
<1> DEFINE back == [gen[g] EXCEPT !.state = gen[g].from, !.from = "none"]
<1>4. gen' = [gen EXCEPT ![cur] = Retired(cur), ![g] = back] /\ returned' = returned \cup {g}
  BY <1>1, <1>3 DEF Restore, Entries
<1>5. /\ gen'[g].state = gen[g].from /\ gen'[g].from = "none" /\ gen'[g].pred = gen[g].pred
      /\ gen'[cur].state = "SUPERSEDED" /\ gen'[cur].from = gen[cur].state /\ gen'[cur].rows = "whole"
      /\ gen'[cur].pred = gen[cur].pred
      /\ \A h \in Generation \ {g, cur} : gen'[h] = gen[h]
  BY <1>1, <1>2, <1>3, <1>4 DEF Retired, Entries
<1>6. /\ gen[cur].state \in ServingState /\ gen[g].from \in ServingState
      /\ "none" \notin ServingState /\ "SUPERSEDED" \notin ServingState
  BY <1>1, <1>3 DEF Serves, ServingState, Restorable, Entries
<1>7. Serving' = g
  <2>1. \A h \in Generation : gen'[h].state \in ServingState <=> h = g
    BY <1>1, <1>2, <1>5, <1>6 DEF Serves
  <2> QED
    BY <1>1, <2>1, ServesNext
<1>8. /\ \A h \in Generation : Restorable(h)' <=> (Restorable(h) /\ h # g) \/ h = cur
      /\ ~Restorable(cur)
  BY <1>1, <1>5, <1>6 DEF Restorable
<1>9. Returnable' = (Returnable \ {g}) \cup {Serving} /\ g \in Returnable
  BY <1>1, <1>2, <1>8 DEF Returnable
<1>10. Gone' = Gone
  BY <1>1, <1>5, <1>6, <1>8 DEF Gone, Restorable
<1>11. Before' = Before
  BY <1>5 DEF Before
<1> QED
  BY <1>1, <1>4, <1>7, <1>9, <1>10, <1>11, ContractSteps

LEMMA DiscardedDiscards ==
    ASSUME PublishSound, PublishSound', NEW s \in Session, Discarded(s)
    PROVE  Contract!Next \/ UNCHANGED Contract!servedVars
<1> DEFINE g == tx[s].gen
<1>1. g \in Generation /\ gen[g].state \in {"FAILED", "SUPERSEDED"} /\ NotABase(g)
  BY DEF PublishSound, CallsAreSound, SoundCall, Discarded
<1>2. gen \in [Generation -> Entries] /\ gen[g] \in Entries
  BY <1>1 DEF PublishSound, GenerationTypeOK, Entries
<1>3. gen' = [gen EXCEPT ![g].rows = "none", ![g].from = "none"] /\ UNCHANGED returned
  BY DEF Discarded
<1>4. /\ gen'[g].from = "none" /\ gen'[g].state = gen[g].state /\ gen'[g].pred = gen[g].pred
      /\ \A h \in Generation \ {g} : gen'[h] = gen[h]
  BY <1>1, <1>2, <1>3 DEF Entries
<1>5. \A h \in Generation : gen'[h].pred = gen[h].pred /\ gen'[h].state = gen[h].state
  BY <1>4
<1>6. \A h \in Generation : h = g => ~Restorable(h)'
  BY <1>4 DEF Restorable
<1>7. CASE Restorable(g)
  <2>1. Returnable' = Returnable \ {g} /\ Gone' = Gone \cup {g} /\ g \in Returnable
    BY <1>1, <1>4, <1>5, <1>6, <1>7 DEF Returnable, Gone, Restorable
  <2>2. Before' = Before
    BY <1>5 DEF Before
  <2>3. Serving' = Serving
    BY <1>5 DEF Serving, Serves
  <2>4. Before[Serving] = g => Serving \in returned
    BY <1>1, ServingIsTheOne DEF PublishSound, Before, NotABase
  <2> QED
    BY <1>1, <1>3, <2>1, <2>2, <2>3, <2>4, ContractSteps
<1>8. CASE ~Restorable(g)
  <2>1. \A h \in Generation : Restorable(h)' = Restorable(h)
    BY <1>4, <1>6, <1>8 DEF Restorable
  <2> QED
    BY <1>3, <1>5, <2>1, ShowsNothing DEF Serves
<1> QED
  BY <1>7, <1>8

LEMMA OthersShowNothing ==
    ASSUME PublishSound, PublishSound', [GenerationNext]_generationVars,
           \A s \in Session : ~Replace(s) /\ ~Restore(s) /\ ~Discarded(s)
    PROVE  UNCHANGED Contract!servedVars
<1>1. gen \in [Generation -> Entries]
  BY DEF PublishSound, GenerationTypeOK, Entries
<1>2. CASE UNCHANGED <<gen, returned>>
  BY <1>2, ShowsNothing DEF Serves, Restorable
<1>3. ASSUME NEW g \in Generation, UNCHANGED returned,
             gen[g].state \in {"none", "BUILDING", "READY"}, gen'[g].state \in {"BUILDING", "READY", "FAILED"},
             gen'[g].pred = gen[g].pred, \A h \in Generation \ {g} : gen'[h] = gen[h]
      PROVE  UNCHANGED Contract!servedVars
  BY <1>3, ShowsNothing DEF Serves, ServingState, Restorable
<1>4. ASSUME NEW g \in Generation, Candidate(g) PROVE UNCHANGED Contract!servedVars
  <2>1. gen[g] \in Entries
    BY <1>1
  <2>2. /\ gen[g].state \in {"none", "BUILDING", "READY"} /\ gen'[g].state \in {"BUILDING", "READY", "FAILED"}
        /\ gen'[g].pred = gen[g].pred /\ UNCHANGED returned
    BY <1>1, <1>4, <2>1 DEF Candidate, open_generation, n5_gen_publish_prefix, n5_gen_record_unresolved,
       n5_generation_mark_ready, n5_generation_fail, Builds, Entries
  <2>3. \A h \in Generation \ {g} : gen'[h] = gen[h]
    BY <1>1, <1>4 DEF Candidate, open_generation, n5_gen_publish_prefix, n5_gen_record_unresolved,
       n5_generation_mark_ready, n5_generation_fail
  <2> QED
    BY <1>3, <2>2, <2>3
<1>5. ASSUME NEW s \in Session, EndWrite(s) PROVE UNCHANGED Contract!servedVars
  <2>1. tx[s].gen \in Generation /\ gen[tx[s].gen].state = "BUILDING" /\ gen[tx[s].gen] \in Entries
    BY <1>1, <1>5 DEF EndWrite, PublishSound, CallsAreSound, SoundCall
  <2>2. gen' = [gen EXCEPT ![tx[s].gen].rows = "part"] /\ UNCHANGED returned
    BY <1>5 DEF EndWrite
  <2>3. /\ gen'[tx[s].gen].state = "BUILDING" /\ gen'[tx[s].gen].pred = gen[tx[s].gen].pred
        /\ \A h \in Generation \ {tx[s].gen} : gen'[h] = gen[h]
    BY <1>1, <2>1, <2>2 DEF Entries
  <2> QED
    BY <1>3, <2>1, <2>2, <2>3
<1>6. ASSUME NEW s \in Session, NEW g \in Generation, Call(s, g) PROVE UNCHANGED <<gen, returned>>
  BY <1>6 DEF Call, BeginWrite, prove, n5_generation_activate, n5_generation_rollback, n5_generation_discard
<1>7. ASSUME NEW s \in Session, n5_generation_record_proof(s) \/ SeekServing(s) \/ LockServing(s) \/ SeekOld(s)
             \/ LockCurrent(s) \/ Lose(s)
      PROVE  UNCHANGED <<gen, returned>>
  BY <1>7 DEF n5_generation_record_proof, SeekServing, LockServing, SeekOld, LockCurrent, Lose
<1>8. CASE UNCHANGED generationVars
  BY <1>2, <1>8 DEF generationVars
<1> QED
  BY <1>2, <1>4, <1>5, <1>6, <1>7, <1>8 DEF GenerationNext, Go

(* Activations, rollbacks, discards, writes and proofs, statement by        *)
(* statement and in any number at once, keep the contract of ServedMap     *)
(* (n5_generation_activate, n5_generation_rollback, n5_generation_discard). *)
THEOREM RowsImplementServedMap == GenerationSpec => ImplementsServedMap
<1>1. GenerationInit => Contract!Init
  <2> SUFFICES ASSUME GenerationInit PROVE Contract!Init
    OBVIOUS
  <2>1. \A g \in Generation : (Serves(g) <=> g = Legacy) /\ gen[g].state # "SUPERSEDED" /\ gen[g].pred = Nothing
    BY DEF GenerationInit, Serves, ServingState
  <2>2. Serving = Legacy
    BY <2>1, GenerationAssumption DEF Serving
  <2>3. Returnable = {} /\ Gone = {} /\ Before = [g \in Generation |-> Nothing] /\ returned = {}
    BY <2>1 DEF Returnable, Gone, Before, Restorable, GenerationInit
  <2> QED
    BY <2>2, <2>3, ContractSteps
<1>2. PublishSound /\ PublishSound' /\ [GenerationNext]_generationVars => [Contract!Next]_Contract!servedVars
  <2> SUFFICES ASSUME PublishSound, PublishSound', [GenerationNext]_generationVars
               PROVE  Contract!Next \/ UNCHANGED Contract!servedVars
    OBVIOUS
  <2> QED
    BY ReplaceActivates, RestoreReturns, DiscardedDiscards, OthersShowNothing
<1> QED
  BY <1>1, <1>2, PublishStaysSound, PTL DEF GenerationSpec, ImplementsServedMap, Contract!Spec

-----------------------------------------------------------------------------
(* Calls wait for each other's rows.  In a circle only with a rollback in  *)
(* it: one that names a READY generation while that is activated, or one   *)
(* back to a row that an activation locked when it served no more.         *)

HasServed(g) == gen[g].state \in ServingState \cup {"SUPERSEDED"}

(* The rows a call waits for, the one by which it is let in included.      *)
Awaited(t) ==
    IF t.phase \in {"seeking", "leaving"} THEN {t.seen}
    ELSE IF t.phase = "replacing" THEN {t.old}
    ELSE IF t.phase \in {"back", "drawing"} THEN {t.gen}
    ELSE {}

CallsBefore(s) == {t \in Session \ {s} : Awaited(tx[s]) \cap tx[t].held # {}}

Stuck(S) == S # {} /\ \A s \in S : CallsBefore(s) \cap S # {}

RollsBack(s) == tx[s].phase \in {"leaving", "back"}

(* Of any calls none of which is a rollback, one waits for none of the     *)
(* others.                                                                 *)
NoCircleWithoutRollback == \A S \in SUBSET {s \in Session : ~RollsBack(s)} : ~Stuck(S)

(* What a call holds, and which rows it waits for; of the rows that an     *)
(* activation holds past its search none serves but what it found serving. *)
Knows(t) ==
    /\ t.phase \in {"idle", "drawing", "leaving"} => t.held = {}
    /\ t.phase \in {"writing", "checked", "seeking", "deleting"} => t.held = {t.gen}
    /\ t.phase \in {"locked", "replacing"} => \A h \in t.held : Serves(h) => h = t.seen
    /\ t.phase = "seeking" => HasServed(t.seen)
    /\ t.phase = "replacing" => HasServed(t.old)

CallsKnow == \A s \in Session : Knows(tx[s])

LEMMA ServedStays ==
    ASSUME PublishSound, [GenerationNext]_generationVars, NEW g \in Generation, HasServed(g)
    PROVE  HasServed(g)'
<1>1. gen \in [Generation -> Entries] /\ gen[g] \in Entries
  BY DEF PublishSound, GenerationTypeOK, Entries
<1>2. gen[g].state \in {"ACTIVE", "ACTIVE_LEGACY", "SUPERSEDED"}
  BY DEF HasServed, ServingState
<1>3. ASSUME NEW h \in Generation, Candidate(h) PROVE gen'[g] = gen[g]
  <2>1. h # g
    BY <1>2, <1>3 DEF Candidate, open_generation, n5_gen_publish_prefix, n5_gen_record_unresolved,
       n5_generation_mark_ready, n5_generation_fail, Builds
  <2> QED
    BY <1>1, <1>3, <2>1 DEF Candidate, open_generation, n5_gen_publish_prefix, n5_gen_record_unresolved,
       n5_generation_mark_ready, n5_generation_fail
<1>4. ASSUME NEW s \in Session, EndWrite(s) \/ Discarded(s) PROVE gen'[g].state = gen[g].state
  BY <1>1, <1>4 DEF EndWrite, Discarded, Entries
<1>5. ASSUME NEW s \in Session, Replace(s) PROVE HasServed(g)'
  <2>1. gen'[g] = IF g = tx[s].gen THEN [gen[g] EXCEPT !.state = "ACTIVE", !.pred = tx[s].seen]
                  ELSE IF g = StillServing(tx[s].old) THEN Retired(g) ELSE gen[g]
    BY <1>5 DEF Replace
  <2>2. gen'[g].state \in {"ACTIVE", "SUPERSEDED", gen[g].state}
    BY <1>1, <2>1 DEF Retired, Entries
  <2> QED
    BY <1>2, <2>2 DEF HasServed, ServingState
<1>6. ASSUME NEW s \in Session, Restore(s) PROVE HasServed(g)'
  <2>1. tx[s].gen \in Generation /\ tx[s].seen \in Generation /\ gen[tx[s].gen].from \in ServingState
        /\ tx[s].gen # tx[s].seen
    BY <1>1, <1>6 DEF Restore, Restorable, PublishSound, CallsAreSound, SoundCall, GenerationTypeOK, Serves, ServingState
  <2>2. gen' = [gen EXCEPT ![tx[s].seen] = Retired(tx[s].seen),
                           ![tx[s].gen].state = gen[tx[s].gen].from, ![tx[s].gen].from = "none"]
    BY <1>6 DEF Restore
  <2>3. gen[tx[s].seen] \in Entries /\ gen[tx[s].gen] \in Entries
    BY <1>1, <2>1
  <2>4. gen'[g].state \in ServingState \cup {"SUPERSEDED", gen[g].state}
    BY <1>1, <2>1, <2>2, <2>3 DEF Retired, Entries
  <2> QED
    BY <1>2, <2>4 DEF HasServed, ServingState
<1>7. CASE gen'[g] = gen[g]
  BY <1>7 DEF HasServed
<1>8. ASSUME NEW s \in Session, NEW h \in Generation, Call(s, h) PROVE gen' = gen
  BY <1>8 DEF Call, BeginWrite, prove, n5_generation_activate, n5_generation_rollback, n5_generation_discard
<1>9. ASSUME NEW s \in Session, n5_generation_record_proof(s) \/ SeekServing(s) \/ LockServing(s) \/ SeekOld(s)
             \/ LockCurrent(s) \/ Lose(s)
      PROVE  gen' = gen
  BY <1>9 DEF n5_generation_record_proof, SeekServing, LockServing, SeekOld, LockCurrent, Lose
<1>10. CASE UNCHANGED generationVars
  BY <1>7, <1>10 DEF generationVars
<1> QED
  BY <1>3, <1>4, <1>5, <1>6, <1>7, <1>8, <1>9, <1>10 DEF GenerationNext, Go, HasServed

(* No row begins to serve that another call holds.                         *)
LEMMA HeldBeginsNotToServe ==
    ASSUME PublishSound, [GenerationNext]_generationVars, NEW u \in Session, tx'[u] = tx[u],
           NEW h \in tx[u].held, Serves(h)'
    PROVE  Serves(h)
<1>1. gen \in [Generation -> Entries] /\ h \in Generation /\ gen[h] \in Entries /\ tx \in [Session -> Calls]
      /\ \A s \in Session \ {u} : h \notin tx[s].held
  BY DEF PublishSound, GenerationTypeOK, Entries, Calls
<1>2. ASSUME NEW g \in Generation, Candidate(g) PROVE Serves(h)
  <2>1. gen'[h] = gen[h] \/ gen'[h].state \in {"BUILDING", "READY", "FAILED", gen[h].state}
    BY <1>1, <1>2 DEF Candidate, open_generation, n5_gen_publish_prefix, n5_gen_record_unresolved,
       n5_generation_mark_ready, n5_generation_fail, Entries
  <2> QED
    BY <2>1 DEF Serves, ServingState
<1>3. ASSUME NEW s \in Session, EndWrite(s) \/ Discarded(s) PROVE Serves(h)
  <2>1. gen'[h].state = gen[h].state
    BY <1>1, <1>3 DEF EndWrite, Discarded, Entries
  <2> QED
    BY <2>1 DEF Serves
<1>4. ASSUME NEW s \in Session, Replace(s) PROVE Serves(h)
  <2>1. s # u
    BY <1>1, <1>4 DEF Replace, Ends, Idle
  <2>2. tx[s].gen \in tx[s].held
    BY <1>4 DEF PublishSound, CallsAreSound, SoundCall, Replace
  <2>3. gen'[h] = gen[h] \/ gen'[h] = Retired(h)
    BY <1>1, <1>4, <2>1, <2>2 DEF Replace
  <2> QED
    BY <1>1, <2>3 DEF Serves, Retired, ServingState, Entries
<1>5. ASSUME NEW s \in Session, Restore(s) PROVE Serves(h)
  <2>1. s # u
    BY <1>1, <1>5 DEF Restore, Ends, Idle
  <2>2. h # tx[s].gen
    BY <1>5, <2>1 DEF Restore, FreeFor
  <2>3. gen'[h] = gen[h] \/ gen'[h] = Retired(tx[s].seen)
    BY <1>1, <1>5, <2>2 DEF Restore
  <2>4. tx[s].seen \in Generation /\ gen[tx[s].seen] \in Entries
    BY <1>1, <1>5 DEF Restore, PublishSound, CallsAreSound, SoundCall, GenerationTypeOK
  <2> QED
    BY <2>3, <2>4 DEF Serves, Retired, ServingState, Entries
<1>6. ASSUME gen' = gen PROVE Serves(h)
  BY <1>6 DEF Serves
<1>7. ASSUME NEW s \in Session, NEW g \in Generation, Call(s, g) PROVE gen' = gen
  BY <1>7 DEF Call, BeginWrite, prove, n5_generation_activate, n5_generation_rollback, n5_generation_discard
<1>8. ASSUME NEW s \in Session, n5_generation_record_proof(s) \/ SeekServing(s) \/ LockServing(s) \/ SeekOld(s)
             \/ LockCurrent(s) \/ Lose(s)
      PROVE  gen' = gen
  BY <1>8 DEF n5_generation_record_proof, SeekServing, LockServing, SeekOld, LockCurrent, Lose
<1>9. CASE UNCHANGED generationVars
  BY <1>6, <1>9 DEF generationVars
<1> QED
  BY <1>2, <1>3, <1>4, <1>5, <1>6, <1>7, <1>8, <1>9 DEF GenerationNext, Go

LEMMA OthersKnow ==
    ASSUME PublishSound, CallsKnow, [GenerationNext]_generationVars, NEW u \in Session, tx'[u] = tx[u]
    PROVE  Knows(tx[u])'
<1>1. Knows(tx[u]) /\ SoundCall(tx[u])
  BY DEF CallsKnow, PublishSound, CallsAreSound
<1>2. tx[u].phase = "seeking" => HasServed(tx[u].seen)'
  BY <1>1, ServedStays DEF Knows, SoundCall
<1>3. tx[u].phase = "replacing" => HasServed(tx[u].old)'
  <2>1. tx[u].phase = "replacing" => tx[u].old \in Generation /\ HasServed(tx[u].old)
    BY <1>1 DEF Knows, SoundCall
  <2> QED
    BY <2>1, ServedStays
<1>4. \A h \in tx[u].held : Serves(h)' => Serves(h)
  BY HeldBeginsNotToServe
<1> QED
  BY <1>1, <1>2, <1>3, <1>4 DEF Knows, HasServed, Serves

(* The rows are as they were when a call begins or goes on.                *)
LEMMA GoingOnKnows ==
    ASSUME PublishSound, CallsKnow, [GenerationNext]_generationVars, NEW s \in Session, NEW t,
           tx' = [tx EXCEPT ![s] = t], UNCHANGED gen, Knows(t)
    PROVE  CallsKnow'
<1>1. \A u \in Session : tx'[u] = IF u = s THEN t ELSE tx[u]
  BY DEF PublishSound, GenerationTypeOK
<1>2. ASSUME NEW u \in Session PROVE Knows(tx[u])'
  <2>1. CASE u = s
    <3>1. tx'[u] = t
      BY <1>1, <2>1
    <3> QED
      BY <3>1 DEF Knows, HasServed, Serves
  <2>2. CASE u # s
    BY <1>1, <2>2, OthersKnow
  <2> QED
    BY <2>1, <2>2
<1> QED
  BY <1>2 DEF CallsKnow

LEMMA CallsGoOnKnowing ==
    ASSUME PublishSound, CallsKnow, [GenerationNext]_generationVars
    PROVE  CallsKnow'
<1>1. ASSUME NEW s \in Session, Ends(s) PROVE CallsKnow'
  <2>1. \A u \in Session : tx'[u] = IF u = s THEN Idle ELSE tx[u]
    BY <1>1 DEF Ends, PublishSound, GenerationTypeOK
  <2>2. ASSUME NEW u \in Session PROVE Knows(tx[u])'
    <3>1. CASE u = s
      BY <2>1, <3>1 DEF Knows, Idle
    <3>2. CASE u # s
      BY <2>1, <3>2, OthersKnow
    <3> QED
      BY <3>1, <3>2
  <2> QED
    BY <2>2 DEF CallsKnow
<1>2. ASSUME UNCHANGED tx PROVE CallsKnow'
  BY <1>2, OthersKnow DEF CallsKnow
<1>3. HasServed(Serving) /\ Serving \in Generation
  BY ServingIsTheOne DEF PublishSound, HasServed, Serves
<1>4. ASSUME NEW s \in Session, NEW g \in Generation, Call(s, g) PROVE CallsKnow'
  <2>1. UNCHANGED gen
    BY <1>4 DEF Call, BeginWrite, prove, n5_generation_activate, n5_generation_rollback, n5_generation_discard
  <2>2. ASSUME NEW phase \in {"writing", "checked", "deleting"}, Goes(s, phase, g, Nothing, {g}) PROVE CallsKnow'
    <3> DEFINE t == [phase |-> phase, gen |-> g, seen |-> Nothing, old |-> Nothing, held |-> {g}]
    <3>1. Knows(t)
      BY DEF Knows
    <3> QED
      BY <2>1, <2>2, <3>1, GoingOnKnows DEF Goes
  <2>3. ASSUME NEW phase \in {"drawing", "leaving"}, Goes(s, phase, g, Serving, {}) PROVE CallsKnow'
    <3> DEFINE t == [phase |-> phase, gen |-> g, seen |-> Serving, old |-> Nothing, held |-> {}]
    <3>1. Knows(t)
      BY <2>3 DEF Knows
    <3> QED
      BY <2>1, <2>3, <3>1, GoingOnKnows DEF Goes
  <2> QED
    BY <1>4, <2>2, <2>3 DEF Call, BeginWrite, prove, n5_generation_activate, n5_generation_rollback,
       n5_generation_discard, GuardHolds
<1>5. ASSUME NEW s \in Session, SeekServing(s) \/ LockServing(s) \/ SeekOld(s) \/ LockCurrent(s) PROVE CallsKnow'
  <2>1. UNCHANGED gen /\ tx[s] \in Calls /\ Knows(tx[s]) /\ SoundCall(tx[s])
    BY <1>5 DEF SeekServing, LockServing, SeekOld, LockCurrent, CallsKnow, PublishSound, GenerationTypeOK,
       CallsAreSound, Calls
  <2>2. ASSUME SeekServing(s) PROVE CallsKnow'
    <3> DEFINE t == [phase |-> "seeking", gen |-> tx[s].gen, seen |-> Serving, old |-> Nothing, held |-> tx[s].held]
    <3>1. Knows(t)
      BY <1>3, <2>1, <2>2 DEF Knows, SeekServing
    <3> QED
      BY <2>1, <2>2, <3>1, GoingOnKnows DEF SeekServing, Goes
  <2>3. ASSUME LockServing(s) PROVE CallsKnow'
    <3> DEFINE found == tx[s].seen
               t == [phase |-> "locked", gen |-> tx[s].gen, seen |-> StillServing(found), old |-> Nothing,
                     held |-> tx[s].held \cup {found}]
    <3>1. tx[s].held = {tx[s].gen} /\ ~Serves(tx[s].gen)
      BY <2>1, <2>3 DEF Knows, LockServing, SoundCall, Serves, ServingState
    <3>2. \A h \in t.held : Serves(h) => h = t.seen
      BY <3>1 DEF StillServing
    <3>3. Knows(t)
      BY <3>2 DEF Knows
    <3> QED
      BY <2>1, <2>3, <3>3, GoingOnKnows DEF LockServing, Goes
  <2>4. ASSUME SeekOld(s) PROVE CallsKnow'
    <3> DEFINE t == [tx[s] EXCEPT !.phase = "replacing", !.old = Serving]
    <3>1. tx' = [tx EXCEPT ![s] = t]
      BY <2>1, <2>4 DEF SeekOld, Calls, PublishSound, GenerationTypeOK
    <3>2. t.phase = "replacing" /\ t.old = Serving /\ \A h \in t.held : Serves(h) => h = t.seen
      BY <2>1, <2>4 DEF SeekOld, Calls, Knows
    <3>3. Knows(t)
      BY <1>3, <3>2 DEF Knows
    <3> QED
      BY <2>1, <3>1, <3>3, GoingOnKnows
  <2>5. ASSUME LockCurrent(s) PROVE CallsKnow'
    <3> DEFINE t == [phase |-> "back", gen |-> tx[s].gen, seen |-> tx[s].seen, old |-> Nothing, held |-> {tx[s].seen}]
    <3>1. CASE Goes(s, "back", tx[s].gen, tx[s].seen, {tx[s].seen})
      <4>1. Knows(t)
        BY DEF Knows
      <4> QED
        BY <2>1, <3>1, <4>1, GoingOnKnows DEF Goes
    <3> QED
      BY <1>1, <2>5, <3>1 DEF LockCurrent
  <2> QED
    BY <1>5, <2>2, <2>3, <2>4, <2>5
<1>6. ASSUME NEW s \in Session, Go(s) PROVE CallsKnow'
  BY <1>1, <1>5, <1>6 DEF Go, EndWrite, n5_generation_record_proof, Replace, Restore, Discarded, Lose
<1>7. ASSUME NEW g \in Generation, Candidate(g) PROVE CallsKnow'
  BY <1>2, <1>7 DEF Candidate, open_generation, n5_gen_publish_prefix, n5_gen_record_unresolved,
     n5_generation_mark_ready, n5_generation_fail
<1> QED
  BY <1>2, <1>4, <1>6, <1>7 DEF GenerationNext, generationVars

(* A call that goes on and then waits was asking for a row just now.       *)
LEMMA WhoBeginsToWait ==
    ASSUME PublishSound, [GenerationNext]_generationVars, ~UNCHANGED tx
    PROVE  \E s \in Session :
             /\ \A u \in Session \ {s} : tx'[u] = tx[u]
             /\ \/ Awaited(tx'[s]) = {}
                \/ tx'[s].phase = "leaving"
                \/ tx'[s].phase = "back"
                \/ tx'[s].phase = "drawing" /\ tx'[s].held = {}
                \/ SeekServing(s)
                \/ SeekOld(s)
<1>1. tx \in [Session -> Calls]
  BY DEF PublishSound, GenerationTypeOK, Calls
<1>2. ASSUME NEW g \in Generation, Candidate(g) PROVE UNCHANGED tx
  BY <1>2 DEF Candidate, open_generation, n5_gen_publish_prefix, n5_gen_record_unresolved,
     n5_generation_mark_ready, n5_generation_fail
<1>3. PICK s \in Session : Go(s) \/ \E g \in Generation : Call(s, g)
  BY <1>2 DEF GenerationNext, generationVars
<1>4. \A t : tx' = [tx EXCEPT ![s] = t] => tx'[s] = t /\ \A u \in Session \ {s} : tx'[u] = tx[u]
  BY <1>1
<1>5. ASSUME Ends(s) PROVE Awaited(tx'[s]) = {} /\ \A u \in Session \ {s} : tx'[u] = tx[u]
  <2>1. tx'[s] = Idle /\ \A u \in Session \ {s} : tx'[u] = tx[u]
    BY <1>4, <1>5 DEF Ends
  <2>2. Awaited(Idle) = {}
    BY DEF Awaited, Idle
  <2>3. Awaited(tx'[s]) = Awaited(Idle)
    BY <2>1
  <2> QED
    BY <2>1, <2>2, <2>3
<1>6. ASSUME NEW phase, NEW g, NEW seen, NEW held, Goes(s, phase, g, seen, held)
      PROVE  /\ tx'[s].phase = phase /\ tx'[s].held = held
             /\ \A u \in Session \ {s} : tx'[u] = tx[u]
  BY <1>4, <1>6 DEF Goes
<1>7. ASSUME NEW g \in Generation, Call(s, g)
      PROVE  /\ \A u \in Session \ {s} : tx'[u] = tx[u]
             /\ tx'[s].phase \in {"writing", "checked", "deleting", "leaving", "drawing"}
             /\ tx'[s].phase = "drawing" => tx'[s].held = {}
  BY <1>6, <1>7 DEF Call, BeginWrite, prove, n5_generation_activate, n5_generation_rollback, n5_generation_discard
<1>8. ASSUME EndWrite(s) \/ n5_generation_record_proof(s) \/ Replace(s) \/ Restore(s) \/ Discarded(s) \/ Lose(s)
      PROVE  Ends(s)
  BY <1>8 DEF EndWrite, n5_generation_record_proof, Replace, Restore, Discarded, Lose
<1>9. ASSUME SeekServing(s) PROVE \A u \in Session \ {s} : tx'[u] = tx[u]
  BY <1>6, <1>9 DEF SeekServing
<1>10. ASSUME SeekOld(s) PROVE \A u \in Session \ {s} : tx'[u] = tx[u]
  BY <1>1, <1>10 DEF SeekOld
<1>11. ASSUME LockServing(s) PROVE tx'[s].phase = "locked" /\ \A u \in Session \ {s} : tx'[u] = tx[u]
  BY <1>6, <1>11 DEF LockServing
<1>12. ASSUME LockCurrent(s)
       PROVE  /\ tx'[s].phase = "back" \/ Awaited(tx'[s]) = {}
              /\ \A u \in Session \ {s} : tx'[u] = tx[u]
  BY <1>5, <1>6, <1>12 DEF LockCurrent
<1>13. tx'[s].phase \in {"writing", "checked", "deleting", "locked"} => Awaited(tx'[s]) = {}
  BY DEF Awaited
<1> QED
  BY <1>3, <1>5, <1>7, <1>8, <1>9, <1>10, <1>11, <1>12, <1>13 DEF Go

(* A circle of calls none of which rolls back is not closed by a step.     *)
LEMMA NoCircleCloses ==
    ASSUME PublishSound, CallsKnow, PublishSound', CallsKnow', [GenerationNext]_generationVars,
           NoCircleWithoutRollback
    PROVE  NoCircleWithoutRollback'
<1> SUFFICES ASSUME NEW S \in SUBSET Session, \A c \in S : ~RollsBack(c)', Stuck(S)'
             PROVE  FALSE
  BY DEF NoCircleWithoutRollback
<1>1. \A R \in SUBSET Session : (\A c \in R : ~RollsBack(c)) => ~Stuck(R)
  BY DEF NoCircleWithoutRollback
<1>2. /\ S # {}
      /\ \A c \in S : \E d \in S \ {c} : Awaited(tx'[c]) \cap tx'[d].held # {}
  BY DEF Stuck, CallsBefore, Awaited
<1>3. ~UNCHANGED tx
  <2> SUFFICES ASSUME tx' = tx PROVE FALSE
    OBVIOUS
  <2>1. \A c \in S : c \in Session /\ ~RollsBack(c)
    BY DEF RollsBack
  <2>2. \A c \in S : \E d \in S \ {c} : Awaited(tx[c]) \cap tx[d].held # {}
    BY <1>2
  <2>3. Stuck(S)
    BY <1>2, <2>1, <2>2 DEF Stuck, CallsBefore
  <2> QED
    BY <1>1, <2>1, <2>3
<1>4. PICK s \in Session :
         /\ \A u \in Session \ {s} : tx'[u] = tx[u]
         /\ \/ Awaited(tx'[s]) = {}
            \/ tx'[s].phase = "leaving"
            \/ tx'[s].phase = "back"
            \/ tx'[s].phase = "drawing" /\ tx'[s].held = {}
            \/ SeekServing(s)
            \/ SeekOld(s)
  BY <1>3, WhoBeginsToWait
(* What other calls would have waited in a circle before.                  *)
<1>5. ASSUME NEW R \in SUBSET (S \ {s}), R # {},
             \A c \in R : \E d \in R \ {c} : Awaited(tx'[c]) \cap tx'[d].held # {}
      PROVE  FALSE
  <2>1. \A c \in R : c \in Session /\ tx'[c] = tx[c] /\ ~RollsBack(c)
    BY <1>4 DEF RollsBack
  <2>2. \A c \in R : \E d \in R \ {c} : Awaited(tx[c]) \cap tx[d].held # {}
    BY <1>5, <2>1
  <2>3. Stuck(R)
    BY <1>5, <2>1, <2>2 DEF Stuck, CallsBefore
  <2> QED
    BY <1>1, <2>1, <2>3
<1>6. s \in S
  BY <1>2, <1>5
<1>7. /\ Awaited(tx'[s]) # {} /\ tx'[s].phase \notin {"leaving", "back"}
      /\ \E d \in S \ {s} : Awaited(tx'[s]) \cap tx[d].held # {}
  BY <1>2, <1>4, <1>6 DEF RollsBack
<1>8. \A c \in Session : Knows(tx[c]) /\ SoundCall(tx[c]) /\ tx[c] \in Calls
  BY DEF CallsKnow, PublishSound, CallsAreSound, GenerationTypeOK, Calls
<1>9. \A c \in Session : tx[c].phase = "drawing" => tx[c].held = {}
  BY <1>8 DEF Knows
<1>10. CASE tx'[s].phase = "drawing" /\ tx'[s].held = {}
  <2>1. \A c \in S \ {s} : \E d \in (S \ {s}) \ {c} : Awaited(tx'[c]) \cap tx'[d].held # {}
    BY <1>2, <1>10
  <2> QED
    BY <1>5, <1>7, <2>1
<1>11. CASE SeekServing(s)
  <2> DEFINE R == {c \in S \ {s} : tx[c].phase # "drawing"}
  <2>1. tx'[s].held = {tx[s].gen} /\ gen[tx[s].gen].state = "READY"
    BY <1>8, <1>11 DEF SeekServing, Goes, Knows, SoundCall, PublishSound, GenerationTypeOK
  <2>2. ~HasServed(tx[s].gen)
    BY <2>1 DEF HasServed, ServingState
  <2>3. \A c \in R : tx'[c] = tx[c] /\ c \in Session /\ ~RollsBack(c)
    BY <1>4 DEF RollsBack
  <2>4. ASSUME NEW c \in R PROVE tx[s].gen \notin Awaited(tx[c])
    BY <1>8, <2>2, <2>3, <2>4 DEF Awaited, Knows, RollsBack
  <2>5. ASSUME NEW c \in R PROVE \E d \in R \ {c} : Awaited(tx'[c]) \cap tx'[d].held # {}
    <3>1. PICK d \in S \ {c} : Awaited(tx'[c]) \cap tx'[d].held # {}
      BY <1>2, <2>5
    <3>2. d # s
      BY <2>1, <2>3, <2>4, <3>1
    <3>3. tx'[d] = tx[d] /\ tx[d].phase # "drawing"
      BY <1>4, <1>9, <3>1, <3>2
    <3> QED
      BY <3>1, <3>2, <3>3
  <2>6. R # {}
    BY <1>7, <1>9
  <2> QED
    BY <1>5, <2>5, <2>6
<1>12. CASE SeekOld(s)
  <2>1. Awaited(tx'[s]) = {Serving}
    BY <1>8, <1>12 DEF SeekOld, Awaited, PublishSound, GenerationTypeOK, Calls
  <2>2. PICK d \in S \ {s} : Serving \in tx[d].held
    BY <1>7, <2>1
  <2>3. Serves(Serving)
    BY ServingIsTheOne DEF PublishSound
  <2>4. tx'[d] = tx[d] /\ d \in Session /\ ~RollsBack(d)
    BY <1>4, <2>2 DEF RollsBack
  <2>5. tx[d].phase \in {"locked", "replacing"}
    <3>1. \A state \in {"BUILDING", "READY", "FAILED", "SUPERSEDED"} : gen[Serving].state # state
      BY <2>3 DEF Serves, ServingState
    <3> QED
      BY <1>8, <2>2, <2>4, <3>1 DEF Knows, SoundCall, RollsBack, Calls, Phase
  <2>6. Serving = tx[d].seen /\ Serving # Nothing
    BY <1>8, <2>2, <2>3, <2>4, <2>5, GenerationAssumption DEF Knows, Calls
  <2>7. Awaited(tx[d]) \subseteq {Serving}
    BY <1>8, <2>4, <2>5, <2>6 DEF Awaited, SoundCall
  <2>8. PICK e \in S \ {d} : Serving \in tx'[e].held
    BY <1>2, <2>2, <2>4, <2>7
  <2>9. tx'[e].held \cap tx'[d].held = {}
    BY <2>8 DEF PublishSound, GenerationTypeOK
  <2> QED
    BY <2>2, <2>4, <2>8, <2>9
<1> QED
  BY <1>4, <1>7, <1>10, <1>11, <1>12

(* Activations, discards, writes and proofs never wait for each other's    *)
(* rows in a circle, however they meet each other and the rollbacks, though *)
(* an activation keeps the lock of a row that it found and that serves no  *)
(* more: a deadlock has a rollback in it (n5_generation_activate,          *)
(* n5_generation_discard, n5_generation_record_proof).                     *)
THEOREM OnlyRollbacksDeadlock == GenerationSpec => []NoCircleWithoutRollback
<1>1. GenerationInit => CallsKnow /\ NoCircleWithoutRollback
  <2> SUFFICES ASSUME GenerationInit PROVE CallsKnow /\ NoCircleWithoutRollback
    OBVIOUS
  <2>1. \A s \in Session : tx[s] = Idle
    BY DEF GenerationInit
  <2>2. CallsKnow
    BY <2>1 DEF CallsKnow, Knows, Idle
  <2>3. \A s \in Session : CallsBefore(s) = {}
    BY <2>1 DEF CallsBefore, Awaited, Idle
  <2> QED
    BY <2>2, <2>3 DEF NoCircleWithoutRollback, Stuck
<1>2. PublishSound /\ PublishSound' /\ CallsKnow /\ NoCircleWithoutRollback /\ [GenerationNext]_generationVars
        => CallsKnow' /\ NoCircleWithoutRollback'
  BY CallsGoOnKnowing, NoCircleCloses
<1> QED
  BY <1>1, <1>2, PublishStaysSound, PTL DEF GenerationSpec

-----------------------------------------------------------------------------
(* The build of a generation: what is stored of a key is all of it, or     *)
(* nothing, or marked as unfinished, for any shards, keys and features and *)
(* any number of runs cut off anywhere.                                    *)

(* Types, as far as the argument needs them.                               *)
Shapes ==
    /\ recovery \in [Shard -> {"none", "open", "complete"}]
    /\ builder \in ShardWork
    /\ builder.step # "idle" => builder.shard \in Shard
    /\ unanswered \subseteq Key /\ stored \subseteq Feature

Whole(k) == FeaturesOf({k}) \subseteq stored

AtWork == {"asking", "inserting", "closing"}

(* Past its look the run knows of what it does not ask that it is whole,   *)
(* or that the publisher did not answer.                                   *)
NotAsked ==
    builder.step \in AtWork =>
        \A k \in KeysOf[builder.shard] \ builder.todo :
            k \in unanswered \/ Whole(k)

(* It asks for keys of its shard, with the attempt open until it is closed.  *)
AskingIsMarked ==
    /\ builder.step \in AtWork => builder.todo \subseteq KeysOf[builder.shard]
    /\ builder.step \in {"asking", "inserting"} => recovery[builder.shard] = "open"

(* What was answered is stored, but for the rows that are left.             *)
AnsweredIsStored ==
    /\ builder.step = "inserting" =>
         /\ builder.rows \subseteq FeaturesOf(builder.todo \ builder.missed)
         /\ FeaturesOf(builder.todo \ builder.missed) \subseteq stored \cup builder.rows
    /\ builder.step = "closing" => builder.todo \ builder.missed = {}

(* It comes to its look with nothing asked.                                 *)
Fresh == builder.step = "looking" => builder.todo = {} /\ builder.missed = {}

BuildSound == Shapes /\ Fresh /\ NotAsked /\ AskingIsMarked /\ AnsweredIsStored /\ HolesAreMarked

-----------------------------------------------------------------------------
LEMMA InitBuildSound == BuildInit => BuildSound
<1> SUFFICES ASSUME BuildInit PROVE BuildSound
    OBVIOUS
<1>1. Shapes
    BY DEF BuildInit, Shapes, NoBuilder, ShardWork, Step, SourceStatus, FeaturesOf
<1>2. Fresh /\ NotAsked /\ AskingIsMarked /\ AnsweredIsStored
    BY DEF BuildInit, NoBuilder, Fresh, NotAsked, AskingIsMarked, AnsweredIsStored, AtWork
<1>3. ASSUME NEW k \in Key PROVE FeaturesOf({k}) \cap stored \in {{}, FeaturesOf({k})}
  <2>1. PICK earlier \in SUBSET Key : stored = FeaturesOf(earlier)
      BY DEF BuildInit
  <2>2. CASE k \in earlier
      BY <2>1, <2>2 DEF FeaturesOf
  <2>3. CASE k \notin earlier
      BY <2>1, <2>3 DEF FeaturesOf
  <2> QED
      BY <2>2, <2>3
<1> QED
    BY <1>1, <1>2, <1>3 DEF BuildSound, HolesAreMarked

(* Steps that leave the features, the attempts and the answers alone and do *)
(* not put the run among those that ask.                                    *)
LEMMA LeavesAlone ==
    ASSUME BuildSound, UNCHANGED <<recovery, stored, unanswered>>,
           \/ builder' = builder
           \/ builder' = NoBuilder
           \/ /\ builder'.step \notin AtWork /\ builder'.shard \in Shard
              /\ builder'.step = "looking" => builder'.todo = {} /\ builder'.missed = {}
              /\ builder' \in ShardWork
    PROVE  BuildSound'
<1>1. Shapes'
    BY DEF BuildSound, Shapes, NoBuilder, ShardWork, Step, SourceStatus
<1>2. Fresh' /\ NotAsked' /\ AskingIsMarked' /\ AnsweredIsStored'
    BY DEF BuildSound, Fresh, NotAsked, AskingIsMarked, AnsweredIsStored, AtWork, NoBuilder, Whole, FeaturesOf
<1>3. HolesAreMarked'
    BY DEF BuildSound, HolesAreMarked, FeaturesOf
<1> QED
    BY <1>1, <1>2, <1>3 DEF BuildSound

-----------------------------------------------------------------------------
LEMMA LookKeeps == ASSUME BuildSound, Look PROVE BuildSound'
<1> DEFINE z == builder.shard
<1> DEFINE todo == Todo(z)
<1>0. z \in Shard /\ todo \subseteq KeysOf[z] /\ KeysOf[z] \subseteq Key
    BY ShardAssumption DEF Look, AtStep, BuildSound, Shapes, Todo
<1>1. ASSUME NEW k \in KeysOf[z] \ todo PROVE k \in unanswered \/ Whole(k)
  <2>1. \A y \in Shard : recovery[y] # "open"
      BY <1>1 DEF Todo
  <2>2. HasGeometry(k)
      BY <1>1, <2>1 DEF Todo
  <2>3. k \in Key
      BY <1>0, <1>1
  <2> QED
      BY <2>1, <2>2, <2>3 DEF BuildSound, HolesAreMarked, HasGeometry, Whole
<1>2. UNCHANGED <<stored, unanswered>> /\ AtStep("looking")
    BY DEF Look
<1>3. CASE builder' = [builder EXCEPT !.step = "closing", !.status = "OK"] /\ todo = {} /\ UNCHANGED recovery
  <2>1. Shapes'
      BY <1>0, <1>2, <1>3 DEF BuildSound, Shapes, ShardWork, Step, SourceStatus
  <2>2. Fresh' /\ NotAsked' /\ AskingIsMarked' /\ AnsweredIsStored'
      BY <1>0, <1>1, <1>2, <1>3 DEF BuildSound, Shapes, Fresh, NotAsked, AskingIsMarked, AnsweredIsStored,
          AtWork, AtStep, Whole, FeaturesOf
  <2>3. HolesAreMarked'
      BY <1>2, <1>3 DEF BuildSound, HolesAreMarked, FeaturesOf
  <2> QED
      BY <2>1, <2>2, <2>3 DEF BuildSound
<1>4. CASE builder' = [builder EXCEPT !.step = "judging", !.status = "EXCLUDED"] /\ UNCHANGED recovery
  <2>1. /\ builder'.step \notin AtWork /\ builder'.shard \in Shard /\ builder'.step # "looking"
        /\ builder' \in ShardWork
      BY <1>0, <1>4 DEF BuildSound, Shapes, AtWork, ShardWork, Step, SourceStatus
  <2> QED
      BY <1>2, <1>4, <2>1, LeavesAlone
<1>5. CASE builder' = [builder EXCEPT !.step = "asking", !.todo = todo] /\ MarksOpen(z)
  <2>1. Shapes'
      BY <1>0, <1>2, <1>5 DEF BuildSound, Shapes, ShardWork, Step, MarksOpen, Marks
  <2>2. Fresh' /\ NotAsked' /\ AnsweredIsStored'
      BY <1>0, <1>1, <1>2, <1>5 DEF BuildSound, Shapes, Fresh, NotAsked, AnsweredIsStored, Whole, FeaturesOf
  <2>3. AskingIsMarked'
      BY <1>0, <1>5 DEF BuildSound, Shapes, AskingIsMarked, MarksOpen, Marks
  <2>4. \A y \in Shard : recovery[y] = "open" => recovery'[y] = "open"
      BY <1>0, <1>5 DEF BuildSound, Shapes, MarksOpen, Marks
  <2>5. HolesAreMarked'
      BY <1>2, <2>4 DEF BuildSound, HolesAreMarked, FeaturesOf
  <2> QED
      BY <2>1, <2>2, <2>3, <2>5 DEF BuildSound
<1> QED
    BY <1>3, <1>4, <1>5 DEF Look

LEMMA FetchKeeps == ASSUME BuildSound, fetch_features PROVE BuildSound'
<1>1. UNCHANGED <<stored, recovery, unanswered>> /\ builder.step = "asking" /\ builder.shard \in Shard
    BY DEF fetch_features, AtStep, BuildSound, Shapes
<1>2. HolesAreMarked'
    BY <1>1 DEF BuildSound, HolesAreMarked, FeaturesOf
<1>3. CASE \E missed \in SUBSET builder.todo :
              builder' = [builder EXCEPT !.step = "inserting", !.status = "OK", !.missed = missed,
                                       !.rows = FeaturesOf(builder.todo \ missed)]
  <2>1. PICK missed \in SUBSET builder.todo :
              builder' = [builder EXCEPT !.step = "inserting", !.status = "OK", !.missed = missed,
                                       !.rows = FeaturesOf(builder.todo \ missed)]
      BY <1>3
  <2>2. Shapes'
      BY <1>1, <2>1 DEF BuildSound, Shapes, ShardWork, Step, SourceStatus, FeaturesOf
  <2>3. Fresh' /\ NotAsked' /\ AskingIsMarked'
      BY <1>1, <2>1 DEF BuildSound, Shapes, Fresh, NotAsked, AskingIsMarked, AtWork, Whole, FeaturesOf
  <2>4. AnsweredIsStored'
      BY <1>1, <2>1 DEF BuildSound, Shapes, AnsweredIsStored, FeaturesOf
  <2> QED
      BY <1>2, <2>2, <2>3, <2>4 DEF BuildSound
<1>4. CASE \E status \in {"EXCLUDED", "PUBLISHER_UNREACHABLE"} :
              builder' = [builder EXCEPT !.step = "closing", !.status = status, !.missed = builder.todo]
  <2>1. Shapes'
      BY <1>1, <1>4 DEF BuildSound, Shapes, ShardWork, Step, SourceStatus
  <2>2. Fresh' /\ NotAsked' /\ AskingIsMarked' /\ AnsweredIsStored'
      BY <1>1, <1>4 DEF BuildSound, Shapes, Fresh, NotAsked, AskingIsMarked, AnsweredIsStored, AtWork, Whole, FeaturesOf
  <2> QED
      BY <1>2, <2>1, <2>2 DEF BuildSound
<1> QED
    BY <1>3, <1>4 DEF fetch_features

LEMMA InsertKeeps == ASSUME BuildSound, insert_batched PROVE BuildSound'
<1>1. PICK f \in builder.rows : stored' = stored \cup {f} /\ builder' = [builder EXCEPT !.rows = @ \ {f}]
    BY DEF insert_batched
<1>2. UNCHANGED <<recovery, unanswered>> /\ builder.step = "inserting" /\ builder.shard \in Shard
    BY DEF insert_batched, AtStep, BuildSound, Shapes
<1>3. f \in Feature /\ KeyOf[f] \in KeysOf[builder.shard]
    BY <1>1, <1>2 DEF BuildSound, Shapes, AnsweredIsStored, AskingIsMarked, AtWork, FeaturesOf
<1>4. Shapes'
    BY <1>1, <1>2, <1>3 DEF BuildSound, Shapes, ShardWork
<1>5. Fresh' /\ NotAsked' /\ AskingIsMarked'
    BY <1>1, <1>2 DEF BuildSound, Shapes, Fresh, NotAsked, AskingIsMarked, AtWork, Whole, FeaturesOf
<1>6. AnsweredIsStored'
    BY <1>1, <1>2 DEF BuildSound, Shapes, AnsweredIsStored, FeaturesOf
<1>7. ASSUME NEW k \in Key \ unanswered
      PROVE  \/ FeaturesOf({k}) \cap stored' \in {{}, FeaturesOf({k})}
             \/ \E y \in Shard : k \in KeysOf[y] /\ recovery[y] = "open"
  <2>1. CASE k = KeyOf[f]
      BY <1>2, <1>3, <2>1 DEF BuildSound, AskingIsMarked
  <2>2. CASE k # KeyOf[f]
    <3>1. FeaturesOf({k}) \cap stored' = FeaturesOf({k}) \cap stored
        BY <1>1, <2>2 DEF FeaturesOf
    <3> QED
        BY <3>1 DEF BuildSound, HolesAreMarked
  <2> QED
      BY <2>1, <2>2
<1>8. HolesAreMarked'
    BY <1>2, <1>7 DEF HolesAreMarked, FeaturesOf
<1> QED
    BY <1>4, <1>5, <1>6, <1>8 DEF BuildSound

(* Closing an attempt:  what its shard's keys lack was not answered.         *)
LEMMA CloseKeeps == ASSUME BuildSound, CloseAttempt PROVE BuildSound'
<1> DEFINE z == builder.shard
<1>1. /\ UNCHANGED stored /\ builder.step \in AtWork /\ z \in Shard
      /\ builder' = [builder EXCEPT !.step = "judging"]
      /\ recovery' = [recovery EXCEPT ![z] = "complete"]
      /\ unanswered' = (unanswered \ (builder.todo \ builder.missed)) \cup builder.missed
    BY DEF CloseAttempt, Inserted, AtStep, GoesOn, Marks, AtWork, BuildSound, Shapes
<1>2. FeaturesOf(builder.todo \ builder.missed) \subseteq stored
    BY DEF CloseAttempt, Inserted, AtStep, BuildSound, AnsweredIsStored, FeaturesOf
<1>3. Shapes'
    BY <1>1 DEF BuildSound, Shapes, ShardWork, Step
<1>4. Fresh' /\ NotAsked' /\ AskingIsMarked' /\ AnsweredIsStored'
    BY <1>1 DEF BuildSound, Shapes, Fresh, NotAsked, AskingIsMarked, AnsweredIsStored, AtWork
<1>5. ASSUME NEW k \in Key \ unanswered'
      PROVE  \/ FeaturesOf({k}) \cap stored \in {{}, FeaturesOf({k})}
             \/ \E y \in Shard : k \in KeysOf[y] /\ recovery'[y] = "open"
  <2>1. CASE k \in builder.todo
    <3>1. k \in builder.todo \ builder.missed
        BY <1>1, <1>5, <2>1
    <3> QED
        BY <1>2, <3>1 DEF FeaturesOf
  <2>2. CASE k \notin builder.todo /\ k \in KeysOf[z]
    <3>1. Whole(k)
        BY <1>1, <1>5, <2>2 DEF BuildSound, NotAsked
    <3> QED
        BY <3>1 DEF Whole
  <2>3. CASE k \notin builder.todo /\ k \notin KeysOf[z]
    <3>1. k \notin unanswered
        BY <1>1, <1>5, <2>3
    <3>2. \A y \in Shard : k \in KeysOf[y] => recovery'[y] = recovery[y]
        BY <1>1, <2>3 DEF BuildSound, Shapes
    <3> QED
        BY <3>1, <3>2 DEF BuildSound, HolesAreMarked
  <2> QED
      BY <2>1, <2>2, <2>3
<1>6. HolesAreMarked'
    BY <1>1, <1>5 DEF HolesAreMarked, FeaturesOf
<1> QED
    BY <1>3, <1>4, <1>6 DEF BuildSound

-----------------------------------------------------------------------------
LEMMA NextBuildSound == BuildSound /\ [BuildNext]_buildVars => BuildSound'
<1> SUFFICES ASSUME BuildSound, [BuildNext]_buildVars PROVE BuildSound'
    OBVIOUS
<1>1. ASSUME NEW z \in Shard, n5_claim_shard(z) PROVE BuildSound'
  <2>1. /\ builder'.step = "looking" /\ builder'.shard \in Shard
        /\ builder'.todo = {} /\ builder'.missed = {}
        /\ builder' \in ShardWork
      BY <1>1 DEF n5_claim_shard, NoBuilder, ShardWork, Step, SourceStatus
  <2> QED
      BY <1>1, <2>1, LeavesAlone DEF n5_claim_shard, AtWork
<1>2. ASSUME NEW z \in Shard, LeaseLapses(z) \/ PublishPrefix(z) PROVE BuildSound'
    BY <1>2, LeavesAlone DEF LeaseLapses, PublishPrefix
<1>3. CASE \/ requeue_halted \/ n5_gen_prepare_publish \/ RecordUnresolved
           \/ MarkReady
    BY <1>3, LeavesAlone
    DEF requeue_halted, n5_gen_prepare_publish, RecordUnresolved, MarkReady
<1>4. CASE record_key_verdicts
  <2>1. /\ builder'.step = "marking" /\ builder'.shard \in Shard
        /\ builder' \in ShardWork
      BY <1>4 DEF record_key_verdicts, AtStep, GoesOn, BuildSound, Shapes, ShardWork, Step
  <2> QED
      BY <1>4, <2>1, LeavesAlone DEF record_key_verdicts, AtWork
<1>5. CASE MarkDone \/ halt \/ Killed
    BY <1>5, LeavesAlone DEF MarkDone, halt, Killed
<1>6. CASE UNCHANGED buildVars
    BY <1>6, LeavesAlone DEF buildVars
<1> QED
    BY <1>1, <1>2, <1>3, <1>4, <1>5, <1>6, LookKeeps, FetchKeeps, InsertKeeps, CloseKeeps DEF BuildNext

(* What is stored of a key is all of it or nothing, unless an attempt at it  *)
(* is open or the publisher gave no answer about it when asked again        *)
(* (scripts/n5_shard.py 316-326).                                          *)
THEOREM PartlyStoredIsMarked == BuildSpec => []HolesAreMarked
<1>1. BuildInit => BuildSound
    BY InitBuildSound, ShardAssumption
<1>2. BuildSound /\ [BuildNext]_buildVars => BuildSound'
    BY NextBuildSound, ShardAssumption
<1>3. BuildSound => HolesAreMarked
    BY DEF BuildSound
<1> QED
    BY <1>1, <1>2, <1>3, PTL DEF BuildSpec

-----------------------------------------------------------------------------
(* The publication.  When it is prepared no shard is at work, so what is    *)
(* stored and decided stands still under it.                               *)

Said == {"none", "NO_INTERSECTION", "GEOMETRY_INVALID", "PUBLISHER_UNREACHABLE"} \cup Verdict

ShardRows == [state : {"pending", "running", "halted", "done"}, leased : BOOLEAN, tries : Nat, status : SourceStatus]

Tables ==
    /\ shard \in [Shard -> ShardRows]
    /\ verdict \in [Key -> Verdict]
    /\ map \in [prepared : BOOLEAN, recovered : SUBSET Key, published : SUBSET Shard,
                members : SUBSET (Shard \X Key), accounted : BOOLEAN,
                reason : [Key -> Said], ready : BOOLEAN]
    /\ builder.step # "idle" => shard[builder.shard].state = "running"

(* A shard that is done, or about to be, has decided about each of its keys. *)
Decided(k, status) == HasGeometry(k) \/ verdict[k] # "none" \/ status = "PUBLISHER_UNREACHABLE"

DoneIsDecided ==
    /\ \A z \in Shard : shard[z].state = "done" => \A k \in KeysOf[z] : Decided(k, shard[z].status)
    /\ builder.step = "marking" => \A k \in KeysOf[builder.shard] : Decided(k, builder.status)
    /\ builder.step \in {"inserting", "closing", "judging", "marking"} => builder.status # "none"

PreparedStands ==
    /\ map.published # {} => map.prepared
    /\ map.prepared =>
         AllDone /\ builder.step = "idle" /\ map.recovered = {k \in Key : HasGeometry(k)}

PublishedIsThere ==
    \A f \in stored : Place[f] \in map.published => <<Place[f], KeyOf[f]>> \in map.members

AccountedInFull ==
    map.accounted => map.published = Shard /\ \A k \in Key : Accounted(k)

Whence == Tables /\ DoneIsDecided /\ PreparedStands /\ PublishedIsThere /\ AccountedInFull

LEMMA InitWhence == BuildInit => Whence
<1> SUFFICES ASSUME BuildInit PROVE Whence
    OBVIOUS
<1>1. Tables
  <2>1. shard \in [Shard -> ShardRows]
      BY DEF BuildInit, ShardRows, SourceStatus
  <2>2. [k \in Key |-> "none"] \in [Key -> Said]
      BY DEF Said
  <2>3. map = [prepared |-> FALSE, recovered |-> {}, published |-> {}, members |-> {},
               accounted |-> FALSE, reason |-> [k \in Key |-> "none"], ready |-> FALSE]
      BY DEF BuildInit
  <2>4. verdict \in [Key -> Verdict] /\ builder.step = "idle"
      BY DEF BuildInit, NoBuilder, Verdict
  <2> QED
      BY <2>1, <2>2, <2>3, <2>4 DEF Tables
<1>2. DoneIsDecided /\ PreparedStands /\ PublishedIsThere /\ AccountedInFull
    BY DEF BuildInit, NoBuilder, DoneIsDecided, PreparedStands, PublishedIsThere, AccountedInFull
<1> QED
    BY <1>1, <1>2 DEF Whence

(* While a shard is not done nothing is prepared, published or accounted for: *)
(* the steps of the shards need keep only what they decide.                *)
LEMMA BeforePublication ==
    ASSUME BuildSound, Whence, UNCHANGED map,
           ~AllDone \/ builder.step # "idle",
           Tables', DoneIsDecided'
    PROVE  Whence'
<1>1. ~map.prepared /\ map.published = {}
    BY DEF Whence, PreparedStands
<1>2. PreparedStands' /\ PublishedIsThere'
    BY <1>1 DEF PreparedStands, PublishedIsThere
<1>3. AccountedInFull'
    BY DEF Whence, AccountedInFull, Accounted, OnTheMap
<1> QED
    BY <1>2, <1>3 DEF Whence

(* The steps of the run between its claim and its mark.                  *)
LEMMA WorkKeeps ==
    ASSUME BuildSound, BuildSound', Whence,
           Look \/ fetch_features \/ insert_batched \/ CloseAttempt
    PROVE  Whence'
<1>1. /\ UNCHANGED <<shard, verdict, map>> /\ stored \subseteq stored'
      /\ builder.step # "idle" /\ builder'.step # "idle" /\ builder'.step # "marking"
      /\ builder'.shard = builder.shard
      /\ builder'.step \in {"inserting", "closing", "judging"} => builder'.status # "none"
  <2> DEFINE kept == /\ UNCHANGED <<shard, verdict, map>> /\ stored \subseteq stored'
                     /\ builder.step # "idle" /\ builder'.step \notin {"idle", "marking"}
                     /\ builder'.shard = builder.shard
                     /\ builder'.step \in {"inserting", "closing", "judging"} => builder'.status # "none"
  <2>1. builder \in ShardWork /\ DoneIsDecided
      BY DEF BuildSound, Shapes, Whence
  <2>2. ASSUME Look PROVE kept
      BY <2>1, <2>2 DEF Look, AtStep, ShardWork
  <2>3. ASSUME fetch_features PROVE kept
      BY <2>1, <2>3 DEF fetch_features, AtStep, ShardWork
  <2>4. ASSUME insert_batched PROVE kept
      BY <2>1, <2>4 DEF insert_batched, AtStep, ShardWork, DoneIsDecided
  <2>5. ASSUME CloseAttempt PROVE kept
      BY <2>1, <2>5 DEF CloseAttempt, Inserted, AtStep, GoesOn, ShardWork, DoneIsDecided
  <2> QED
      BY <2>2, <2>3, <2>4, <2>5
<1>2. Tables'
    BY <1>1 DEF Whence, Tables
<1>3. DoneIsDecided'
    BY <1>1 DEF Whence, DoneIsDecided, Decided, HasGeometry
<1> QED
    BY <1>1, <1>2, <1>3, BeforePublication

LEMMA JudgeKeepsBuild == ASSUME BuildSound, Whence, record_key_verdicts PROVE Whence'
<1>1. /\ UNCHANGED <<shard, stored, map>> /\ builder.step = "judging" /\ builder.shard \in Shard
      /\ builder' = [builder EXCEPT !.step = "marking"]
      /\ builder.status \in SourceStatus \ {"none"}
    BY DEF record_key_verdicts, AtStep, GoesOn, BuildSound, Shapes, ShardWork, Whence, DoneIsDecided
<1>2. \A k \in Key : VerdictOn(k) \in Verdict
    BY <1>1 DEF VerdictOn, Verdict, SourceStatus
<1>3. \A k \in KeysOf[builder.shard] : k \in Key
    BY <1>1, ShardAssumption
<1>4. \A k \in Key : verdict[k] # "none" => verdict'[k] # "none"
    BY DEF record_key_verdicts, Whence, Tables
<1>5. ASSUME NEW k \in KeysOf[builder.shard]
      PROVE  HasGeometry(k) \/ verdict'[k] # "none" \/ builder.status = "PUBLISHER_UNREACHABLE"
  <2>1. k \in Key
      BY <1>3
  <2>2. CASE verdict[k] = "none"
    <3>1. verdict'[k] = VerdictOn(k)
        BY <2>1, <2>2 DEF record_key_verdicts
    <3> QED
        BY <1>1, <3>1 DEF VerdictOn, SourceStatus
  <2>3. CASE verdict[k] # "none"
      BY <1>4, <2>1, <2>3
  <2> QED
      BY <2>2, <2>3
<1>6. Tables'
  <2>1. verdict' \in [Key -> Verdict]
      BY <1>2 DEF record_key_verdicts, Whence, Tables
  <2> QED
      BY <1>1, <2>1 DEF Whence, Tables, BuildSound, Shapes, ShardWork
<1>7. DoneIsDecided'
  <2>1. \A z \in Shard : \A k \in KeysOf[z] : k \in Key
      BY ShardAssumption
  <2>2. \A z \in Shard : shard'[z].state = "done" => \A k \in KeysOf[z] : Decided(k, shard[z].status)'
      BY <1>1, <1>4, <2>1 DEF Whence, DoneIsDecided, Decided, HasGeometry
  <2>3. builder'.step = "marking" /\ builder'.shard = builder.shard /\ builder'.status = builder.status
      BY <1>1 DEF BuildSound, Shapes, ShardWork
  <2> QED
      BY <1>1, <1>5, <2>2, <2>3 DEF DoneIsDecided, Decided, HasGeometry
<1> QED
    BY <1>1, <1>6, <1>7, BeforePublication

(* A run ends: its shard is done, halted, or left as it is.                  *)
LEMMA AttemptEndKeeps == ASSUME BuildSound, Whence, MarkDone \/ halt \/ Killed PROVE Whence'
<1>1. /\ UNCHANGED <<stored, verdict, map>> /\ builder.step # "idle" /\ builder.shard \in Shard
      /\ builder' = NoBuilder
    BY DEF MarkDone, halt, Killed, AtStep, BuildSound, Shapes
<1>2. Tables /\ DoneIsDecided /\ shard \in [Shard -> ShardRows]
    BY DEF Whence, Tables
<1>3. ASSUME MarkDone PROVE Tables' /\ DoneIsDecided'
  <2>1. builder.step = "marking" /\ builder.status \in SourceStatus
      BY <1>3 DEF MarkDone, AtStep, BuildSound, Shapes, ShardWork
  <2>2. shard' = [shard EXCEPT ![builder.shard].state = "done", ![builder.shard].status = builder.status]
      BY <1>3 DEF MarkDone
  <2>3. shard' \in [Shard -> ShardRows]
      BY <1>1, <1>2, <2>1, <2>2 DEF ShardRows
  <2>4. Tables'
      BY <1>1, <1>2, <2>3 DEF Tables, NoBuilder
  <2>5. shard'[builder.shard].status = builder.status /\ \A y \in Shard \ {builder.shard} : shard'[y] = shard[y]
      BY <1>1, <1>2, <2>2 DEF ShardRows
  <2>6. ASSUME NEW z \in Shard, shard'[z].state = "done", NEW k \in KeysOf[z]
        PROVE  HasGeometry(k) \/ verdict[k] # "none" \/ shard'[z].status = "PUBLISHER_UNREACHABLE"
      BY <1>2, <2>1, <2>5, <2>6 DEF DoneIsDecided, Decided
  <2>7. DoneIsDecided'
      BY <1>1, <2>6 DEF DoneIsDecided, Decided, HasGeometry, NoBuilder
  <2> QED
      BY <2>4, <2>7
<1>4. ASSUME halt \/ Killed PROVE Tables' /\ DoneIsDecided'
  <2>1. shard' = shard \/ shard' = [shard EXCEPT ![builder.shard].state = "halted"]
      BY <1>4 DEF halt, Killed
  <2>2. shard' \in [Shard -> ShardRows]
      BY <1>1, <1>2, <2>1 DEF ShardRows
  <2>3. Tables'
      BY <1>1, <1>2, <2>2 DEF Tables, NoBuilder
  <2>4. \A z \in Shard : shard'[z].state = "done" => shard'[z] = shard[z]
      BY <1>1, <1>2, <2>1 DEF ShardRows
  <2>5. DoneIsDecided'
      BY <1>1, <1>2, <2>4 DEF DoneIsDecided, Decided, HasGeometry, NoBuilder
  <2> QED
      BY <2>3, <2>5
<1> QED
    BY <1>1, <1>3, <1>4, BeforePublication

LEMMA TakeKeeps ==
    ASSUME BuildSound, Whence, NEW z \in Shard, n5_claim_shard(z) \/ LeaseLapses(z)
    PROVE  Whence'
<1>0. shard \in [Shard -> ShardRows]
    BY DEF Whence, Tables
<1>1. /\ UNCHANGED <<stored, verdict, map>> /\ shard[z].state \in {"pending", "running"}
      /\ shard'[z].state = "running" /\ \A y \in Shard \ {z} : shard'[y] = shard[y]
    BY <1>0 DEF n5_claim_shard, LeaseLapses, ClaimableShard, ShardRows
<1>2. shard' \in [Shard -> ShardRows]
  <2>1. CASE n5_claim_shard(z)
      BY <1>0, <2>1 DEF n5_claim_shard, ShardRows
  <2>2. CASE LeaseLapses(z)
      BY <1>0, <2>2 DEF LeaseLapses, ShardRows
  <2> QED
      BY <2>1, <2>2
<1>3. \/ builder' = builder /\ builder.shard # z
      \/ builder'.step = "looking" /\ builder'.shard = z
    BY DEF n5_claim_shard, LeaseLapses, NoBuilder
<1>4. Tables'
  <2>1. ASSUME builder' = builder, builder.shard # z, builder.step # "idle"
        PROVE  shard'[builder.shard].state = "running"
      BY <1>1, <2>1 DEF Whence, Tables, BuildSound, Shapes, ShardWork
  <2> QED
      BY <1>1, <1>2, <1>3, <2>1 DEF Whence, Tables
<1>5. DoneIsDecided'
  <2>1. \A y \in Shard : shard'[y].state = "done" => shard'[y] = shard[y]
      BY <1>1
  <2> QED
      BY <1>1, <1>3, <2>1 DEF Whence, DoneIsDecided, Decided, HasGeometry
<1>6. ~AllDone
    BY <1>1 DEF AllDone
<1> QED
    BY <1>1, <1>4, <1>5, <1>6, BeforePublication

LEMMA RequeueKeeps == ASSUME BuildSound, Whence, requeue_halted PROVE Whence'
<1>1. /\ UNCHANGED <<stored, verdict, map, builder>> /\ builder.step = "idle"
      /\ \A z \in Shard : shard'[z] = shard[z] \/ (shard[z].state = "halted" /\ shard'[z].state = "pending")
  <2>1. shard \in [Shard -> ShardRows]
      BY DEF Whence, Tables
  <2> QED
      BY <2>1 DEF requeue_halted, NobodyBuilds, Requeued, ShardRows
<1>2. Tables'
  <2>1. shard \in [Shard -> ShardRows]
      BY DEF Whence, Tables
  <2>2. \A z \in Shard : [shard[z] EXCEPT !.state = "pending", !.leased = FALSE] \in ShardRows
      BY <2>1 DEF ShardRows
  <2>3. shard' \in [Shard -> ShardRows]
      BY <2>1, <2>2 DEF requeue_halted
  <2> QED
      BY <1>1, <2>3 DEF Whence, Tables
<1>3. DoneIsDecided'
    BY <1>1 DEF Whence, DoneIsDecided, Decided, HasGeometry
<1>4. ~AllDone
    BY DEF requeue_halted, Requeued, AllDone
<1> QED
    BY <1>1, <1>2, <1>3, <1>4, BeforePublication

LEMMA PrepareKeeps == ASSUME BuildSound, Whence, n5_gen_prepare_publish PROVE Whence'
<1>1. /\ UNCHANGED <<shard, stored, verdict, builder>> /\ builder.step = "idle" /\ AllDone
      /\ map' = [map EXCEPT !.prepared = TRUE, !.recovered = {k \in Key : HasGeometry(k)}]
    BY DEF n5_gen_prepare_publish, NobodyBuilds, MayPrepare
<1>2. Tables' /\ DoneIsDecided'
    BY <1>1 DEF Whence, Tables, DoneIsDecided, Decided, HasGeometry
<1>3. PreparedStands'
    BY <1>1 DEF Whence, Tables, PreparedStands, AllDone, HasGeometry
<1>4. PublishedIsThere' /\ AccountedInFull'
    BY <1>1 DEF Whence, Tables, PublishedIsThere, AccountedInFull, Accounted, OnTheMap
<1> QED
    BY <1>2, <1>3, <1>4 DEF Whence

LEMMA PublishKeeps ==
    ASSUME BuildSound, Whence, NEW z \in Shard, PublishPrefix(z)
    PROVE  Whence'
<1> DEFINE new == {<<z, k>> : k \in {j \in map.recovered : LiesIn(j, z)}}
<1>1. /\ UNCHANGED <<shard, stored, verdict, builder>> /\ map.prepared /\ z \notin map.published
      /\ map' = [map EXCEPT !.published = @ \cup {z}, !.members = @ \cup new]
    BY DEF PublishPrefix
<1>2. new \subseteq Shard \X Key
    BY DEF Whence, Tables
<1>3. Tables'
    BY <1>1, <1>2 DEF Whence, Tables
<1>4. DoneIsDecided' /\ PreparedStands'
    BY <1>1 DEF Whence, Tables, DoneIsDecided, Decided, HasGeometry, PreparedStands, AllDone
<1>5. ASSUME NEW f \in stored, Place[f] \in map'.published PROVE <<Place[f], KeyOf[f]>> \in map'.members
  <2>1. CASE Place[f] \in map.published
      BY <1>1, <2>1 DEF Whence, Tables, PublishedIsThere
  <2>2. CASE Place[f] = z
    <3>1. f \in Feature /\ KeyOf[f] \in Key
        BY ShardAssumption DEF BuildSound, Shapes
    <3>2. KeyOf[f] \in map.recovered
        BY <1>1, <3>1 DEF Whence, PreparedStands, HasGeometry, FeaturesOf
    <3>3. <<z, KeyOf[f]>> \in new
        BY <2>2, <3>2 DEF LiesIn
    <3> QED
        BY <1>1, <2>2, <3>3 DEF Whence, Tables
  <2> QED
      BY <1>1, <1>5, <2>1, <2>2 DEF Whence, Tables
<1>6. PublishedIsThere'
    BY <1>1, <1>5 DEF PublishedIsThere
<1>7. ~map.accounted /\ ~map'.accounted
    BY <1>1 DEF Whence, Tables, AccountedInFull
<1> QED
    BY <1>3, <1>4, <1>6, <1>7 DEF Whence, AccountedInFull

LEMMA AccountKeeps == ASSUME BuildSound, Whence, RecordUnresolved PROVE Whence'
<1>1. /\ UNCHANGED <<shard, stored, verdict, builder>> /\ map.published = Shard
      /\ map' = [map EXCEPT !.accounted = TRUE, !.reason = [k \in Key |-> Reason(k)]]
    BY DEF RecordUnresolved
<1>2. \A k \in Key : Reason(k) \in Said
    BY DEF Reason, Whence, Tables, Said
<1>3. Tables'
    BY <1>1, <1>2 DEF Whence, Tables
<1>4. DoneIsDecided' /\ PreparedStands' /\ PublishedIsThere'
    BY <1>1 DEF Whence, Tables, DoneIsDecided, Decided, HasGeometry, PreparedStands, AllDone, PublishedIsThere
<1>5. ASSUME NEW k \in Key, ~OnTheMap(k) PROVE Reason(k) # "none"
  <2>1. PICK z \in Shard : k \in KeysOf[z]
      BY ShardAssumption
  <2>2. shard[z].state = "done"
      BY <1>1, <2>1 DEF Whence, PreparedStands, AllDone
  <2>3. Decided(k, shard[z].status)
      BY <2>1, <2>2 DEF Whence, DoneIsDecided
  <2> QED
      BY <1>5, <2>1, <2>2, <2>3 DEF Decided, Reason, SaidUnreachable
<1>6. \A k \in Key : OnTheMap(k)' <=> OnTheMap(k)
    BY <1>1 DEF OnTheMap, Whence, Tables
<1>7. AccountedInFull'
    BY <1>1, <1>5, <1>6 DEF AccountedInFull, Accounted, Whence, Tables
<1> QED
    BY <1>3, <1>4, <1>7 DEF Whence

LEMMA RestKeeps == ASSUME BuildSound, Whence, MarkReady \/ UNCHANGED buildVars PROVE Whence'
<1>1. /\ UNCHANGED <<shard, stored, verdict, builder>>
      /\ map' = map \/ map' = [map EXCEPT !.ready = TRUE]
    BY DEF MarkReady, buildVars
<1>2. Tables' /\ DoneIsDecided' /\ PreparedStands' /\ PublishedIsThere'
    BY <1>1 DEF Whence, Tables, DoneIsDecided, Decided, HasGeometry, PreparedStands, AllDone, PublishedIsThere
<1>3. AccountedInFull'
    BY <1>1 DEF Whence, Tables, AccountedInFull, Accounted, OnTheMap
<1> QED
    BY <1>2, <1>3 DEF Whence

LEMMA NextWhence == ASSUME BuildSound, Whence, [BuildNext]_buildVars PROVE Whence'
<1>1. BuildSound'
    BY NextBuildSound, ShardAssumption
<1>2. ASSUME NEW z \in Shard, n5_claim_shard(z) \/ LeaseLapses(z) \/ PublishPrefix(z) PROVE Whence'
    BY <1>2, TakeKeeps, PublishKeeps
<1>3. CASE requeue_halted \/ record_key_verdicts
    BY <1>3, RequeueKeeps, JudgeKeepsBuild
<1>4. CASE Look \/ fetch_features \/ insert_batched \/ CloseAttempt
    BY <1>1, <1>4, WorkKeeps
<1>5. CASE MarkDone \/ halt \/ Killed
    BY <1>5, AttemptEndKeeps
<1>6. CASE n5_gen_prepare_publish \/ RecordUnresolved
    BY <1>6, PrepareKeeps, AccountKeeps
<1>7. CASE MarkReady \/ UNCHANGED buildVars
    BY <1>7, RestKeeps
<1> QED
    BY <1>2, <1>3, <1>4, <1>5, <1>6, <1>7 DEF BuildNext

(* When a generation has been accounted for, every usable feature that is   *)
(* stored is on the map of its prefix and every other key has a reason, so  *)
(* that the last check never refuses it                                    *)
(* (n5-generation-publish-part-e.sql 84-90, scripts/n5_shard.py 663-675).   *)
THEOREM AccountedMapIsWhole == BuildSpec => []MapIsWhole
<1>1. BuildInit => BuildSound /\ Whence
    BY InitBuildSound, InitWhence, ShardAssumption
<1>2. BuildSound /\ Whence /\ [BuildNext]_buildVars => BuildSound' /\ Whence'
    BY NextBuildSound, NextWhence, ShardAssumption
<1>3. Whence => MapIsWhole
    BY DEF Whence, MapIsWhole, PublishedIsThere, AccountedInFull
<1> QED
    BY <1>1, <1>2, <1>3, PTL DEF BuildSpec

(* What a run inserts it has asked for, what is on the map was recovered,  *)
(* and no shard is claimed more often than is counted.                     *)
WithinBounds ==
    /\ \A z \in Shard : shard[z].tries \in 0..MaxClaims
    /\ builder.rows \subseteq FeaturesOf(builder.todo \ builder.missed)
    /\ builder.step \in {"idle", "looking", "asking"} => builder.rows = {}
    /\ map.members \subseteq map.published \X map.recovered

LEMMA BoundsAtFirst == BuildInit => WithinBounds
BY ShardAssumption DEF BuildInit, WithinBounds, NoBuilder

LEMMA BoundsKept ==
    ASSUME BuildSound, Whence, WithinBounds, [BuildNext]_buildVars
    PROVE  WithinBounds'
<1> USE DEF WithinBounds
<1>1. /\ builder \in ShardWork /\ shard \in [Shard -> ShardRows]
      /\ map \in [prepared : BOOLEAN, recovered : SUBSET Key, published : SUBSET Shard,
                  members : SUBSET (Shard \X Key), accounted : BOOLEAN,
                  reason : [Key -> Said], ready : BOOLEAN]
  BY DEF BuildSound, Shapes, Whence, Tables
<1>2. ASSUME NEW z \in Shard, n5_claim_shard(z) PROVE WithinBounds'
  <2>1. /\ shard' = [shard EXCEPT ![z].state = "running", ![z].leased = TRUE, ![z].tries = @ + 1]
        /\ shard[z].tries < MaxClaims /\ builder' = [NoBuilder EXCEPT !.step = "looking", !.shard = z] /\ map' = map
    BY <1>2 DEF n5_claim_shard
  <2>2. ASSUME NEW y \in Shard PROVE shard'[y].tries \in 0..MaxClaims
    <3>1. shard'[y].tries = IF y = z THEN shard[z].tries + 1 ELSE shard[y].tries
      BY <1>1, <2>1 DEF ShardRows
    <3> QED
      BY <2>1, <3>1, ShardAssumption
  <2>3. builder'.rows = {}
    BY <2>1 DEF NoBuilder
  <2> QED
    BY <2>1, <2>2, <2>3
<1>3. ASSUME NEW z \in Shard, LeaseLapses(z) PROVE WithinBounds'
  BY <1>1, <1>3 DEF LeaseLapses, ShardRows
<1>4. CASE requeue_halted
  <2>1. UNCHANGED <<builder, map>>
    BY <1>4, Zenon DEF requeue_halted
  <2>2. ASSUME NEW z \in Shard PROVE shard'[z].tries = shard[z].tries
    <3>1. shard[z] \in ShardRows
      BY <1>1
    <3>2. shard'[z] = [shard[z] EXCEPT !.state = "pending", !.leased = FALSE] \/ shard'[z] = shard[z]
      BY <1>4, Zenon DEF requeue_halted
    <3> QED
      BY <3>1, <3>2 DEF ShardRows
  <2> QED
    BY <2>1, <2>2
<1>5. CASE Look
  <2>1. UNCHANGED <<shard, map>> /\ builder.step = "looking" /\ builder.rows = {}
    BY <1>5 DEF Look, AtStep
  <2>2. builder'.rows = {}
    BY <1>1, <1>5, <2>1 DEF Look, ShardWork
  <2> QED
    BY <2>1, <2>2
<1>6. CASE fetch_features
  <2>1. UNCHANGED <<shard, map>> /\ builder.step = "asking"
    BY <1>6, Zenon DEF fetch_features, AtStep
  <2>2. ASSUME NEW missed \in SUBSET builder.todo,
               builder' = [builder EXCEPT !.step = "inserting", !.status = "OK", !.missed = missed,
                                          !.rows = FeaturesOf(builder.todo \ missed)]
        PROVE  WithinBounds'
    BY <1>1, <2>1, <2>2 DEF ShardWork, FeaturesOf
  <2>3. ASSUME NEW status,
               builder' = [builder EXCEPT !.step = "closing", !.status = status, !.missed = builder.todo]
        PROVE  WithinBounds'
    <3>1. builder'.rows = {}
      BY <1>1, <2>1, <2>3 DEF ShardWork
    <3> QED
      BY <2>1, <3>1
  <2> QED
    BY <1>6, <2>2, <2>3 DEF fetch_features
<1>7. CASE insert_batched
  BY <1>1, <1>7 DEF insert_batched, ShardWork, FeaturesOf
<1>8. CASE CloseAttempt \/ record_key_verdicts
  BY <1>1, <1>8 DEF CloseAttempt, record_key_verdicts, GoesOn, ShardWork
<1>9. CASE MarkDone \/ halt \/ Killed
  <2>1. builder' = NoBuilder /\ map' = map
    BY <1>9 DEF MarkDone, halt, Killed
  <2>2. \A z \in Shard : shard'[z].tries = shard[z].tries
    BY <1>1, <1>9 DEF MarkDone, halt, Killed, ShardRows
  <2> QED
    BY <2>1, <2>2 DEF NoBuilder
<1>10. CASE n5_gen_prepare_publish
  <2>1. map.published = {}
    BY <1>10 DEF n5_gen_prepare_publish, Whence, PreparedStands
  <2> QED
    BY <1>1, <1>10, <2>1 DEF n5_gen_prepare_publish
<1>11. ASSUME NEW z \in Shard, PublishPrefix(z) PROVE WithinBounds'
  <2> DEFINE new == {<<z, k>> : k \in {j \in map.recovered : LiesIn(j, z)}}
  <2>1. UNCHANGED <<shard, builder>> /\ map'.published = map.published \cup {z}
        /\ map'.recovered = map.recovered /\ map'.members = map.members \cup new
    BY <1>1, <1>11 DEF PublishPrefix
  <2>2. new \subseteq {z} \X map.recovered
    OBVIOUS
  <2> HIDE DEF new
  <2> QED
    BY <2>1, <2>2
<1>12. CASE RecordUnresolved \/ MarkReady
  BY <1>1, <1>12 DEF RecordUnresolved, MarkReady
<1>13. CASE UNCHANGED buildVars
  BY <1>13 DEF buildVars
<1> QED
  BY <1>2, <1>3, <1>4, <1>5, <1>6, <1>7, <1>8, <1>9, <1>10, <1>11, <1>12, <1>13 DEF BuildNext

(* Shards, features, the run at work and the map hold what BuildTypeOK     *)
(* says: what is inserted was asked for, what is on the map was recovered  *)
(* (n5_shard.py, n5_gen_publish_prefix).                                   *)
THEOREM BuildIsTyped == BuildSpec => []BuildTypeOK
<1>1. BuildInit => BuildSound /\ Whence /\ WithinBounds
    BY InitBuildSound, InitWhence, BoundsAtFirst, ShardAssumption
<1>2. BuildSound /\ Whence /\ WithinBounds /\ [BuildNext]_buildVars => (BuildSound /\ Whence /\ WithinBounds)'
    BY NextBuildSound, NextWhence, BoundsKept, ShardAssumption
<1>3. ASSUME BuildSound, Whence, WithinBounds PROVE BuildTypeOK
  <2>1. /\ recovery \in [Shard -> {"none", "open", "complete"}] /\ builder \in ShardWork
        /\ unanswered \subseteq Key /\ stored \subseteq Feature /\ verdict \in [Key -> Verdict]
        /\ builder.rows \subseteq FeaturesOf(builder.todo \ builder.missed)
        /\ map.members \subseteq map.published \X map.recovered
    BY <1>3 DEF BuildSound, Shapes, Whence, Tables, WithinBounds
  <2>2. map.published \subseteq Shard /\ map.recovered \subseteq Key
    BY <1>3 DEF Whence, Tables
  <2>3. shard \in [Shard -> ShardRows] /\ \A z \in Shard : shard[z].tries \in 0..MaxClaims
    BY <1>3 DEF Whence, Tables, WithinBounds
  <2>4. shard \in [Shard -> [state : {"pending", "running", "halted", "done"}, leased : BOOLEAN,
                            tries : 0..MaxClaims, status : SourceStatus]]
    BY <2>3 DEF ShardRows
  <2> QED
    BY <2>1, <2>2, <2>4 DEF BuildTypeOK
<1> QED
    BY <1>1, <1>2, <1>3, PTL DEF BuildSpec
=============================================================================

------------------------------ MODULE ShardBuild ------------------------------
(***************************************************************************)
(* The build of one generation of the map: shard by shard the geometry of  *)
(* what was recorded is asked of its publisher and stored, then prefix by  *)
(* prefix it is put on the map, and what is not there is accounted for.    *)
(*                                                                         *)
(*   docs/n5-generation-contract.sql   the claim of a shard and its lease  *)
(*   scripts/n5_orchestrate.py         the hourly run                      *)
(*   scripts/n5_shard.py               the work on one shard               *)
(*   docs/n5-generation-publish-part-d.sql, -e.sql, -f.sql                 *)
(*                                     prepare, publish, account, ready    *)
(*                                                                         *)
(* One publisher, whose records may be stated in several shards and lie in *)
(* prefixes of others.  Runs of the workflow do not overlap; a run may be  *)
(* cut off between any two statements.                                     *)
(***************************************************************************)
EXTENDS Naturals

CONSTANTS
    Shard,           \* prefixes of ZIP codes, in their order
    Key,             \* recorded projects
    KeysOf,          \* the keys stated in each shard
    Feature,         \* what the publisher has, in the order it is inserted
    KeyOf,           \* the key of each feature
    Unusable,        \* the features without a usable geometry
    Place,           \* the prefix a feature lies in, or 0
    MaxTries,        \* MAX_SHARD_ATTEMPTS
    MaxClaims        \* bound on the claims of one shard

ASSUME ShardAssumption ==
    /\ Shard \subseteq Nat \ {0} /\ Feature \subseteq Nat /\ Unusable \subseteq Feature
    /\ KeysOf \in [Shard -> SUBSET Key] /\ KeyOf \in [Feature -> Key]
    /\ Place \in [Feature -> Shard \cup {0}] /\ \A f \in Unusable : Place[f] = 0
    /\ \A k \in Key : \E z \in Shard : k \in KeysOf[z]
    /\ MaxTries \in Nat /\ MaxClaims \in Nat

VARIABLES
    shard,           \* n5_shard: state, lease, attempts, the status in its detail
    recovery,        \* n5_recovery_attempt: of each shard
    stored,          \* n5_geom: the features stored, of this build or an earlier one
    verdict,         \* n5_generation_key_verdict
    builder,         \* the run at work: its step, its shard, what it asks and inserts
    map,             \* n5_gen_recovered_key, the published prefixes and their members,
                     \* n5_generation_unresolved, and whether the generation is ready
    unanswered       \* history: keys whose last asking ended without an answer about them

buildVars == <<shard, recovery, stored, verdict, builder, map, unanswered>>

NoBuilder == [step |-> "idle", shard |-> 0, todo |-> {}, missed |-> {}, rows |-> {}, status |-> "none"]

FeaturesOf(K) == {f \in Feature : KeyOf[f] \in K}
HasGeometry(k) == FeaturesOf({k}) \cap stored # {}

BuildInit ==
    /\ shard = [z \in Shard |-> [state |-> "pending", leased |-> FALSE, tries |-> 0, status |-> "none"]]
    /\ recovery = [z \in Shard |-> "none"]
    /\ \E earlier \in SUBSET Key : stored = FeaturesOf(earlier)
    /\ verdict = [k \in Key |-> "none"]
    /\ builder = NoBuilder
    /\ map = [prepared |-> FALSE, recovered |-> {}, published |-> {}, members |-> {},
              accounted |-> FALSE, reason |-> [k \in Key |-> "none"], ready |-> FALSE]
    /\ unanswered = {}

NobodyBuilds == builder.step = "idle" /\ ~map.ready

-----------------------------------------------------------------------------
(* The shards, one after the other.                                        *)

ClaimableShard(z) ==
    \/ shard[z].state = "pending"
    \/ shard[z].state = "running" /\ ~shard[z].leased

n5_claim_shard(z) ==
    /\ NobodyBuilds /\ ClaimableShard(z) /\ \A y \in Shard : y < z => ~ClaimableShard(y)
    /\ shard[z].tries < MaxClaims
    /\ shard' = [shard EXCEPT ![z].state = "running", ![z].leased = TRUE, ![z].tries = @ + 1]
    /\ builder' = [NoBuilder EXCEPT !.step = "looking", !.shard = z]
    /\ UNCHANGED <<recovery, stored, verdict, map, unanswered>>

(* A run is cut off before the lease of its shard is over.                  *)
LeaseLapses(z) ==
    /\ shard[z].state = "running" /\ shard[z].leased /\ builder.shard # z
    /\ shard' = [shard EXCEPT ![z].leased = FALSE]
    /\ UNCHANGED <<recovery, stored, verdict, builder, map, unanswered>>

Requeued(z) == shard[z].state = "halted" /\ shard[z].tries < MaxTries

requeue_halted ==
    /\ NobodyBuilds /\ \E z \in Shard : Requeued(z)
    /\ shard' = [z \in Shard |->
                    IF Requeued(z) THEN [shard[z] EXCEPT !.state = "pending", !.leased = FALSE] ELSE shard[z]]
    /\ UNCHANGED <<recovery, stored, verdict, builder, map, unanswered>>

-----------------------------------------------------------------------------
(* The work on one shard.                                                  *)

AtStep(step) == builder.step = step
GoesOn(step) == builder' = [builder EXCEPT !.step = step]

Marks(z, mark) == recovery' = [recovery EXCEPT ![z] = mark]

(* Fault: the attempt is written down when it is over, not before.         *)
MarksLater(z) == UNCHANGED recovery

MarksOpen(z) == Marks(z, "open")

(* Presence is not completeness: while any attempt is open every key of the *)
(* shard is asked for again.                                                *)
Todo(z) ==
    IF \E y \in Shard : recovery[y] = "open" THEN KeysOf[z]
    ELSE {k \in KeysOf[z] : ~HasGeometry(k)}

(* The slice is frozen and compared with the manifest first; if it differs  *)
(* the shard is halted.  A source may have no service to ask.               *)
Look ==
    LET z == builder.shard
        todo == Todo(z)
    IN  /\ AtStep("looking")
        /\ \/ todo = {} /\ builder' = [builder EXCEPT !.step = "closing", !.status = "OK"]
              /\ UNCHANGED recovery
           \/ todo # {} /\ builder' = [builder EXCEPT !.step = "judging", !.status = "EXCLUDED"]
              /\ UNCHANGED recovery
           \/ todo # {} /\ builder' = [builder EXCEPT !.step = "asking", !.todo = todo]
              /\ MarksOpen(z)
        /\ UNCHANGED <<shard, stored, verdict, map, unanswered>>

(* The publisher answers, perhaps not about every key, or does not.         *)
fetch_features ==
    /\ AtStep("asking")
    /\ \/ \E missed \in SUBSET builder.todo :
            builder' = [builder EXCEPT !.step = "inserting", !.status = "OK", !.missed = missed,
                                       !.rows = FeaturesOf(builder.todo \ missed)]
       \/ \E status \in {"EXCLUDED", "PUBLISHER_UNREACHABLE"} :
            builder' = [builder EXCEPT !.step = "closing", !.status = status, !.missed = builder.todo]
    /\ UNCHANGED <<shard, recovery, stored, verdict, map, unanswered>>

(* A chunk of rows, in their order; what is there already stays as it is.   *)
insert_batched ==
    /\ AtStep("inserting") /\ builder.rows # {}
    /\ \E f \in builder.rows :
         /\ \A g \in builder.rows : f <= g
         /\ stored' = stored \cup {f}
         /\ builder' = [builder EXCEPT !.rows = @ \ {f}]
    /\ UNCHANGED <<shard, recovery, verdict, map, unanswered>>

Inserted == AtStep("closing") \/ (AtStep("inserting") /\ builder.rows = {})

(* The attempt is complete, whatever came of it.                            *)
CloseAttempt ==
    /\ Inserted /\ GoesOn("judging")
    /\ Marks(builder.shard, "complete")
    /\ unanswered' = (unanswered \ (builder.todo \ builder.missed)) \cup builder.missed
    /\ UNCHANGED <<shard, stored, verdict, map>>

(* Fault: only what is on the map is decided; a key that is not is not noted. *)
NoVerdict(k) == "none"

VerdictOn(k) ==
    IF HasGeometry(k) THEN "none"
    ELSE CASE builder.status = "EXCLUDED" -> "SOURCE_EXCLUDED"
           [] builder.status = "OK" -> "RECOVERY_NOT_RETURNED"
           [] OTHER -> "none"

record_key_verdicts ==
    /\ AtStep("judging") /\ GoesOn("marking")
    /\ verdict' = [k \in Key |-> IF k \in KeysOf[builder.shard] /\ verdict[k] = "none" THEN VerdictOn(k)
                                 ELSE verdict[k]]
    /\ UNCHANGED <<shard, recovery, stored, map, unanswered>>

MarkDone ==
    /\ AtStep("marking") /\ builder' = NoBuilder
    /\ shard' = [shard EXCEPT ![builder.shard].state = "done", ![builder.shard].status = builder.status]
    /\ UNCHANGED <<recovery, stored, verdict, map, unanswered>>

(* A check refuses (the manifest, a boundary, the disk) or the script fails. *)
halt ==
    /\ builder.step # "idle" /\ builder' = NoBuilder
    /\ shard' = [shard EXCEPT ![builder.shard].state = "halted"]
    /\ UNCHANGED <<recovery, stored, verdict, map, unanswered>>

(* The run is cut off and says nothing.                                     *)
Killed ==
    /\ builder.step # "idle" /\ builder' = NoBuilder
    /\ UNCHANGED <<shard, recovery, stored, verdict, map, unanswered>>

-----------------------------------------------------------------------------
(* The publication.                                                        *)

AllDone == \A z \in Shard : shard[z].state = "done"

(* Fault: the candidates are fixed when no shard is at work.                *)
NoneRunning == \A z \in Shard : shard[z].state # "running"

(* Of which stage refuses while a shard is not done.                        *)
MayPrepare == AllDone

n5_gen_prepare_publish ==
    /\ NobodyBuilds /\ MayPrepare /\ ~map.prepared
    /\ map' = [map EXCEPT !.prepared = TRUE, !.recovered = {k \in Key : HasGeometry(k)}]
    /\ UNCHANGED <<shard, recovery, stored, verdict, builder, unanswered>>

LiesIn(k, z) == \E f \in stored : KeyOf[f] = k /\ Place[f] = z

(* n5_gen_publish_prefix: the keys with a feature in it become members.     *)
PublishPrefix(z) ==
    /\ NobodyBuilds /\ AllDone /\ map.prepared /\ z \notin map.published
    /\ map' = [map EXCEPT !.published = @ \cup {z},
                          !.members = @ \cup {<<z, k>> : k \in {j \in map.recovered : LiesIn(j, z)}}]
    /\ UNCHANGED <<shard, recovery, stored, verdict, builder, unanswered>>

OnTheMap(k) == \E z \in Shard : <<z, k>> \in map.members

Usable(k) == \E f \in stored : f \notin Unusable /\ KeyOf[f] = k

SaidUnreachable(k) ==
    \E z \in Shard :
        k \in KeysOf[z] /\ shard[z].state = "done" /\ shard[z].status = "PUBLISHER_UNREACHABLE"

Reason(k) ==
    IF OnTheMap(k) THEN "none"
    ELSE IF Usable(k) THEN "NO_INTERSECTION"
    ELSE IF HasGeometry(k) THEN "GEOMETRY_INVALID"
    ELSE IF verdict[k] # "none" THEN verdict[k]
    ELSE IF SaidUnreachable(k) THEN "PUBLISHER_UNREACHABLE"
    ELSE "none"

(* n5_gen_record_unresolved: why a key is on no prefix's map.                *)
RecordUnresolved ==
    /\ NobodyBuilds /\ map.published = Shard /\ ~map.accounted
    /\ map' = [map EXCEPT !.accounted = TRUE, !.reason = [k \in Key |-> Reason(k)]]
    /\ UNCHANGED <<shard, recovery, stored, verdict, builder, unanswered>>

(* INV-1: every key that was captured is on the map or has a reason.        *)
Accounted(k) == OnTheMap(k) \/ map.reason[k] # "none"

(* n5_generation_mark_ready.                                                *)
MarkReady ==
    /\ NobodyBuilds /\ AllDone /\ map.accounted /\ \A k \in Key : Accounted(k)
    /\ map' = [map EXCEPT !.ready = TRUE]
    /\ UNCHANGED <<shard, recovery, stored, verdict, builder, unanswered>>

BuildNext ==
    \/ \E z \in Shard : n5_claim_shard(z) \/ LeaseLapses(z) \/ PublishPrefix(z)
    \/ requeue_halted
    \/ Look \/ fetch_features \/ insert_batched \/ CloseAttempt \/ record_key_verdicts
    \/ MarkDone \/ halt \/ Killed
    \/ n5_gen_prepare_publish \/ RecordUnresolved \/ MarkReady

BuildSpec == BuildInit /\ [][BuildNext]_buildVars

-----------------------------------------------------------------------------
SourceStatus == {"none", "OK", "EXCLUDED", "PUBLISHER_UNREACHABLE"}
Verdict == {"none", "SOURCE_EXCLUDED", "RECOVERY_NOT_RETURNED"}
Step == {"idle", "looking", "asking", "inserting", "closing", "judging", "marking"}

ShardWork == [step : Step, shard : Shard \cup {0}, todo : SUBSET Key, missed : SUBSET Key,
              rows : SUBSET Feature, status : SourceStatus]

(* Types; what is being inserted was asked for.                            *)
BuildTypeOK ==
    /\ shard \in [Shard -> [state : {"pending", "running", "halted", "done"}, leased : BOOLEAN,
                            tries : 0..MaxClaims, status : SourceStatus]]
    /\ recovery \in [Shard -> {"none", "open", "complete"}]
    /\ stored \subseteq Feature
    /\ verdict \in [Key -> Verdict]
    /\ builder \in ShardWork
    /\ builder.rows \subseteq FeaturesOf(builder.todo \ builder.missed)
    /\ map.members \subseteq map.published \X map.recovered
    /\ map.published \subseteq Shard /\ map.recovered \subseteq Key
    /\ unanswered \subseteq Key

(* Some features of a key are stored and some are not only while an attempt *)
(* of one of its shards is open, whichever run was cut off where and in     *)
(* whatever order the shards are tried again; or the publisher, asked again, *)
(* gave no answer about it (scripts/n5_shard.py 316-326).                   *)
HolesAreMarked ==
    \A k \in Key \ unanswered :
        \/ FeaturesOf({k}) \cap stored \in {{}, FeaturesOf({k})}
        \/ \E z \in Shard : k \in KeysOf[z] /\ recovery[z] = "open"

(* Once it is accounted for, every feature that was stored and lies in a    *)
(* prefix is on its map, also of a key stated elsewhere, and every other    *)
(* key has a reason: the generation is never refused for one                *)
(* (n5-generation-publish-part-e.sql 84-90, n5_shard.py 663-675).           *)
MapIsWhole ==
    map.accounted =>
        /\ \A f \in stored : Place[f] \in Shard => <<Place[f], KeyOf[f]>> \in map.members
        /\ \A k \in Key : Accounted(k)
=============================================================================

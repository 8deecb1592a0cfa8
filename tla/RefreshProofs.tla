---------------------------- MODULE RefreshProofs ----------------------------
(***************************************************************************)
(* For any ladder of radii, any facilities, any cap and any deadline: what *)
(* the read keeps is what the page would keep of the requested circle, or  *)
(* every larger circle was refused as too large.  The bound is on the end  *)
(* of a read; what makes it inductive is what a ladder under way has       *)
(* behind it: every rung between its start and where it stands.            *)
(*                                                                         *)
(* Then, for any ZIPs, sources, batches and crashes, that answers count in  *)
(* order.  Cursors count in ids and the judgements in requests, which a     *)
(* crash sets apart: Dated says by how much, and JudgedIsBehind compares    *)
(* the two on one scale.  That nobody is overtaken needs the order of the   *)
(* turns and that of the cooldowns together (OvertakerIsBehind).            *)
(***************************************************************************)
EXTENDS FacilityRead, RollingRefresh, FiniteSetTheorems, TLAPS

(* Above the rung a ladder stands on there are only refused ones.          *)
Climbed ==
    pc \in {"ladder", "judge"} =>
        \A r \in Rung : rung < r /\ r <= start => r \in refused

ReadSound == TypeOK /\ Climbed /\ SmallCircleIsExcused

-----------------------------------------------------------------------------

(* A smaller circle that fills the page fills it as the larger one would.  *)
LEMMA FullIsFull ==
    ASSUME NEW r \in Rung, NEW kept \in Kept(r), ~(Cardinality(kept) < MaxFacilities)
    PROVE  kept \in Kept(Requested)
<1> DEFINE S == Industrial \cap Within(r)
           T == Industrial \cap Within(Requested)
<1>1. kept \in SUBSET S
  BY DEF Kept, NearestOf
<1>2. S \subseteq T
  BY ReadAssumption DEF Within
<1>3. Cardinality(kept) <= MaxFacilities
  BY DEF Kept, NearestOf
<1>4. ASSUME NEW f \in kept, NEW g \in T \ kept
      PROVE  Distance[f] <= Distance[g]
  <2>1. CASE g \in S
    BY <2>1 DEF Kept, NearestOf
  <2>2. CASE g \notin S
    <3>1. f \in Facility /\ g \in Facility /\ Distance[f] <= r
      BY <1>1, ReadAssumption DEF Within
    <3>2. ~(Distance[g] <= r)
      BY <2>2, <3>1 DEF Within
    <3> QED
      BY <3>1, <3>2, ReadAssumption
  <2> QED
    BY <2>1, <2>2
<1> QED
  BY <1>1, <1>2, <1>3, <1>4 DEF Kept, NearestOf

LEMMA KeptAreIndustrial ==
    ASSUME NEW r, NEW kept \in Kept(r)
    PROVE  kept \subseteq Industrial
BY DEF Kept, NearestOf

(* What the arithmetic of the proofs needs of the constants.               *)
LEMMA Numbers ==
    /\ \A r \in Rung : r \in Nat /\ r <= Requested
    /\ Requested \in Rung /\ Attempts \in Nat /\ 1 <= Attempts /\ Budget \in Nat
BY ReadAssumption

LEMMA ReadStartsSound == Init => ReadSound
<1> SUFFICES ASSUME Init PROVE ReadSound
  OBVIOUS
<1>1. TypeOK
  <2>1. attempt \in 1..Attempts /\ left \in 0..Budget
    <3>1. attempt = 1 /\ left = Budget
      BY DEF Init
    <3>2. 1 \in 1..Attempts /\ Budget \in 0..Budget
      BY Numbers
    <3> QED
      BY <3>1, <3>2
  <2>2. start \in Rung /\ rung \in Rung /\ refused \subseteq Rung /\ sites \subseteq Industrial
    BY Numbers DEF Init
  <2>3. epa \in [ok : BOOLEAN, used : Rung \cup {0}]
    BY DEF Init, Unavailable
  <2> QED
    BY <2>1, <2>2, <2>3 DEF Init, TypeOK, Reasons
<1> QED
  BY <1>1 DEF Init, ReadSound, Climbed, SmallCircleIsExcused

(* A step of the ladder that stays on its rung.                            *)
LEMMA StayKeeps ==
    ASSUME ReadSound, pc = "ladder", pc' \in {"ladder", "judge"}, left' \in 0..Budget,
           attempt' \in 1..Attempts, why' \in Reasons,
           UNCHANGED <<start, rung, refused, epa, sites>>
    PROVE  ReadSound'
BY DEF ReadSound, TypeOK, Climbed, SmallCircleIsExcused

(* What a question to EPA costs, whatever it answers.                      *)
LEMMA SpendKeeps ==
    ASSUME TypeOK, InTime, Spend
    PROVE  left' \in 0..Budget /\ pc = "ladder"
<1>1. PICK rest \in 0..left : left' = rest
  BY DEF Spend
<1>2. left \in 0..Budget
  BY DEF TypeOK
<1> QED
  BY <1>1, <1>2, Numbers DEF InTime

(* The step to a smaller rung leaves only a refused one behind.            *)
LEMMA ShrinkKeeps ==
    ASSUME ReadSound, TooBig
    PROVE  ReadSound'
<1>1. left' \in 0..Budget /\ pc = "ladder"
  BY SpendKeeps DEF ReadSound, TooBig
<1>2. refused' = refused \cup {rung} /\ UNCHANGED <<start, epa, sites>>
  BY DEF TooBig
<1>3. refused' \subseteq Rung /\ rung \in Rung /\ attempt \in 1..Attempts
  BY <1>2 DEF ReadSound, TypeOK
<1>4. \A r \in Rung : rung < r /\ r <= start => r \in refused
  BY <1>1 DEF ReadSound, Climbed
<1>5. CASE Smaller(rung) = {} /\ End("process_limit") /\ UNCHANGED <<rung, attempt>>
  <2>1. pc' = "judge" /\ why' \in Reasons /\ rung' = rung /\ attempt' = attempt
    BY <1>5 DEF End, Reasons
  <2>2. TypeOK'
    BY <1>1, <1>2, <1>3, <2>1 DEF ReadSound, TypeOK
  <2>3. Climbed'
    BY <1>2, <1>4, <2>1 DEF Climbed
  <2> QED
    BY <2>1, <2>2, <2>3 DEF ReadSound, SmallCircleIsExcused
<1>6. ASSUME NEW next \in Smaller(rung), \A s \in Smaller(rung) : s <= next,
             rung' = next, attempt' = 1, UNCHANGED <<pc, why>>
      PROVE  ReadSound'
  <2>1. next \in Rung /\ pc' = "ladder" /\ 1 \in 1..Attempts
    BY <1>1, <1>6, Numbers DEF Smaller
  <2>2. TypeOK'
    BY <1>1, <1>2, <1>3, <1>6, <2>1 DEF ReadSound, TypeOK
  <2>3. ASSUME NEW r \in Rung, next < r, r <= start
        PROVE  r \in refused'
    <3>1. r \in Nat /\ rung \in Nat /\ next \in Nat
      BY <1>3, <2>1, Numbers
    <3>2. ~(r < rung)
      <4> SUFFICES ASSUME r < rung PROVE FALSE
        OBVIOUS
      <4>1. r <= next
        BY <1>6 DEF Smaller
      <4> QED
        BY <2>3, <3>1, <4>1
    <3>3. r = rung \/ rung < r
      BY <3>1, <3>2
    <3> QED
      BY <1>2, <1>4, <2>3, <3>3
  <2>4. Climbed'
    BY <1>2, <1>6, <2>3 DEF Climbed
  <2> QED
    BY <2>1, <2>2, <2>4 DEF ReadSound, SmallCircleIsExcused
<1>7. Shrink("process_limit")
  BY DEF TooBig
<1> QED
  BY <1>5, <1>6, <1>7 DEF Shrink

(* A repeated call.                                                        *)
LEMMA TransientKeeps ==
    ASSUME ReadSound, Transient
    PROVE  ReadSound'
<1>1. left' \in 0..Budget /\ pc = "ladder"
  BY SpendKeeps DEF ReadSound, Transient
<1>2. attempt \in 1..Attempts /\ why \in Reasons
  BY DEF ReadSound, TypeOK
<1>3. UNCHANGED <<start, rung, refused, epa, sites>>
  BY DEF Transient, GivesUp, End
<1>4. attempt' \in 1..Attempts
  <2>1. attempt' = attempt \/ (attempt # Attempts /\ attempt' = attempt + 1)
    BY DEF Transient, GivesUp, LastTry
  <2> QED
    BY <1>2, <2>1, Numbers
<1>5. pc' \in {"ladder", "judge"} /\ why' \in Reasons
  BY <1>1, <1>2 DEF Transient, GivesUp, End, Reasons
<1> QED
  BY <1>1, <1>3, <1>4, <1>5, StayKeeps

(* The end of a read.                                                      *)
LEMMA JudgeKeeps ==
    ASSUME ReadSound, Judge
    PROVE  ReadSound'
<1>1. PICK kept \in IF why = "ok" THEN Kept(rung) ELSE {{}} :
         IF Doubts(kept)
         THEN /\ pc' = "ladder" /\ start' = Requested /\ rung' = Requested
              /\ attempt' = 1 /\ refused' = {} /\ why' = ""
              /\ UNCHANGED <<epa, sites>>
         ELSE /\ pc' = "done" /\ sites' = kept
              /\ epa' = IF why = "ok" THEN [ok |-> TRUE, used |-> rung] ELSE Unavailable
              /\ UNCHANGED <<start, rung, attempt, refused, why>>
  BY DEF Judge
<1>2. left' = left /\ pc = "judge" /\ TypeOK
  BY DEF Judge, ReadSound
<1>3. CASE Doubts(kept)
  <2>1. TypeOK'
    <3>1. pc' = "ladder" /\ start' = Requested /\ rung' = Requested /\ attempt' = 1
          /\ refused' = {} /\ why' = "" /\ UNCHANGED <<epa, sites>>
      BY <1>1, <1>3
    <3>2. 1 \in 1..Attempts /\ Requested \in Rung
      BY Numbers
    <3> QED
      BY <1>2, <3>1, <3>2 DEF TypeOK, Reasons
  <2>2. Climbed'
    <3>1. \A r \in Rung : ~(Requested < r)
      BY Numbers
    <3> QED
      BY <1>1, <1>3, <3>1 DEF Climbed
  <2> QED
    BY <1>1, <1>3, <2>1, <2>2 DEF ReadSound, SmallCircleIsExcused
<1>4. CASE ~Doubts(kept) /\ why # "ok"
  <2>1. kept = {} /\ pc' = "done" /\ sites' = kept /\ epa' = Unavailable
        /\ UNCHANGED <<start, rung, attempt, refused, why>>
    BY <1>1, <1>4
  <2>2. epa' \in [ok : BOOLEAN, used : Rung \cup {0}] /\ ~epa'.ok
    BY <2>1 DEF Unavailable
  <2>3. TypeOK'
    BY <1>2, <2>1, <2>2 DEF TypeOK
  <2> QED
    BY <2>1, <2>2, <2>3 DEF ReadSound, Climbed, SmallCircleIsExcused
<1>5. CASE ~Doubts(kept) /\ why = "ok"
  <2>1. kept \in Kept(rung) /\ kept \subseteq Industrial
    BY <1>1, <1>5, KeptAreIndustrial
  <2>2. pc' = "done" /\ sites' = kept /\ epa' = [ok |-> TRUE, used |-> rung]
        /\ UNCHANGED <<start, rung, attempt, refused, why, left>>
    BY <1>1, <1>2, <1>5
  <2>3. epa' \in [ok : BOOLEAN, used : Rung \cup {0}] /\ epa'.used = rung
    BY <1>2, <2>2 DEF TypeOK
  <2>4. TypeOK' /\ Climbed'
    BY <1>2, <2>1, <2>2, <2>3 DEF TypeOK, Climbed
  <2>5. CASE start = Requested
    <3>1. \A r \in Rung : rung < r => r \in refused'
      BY <1>2, <2>2, <2>5, Numbers DEF ReadSound, Climbed
    <3>2. rung \in Nat /\ \A r \in Rung : r > epa'.used => rung < r
      BY <1>2, <2>3, Numbers DEF TypeOK
    <3>3. SmallCircleIsExcused'
      BY <3>1, <3>2 DEF SmallCircleIsExcused
    <3> QED
      BY <2>4, <3>3 DEF ReadSound
  <2>6. CASE start # Requested
    <3>1. ~(Cardinality(kept) < MaxFacilities)
      BY <1>5, <2>6 DEF Doubts, Hinted
    <3>2. kept \in Kept(Requested)
      BY <1>2, <2>1, <3>1, FullIsFull DEF TypeOK
    <3>3. sites' \in Kept(Requested)
      BY <2>2, <3>2
    <3>4. SmallCircleIsExcused'
      BY <3>3 DEF SmallCircleIsExcused, Kept, NearestOf, Within
    <3> QED
      BY <2>4, <3>4 DEF ReadSound
  <2> QED
    BY <2>5, <2>6
<1> QED
  BY <1>3, <1>4, <1>5

LEMMA NextInductive == ReadSound /\ [Next]_readVars => ReadSound'
<1> SUFFICES ASSUME ReadSound, [Next]_readVars PROVE ReadSound'
  OBVIOUS
<1>0. TypeOK
  BY DEF ReadSound
<1>1. ASSUME NEW hint \in Rung, Start(hint) PROVE ReadSound'
  <2>1. start' = hint /\ rung' = hint /\ pc' = "ladder"
        /\ UNCHANGED <<attempt, left, refused, why, epa, sites>>
    BY <1>1 DEF Start
  <2>2. TypeOK'
    BY <1>0, <2>1 DEF TypeOK
  <2>3. \A r \in Rung : ~(hint < r /\ r <= hint)
    BY Numbers
  <2> QED
    BY <2>1, <2>2, <2>3 DEF ReadSound, Climbed, SmallCircleIsExcused
<1>2. CASE OutOfTime
  <2>1. left' \in 0..Budget /\ attempt' \in 1..Attempts
    BY <1>0, <1>2 DEF OutOfTime, TypeOK
  <2> QED
    BY <1>2, <2>1, StayKeeps DEF OutOfTime, End, Reasons
<1>3. CASE Answered
  <2>1. left' \in 0..Budget /\ pc = "ladder" /\ attempt' \in 1..Attempts
    BY <1>0, <1>3, SpendKeeps DEF Answered, TypeOK
  <2>2. pc' = "judge" /\ why' \in Reasons
    BY <1>3 DEF Answered, End, Reasons
  <2> QED
    BY <1>3, <2>1, <2>2, StayKeeps DEF Answered
<1>4. CASE Unrecognised
  <2>1. left' \in 0..Budget /\ pc = "ladder" /\ attempt' \in 1..Attempts
    BY <1>0, <1>4, SpendKeeps DEF Unrecognised, TypeOK
  <2>2. pc' = "judge" /\ why' \in Reasons
    BY <1>4 DEF Unrecognised, End, Reasons
  <2> QED
    BY <1>4, <2>1, <2>2, StayKeeps DEF Unrecognised
<1>5. CASE TooBig
  BY <1>5, ShrinkKeeps
<1>6. CASE Transient
  BY <1>6, TransientKeeps
<1>7. CASE Judge
  BY <1>7, JudgeKeeps
<1>8. CASE HardStop
  <2>1. epa' \in [ok : BOOLEAN, used : Rung \cup {0}] /\ ~epa'.ok
    BY <1>8 DEF HardStop, Unavailable
  <2>2. TypeOK'
    BY <1>0, <1>8, <2>1 DEF HardStop, TypeOK
  <2> QED
    BY <1>8, <2>1, <2>2 DEF HardStop, ReadSound, Climbed, SmallCircleIsExcused
<1>9. CASE UNCHANGED readVars
  BY <1>9 DEF readVars, ReadSound, TypeOK, Climbed, SmallCircleIsExcused
<1> QED
  BY <1>1, <1>2, <1>3, <1>4, <1>5, <1>6, <1>7, <1>8, <1>9 DEF Next, Done

-----------------------------------------------------------------------------

(* A read keeps to the rungs, its attempts and its budget, and shows none  *)
(* but industrial facilities (epa-frs.ts 196-319).                         *)
THEOREM ReadIsTyped == Spec => []TypeOK
<1>1. ReadSound => TypeOK
  BY DEF ReadSound
<1> QED
  BY <1>1, ReadStartsSound, NextInductive, PTL DEF Spec

(* Neither a failure nor the hint ever shrinks the search: an answer the   *)
(* page may store is the requested circle's, or EPA itself refused every   *)
(* larger circle (epa-frs.ts 308-319, index.ts 383-397).                   *)
THEOREM AnswersAreExcused == Spec => []SmallCircleIsExcused
<1>1. ReadSound => SmallCircleIsExcused
  BY DEF ReadSound
<1> QED
  BY <1>1, ReadStartsSound, NextInductive, PTL DEF Spec

-----------------------------------------------------------------------------
(* The rolling refresh.                                                     *)

Sent == flight \cup answers

(* Ids and requests are numbered together since the last crash.            *)
Dated ==
    /\ issued <= fires
    /\ \A r \in Sent : r.at + issued = r.id + fires

(* What was judged was asked for before anything a page may yet collect.   *)
JudgedIsBehind == \A z \in Zip : judged[z] + issued <= fires + Healed(z)

SafeIsPassed ==
    \A r \in Sent : r.safe /\ r.id <= row[r.zip].cursor => judged[r.zip] >= r.at

(* Who was asked about since another's turn is behind it, and cools longer. *)
OvertakerIsBehind ==
    \A w, z \in Zip : overtaken[w][z] # 0 =>
        /\ overtaken[w][z] = 1 /\ <<w, z>> \in turn
        /\ \A i \in DOMAIN cooling : w \in cooling[i] =>
             \E j \in DOMAIN cooling : i < j /\ z \in cooling[j]

Orderly == RefreshTypeOK /\ Dated /\ JudgedIsBehind /\ SafeIsPassed /\ OvertakerIsBehind

Pages == [records : SUBSET Source, fresh : BOOLEAN, facilities : BOOLEAN,
         facilitiesFresh : BOOLEAN, unavailable : BOOLEAN, cursor : 0..MaxFires]

LEMMA OrderlyIsInOrder == ASSUME Orderly PROVE AnswersCountInOrder
<1>1. ASSUME NEW r \in Evaluated PROVE r.at > judged[r.zip]
  <2>1. r \in Sent /\ r.id > Healed(r.zip) /\ r.zip \in Zip
    BY DEF Orderly, Evaluated, Eligible, Newer, Sent, RefreshTypeOK
  <2>2. r.id \in Nat /\ r.at \in Nat /\ judged[r.zip] \in Nat /\ issued \in Nat /\ fires \in Nat
    BY <2>1 DEF Orderly, RefreshTypeOK, Sent
  <2>3. Healed(r.zip) \in Nat
    BY <2>1, RefreshAssumption DEF Orderly, RefreshTypeOK, Healed, LastIssued
  <2>4. r.at + issued = r.id + fires /\ judged[r.zip] + issued <= fires + Healed(r.zip)
    BY <2>1 DEF Orderly, Dated, JudgedIsBehind
  <2> QED
    BY <2>1, <2>2, <2>3, <2>4
<1>2. PassedOverForNewer
  BY DEF Orderly, SafeIsPassed, PassedOverForNewer, Sent
<1>3. NobodyIsOvertaken
  <2> SUFFICES ASSUME NEW w \in Zip, NEW z \in Zip PROVE overtaken[w][z] <= 1
    BY DEF NobodyIsOvertaken
  <2>1. PICK n \in 0..MaxFires : n = overtaken[w][z]
    BY DEF Orderly, RefreshTypeOK
  <2>2. n # 0 => n = 1
    BY <2>1 DEF Orderly, OvertakerIsBehind
  <2> QED
    BY <2>1, <2>2
<1> QED
  BY <1>1, <1>2, <1>3 DEF AnswersCountInOrder, EvaluatedInOrder

LEMMA InitOrderly == RefreshInit => Orderly
<1> SUFFICES ASSUME RefreshInit PROVE Orderly
  OBVIOUS
<1>1. RefreshTypeOK
  <2>1. turn \subseteq Zip \X Zip
    BY DEF RefreshInit, Turns
  <2>2. cooling \in Seq(SUBSET Zip) /\ issued = 0 /\ fires = 0 /\ 0 \in 0..MaxFires
    BY RefreshAssumption DEF RefreshInit
  <2>3. row \in [Zip -> Pages]
    BY <2>2 DEF RefreshInit, Pages
  <2>4. said \in [Zip -> [facilities : {"some", "none", "unknown"}, without : SUBSET Source]]
    BY DEF RefreshInit
  <2>5. judged \in [Zip -> 0..MaxFires] /\ overtaken \in [Zip -> [Zip -> 0..MaxFires]]
    BY <2>2 DEF RefreshInit
  <2> QED
    BY <2>1, <2>2, <2>3, <2>4, <2>5 DEF RefreshInit, RefreshTypeOK, Pages
<1>2. Dated /\ SafeIsPassed /\ OvertakerIsBehind
  BY DEF RefreshInit, Dated, SafeIsPassed, OvertakerIsBehind, Sent
<1>3. JudgedIsBehind
  BY DEF RefreshInit, JudgedIsBehind, Healed, LastIssued
<1> QED
  BY <1>1, <1>2, <1>3 DEF Orderly
-----------------------------------------------------------------------------
(* What a tick makes of a row is a row.                                     *)
LEMMA CollectedIsARow ==
    ASSUME NEW d \in Pages, NEW r, r.zip \in Zip, row[r.zip] = d, r.id \in 0..MaxFires,
           NEW word, word[r.zip] \in Report, NEW probe \in BOOLEAN
    PROVE  /\ Collected(r, word, probe) \in Pages
           /\ Collected(r, word, probe).cursor = r.id
<1>1. Carried(d, word[r.zip]) \in SUBSET Source
  BY DEF Carried
<1>2. dev_epa_write_refused(d, word[r.zip], probe) \in BOOLEAN /\ FacilitiesUnavailable(d, word[r.zip], probe) \in BOOLEAN
  BY DEF dev_epa_write_refused, FacilitiesUnavailable, Trusted, Pages
<1>3. Written(d, r, word[r.zip], probe) \in Pages /\ Written(d, r, word[r.zip], probe).cursor = r.id
  BY <1>1, <1>2 DEF Written, Pages
<1>4. [d EXCEPT !.cursor = r.id] \in Pages /\ [d EXCEPT !.cursor = r.id].cursor = r.id
  BY DEF Pages
<1> QED
  BY <1>3, <1>4 DEF Collected

(* The one answer evaluated for a page.                                     *)
LEMMA TheOneOf ==
    ASSUME RefreshTypeOK, NEW z \in Zip, Of(z) # {}
    PROVE  /\ TheOf(z) \in Evaluated /\ TheOf(z) \in answers /\ TheOf(z) \in Sent /\ TheOf(z).zip = z
           /\ TheOf(z).id \in 1..issued /\ TheOf(z).at \in 1..fires
<1>1. TheOf(z) \in Evaluated /\ TheOf(z).zip = z
  BY DEF Of, TheOf
<1> QED
  BY <1>1 DEF Evaluated, Eligible, RefreshTypeOK, Sent

LEMMA HealedIsLow ==
    ASSUME RefreshTypeOK, NEW z \in Zip
    PROVE  Healed(z) \in 0..MaxFires /\ Healed(z) <= issued /\ Healed(z) <= row[z].cursor
BY RefreshAssumption DEF RefreshTypeOK, Healed, LastIssued

LEMMA AcceptedAreEvaluated ==
    ASSUME RefreshTypeOK, NEW word PROVE Accepted(word) \subseteq Zip
<1>1. \A r \in Evaluated : r.zip \in Zip
  BY DEF Evaluated, Eligible, RefreshTypeOK
<1> QED
  BY <1>1 DEF Accepted

LEMMA CollectIsTyped ==
    ASSUME RefreshTypeOK, NEW probe \in BOOLEAN, NEW word \in [{r.zip : r \in Evaluated} -> Word],
           dev_refresh_collect(word, probe)
    PROVE  /\ row' \in [Zip -> Pages] /\ judged' \in [Zip -> 0..MaxFires]
           /\ said' \in [Zip -> [facilities : {"some", "none", "unknown"}, without : SUBSET Source]]
           /\ \A z \in Zip : row'[z].cursor = IF Of(z) = {} THEN Healed(z) ELSE TheOf(z).id
<1>1. ASSUME NEW z \in Zip
      PROVE  /\ row'[z] \in Pages /\ judged'[z] \in 0..MaxFires
             /\ row'[z].cursor = IF Of(z) = {} THEN Healed(z) ELSE TheOf(z).id
  <2>1. CASE Of(z) = {}
    <3>1. row'[z] = [row[z] EXCEPT !.cursor = Healed(z)] /\ judged'[z] = judged[z]
      BY <2>1 DEF dev_refresh_collect
    <3>2. row[z] \in Pages /\ judged[z] \in 0..MaxFires
      BY DEF RefreshTypeOK, Pages
    <3> QED
      BY <2>1, <3>1, <3>2, HealedIsLow DEF Pages
  <2>2. CASE Of(z) # {}
    <3>1. row'[z] = Collected(TheOf(z), word, probe) /\ judged'[z] = TheOf(z).at
      BY <2>2 DEF dev_refresh_collect
    <3>2. /\ TheOf(z) \in Evaluated /\ TheOf(z).zip = z
          /\ TheOf(z).id \in 1..issued /\ TheOf(z).at \in 1..fires
      BY <2>2, TheOneOf
    <3>3. issued \in 0..MaxFires /\ fires \in 0..MaxFires /\ MaxFires \in Nat
      BY RefreshAssumption DEF RefreshTypeOK
    <3>4. TheOf(z).id \in 0..MaxFires /\ TheOf(z).at \in 0..MaxFires
      BY <3>2, <3>3
    <3>5. word[TheOf(z).zip] \in Report
      BY <3>2, RefreshAssumption
    <3>6. row[z] \in Pages
      BY DEF RefreshTypeOK, Pages
    <3> QED
      BY <2>2, <3>1, <3>2, <3>4, <3>5, <3>6, CollectedIsARow
  <2> QED
    BY <2>1, <2>2
<1>2. ASSUME NEW z \in Zip PROVE said'[z] \in [facilities : {"some", "none", "unknown"}, without : SUBSET Source]
  <2>1. Heard(word[z], probe) \in [facilities : {"some", "none", "unknown"}, without : SUBSET Source]
    BY DEF Heard
  <2>2. said[z] \in [facilities : {"some", "none", "unknown"}, without : SUBSET Source]
    BY DEF RefreshTypeOK
  <2> QED
    BY <2>1, <2>2 DEF dev_refresh_collect
<1> QED
  BY <1>1, <1>2 DEF dev_refresh_collect

(* The requests a tick or a repair sends bear the next numbers.             *)
LEMMA RequestsAreNext ==
    ASSUME RefreshTypeOK, NEW now \in SUBSET Zip, NEW n \in Nat, NEW nth \in [now -> 1..n],
           NEW safe \in BOOLEAN, issued' = issued + n, fires' = fires + n, NEW r \in Requests(nth, safe)
    PROVE  /\ r.id \in (issued + 1)..issued' /\ r.at \in 1..fires' /\ r.zip \in Zip
           /\ r.safe = safe /\ (issued <= fires => r.at + issued' = r.id + fires')
<1>1. PICK z \in now : r = [id |-> issued + nth[z], at |-> fires + nth[z], zip |-> z, safe |-> safe]
  BY DEF Requests
<1>2. PICK k \in 1..n : k = nth[z]
  OBVIOUS
<1>3. issued \in Nat /\ fires \in Nat
  BY RefreshAssumption DEF RefreshTypeOK
<1>4. r.id = issued + k /\ r.at = fires + k /\ r.zip = z /\ r.safe = safe
  BY <1>1, <1>2
<1> QED
  BY <1>3, <1>4

(* Each answer counts in its order: one is collected, or the cursor healed. *)
LEMMA TickKeepsOrder ==
    ASSUME Orderly, NEW probe \in BOOLEAN, NEW word \in [{r.zip : r \in Evaluated} -> Word],
           NEW now \in SUBSET Zip, Cardinality(now) \in Nat, NEW nth \in [now -> 1..Cardinality(now)],
           dev_refresh_collect(word, probe), dev_refresh_fire_batch(Accepted(word), now, nth)
    PROVE  Dated' /\ JudgedIsBehind' /\ SafeIsPassed'
<1> DEFINE n == Cardinality(now)
<1>1. RefreshTypeOK /\ Dated /\ JudgedIsBehind /\ SafeIsPassed
  BY DEF Orderly
<1>2. /\ issued \in Nat /\ fires \in Nat /\ issued' = issued + n /\ fires' = fires + n /\ n \in Nat
      /\ issued <= fires
  BY <1>1, RefreshAssumption DEF RefreshTypeOK, dev_refresh_fire_batch, Dated
<1>3. /\ answers' = answers /\ flight' = flight \cup Requests(nth, TRUE)
      /\ row' \in [Zip -> Pages] /\ judged' \in [Zip -> 0..MaxFires]
      /\ \A z \in Zip : row'[z].cursor = IF Of(z) = {} THEN Healed(z) ELSE TheOf(z).id
  BY <1>1, CollectIsTyped DEF dev_refresh_collect, dev_refresh_fire_batch
<1>4. \A r \in Requests(nth, TRUE) :
        /\ r.id \in (issued + 1)..issued' /\ r.at \in 1..fires' /\ r.zip \in Zip
        /\ r.at + issued' = r.id + fires'
  BY <1>1, <1>2, RequestsAreNext
<1>5. \A r \in Sent : /\ r.id \in 1..issued /\ r.at \in 1..fires /\ r.zip \in Zip
                      /\ r.at + issued = r.id + fires
  BY <1>1 DEF RefreshTypeOK, Sent, Dated
<1>6. ASSUME NEW z \in Zip
      PROVE  /\ row'[z].cursor \in Nat /\ row'[z].cursor <= issued
             /\ judged'[z] \in Nat /\ judged'[z] + issued <= fires + row'[z].cursor
  <2>1. CASE Of(z) = {}
    <3>1. row'[z].cursor = Healed(z) /\ judged'[z] = judged[z] /\ judged[z] \in Nat
      BY <1>1, <1>3, <2>1, RefreshAssumption DEF RefreshTypeOK, dev_refresh_collect
    <3>2. Healed(z) \in Nat /\ Healed(z) <= issued
      BY <1>1, HealedIsLow, RefreshAssumption
    <3> QED
      BY <1>1, <3>1, <3>2 DEF JudgedIsBehind
  <2>2. CASE Of(z) # {}
    <3>1. row'[z].cursor = TheOf(z).id /\ judged'[z] = TheOf(z).at
      BY <1>3, <2>2 DEF dev_refresh_collect
    <3>2. TheOf(z) \in Sent
      BY <1>1, <2>2, TheOneOf
    <3>3. PICK i \in 1..issued : i = TheOf(z).id
      BY <1>5, <3>2
    <3>4. PICK a \in 1..fires : a = TheOf(z).at
      BY <1>5, <3>2
    <3>5. a + issued = i + fires
      BY <1>5, <3>2, <3>3, <3>4
    <3> QED
      BY <1>2, <3>1, <3>3, <3>4, <3>5
  <2> QED
    BY <2>1, <2>2
<1>7. Dated'
  <2>1. ASSUME NEW r \in Sent' PROVE r.at + issued' = r.id + fires'
    <3>1. CASE r \in Requests(nth, TRUE)
      BY <1>4, <3>1
    <3>2. CASE r \in Sent
      <4>1. r.id \in Nat /\ r.at \in Nat /\ r.at + issued = r.id + fires
        BY <1>2, <1>5, <3>2
      <4> QED
        BY <1>2, <4>1
    <3> QED
      BY <1>3, <3>1, <3>2 DEF Sent
  <2> QED
    BY <1>2, <2>1 DEF Dated
<1>8. JudgedIsBehind'
  <2> SUFFICES ASSUME NEW z \in Zip PROVE judged'[z] + issued' <= fires' + Healed(z)'
    BY DEF JudgedIsBehind
  <2>1. Healed(z)' = row'[z].cursor
    BY <1>2, <1>6 DEF Healed, LastIssued
  <2>2. PICK c \in Nat : c = row'[z].cursor
    BY <1>6
  <2>3. PICK j \in Nat : j = judged'[z]
    BY <1>6
  <2>4. j + issued <= fires + c
    BY <1>6, <2>2, <2>3
  <2> QED
    BY <1>2, <2>1, <2>2, <2>3, <2>4
<1>9. SafeIsPassed'
  <2> SUFFICES ASSUME NEW r \in Sent', r.id <= row'[r.zip].cursor PROVE judged'[r.zip] >= r.at \/ ~r.safe
    BY DEF SafeIsPassed
  <2>1. CASE r \in Requests(nth, TRUE)
    <3>1. PICK i \in (issued + 1)..issued' : i = r.id
      BY <1>4, <2>1
    <3>2. PICK c \in Nat : c = row'[r.zip].cursor /\ c <= issued
      BY <1>4, <1>6, <2>1
    <3> QED
      BY <1>2, <3>1, <3>2
  <2>2. CASE r \in Sent
    <3> DEFINE z == r.zip
    <3>1. z \in Zip
      BY <1>5, <2>2
    <3>2. PICK i \in Nat, a \in Nat : i = r.id /\ a = r.at /\ a + issued = i + fires
      BY <1>2, <1>5, <2>2
    <3>3. CASE Of(z) = {}
      <4>1. row'[z].cursor = Healed(z) /\ judged'[z] = judged[z] /\ Healed(z) <= row[z].cursor
        BY <1>1, <1>3, <3>1, <3>3, HealedIsLow DEF dev_refresh_collect
      <4>2. Healed(z) \in Nat /\ row[z].cursor \in Nat
        BY <1>1, <3>1, HealedIsLow, RefreshAssumption DEF RefreshTypeOK
      <4>3. r.id <= row[z].cursor
        BY <3>2, <4>1, <4>2
      <4> QED
        BY <1>1, <2>2, <4>1, <4>3 DEF SafeIsPassed
    <3>4. CASE Of(z) # {}
      <4>1. row'[z].cursor = TheOf(z).id /\ judged'[z] = TheOf(z).at
        BY <1>3, <3>1, <3>4 DEF dev_refresh_collect
      <4>2. TheOf(z) \in Sent
        BY <1>1, <3>1, <3>4, TheOneOf
      <4>3. PICK k \in Nat, b \in Nat : k = TheOf(z).id /\ b = TheOf(z).at /\ b + issued = k + fires
        BY <1>2, <1>5, <4>2
      <4>4. a <= b
        BY <1>2, <3>2, <4>1, <4>3
      <4> QED
        BY <3>2, <4>1, <4>3, <4>4
    <3> QED
      BY <3>3, <3>4
  <2> QED
    BY <1>3, <2>1, <2>2 DEF Sent
<1> QED
  BY <1>7, <1>8, <1>9

(* Nobody is overtaken twice: who was overtaken once is in front and rested. *)
LEMMA TickOvertakesOnce ==
    ASSUME Orderly, NEW written \in SUBSET Zip, NEW now \in Batches(ToTheBack(turn, written)),
           NEW nth, dev_refresh_fire_batch(written, now, nth)
    PROVE  OvertakerIsBehind'
<1> DEFINE order == ToTheBack(turn, written)
<1>1. /\ OvertakerIsBehind /\ cooling \in Seq(SUBSET Zip)
      /\ overtaken \in [Zip -> [Zip -> 0..MaxFires]]
  BY DEF Orderly, RefreshTypeOK
<1>2. /\ now \subseteq Rested
      /\ \A w \in Rested \ now, z \in now : <<w, z>> \notin order
  BY DEF Batches
<1>3. /\ cooling' = IF now = {} THEN cooling ELSE Append(cooling, now)
      /\ turn' = ToTheBack(turn, written \cup now)
  BY DEF dev_refresh_fire_batch, AfterTick
<1>4. /\ \A i \in DOMAIN cooling : i \in DOMAIN cooling' /\ cooling'[i] = cooling[i]
      /\ \A i \in DOMAIN cooling' : \A w \in cooling'[i] : w \notin now => i \in DOMAIN cooling
      /\ now # {} => \E j \in DOMAIN cooling' : cooling'[j] = now /\ \A i \in DOMAIN cooling : i < j
  <2>1. CASE now = {}
    BY <1>3, <2>1
  <2>2. CASE now # {}
    <3>1. cooling' = Append(cooling, now) /\ Len(cooling) \in Nat
      BY <1>1, <1>3, <2>2
    <3>2. /\ DOMAIN cooling = 1..Len(cooling) /\ DOMAIN cooling' = 1..(Len(cooling) + 1)
          /\ cooling'[Len(cooling) + 1] = now
          /\ \A i \in 1..Len(cooling) : cooling'[i] = cooling[i]
      BY <1>1, <3>1
    <3> QED
      BY <3>1, <3>2
  <2> QED
    BY <2>1, <2>2
<1> SUFFICES ASSUME NEW w \in Zip, NEW z \in Zip, overtaken'[w][z] # 0
             PROVE  /\ overtaken'[w][z] = 1 /\ <<w, z>> \in turn'
                    /\ \A i \in DOMAIN cooling' : w \in cooling'[i] =>
                         \E j \in DOMAIN cooling' : i < j /\ z \in cooling'[j]
  BY DEF OvertakerIsBehind
<1>5. PICK o \in 0..MaxFires : o = overtaken[w][z]
  BY <1>1
<1>6. o # 0 => /\ o = 1 /\ <<w, z>> \in turn
               /\ \A i \in DOMAIN cooling : w \in cooling[i] =>
                    \E j \in DOMAIN cooling : i < j /\ z \in cooling[j]
  BY <1>1, <1>5 DEF OvertakerIsBehind
<1>7. w \notin now \cup written /\ overtaken'[w][z] = o + (IF z \in now THEN 1 ELSE 0)
  BY <1>5 DEF dev_refresh_fire_batch
<1>8. <<w, z>> \in turn /\ w \notin written => <<w, z>> \in order
  BY DEF ToTheBack
<1>9. CASE z \in now
  <2>1. o = 0
    <3> SUFFICES ASSUME o # 0 PROVE FALSE
      OBVIOUS
    <3>1. z \in Rested
      BY <1>2, <1>9
    <3>2. w \in Rested
      BY <1>6, <3>1 DEF Rested, Cooling
    <3> QED
      BY <1>2, <1>6, <1>7, <1>8, <1>9, <3>2
  <2>2. overtaken'[w][z] = 1
    BY <1>7, <1>9, <2>1
  <2>3. <<w, z>> \in turn'
    BY <1>3, <1>7, <1>9 DEF ToTheBack
  <2>4. ASSUME NEW i \in DOMAIN cooling', w \in cooling'[i]
        PROVE  \E j \in DOMAIN cooling' : i < j /\ z \in cooling'[j]
    BY <1>4, <1>7, <1>9, <2>4
  <2> QED
    BY <2>2, <2>3, <2>4
<1>10. CASE z \notin now
  <2>1. overtaken'[w][z] = 1 /\ o # 0
    BY <1>6, <1>7, <1>10
  <2>2. <<w, z>> \in turn'
    BY <1>3, <1>6, <1>7, <1>8, <2>1 DEF ToTheBack
  <2>3. ASSUME NEW i \in DOMAIN cooling', w \in cooling'[i]
        PROVE  \E j \in DOMAIN cooling' : i < j /\ z \in cooling'[j]
    <3>1. i \in DOMAIN cooling /\ cooling'[i] = cooling[i]
      BY <1>4, <1>7, <2>3
    <3>2. PICK j \in DOMAIN cooling : i < j /\ z \in cooling[j]
      BY <1>6, <2>1, <2>3, <3>1
    <3> QED
      BY <1>4, <3>2
  <2> QED
    BY <2>1, <2>2, <2>3
<1> QED
  BY <1>9, <1>10

LEMMA TickKeeps == ASSUME Orderly, dev_refresh_tick PROVE Orderly'
<1>1. PICK probe \in BOOLEAN, word \in [{r.zip : r \in Evaluated} -> Word] :
        \E now \in Batches(ToTheBack(turn, Accepted(word))) : \E nth \in Bijection(now, 1..Cardinality(now)) :
          dev_refresh_collect(word, probe) /\ dev_refresh_fire_batch(Accepted(word), now, nth)
  BY DEF dev_refresh_tick
<1>2. PICK now \in Batches(ToTheBack(turn, Accepted(word))) : \E nth \in Bijection(now, 1..Cardinality(now)) :
        dev_refresh_collect(word, probe) /\ dev_refresh_fire_batch(Accepted(word), now, nth)
  BY <1>1
<1>3. PICK nth \in Bijection(now, 1..Cardinality(now)) :
        dev_refresh_collect(word, probe) /\ dev_refresh_fire_batch(Accepted(word), now, nth)
  BY <1>2
<1>4. RefreshTypeOK /\ Accepted(word) \in SUBSET Zip
  BY AcceptedAreEvaluated DEF Orderly
<1>5. now \in SUBSET Zip /\ Cardinality(now) \in Nat /\ nth \in [now -> 1..Cardinality(now)]
  <2>1. now \in SUBSET Zip
    BY DEF Batches, Rested
  <2>2. Cardinality(now) \in Nat
    BY <2>1, RefreshAssumption, FS_Subset, FS_CardinalityType
  <2>3. nth \in [now -> 1..Cardinality(now)]
    BY DEF Bijection, Injection
  <2> QED
    BY <2>1, <2>2, <2>3
<1>6. Dated' /\ JudgedIsBehind' /\ SafeIsPassed'
  BY <1>3, <1>5, TickKeepsOrder
<1>7. OvertakerIsBehind'
  BY <1>3, <1>4, TickOvertakesOnce
<1>8. RefreshTypeOK'
  <2>1. /\ row' \in [Zip -> Pages] /\ judged' \in [Zip -> 0..MaxFires] /\ healed' = TRUE
        /\ said' \in [Zip -> [facilities : {"some", "none", "unknown"}, without : SUBSET Source]]
    BY <1>3, <1>4, CollectIsTyped DEF dev_refresh_collect
  <2>2. turn' \subseteq Zip \X Zip
    BY <1>3 DEF dev_refresh_fire_batch, AfterTick, ToTheBack
  <2>3. cooling' \in Seq(SUBSET Zip)
    BY <1>3, <1>4, <1>5 DEF dev_refresh_fire_batch, RefreshTypeOK
  <2>4. /\ issued \in Nat /\ fires \in Nat /\ issued <= fires /\ MaxFires \in Nat
        /\ issued' = issued + Cardinality(now) /\ fires' = fires + Cardinality(now) /\ fires' <= MaxFires
    BY <1>3, <1>4, RefreshAssumption DEF dev_refresh_fire_batch, RefreshTypeOK, Orderly, Dated
  <2>5. issued' \in 0..MaxFires /\ fires' \in 0..MaxFires
    BY <1>5, <2>4
  <2>6. ASSUME NEW r \in flight' \cup answers' PROVE r.id \in 1..issued' /\ r.at \in 1..fires' /\ r.zip \in Zip
    <3>1. CASE r \in Requests(nth, TRUE)
      <4>1. r.id \in (issued + 1)..issued' /\ r.at \in 1..fires' /\ r.zip \in Zip
        BY <1>4, <1>5, <2>4, <3>1, RequestsAreNext
      <4> QED
        BY <2>4, <4>1
    <3>2. CASE r \in flight \cup answers
      <4>1. r.id \in 1..issued /\ r.at \in 1..fires /\ r.zip \in Zip
        BY <1>4, <3>2 DEF RefreshTypeOK
      <4> QED
        BY <1>5, <2>4, <4>1
    <3> QED
      BY <1>3, <3>1, <3>2 DEF dev_refresh_collect, dev_refresh_fire_batch
  <2>7. overtaken' \in [Zip -> [Zip -> 0..MaxFires]]
    <3>1. ASSUME NEW w \in Zip, NEW z \in Zip PROVE overtaken'[w][z] \in 0..MaxFires
      <4>1. overtaken'[w][z] # 0 => overtaken'[w][z] = 1 /\ MaxFires > 0
        <5>1. overtaken'[w][z] # 0 => overtaken'[w][z] = 1
          BY <1>7 DEF OvertakerIsBehind
        <5>2. overtaken[w][z] # 0 => MaxFires > 0
          BY <1>4, RefreshAssumption DEF RefreshTypeOK
        <5>3. now # {} => MaxFires > 0
          <6> SUFFICES ASSUME now # {} PROVE MaxFires > 0
            OBVIOUS
          <6>1. Cardinality(now) # 0
            BY <1>5, RefreshAssumption, FS_Subset, FS_EmptySet
          <6> QED
            BY <1>5, <2>4, <6>1
        <5>4. overtaken'[w][z] # 0 => overtaken[w][z] # 0 \/ z \in now
          BY <1>3 DEF dev_refresh_fire_batch
        <5> QED
          BY <5>1, <5>2, <5>3, <5>4
      <4> QED
        BY <4>1, RefreshAssumption
    <3> QED
      BY <1>3, <3>1 DEF dev_refresh_fire_batch
  <2>8. \A z \in Zip : row'[z].cursor <= issued'
    <3> SUFFICES ASSUME NEW z \in Zip PROVE row'[z].cursor <= issued'
      OBVIOUS
    <3>1. row'[z].cursor = IF Of(z) = {} THEN Healed(z) ELSE TheOf(z).id
      BY <1>3, <1>4, CollectIsTyped
    <3>2. Of(z) = {} => Healed(z) \in Nat /\ Healed(z) <= issued
      BY <1>4, HealedIsLow, RefreshAssumption
    <3>3. Of(z) # {} => TheOf(z).id \in 1..issued
      BY <1>4, TheOneOf
    <3> QED
      BY <1>5, <2>4, <3>1, <3>2, <3>3
  <2> QED
    BY <2>1, <2>2, <2>3, <2>5, <2>6, <2>7, <2>8 DEF RefreshTypeOK, Pages
<1> QED
  BY <1>6, <1>7, <1>8 DEF Orderly

LEMMA AskElsewhereKeeps == ASSUME Orderly, NEW z \in Zip, AskElsewhere(z) PROVE Orderly'
<1> DEFINE nth == [y \in {z} |-> 1]
<1>1. RefreshTypeOK /\ Dated /\ JudgedIsBehind /\ SafeIsPassed /\ OvertakerIsBehind
  BY DEF Orderly
<1>2. /\ issued \in Nat /\ fires \in Nat /\ issued <= fires /\ MaxFires \in Nat /\ fires < MaxFires
      /\ issued' = issued + 1 /\ fires' = fires + 1
  BY <1>1, RefreshAssumption DEF AskElsewhere, RefreshTypeOK, Dated
<1>3. flight' = flight \cup Requests(nth, healed) /\ healed \in BOOLEAN
  BY <1>1 DEF AskElsewhere, RefreshTypeOK
<1>4. UNCHANGED <<row, turn, cooling, answers, restarts, healed, judged, said, overtaken>>
  BY DEF AskElsewhere
<1>5. \A r \in Requests(nth, healed) :
        /\ r.id \in (issued + 1)..issued' /\ r.at \in 1..fires' /\ r.zip \in Zip
        /\ r.safe = healed /\ r.at + issued' = r.id + fires'
  <2>1. nth \in [{z} -> 1..1] /\ {z} \in SUBSET Zip
    OBVIOUS
  <2> QED
    BY <1>1, <1>2, <1>3, <2>1, RequestsAreNext
<1>6. \A r \in Sent : /\ r.id \in 1..issued /\ r.at \in 1..fires /\ r.zip \in Zip
                      /\ r.at + issued = r.id + fires
  BY <1>1 DEF RefreshTypeOK, Sent, Dated
<1>7. \A r \in Sent' : r \in Sent \/ r \in Requests(nth, healed)
  BY <1>3, <1>4 DEF Sent
<1>8. ASSUME NEW r \in Sent'
      PROVE  /\ r.id \in 1..issued' /\ r.at \in 1..fires' /\ r.zip \in Zip
             /\ r.at + issued' = r.id + fires'
  <2>1. CASE r \in Requests(nth, healed)
    <3>1. r.id \in (issued + 1)..issued'
      BY <1>5, <2>1
    <3> QED
      BY <1>2, <1>5, <2>1, <3>1
  <2>2. CASE r \in Sent
    <3>1. PICK i \in 1..issued, a \in 1..fires : i = r.id /\ a = r.at /\ a + issued = i + fires
      BY <1>6, <2>2
    <3> QED
      BY <1>2, <1>6, <2>2, <3>1
  <2> QED
    BY <1>7, <2>1, <2>2
<1>9. Dated' /\ OvertakerIsBehind'
  BY <1>1, <1>2, <1>4, <1>8 DEF Dated, OvertakerIsBehind
<1>10. JudgedIsBehind'
  <2> SUFFICES ASSUME NEW y \in Zip PROVE judged[y] + issued' <= fires' + Healed(y)'
    BY <1>4 DEF JudgedIsBehind
  <2>1. PICK c \in Nat : c = row[y].cursor
    BY <1>1, RefreshAssumption DEF RefreshTypeOK
  <2>2. PICK j \in Nat : j = judged[y]
    BY <1>1, RefreshAssumption DEF RefreshTypeOK
  <2>3. Healed(y) = (IF c > issued THEN issued ELSE c) /\ Healed(y)' = IF c > issued' THEN issued' ELSE c
    BY <1>4, <2>1 DEF Healed, LastIssued
  <2>4. j + issued <= fires + Healed(y)
    BY <1>1, <2>2 DEF JudgedIsBehind
  <2> QED
    BY <1>2, <2>1, <2>2, <2>3, <2>4
<1>11. SafeIsPassed'
  <2> SUFFICES ASSUME NEW r \in Sent', r.safe, r.id <= row[r.zip].cursor PROVE judged[r.zip] >= r.at
    BY <1>4 DEF SafeIsPassed
  <2>1. CASE r \in Sent
    BY <1>1, <2>1 DEF SafeIsPassed
  <2>2. CASE r \in Requests(nth, healed)
    <3>1. PICK c \in Nat : c = row[r.zip].cursor /\ c <= issued
      BY <1>1, <1>5, <2>2, RefreshAssumption DEF RefreshTypeOK
    <3>2. PICK i \in (issued + 1)..issued' : i = r.id
      BY <1>5, <2>2
    <3> QED
      BY <1>2, <3>1, <3>2
  <2> QED
    BY <1>7, <2>1, <2>2
<1>12. RefreshTypeOK'
  <2>1. issued' \in 0..MaxFires /\ fires' \in 0..MaxFires
    BY <1>2
  <2>2. \A y \in Zip : healed => row[y].cursor <= issued'
    <3> SUFFICES ASSUME NEW y \in Zip, healed PROVE row[y].cursor <= issued'
      OBVIOUS
    <3>1. PICK c \in Nat : c = row[y].cursor /\ c <= issued
      BY <1>1, RefreshAssumption DEF RefreshTypeOK
    <3> QED
      BY <1>2, <3>1
  <2> QED
    BY <1>1, <1>4, <1>8, <2>1, <2>2 DEF RefreshTypeOK, Sent
<1> QED
  BY <1>9, <1>10, <1>11, <1>12 DEF Orderly

LEMMA CoolsDownKeeps == ASSUME Orderly, CoolsDown PROVE Orderly'
<1>1. /\ cooling \in Seq(SUBSET Zip) /\ cooling # <<>> /\ cooling' = Tail(cooling)
      /\ UNCHANGED <<row, turn, issued, flight, answers, fires, restarts, healed, judged, said, overtaken>>
  BY DEF CoolsDown, Orderly, RefreshTypeOK
<1>2. /\ cooling' \in Seq(SUBSET Zip) /\ Len(cooling) \in Nat \ {0}
      /\ DOMAIN cooling = 1..Len(cooling) /\ DOMAIN cooling' = 1..(Len(cooling) - 1)
      /\ \A i \in 1..(Len(cooling) - 1) : cooling'[i] = cooling[i + 1]
  BY <1>1
<1>3. OvertakerIsBehind'
  <2> SUFFICES ASSUME NEW w \in Zip, NEW z \in Zip, overtaken[w][z] # 0,
                      NEW i \in DOMAIN cooling', w \in cooling'[i]
               PROVE  \E j \in DOMAIN cooling' : i < j /\ z \in cooling'[j]
    BY <1>1 DEF Orderly, OvertakerIsBehind
  <2>1. i \in Nat /\ i + 1 \in DOMAIN cooling /\ w \in cooling[i + 1]
    BY <1>2
  <2>2. PICK j \in DOMAIN cooling : i + 1 < j /\ z \in cooling[j]
    BY <2>1 DEF Orderly, OvertakerIsBehind
  <2>3. j - 1 \in DOMAIN cooling' /\ i < j - 1 /\ cooling'[j - 1] = cooling[j]
    BY <1>2, <2>1, <2>2
  <2> QED
    BY <2>2, <2>3
<1>4. RefreshTypeOK'
  BY <1>1, <1>2 DEF Orderly, RefreshTypeOK
<1> QED
  BY <1>1, <1>3, <1>4 DEF Orderly, Dated, JudgedIsBehind, SafeIsPassed, Sent, Healed, LastIssued

(* A crash forgets the requests and their ids, not what was judged.         *)
LEMMA RestartKeeps == ASSUME Orderly, Restart PROVE Orderly'
<1>1. /\ issued' = 0 /\ flight' = {} /\ answers' = {} /\ healed' = FALSE
      /\ UNCHANGED <<row, turn, cooling, fires, judged, said, overtaken>>
  BY DEF Restart
<1>2. RefreshTypeOK'
  <2>1. issued' \in 0..MaxFires /\ flight' \cup answers' = {}
    BY <1>1, RefreshAssumption
  <2>2. healed' \in BOOLEAN /\ \A z \in Zip : healed' => row'[z].cursor <= issued'
    BY <1>1
  <2> QED
    BY <1>1, <2>1, <2>2 DEF Orderly, RefreshTypeOK
<1>3. JudgedIsBehind'
  <2> SUFFICES ASSUME NEW z \in Zip PROVE judged[z] + 0 <= fires + Healed(z)'
    BY <1>1 DEF JudgedIsBehind
  <2>1. PICK c \in Nat, j \in Nat : c = row[z].cursor /\ j = judged[z]
    BY RefreshAssumption DEF Orderly, RefreshTypeOK
  <2>2. issued \in Nat /\ fires \in Nat
    BY RefreshAssumption DEF Orderly, RefreshTypeOK
  <2>3. j + issued <= fires + Healed(z) /\ Healed(z) \in Nat /\ Healed(z) <= issued
    BY <2>1, HealedIsLow, RefreshAssumption DEF Orderly, JudgedIsBehind
  <2>4. Healed(z)' = 0
    BY <1>1, <2>1 DEF Healed, LastIssued
  <2> QED
    BY <2>1, <2>2, <2>3, <2>4
<1>4. Dated' /\ SafeIsPassed' /\ OvertakerIsBehind'
  BY <1>1, RefreshAssumption DEF Orderly, Dated, SafeIsPassed, OvertakerIsBehind, Sent, RefreshTypeOK
<1> QED
  BY <1>2, <1>3, <1>4 DEF Orderly

LEMMA AgesKeeps == ASSUME Orderly, NEW z \in Zip, Ages(z) PROVE Orderly'
<1>1. UNCHANGED <<turn, cooling, issued, flight, answers, fires, restarts, healed, judged, said, overtaken>>
  BY DEF Ages
<1>2. row \in [Zip -> Pages]
  BY DEF Orderly, RefreshTypeOK, Pages
<1>3. row' \in [Zip -> Pages] /\ \A y \in Zip : row'[y].cursor = row[y].cursor
  <2>1. CASE row' = [row EXCEPT ![z].fresh = FALSE]
    BY <1>2, <2>1 DEF Pages
  <2>2. CASE row' = [row EXCEPT ![z].facilitiesFresh = FALSE]
    BY <1>2, <2>2 DEF Pages
  <2> QED
    BY <2>1, <2>2 DEF Ages
<1>4. RefreshTypeOK'
  <2>1. \A y \in Zip : healed' => row'[y].cursor <= issued'
    BY <1>1, <1>3 DEF Orderly, RefreshTypeOK
  <2>2. /\ turn' \subseteq Zip \X Zip /\ cooling' \in Seq(SUBSET Zip)
        /\ issued' \in 0..MaxFires /\ fires' \in 0..MaxFires
        /\ \A f \in flight' \cup answers' : f.id \in 1..issued' /\ f.at \in 1..fires' /\ f.zip \in Zip
    BY <1>1 DEF Orderly, RefreshTypeOK
  <2>3. /\ judged' \in [Zip -> 0..MaxFires] /\ healed' \in BOOLEAN
        /\ said' \in [Zip -> [facilities : {"some", "none", "unknown"}, without : SUBSET Source]]
        /\ overtaken' \in [Zip -> [Zip -> 0..MaxFires]]
    BY <1>1 DEF Orderly, RefreshTypeOK
  <2> QED
    BY <1>3, <2>1, <2>2, <2>3 DEF RefreshTypeOK, Pages
<1>5. SafeIsPassed'
  BY <1>1, <1>3 DEF Orderly, RefreshTypeOK, SafeIsPassed, Sent
<1>6. \A y \in Zip : Healed(y)' = Healed(y)
  BY <1>1, <1>3 DEF Healed, LastIssued
<1> QED
  BY <1>1, <1>4, <1>5, <1>6 DEF Orderly, Dated, JudgedIsBehind, OvertakerIsBehind, Sent

(* An answer arrives, is lost or goes: no request is new.                  *)
LEMMA AnswersKeep ==
    ASSUME Orderly, Sent' \subseteq Sent, answers' \subseteq Sent, flight' \subseteq Sent,
           UNCHANGED <<row, turn, cooling, issued, fires, restarts, healed, judged, said, overtaken>>
    PROVE  Orderly'
<1>1. RefreshTypeOK'
  BY DEF Orderly, RefreshTypeOK, Sent
<1> QED
  BY <1>1 DEF Orderly, Dated, JudgedIsBehind, SafeIsPassed, OvertakerIsBehind, Healed, LastIssued

LEMMA NextOrderly == ASSUME Orderly, [RefreshNext]_refreshVars PROVE Orderly'
<1>1. ASSUME NEW f \in flight, Answer(f) PROVE Orderly'
  BY <1>1, AnswersKeep DEF Answer, Unseen, Sent
<1>2. ASSUME NEW f \in flight, LoseAnswer(f) PROVE Orderly'
  BY <1>2, AnswersKeep DEF LoseAnswer, Unseen, Sent
<1>3. ASSUME NEW r \in answers, LeavesWindow(r) PROVE Orderly'
  BY <1>3, AnswersKeep DEF LeavesWindow, Unseen, Sent
<1>4. CASE UNCHANGED refreshVars
  BY <1>4, AnswersKeep DEF refreshVars, Sent
<1> QED
  BY <1>1, <1>2, <1>3, <1>4, TickKeeps, CoolsDownKeeps, RestartKeeps, AskElsewhereKeeps, AgesKeeps
     DEF RefreshNext

LEMMA AlwaysOrderly == RefreshSpec => []Orderly
BY InitOrderly, NextOrderly, PTL DEF RefreshSpec

(* Requests, answers and pages hold what their types say: no id or time of *)
(* one is ahead of the counters, also after a crash that turned them back  *)
(* (dev-refresh-collect-restart-heal.sql).                                 *)
THEOREM RefreshIsTyped == RefreshSpec => []RefreshTypeOK
<1>1. Orderly => RefreshTypeOK
  BY DEF Orderly
<1> QED
  BY <1>1, AlwaysOrderly, PTL

(* Whatever is lost, late, withheld or forgotten in a crash, an answer is  *)
(* evaluated once and never after one asked for later, once healed it is   *)
(* passed over only for one asked for later, and after a tick that wrote   *)
(* or asked a page no other is asked about twice before it has its turn    *)
(* again (dev-refresh-collect-once-per-response.sql, -restart-heal.sql,    *)
(* dev-refresh-fair-ordering.sql).                                         *)
THEOREM AnswersStayInOrder == RefreshSpec => []AnswersCountInOrder
BY AlwaysOrderly, OrderlyIsInOrder, PTL

-----------------------------------------------------------------------------
(* What a page shows.                                                      *)

LEMMA CollectSays ==
    ASSUME RefreshTypeOK, PageSaysWhatEPASaid, NEW z \in Zip,
           NEW probe \in BOOLEAN, NEW word \in [{r.zip : r \in Evaluated} -> Word],
           dev_refresh_collect(word, probe)
    PROVE  /\ SaysWhatEPASaid(z)' \/ NewestWithheld(z)'
           /\ \A s \in row[z].records \ row'[z].records : s \in said'[z].without
<1>1. row[z] \in Pages
  BY DEF RefreshTypeOK, Pages
<1>2. CASE Of(z) = {}
  <2>1. row'[z] = [row[z] EXCEPT !.cursor = Healed(z)] /\ said'[z] = said[z]
    BY <1>2 DEF dev_refresh_collect
  <2> QED
    BY <1>1, <2>1 DEF PageSaysWhatEPASaid, SaysWhatEPASaid, NewestWithheld, Pages
<1>3. CASE Of(z) # {}
  <2> DEFINE r == TheOf(z)
             d == row[z]
             report == word[z]
  <2>1. r \in Evaluated /\ r.zip = z
    BY <1>3, TheOneOf
  <2>2. report \in Report
    BY <2>1, RefreshAssumption
  <2>3. CASE Withheld(d, report)
    <3>1. row'[z] = [d EXCEPT !.cursor = r.id]
      BY <1>3, <2>1, <2>3 DEF dev_refresh_collect, Collected
    <3>2. said'[z] = Heard(report, probe)
      BY <1>3 DEF dev_refresh_collect
    <3>3. \A s \in d.records : report.source[s] = "none"
      BY <1>1, <2>2, <2>3 DEF Withheld, Carried, Discontinued, Pages, Report, SourceWord
    <3>4. row'[z].records = d.records /\ d.records # {} /\ d.records \subseteq said'[z].without
      BY <1>1, <2>3, <3>1, <3>2, <3>3 DEF Withheld, Heard, Pages
    <3> QED
      BY <3>4 DEF NewestWithheld
  <2>4. CASE ~Withheld(d, report)
    <3>1. row'[z] = Written(d, r, report, probe) /\ said'[z] = Heard(report, probe)
      BY <1>3, <2>1, <2>4 DEF dev_refresh_collect, Collected
    <3>2. /\ row'[z].records = Carried(d, report)
          /\ row'[z].unavailable = FacilitiesUnavailable(d, report, probe)
          /\ row'[z].facilities = (dev_epa_write_refused(d, report, probe) \/ report.facilities = "some")
      BY <3>1 DEF Written
    <3>3. ~FacilitiesUnavailable(d, report, probe) =>
            /\ ~dev_epa_write_refused(d, report, probe)
            /\ report.facilities = "some" \/ Trusted(report, probe)
      BY DEF FacilitiesUnavailable
    <3>4. \A s \in d.records \ Carried(d, report) : s \in Heard(report, probe).without
      BY <1>1, <2>2 DEF Carried, Heard, Pages, Report, SourceWord
    <3>5. Heard(report, probe).facilities =
            IF report.facilities = "some" THEN "some" ELSE IF Trusted(report, probe) THEN "none" ELSE "unknown"
      BY DEF Heard
    <3>6. SaysWhatEPASaid(z)'
      BY <3>1, <3>2, <3>3, <3>5 DEF SaysWhatEPASaid
    <3>7. \A s \in d.records \ row'[z].records : s \in said'[z].without
      BY <3>1, <3>2, <3>4
    <3> QED
      BY <3>6, <3>7
  <2> QED
    BY <2>3, <2>4
<1> QED
  BY <1>2, <1>3

LEMMA StepSays ==
    ASSUME RefreshTypeOK, PageSaysWhatEPASaid, [RefreshNext]_refreshVars
    PROVE  /\ PageSaysWhatEPASaid'
           /\ \A z \in Zip : \A s \in row[z].records \ row'[z].records : s \in said'[z].without
<1>1. CASE dev_refresh_tick
  <2>1. PICK probe \in BOOLEAN, word \in [{r.zip : r \in Evaluated} -> Word] :
          \E now \in Batches(ToTheBack(turn, Accepted(word))) : \E nth \in Bijection(now, 1..Cardinality(now)) :
            dev_refresh_collect(word, probe) /\ dev_refresh_fire_batch(Accepted(word), now, nth)
    BY <1>1 DEF dev_refresh_tick
  <2>2. dev_refresh_collect(word, probe)
    BY <2>1
  <2> QED
    BY <2>2, CollectSays DEF PageSaysWhatEPASaid, SaysWhatEPASaid, NewestWithheld
<1>2. ASSUME NEW z \in Zip, Ages(z)
      PROVE  /\ PageSaysWhatEPASaid'
             /\ \A y \in Zip : \A s \in row[y].records \ row'[y].records : s \in said'[y].without
  <2>1. row \in [Zip -> Pages] /\ said' = said
    BY <1>2 DEF RefreshTypeOK, Pages, Ages
  <2>2. \A y \in Zip : /\ row'[y].facilities = row[y].facilities /\ row'[y].records = row[y].records
                        /\ row'[y].unavailable = row[y].unavailable
    <3>1. CASE row' = [row EXCEPT ![z].fresh = FALSE]
      BY <2>1, <3>1 DEF Pages
    <3>2. CASE row' = [row EXCEPT ![z].facilitiesFresh = FALSE]
      BY <2>1, <3>2 DEF Pages
    <3> QED
      BY <1>2, <3>1, <3>2 DEF Ages
  <2> QED
    BY <2>1, <2>2 DEF PageSaysWhatEPASaid, SaysWhatEPASaid, NewestWithheld
<1>3. CASE row' = row /\ said' = said
  BY <1>3 DEF PageSaysWhatEPASaid, SaysWhatEPASaid, NewestWithheld
<1>4. CASE CoolsDown \/ Restart \/ UNCHANGED refreshVars
  BY <1>3, <1>4 DEF CoolsDown, Restart, refreshVars
<1>5. ASSUME NEW z \in Zip, AskElsewhere(z) PROVE row' = row /\ said' = said
  BY <1>5 DEF AskElsewhere
<1>6. ASSUME NEW r, Answer(r) \/ LoseAnswer(r) \/ LeavesWindow(r) PROVE row' = row /\ said' = said
  BY <1>6 DEF Answer, LoseAnswer, LeavesWindow, Unseen
<1> QED
  BY <1>1, <1>2, <1>3, <1>4, <1>5, <1>6 DEF RefreshNext

(* A page that does not say its facilities are unknown shows EPA's last     *)
(* word, and a trusted one, unless the newest answer found no project of    *)
(* those the page shows and was withheld for it; and a source's records     *)
(* leave it only by the word of a read that reached the source              *)
(* (dev-refresh-collect-once-per-response.sql, REVIEW FIX 2,                *)
(* dev-refresh-collect-carry-failed-sources.sql).                          *)
THEOREM PagesSayWhatWasRead == RefreshSpec => PageSaysWhatWasRead
<1>1. RefreshInit => PageSaysWhatEPASaid
  BY DEF RefreshInit, PageSaysWhatEPASaid, SaysWhatEPASaid
<1>2. Orderly => RefreshTypeOK
  BY DEF Orderly
<1>3. RefreshTypeOK /\ PageSaysWhatEPASaid /\ [RefreshNext]_refreshVars => PageSaysWhatEPASaid'
  BY StepSays
<1>4. RefreshTypeOK /\ PageSaysWhatEPASaid /\ [RefreshNext]_refreshVars =>
        [ /\ PageSaysWhatEPASaid'
          /\ \A z \in Zip : \A s \in row[z].records \ row'[z].records :
               s \in said'[z].without ]_refreshVars
  BY StepSays
<1> QED
  BY <1>1, <1>2, <1>3, <1>4, AlwaysOrderly, PTL DEF RefreshSpec, PageSaysWhatWasRead
=============================================================================

---------------------------- MODULE SendingProofs ----------------------------
(***************************************************************************)
(* What is sent out once: a video's record on Bluesky, by workers that     *)
(* take a job over from each other, and a watch's mail, by wakes that      *)
(* lease watches.                                                          *)
(***************************************************************************)
EXTENDS VideoQueue, PropertyWatch, TLAPS

-----------------------------------------------------------------------------
(***************************************************************************)
(* The queue, for any number of workers, any limits and any number of      *)
(* versions.  That nothing is posted behind the dashboard's back           *)
(* (PostingIsFenced) is not inductive: it needs that the lease of a worker *)
(* about to post still shows in the job, that an owner's text is the job's, *)
(* and that a job with an owner is in flight, where the dashboard leaves    *)
(* it alone.                                                               *)
(***************************************************************************)

Reviews == [decision : {"pending", "approved", "rejected"}, content : 1..MaxContent, lacking : BOOLEAN]
Jobs == [status : Status, frozen : 0..MaxContent, key : Worker \cup {None}, cancel : BOOLEAN,
         attempts : 0..AttemptLimit, owner : Worker \cup {None}, leased : BOOLEAN]
Workers == [phase : {"idle", "working", "posting", "posted"}, text : 0..MaxContent, leased : BOOLEAN]

(* A job with an owner is in flight and has its record's key.              *)
OwnedIsInFlight == job.owner # None => job.status \in InFlight /\ job.key # None

(* Whoever owns the job is at work on what is frozen into it.              *)
OwnerHasItsText == \A w \in Worker :
    worker[w].phase # "idle" /\ job.owner = w => worker[w].text = job.frozen

(* The lease of a worker about to post shows in the job.                   *)
PosterIsLeased == \A w \in Worker :
    worker[w].phase = "posting" /\ worker[w].leased => job.leased

(* Only the job's key bears a record.                                      *)
RecordHasTheKey == \A w \in Worker : posts[w] # 0 => job.key = w

(* An owner that has posted left what is frozen into the job.              *)
PostedIsThere == \A w \in Worker :
    worker[w].phase = "posted" /\ job.owner = w => posts[job.key] = job.frozen

(* A caption that passed its check can still be written.                   *)
EditingHasRoom == editing => review.content < MaxContent

QueueSound ==
    /\ QueueTypeOK /\ EditingHasRoom /\ OwnedIsInFlight /\ OwnerHasItsText /\ PosterIsLeased
    /\ PostingIsFenced /\ RecordHasTheKey /\ PostedIsThere /\ PublishedAsFrozen

(* What the dashboard may do to a job: one in flight, or with a record,    *)
(* keeps its status and its text.                                          *)
WordReaches(k) ==
    /\ k \in Jobs /\ k.owner = job.owner /\ k.leased = job.leased /\ k.key = job.key
    /\ job.status \in Final \cup InFlight => k.status = job.status /\ k.frozen = job.frozen
    /\ job.status \notin Final \cup InFlight => k.status \notin InFlight \cup {"published"}

-----------------------------------------------------------------------------

LEMMA QueueStartsSound == QueueInit => QueueSound
<1> SUFFICES ASSUME QueueInit PROVE QueueSound
  OBVIOUS
<1>1. review \in Reviews
  BY QueueAssumption DEF QueueInit, Reviews
<1>2. job \in Jobs
  BY QueueAssumption DEF QueueInit, Jobs, Status
<1>3. worker \in [Worker -> Workers] /\ posts \in [Worker -> 0..MaxContent]
  BY QueueAssumption DEF QueueInit, Workers
<1>4. \A w \in Worker : worker[w].phase = "idle" /\ ~worker[w].leased /\ posts[w] = 0
  BY DEF QueueInit
<1>5. job.owner = None /\ ~job.leased /\ job.status = "none"
  BY DEF QueueInit
<1> QED
  BY <1>1, <1>2, <1>3, <1>4, <1>5
  DEF QueueInit, QueueSound, QueueTypeOK, Reviews, Jobs, Workers, OwnedIsInFlight, OwnerHasItsText, PosterIsLeased,
      PostingIsFenced, RecordHasTheKey, PostedIsThere, PublishedAsFrozen, EditingHasRoom

LEMMA ApplyTells ==
    ASSUME job \in Jobs, NEW r \in Reviews
    PROVE  WordReaches(video_bsky_apply(job, r))
<1> DEFINE k == video_bsky_apply(job, r)
<1>1. CASE job.status \in Final \cup InFlight
  <2>1. k = job
    BY <1>1 DEF video_bsky_apply
  <2> QED
    BY <2>1, <1>1 DEF WordReaches
<1>2. CASE job.status \notin Final \cup InFlight /\ r.decision # "approved"
  <2>1. k = [job EXCEPT !.status = "cancelled"]
    BY <1>2 DEF video_bsky_apply, Cancelled
  <2>2. k \in Jobs /\ k.status = "cancelled"
    BY <2>1 DEF Jobs, Status
  <2> QED
    BY <2>1, <2>2, <1>2 DEF WordReaches, Jobs, InFlight
<1>3. CASE job.status \notin Final \cup InFlight /\ r.decision = "approved"
  <2>1. PICK s \in {"held", "scheduled"} :
           k = [job EXCEPT !.frozen = r.content, !.cancel = FALSE, !.attempts = 0, !.status = s]
    BY <1>3 DEF video_bsky_apply
  <2>2. r.content \in 0..MaxContent /\ 0 \in 0..AttemptLimit /\ s \in Status
    BY QueueAssumption DEF Reviews, Status
  <2>3. k \in Jobs /\ k.status = s
    BY <2>1, <2>2 DEF Jobs
  <2> QED
    BY <2>1, <2>3, <1>3 DEF WordReaches, Jobs, InFlight
<1> QED
  BY <1>1, <1>2, <1>3

LEMMA SyncTells ==
    ASSUME job \in Jobs, NEW r \in Reviews
    PROVE  WordReaches(video_bsky_sync(job, r))
<1> DEFINE k == video_bsky_sync(job, r)
<1>1. CASE k = job
  BY <1>1 DEF WordReaches, Final
<1>2. CASE k = video_bsky_apply(job, r)
  BY <1>2, ApplyTells
<1>3. CASE job.status \in {"held", "scheduled", "failed"} /\ k = [job EXCEPT !.status = "cancelled"]
  <2>1. k \in Jobs /\ k.status = "cancelled"
    BY <1>3 DEF Jobs, Status
  <2>2. job.status \notin Final \cup InFlight /\ "cancelled" \notin InFlight \cup {"published"}
    BY <1>3 DEF Final, InFlight
  <2> QED
    BY <1>3, <2>1, <2>2 DEF WordReaches, Jobs
<1>4. CASE job.status \in InFlight /\ k = [job EXCEPT !.cancel = TRUE]
  BY <1>4 DEF WordReaches, Jobs
<1> QED
  BY <1>1, <1>2, <1>3, <1>4 DEF video_bsky_sync, Cancelled

(* The dashboard's steps, whichever.                                       *)
LEMMA DashboardKeeps ==
    ASSUME QueueSound, review' \in Reviews, revising' \in BOOLEAN, editing' \in BOOLEAN, EditingHasRoom', WordReaches(job'),
           UNCHANGED <<worker, posts>>
    PROVE  QueueSound'
<1>1. QueueTypeOK'
  BY DEF QueueSound, QueueTypeOK, WordReaches, Jobs, Reviews
<1>2. OwnedIsInFlight' /\ PosterIsLeased' /\ RecordHasTheKey'
  BY DEF QueueSound, WordReaches, OwnedIsInFlight, PosterIsLeased, RecordHasTheKey
<1>3. OwnerHasItsText' /\ PostedIsThere'
  BY QueueAssumption DEF QueueSound, WordReaches, OwnedIsInFlight, OwnerHasItsText, PostedIsThere
<1>4. PostingIsFenced'
  BY DEF QueueSound, WordReaches, PostingIsFenced, InFlight
<1>5. PublishedAsFrozen'
  BY DEF QueueSound, WordReaches, PublishedAsFrozen, Final
<1> QED
  BY <1>1, <1>2, <1>3, <1>4, <1>5 DEF QueueSound

(* The job is let go of when nobody may be posting.                        *)
LEMMA FreeingKeeps ==
    ASSUME QueueSound, NEW s \in {"scheduled", "held", "failed", "cancelled"},
           job' = [Freed(job) EXCEPT !.status = s], worker' \in [Worker -> Workers],
           \A v \in Worker : ~(worker'[v].phase = "posting" /\ worker'[v].leased),
           UNCHANGED <<review, revising, editing, posts>>
    PROVE  QueueSound'
<1>1. job' \in Jobs /\ job'.owner = None /\ ~job'.leased /\ job'.status = s
      /\ job'.key = job.key /\ job'.frozen = job.frozen
  BY DEF QueueSound, QueueTypeOK, Jobs, Freed, Status
<1>2. QueueTypeOK'
  BY <1>1 DEF QueueSound, QueueTypeOK, Jobs, Workers
<1> QED
  BY <1>1, <1>2, QueueAssumption
  DEF QueueSound, OwnedIsInFlight, OwnerHasItsText, PosterIsLeased, PostingIsFenced, RecordHasTheKey,
      PostedIsThere, PublishedAsFrozen, EditingHasRoom

LEMMA ReviewedKeeps ==
    ASSUME QueueSound, NEW r \in Reviews, Reviewed(r), revising' \in BOOLEAN, editing' \in BOOLEAN, EditingHasRoom',
           UNCHANGED <<worker, posts>>
    PROVE  QueueSound'
<1>1. job \in Jobs
  BY DEF QueueSound, QueueTypeOK, Jobs
<1>2. WordReaches(job') /\ review' \in Reviews
  BY <1>1, SyncTells DEF Reviewed
<1> QED
  BY <1>2, DashboardKeeps

LEMMA JobUntouched == QueueSound => WordReaches(job)
BY DEF QueueSound, QueueTypeOK, WordReaches, Jobs, Final

LEMMA ReviewStep ==
    ASSUME QueueSound,
           \/ hs_youtube_video_file_decide \/ CaptionChecked \/ CaptionWritten
           \/ hs_video_youtube_url_set \/ LackingIsMet \/ hs_video_job_cancel
           \/ StartRevision \/ hs_youtube_revision_complete \/ RevisionEnds \/ Reupload
    PROVE  QueueSound'
<1>1. review \in Reviews /\ revising \in BOOLEAN /\ editing \in BOOLEAN /\ EditingHasRoom
  BY DEF QueueSound, QueueTypeOK, Reviews
<1>2. \A d \in {"approved", "rejected", "pending"} : [review EXCEPT !.decision = d] \in Reviews
  BY <1>1 DEF Reviews
<1>3. review.content < MaxContent => [review EXCEPT !.content = review.content + 1] \in Reviews
  BY <1>1, QueueAssumption DEF Reviews
<1>4. \A r \in Reviews : Withdrawn(r) \in Reviews
  BY DEF Withdrawn, Reviews
<1>5. \A r \in Reviews, b \in BOOLEAN : [r EXCEPT !.lacking = b] \in Reviews
  BY DEF Reviews
<1>6. CASE hs_youtube_video_file_decide
  BY <1>1, <1>2, <1>6, ReviewedKeeps DEF hs_youtube_video_file_decide, EditingHasRoom
<1>7. CASE CaptionChecked
  BY <1>1, <1>7, JobUntouched, DashboardKeeps DEF CaptionChecked, EditingHasRoom
<1>8. CASE CaptionWritten
  BY <1>1, <1>3, <1>4, <1>8, JobUntouched, DashboardKeeps, ReviewedKeeps DEF CaptionWritten, EditingHasRoom
<1>9. CASE hs_video_youtube_url_set
  <2> DEFINE Linked(b) == [review EXCEPT !.content = review.content + 1, !.lacking = b]
  <2>1. /\ ~editing /\ review.content < MaxContent
        /\ UNCHANGED <<revising, editing, worker, posts>>
    BY <1>9 DEF hs_video_youtube_url_set
  <2>2. \A b \in BOOLEAN : Linked(b) \in Reviews
    <3>1. review.content + 1 \in 1..MaxContent
      BY <1>1, <2>1, QueueAssumption DEF Reviews
    <3> QED
      BY <1>1, <3>1 DEF Reviews
  <2>3. \A b \in BOOLEAN : Withdrawn(Linked(b)) \in Reviews
    BY <1>4, <2>2
  <2>4. revising' \in BOOLEAN /\ editing' \in BOOLEAN /\ EditingHasRoom'
    BY <1>1, <2>1 DEF EditingHasRoom
  <2>5. PICK b \in BOOLEAN :
           \/ Reviewed(Linked(b)) \/ Reviewed(Withdrawn(Linked(b)))
           \/ (review' = Linked(b) /\ job' = job)
    BY <1>9 DEF hs_video_youtube_url_set
  <2> HIDE DEF Linked
  <2>6. CASE Reviewed(Linked(b))
    BY <2>1, <2>2, <2>4, <2>6, ReviewedKeeps
  <2>7. CASE Reviewed(Withdrawn(Linked(b)))
    BY <2>1, <2>3, <2>4, <2>7, ReviewedKeeps
  <2>8. CASE review' = Linked(b) /\ job' = job
    BY <2>1, <2>2, <2>4, <2>8, JobUntouched, DashboardKeeps
  <2> QED
    BY <2>5, <2>6, <2>7, <2>8
<1>10. CASE LackingIsMet
  BY <1>1, <1>5, <1>10, JobUntouched, DashboardKeeps, ReviewedKeeps DEF LackingIsMet, EditingHasRoom
<1>11. CASE hs_video_job_cancel
  BY <1>1, <1>4, <1>11, ReviewedKeeps DEF hs_video_job_cancel, EditingHasRoom
<1>12. CASE StartRevision
  BY <1>1, <1>2, <1>12, JobUntouched, DashboardKeeps, ReviewedKeeps DEF StartRevision, EditingHasRoom
<1>13. CASE hs_youtube_revision_complete
  BY <1>1, <1>3, <1>13, JobUntouched, DashboardKeeps DEF hs_youtube_revision_complete, EditingHasRoom, Withdrawn, Reviews
<1>14. CASE RevisionEnds
  BY <1>1, <1>14, JobUntouched, DashboardKeeps DEF RevisionEnds, EditingHasRoom
<1>15. CASE Reupload
  BY <1>1, <1>3, <1>15, JobUntouched, DashboardKeeps DEF Reupload, EditingHasRoom
<1> QED
  BY <1>6, <1>7, <1>8, <1>9, <1>10, <1>11, <1>12, <1>13, <1>14, <1>15

LEMMA RetryKeeps == QueueSound /\ hs_video_job_retry => QueueSound'
<1> SUFFICES ASSUME QueueSound, hs_video_job_retry PROVE QueueSound'
  OBVIOUS
<1>1. job \in Jobs /\ review \in Reviews /\ revising \in BOOLEAN /\ editing \in BOOLEAN /\ EditingHasRoom
  BY DEF QueueSound, QueueTypeOK, Jobs, Reviews
<1>2. WordReaches(job')
  BY <1>1, ApplyTells DEF hs_video_job_retry, EditingHasRoom
<1> QED
  BY <1>1, <1>2, DashboardKeeps DEF hs_video_job_retry, EditingHasRoom

(* A post made by hand: the job has no owner, and gets none.               *)
LEMMA ExternalKeeps == QueueSound /\ video_job_mark_external => QueueSound'
<1> SUFFICES ASSUME QueueSound, video_job_mark_external PROVE QueueSound'
  OBVIOUS
<1>1. job \in Jobs /\ review \in Reviews /\ revising \in BOOLEAN /\ editing \in BOOLEAN /\ EditingHasRoom
  BY DEF QueueSound, QueueTypeOK, Jobs, Reviews
<1>2. job.owner = None /\ ~job.leased
  BY DEF QueueSound, QueueTypeOK, OwnedIsInFlight, video_job_mark_external
<1>3. job' \in Jobs /\ job'.status = "external" /\ job'.owner = job.owner /\ job'.leased = job.leased
      /\ job'.key = job.key /\ job'.frozen = job.frozen
  BY <1>1, <1>2 DEF video_job_mark_external, Freed, Jobs, Status, Final
<1>4. job.status \in Final \cup InFlight => job.status = "external"
  BY DEF video_job_mark_external, Final
<1>5. "external" \notin InFlight \cup {"published"}
  BY DEF InFlight
<1>6. WordReaches(job')
  BY <1>3, <1>4, <1>5 DEF WordReaches
<1> QED
  BY <1>1, <1>6, DashboardKeeps DEF video_job_mark_external, EditingHasRoom

-----------------------------------------------------------------------------
(* The worker's steps.                                                     *)

LEMMA Types ==
    ASSUME QueueSound
    PROVE  /\ job \in Jobs /\ worker \in [Worker -> Workers] /\ posts \in [Worker -> 0..MaxContent]
           /\ job.leased => job.owner # None /\ worker[job.owner].leased
BY DEF QueueSound, QueueTypeOK, Jobs, Workers

(* Whoever may post owns the job, and the job shows its lease.             *)
LEMMA PosterOwns ==
    ASSUME QueueSound, NEW v \in Worker, worker[v].phase = "posting", worker[v].leased
    PROVE  job.owner = v /\ job.leased
BY DEF QueueSound, PostingIsFenced, PosterIsLeased

LEMMA TakingKeeps ==
    ASSUME QueueSound, NEW w \in Worker, worker[w].phase = "idle", Claimable(job, w),
           job.status \in {"scheduled"} \cup InFlight, ~Tired(job),
           job' = [job EXCEPT !.status = IF @ = "scheduled" THEN "uploading" ELSE @,
                              !.attempts = @ + 1, !.key = RecordKey(job, w), !.owner = w, !.leased = TRUE],
           worker' = [worker EXCEPT ![w] = [phase |-> "working", text |-> job.frozen, leased |-> TRUE]],
           UNCHANGED <<review, revising, editing, posts>>
    PROVE  QueueSound'
<1>1. job \in Jobs /\ worker \in [Worker -> Workers]
  BY Types
<1>2. RecordKey(job, w) \in Worker /\ (job.key # None => RecordKey(job, w) = job.key)
  BY <1>1, QueueAssumption DEF RecordKey, Jobs
<1>3. job.attempts + 1 \in 0..AttemptLimit
  BY <1>1, QueueAssumption DEF Tired, Jobs
<1>4. job'.owner = w /\ job'.leased /\ job'.frozen = job.frozen /\ job'.key = RecordKey(job, w)
      /\ job'.status \in InFlight
  BY <1>1 DEF Jobs, InFlight
<1>5. job' \in Jobs
  BY <1>1, <1>2, <1>3, QueueAssumption DEF Jobs, Status, InFlight
<1>6. worker' \in [Worker -> Workers] /\ worker'[w] = [phase |-> "working", text |-> job.frozen, leased |-> TRUE]
      /\ \A v \in Worker \ {w} : worker'[v] = worker[v]
  BY <1>1 DEF Jobs, Workers
<1>7. \A v \in Worker : ~(worker'[v].phase = "posting" /\ worker'[v].leased)
  BY <1>6, PosterOwns DEF Claimable
<1>8. QueueTypeOK'
  BY <1>4, <1>5, <1>6, QueueAssumption DEF QueueSound, QueueTypeOK, Jobs, Workers
<1>9. OwnedIsInFlight' /\ EditingHasRoom'
  BY <1>2, <1>4, QueueAssumption DEF QueueSound, OwnedIsInFlight, EditingHasRoom
<1>10. OwnerHasItsText' /\ PostedIsThere'
  BY <1>4, <1>6 DEF OwnerHasItsText, PostedIsThere
<1>11. PosterIsLeased' /\ PostingIsFenced'
  BY <1>7 DEF PosterIsLeased, PostingIsFenced
<1>12. RecordHasTheKey'
  BY <1>2, <1>4, QueueAssumption DEF QueueSound, RecordHasTheKey
<1>13. PublishedAsFrozen'
  BY <1>4 DEF PublishedAsFrozen, InFlight
<1> QED
  BY <1>8, <1>9, <1>10, <1>11, <1>12, <1>13 DEF QueueSound

LEMMA JobClaimKeeps ==
    ASSUME QueueSound, NEW w \in Worker, video_job_claim(w)
    PROVE  QueueSound'
<1>1. worker[w].phase = "idle" /\ Claimable(job, w) /\ job.status \in {"scheduled"} \cup InFlight
      /\ UNCHANGED <<review, revising, editing, posts>>
  BY DEF video_job_claim
<1>2. \A v \in Worker : ~(worker[v].phase = "posting" /\ worker[v].leased)
  BY <1>1, PosterOwns DEF Claimable
<1>3. ASSUME NEW s \in {"cancelled", "held", "failed"},
             job' = [Freed(job) EXCEPT !.status = s], worker' = worker
      PROVE  QueueSound'
  BY <1>1, <1>2, <1>3, Types, FreeingKeeps
<1>4. Cancelled(Freed(job)) = [Freed(job) EXCEPT !.status = "cancelled"]
  BY DEF Cancelled
<1>5. CASE \E s \in {"cancelled", "held", "failed"} :
           job' = [Freed(job) EXCEPT !.status = s] /\ worker' = worker
  BY <1>3, <1>5
<1>6. CASE /\ ~Tired(job)
           /\ job' = [job EXCEPT !.status = IF @ = "scheduled" THEN "uploading" ELSE @,
                                 !.attempts = @ + 1, !.key = RecordKey(job, w), !.owner = w, !.leased = TRUE]
           /\ worker' = [worker EXCEPT ![w] = [phase |-> "working", text |-> job.frozen, leased |-> TRUE]]
  BY <1>1, <1>6, TakingKeeps
<1> QED
  BY <1>4, <1>5, <1>6 DEF video_job_claim

LEMMA ProgressKeeps ==
    ASSUME QueueSound, NEW w \in Worker, NEW s \in InFlight, video_job_progress(w, s)
    PROVE  QueueSound'
<1>1. job \in Jobs /\ worker \in [Worker -> Workers]
  BY Types
<1>2. worker[w].phase = "working" /\ job.owner = w
      /\ UNCHANGED <<review, revising, editing, posts>>
  BY DEF video_job_progress, Mine
<1>3. job' \in Jobs /\ job'.status = s /\ job'.leased /\ job'.owner = w
      /\ job'.key = job.key /\ job'.frozen = job.frozen
  BY <1>1, <1>2 DEF video_job_progress, Jobs, Status
<1>4. /\ worker' \in [Worker -> Workers] /\ worker'[w].leased /\ worker'[w].text = worker[w].text
      /\ worker'[w].phase \in {"working", "posting"}
      /\ worker'[w].phase = "posting" => s = "publishing"
      /\ \A v \in Worker \ {w} : worker'[v] = worker[v]
  BY <1>1, <1>2 DEF video_job_progress, Workers
<1>5. \A v \in Worker \ {w} : ~(worker[v].phase = "posting" /\ worker[v].leased)
  BY <1>2, PosterOwns
<1>6. QueueTypeOK'
  BY <1>2, <1>3, <1>4, QueueAssumption DEF QueueSound, QueueTypeOK, Jobs, Workers
<1>7. OwnedIsInFlight' /\ EditingHasRoom'
  BY <1>2, <1>3, QueueAssumption DEF QueueSound, OwnedIsInFlight, EditingHasRoom
<1>8. OwnerHasItsText' /\ PostedIsThere'
  BY <1>2, <1>3, <1>4 DEF QueueSound, OwnerHasItsText, PostedIsThere
<1>9. PosterIsLeased' /\ PostingIsFenced'
  BY <1>2, <1>3, <1>4, <1>5 DEF QueueSound, OwnerHasItsText, PosterIsLeased, PostingIsFenced
<1>10. RecordHasTheKey'
  BY <1>2, <1>3 DEF QueueSound, RecordHasTheKey
<1>11. PublishedAsFrozen'
  BY <1>3 DEF PublishedAsFrozen, InFlight
<1> QED
  BY <1>6, <1>7, <1>8, <1>9, <1>10, <1>11 DEF QueueSound

(* The record written says what the job says, under the job's key.         *)
LEMMA PostKeeps ==
    ASSUME QueueSound, NEW w \in Worker, Post(w)
    PROVE  QueueSound'
<1>1. job \in Jobs /\ worker \in [Worker -> Workers] /\ posts \in [Worker -> 0..MaxContent]
  BY Types
<1>2. job.owner = w /\ job.leased /\ job.status = "publishing" /\ job.frozen = worker[w].text
  BY PosterOwns DEF QueueSound, PostingIsFenced, Post
<1>3. job.key \in Worker
  BY <1>1, <1>2, QueueAssumption DEF QueueSound, OwnedIsInFlight, Jobs
<1>4. /\ posts' \in [Worker -> 0..MaxContent] /\ posts'[job.key] = job.frozen
      /\ \A v \in Worker \ {job.key} : posts'[v] = posts[v]
  BY <1>1, <1>2, <1>3 DEF Post, Jobs
<1>5. /\ worker' \in [Worker -> Workers]
      /\ \A v \in Worker \ {w} : worker'[v] = worker[v]
      /\ worker'[w].leased = worker[w].leased /\ worker'[w].text = worker[w].text
      /\ worker'[w].phase \in {worker[w].phase, "posted"} /\ worker[w].phase = "posting"
  BY <1>1 DEF Post, Workers
<1>6. UNCHANGED <<review, revising, editing, job>>
  BY DEF Post
<1>7. QueueTypeOK'
  <2>1. worker'[job.owner].leased = worker[job.owner].leased
    BY <1>2, <1>5
  <2> QED
    BY <1>4, <1>5, <1>6, <2>1 DEF QueueSound, QueueTypeOK, Workers
<1>8. OwnedIsInFlight' /\ EditingHasRoom'
  BY <1>6 DEF QueueSound, OwnedIsInFlight, EditingHasRoom
<1>9. OwnerHasItsText'
  BY <1>2, <1>5, <1>6 DEF OwnerHasItsText
<1>10. PosterIsLeased' /\ PostingIsFenced'
  BY <1>5, <1>6 DEF QueueSound, PosterIsLeased, PostingIsFenced
<1>11. RecordHasTheKey'
  BY <1>3, <1>4, <1>6 DEF QueueSound, RecordHasTheKey
<1>12. PostedIsThere' /\ PublishedAsFrozen'
  BY <1>2, <1>4, <1>6 DEF PostedIsThere, PublishedAsFrozen
<1> QED
  BY <1>7, <1>8, <1>9, <1>10, <1>11, <1>12 DEF QueueSound

(* A worker that puts its job down is idle, and nobody else may post.      *)
LEMMA PutDown ==
    ASSUME QueueSound, NEW w \in Worker, Mine(w),
           worker' = [worker EXCEPT ![w].phase = "idle", ![w].leased = FALSE]
    PROVE  /\ worker' \in [Worker -> Workers]
           /\ \A v \in Worker : ~(worker'[v].phase = "posting" /\ worker'[v].leased)
<1>1. worker \in [Worker -> Workers]
  BY Types
<1>2. /\ worker' \in [Worker -> Workers] /\ worker'[w].phase = "idle"
      /\ \A v \in Worker \ {w} : worker'[v] = worker[v]
  BY <1>1 DEF Workers
<1>3. \A v \in Worker \ {w} : ~(worker[v].phase = "posting" /\ worker[v].leased)
  BY PosterOwns DEF Mine
<1> QED
  BY <1>2, <1>3

LEMMA FailKeeps ==
    ASSUME QueueSound, NEW w \in Worker, video_job_fail(w) \/ video_job_hold(w)
    PROVE  QueueSound'
<1>1. /\ Mine(w) /\ worker' = [worker EXCEPT ![w].phase = "idle", ![w].leased = FALSE]
      /\ UNCHANGED <<review, revising, editing, posts>>
  BY DEF video_job_fail, video_job_hold
<1>2. \E s \in {"failed", "scheduled", "held"} : job' = [Freed(job) EXCEPT !.status = s]
  BY DEF video_job_fail, video_job_hold
<1> QED
  BY <1>1, <1>2, PutDown, FreeingKeeps

LEMMA FinishKeeps ==
    ASSUME QueueSound, NEW w \in Worker, video_job_finish(w)
    PROVE  QueueSound'
<1>1. job \in Jobs
  BY Types
<1>2. /\ worker' \in [Worker -> Workers]
      /\ \A v \in Worker : ~(worker'[v].phase = "posting" /\ worker'[v].leased)
  BY PutDown DEF video_job_finish
<1>3. job' \in Jobs /\ job'.owner = None /\ ~job'.leased /\ job'.key = job.key /\ job'.frozen = job.frozen
  BY <1>1 DEF video_job_finish, Freed, Jobs, Status, Final
<1>4. worker[w].phase = "posted" /\ job.owner = w /\ UNCHANGED <<review, revising, editing, posts>>
  BY DEF video_job_finish, Mine
<1>5. job.key # None /\ posts[job.key] = job.frozen
  BY <1>4, QueueAssumption DEF QueueSound, OwnedIsInFlight, PostedIsThere
<1>6. QueueTypeOK'
  BY <1>2, <1>3, <1>4 DEF QueueSound, QueueTypeOK, Jobs, Workers
<1>7. PublishedAsFrozen'
  BY <1>3, <1>4, <1>5 DEF PublishedAsFrozen
<1>8. OwnedIsInFlight' /\ OwnerHasItsText' /\ PostedIsThere'
  BY <1>3, QueueAssumption DEF OwnedIsInFlight, OwnerHasItsText, PostedIsThere
<1>9. PosterIsLeased' /\ PostingIsFenced'
  BY <1>2 DEF PosterIsLeased, PostingIsFenced
<1>10. RecordHasTheKey' /\ EditingHasRoom'
  BY <1>3, <1>4 DEF QueueSound, RecordHasTheKey, EditingHasRoom
<1> QED
  BY <1>6, <1>7, <1>8, <1>9, <1>10 DEF QueueSound

LEMMA GiveUpKeeps ==
    ASSUME QueueSound, NEW w \in Worker, GiveUp(w)
    PROVE  QueueSound'
<1>1. worker \in [Worker -> Workers] /\ UNCHANGED <<review, revising, editing, job, posts>>
  BY Types DEF GiveUp
<1>2. /\ worker' \in [Worker -> Workers] /\ worker'[w].phase = "idle"
      /\ \A v \in Worker : worker'[v].leased = worker[v].leased
      /\ \A v \in Worker \ {w} : worker'[v] = worker[v]
  BY <1>1 DEF GiveUp, Workers
<1>3. QueueTypeOK'
  <2>1. job.leased => job.owner \in Worker /\ worker'[job.owner].leased
    BY <1>2 DEF QueueSound, QueueTypeOK
  <2> QED
    BY <1>1, <1>2, <2>1 DEF QueueSound, QueueTypeOK, Workers
<1> QED
  BY <1>1, <1>2, <1>3
  DEF QueueSound, OwnedIsInFlight, OwnerHasItsText, PosterIsLeased, PostingIsFenced, RecordHasTheKey,
      PostedIsThere, PublishedAsFrozen, EditingHasRoom

LEMMA LeaseEndsKeeps ==
    ASSUME QueueSound, NEW w \in Worker, LeaseEnds(w)
    PROVE  QueueSound'
<1>1. /\ job \in Jobs /\ worker \in [Worker -> Workers] /\ UNCHANGED <<review, revising, editing, posts>>
  BY Types DEF LeaseEnds
<1>2. /\ worker' \in [Worker -> Workers] /\ ~worker'[w].leased
      /\ \A v \in Worker : worker'[v].phase = worker[v].phase /\ worker'[v].text = worker[v].text
      /\ \A v \in Worker \ {w} : worker'[v] = worker[v]
  BY <1>1 DEF LeaseEnds, Workers
<1>3. /\ job' \in Jobs /\ job'.owner = job.owner /\ job'.key = job.key /\ job'.frozen = job.frozen
      /\ job'.status = job.status
      /\ IF job.owner = w THEN ~job'.leased ELSE job'.leased = job.leased
  BY <1>1 DEF LeaseEnds, Jobs
<1>4. QueueTypeOK'
  <2>1. job'.leased => job'.owner # None /\ worker'[job'.owner].leased
    BY <1>2, <1>3 DEF QueueSound, QueueTypeOK
  <2> QED
    BY <1>1, <1>2, <1>3, <2>1 DEF QueueSound, QueueTypeOK, Jobs, Workers
<1>5. PosterIsLeased'
  <2> SUFFICES ASSUME NEW v \in Worker, worker'[v].phase = "posting", worker'[v].leased PROVE job'.leased
    BY DEF PosterIsLeased
  <2>1. v # w /\ worker'[v] = worker[v]
    BY <1>2
  <2> QED
    BY <1>3, <2>1, PosterOwns
<1> QED
  BY <1>1, <1>2, <1>3, <1>4, <1>5
  DEF QueueSound, OwnedIsInFlight, OwnerHasItsText, PostingIsFenced, RecordHasTheKey,
      PostedIsThere, PublishedAsFrozen, EditingHasRoom

-----------------------------------------------------------------------------

LEMMA StepInductive == QueueSound /\ [QueueNext]_queueVars => QueueSound'
<1> SUFFICES ASSUME QueueSound, [QueueNext]_queueVars PROVE QueueSound'
  OBVIOUS
<1>1. CASE \/ hs_youtube_video_file_decide \/ CaptionChecked \/ CaptionWritten
           \/ hs_video_youtube_url_set \/ LackingIsMet \/ hs_video_job_cancel
           \/ StartRevision \/ hs_youtube_revision_complete \/ RevisionEnds \/ Reupload
  BY <1>1, ReviewStep
<1>2. CASE hs_video_job_retry \/ video_job_mark_external
  BY <1>2, RetryKeeps, ExternalKeeps
<1>3. ASSUME NEW w \in Worker, Work(w)
      PROVE  QueueSound'
  BY <1>3, JobClaimKeeps, ProgressKeeps, PostKeeps, FinishKeeps, FailKeeps, GiveUpKeeps, LeaseEndsKeeps DEF Work
<1>4. CASE UNCHANGED queueVars
  BY <1>4 DEF queueVars, QueueSound, QueueTypeOK, OwnedIsInFlight, OwnerHasItsText, PosterIsLeased,
      PostingIsFenced, RecordHasTheKey, PostedIsThere, PublishedAsFrozen, EditingHasRoom
<1> QED
  BY <1>1, <1>2, <1>3, <1>4 DEF QueueNext

LEMMA QueueStaysSound == QueueSpec => []QueueSound
BY QueueStartsSound, StepInductive, PTL DEF QueueSpec

(* What is reviewed, the job, its workers and their posts hold what their  *)
(* types say, and a lease has an owner that knows of it                    *)
(* (video-bluesky-queue.sql).                                              *)
THEOREM QueueIsTyped == QueueSpec => []QueueTypeOK
<1>1. QueueSound => QueueTypeOK
  BY DEF QueueSound
<1> QED
  BY QueueStaysSound, <1>1, PTL

(* What the dashboard calls cancelled, held, failed or external is not      *)
(* posted later, and a record is written only as its job says, for any      *)
(* number of workers (video-bluesky-queue.sql 302-307, 334-345, 545, 592).  *)
THEOREM PostingStaysFenced == QueueSpec => []PostingIsFenced
<1>1. QueueSound => PostingIsFenced
  BY DEF QueueSound
<1> QED
  BY QueueStaysSound, <1>1, PTL

(* An item has one record on Bluesky, however often workers die and take   *)
(* its job over (video-bluesky-queue.sql 22-32, 532-534).                  *)
THEOREM ItemHasOneRecord == QueueSpec => []OneRecord
<1>1. QueueSound => OneRecord
  BY DEF QueueSound, OneRecord, RecordHasTheKey
<1> QED
  BY QueueStaysSound, <1>1, PTL

(* A published job's record is there and says what was approved and frozen  *)
(* into the job (video-bluesky-queue.sql 221-263).                         *)
THEOREM PublishedSaysWhatWasFrozen == QueueSpec => []PublishedAsFrozen
<1>1. QueueSound => PublishedAsFrozen
  BY DEF QueueSound
<1> QED
  BY QueueStaysSound, <1>1, PTL
-----------------------------------------------------------------------------
(***************************************************************************)
(* Proofs about PropertyWatch, for any watches, agents, wakes, changes and *)
(* sizes of a mail.                                                        *)
(*                                                                         *)
(* A wake records what it found some steps after it looked at what was     *)
(* told.  Nothing was told of that watch in between, because no other wake *)
(* is at work on it: the lease is the wake's own until its record or its   *)
(* failure gives it back, and then the slot or the retry keeps others away *)
(* until it has left.                                                      *)
(***************************************************************************)

USE WatchAssumption

CheckingSteps == {"open", "point", "read", "seen", "send", "record", "end", "fail"}

(* A wake at work is at a watch, which it has taken from its list; it does *)
(* not hold what was never started.                                        *)
WakesAreAtWatches ==
    \A r \in Run :
        /\ run[r].pc \in CheckingSteps <=> run[r].at \in Watch
        /\ run[r].at \notin run[r].todo
        /\ run[r].pc = "idle" => run[r].todo = {}
        /\ \A w \in Watch : Holds(r, w) => watch[w].state # "unused"

(* What a wake holds is leased to it, or it has recorded it already and    *)
(* not heard so.                                                           *)
HeldIsLeased ==
    \A r \in Run, w \in Watch : On(w) /\ Holds(r, w) =>
        \/ watch[w].lease = r
        \/ /\ watch[w].lease = NoOne /\ watch[w].slot
           /\ run[r].at = w /\ run[r].pc = "fail"

OneHolder ==
    \A r, q \in Run, w \in Watch : On(w) /\ Holds(r, w) /\ Holds(q, w) => r = q

(* What a wake is about to tell has not been told.                         *)
FoundIsNew ==
    \A r \in Run : run[r].pc \in {"send", "record"} /\ On(run[r].at) =>
        run[r].found \cap watch[run[r].at].told = {}

(* What a wake is about to record was mailed.                              *)
RecordIsMailed ==
    \A r \in Run : run[r].pc = "record" => Email(r) \in mails \/ run[r].found = {}

RecordedIsTold ==
    \A m \in recorded :
        /\ watch[m.watch].state # "unused"
        /\ On(m.watch) => m.told \subseteq watch[m.watch].told

WatchSound ==
    /\ WatchTypeOK
    /\ WakesAreAtWatches
    /\ HeldIsLeased
    /\ OneHolder
    /\ FoundIsNew
    /\ RecordIsMailed
    /\ RecordedIsTold
    /\ ToldWasMailed
    /\ RecordedMailsAreApart

LEMMA SelectedIsFound == \A new : Selected(new) \subseteq new
BY DEF Selected

LEMMA SelectedOfNothing == Selected({}) = {}
BY DEF Selected

-----------------------------------------------------------------------------
LEMMA WatchStartsSound == WatchInit => WatchSound
<1> SUFFICES ASSUME WatchInit PROVE WatchSound
  OBVIOUS
<1> USE DEF WatchInit
<1>1. WatchTypeOK
  BY DEF WatchTypeOK, Row, Unused, Asleep, Wakes, Mail, Steps
<1>2. /\ \A r \in Run : run[r].at = NoOne /\ run[r].pc = "idle"
      /\ \A r \in Run, w \in Watch : ~Holds(r, w)
  BY DEF Asleep, Holds
<1>3. WakesAreAtWatches
  BY <1>2 DEF WakesAreAtWatches, CheckingSteps, Asleep
<1>4. HeldIsLeased /\ OneHolder /\ FoundIsNew /\ RecordIsMailed
  BY <1>2 DEF HeldIsLeased, OneHolder, FoundIsNew, RecordIsMailed
<1>5. RecordedIsTold /\ ToldWasMailed /\ RecordedMailsAreApart
  BY DEF RecordedIsTold, ToldWasMailed, RecordedMailsAreApart, Unused
<1> QED
  BY <1>1, <1>3, <1>4, <1>5 DEF WatchSound

(* A watch that has been unused is started.                                *)
LEMMA StartKeeps ==
    ASSUME WatchSound, NEW a \in Agent, NEW w \in Watch, StartWatch(a, w)
    PROVE  WatchSound'
<1> USE DEF WatchSound
<1>1. /\ watch' = [watch EXCEPT ![w] = [Unused EXCEPT !.state = "on", !.agent = a]]
      /\ watch[w].state = "unused"
      /\ UNCHANGED <<standing, kept, changes, run, mails, recorded>>
  BY DEF StartWatch
<1>2. /\ watch' \in [Watch -> Row]
      /\ \A v \in Watch \ {w} : watch'[v] = watch[v]
      /\ watch'[w].state = "on" /\ watch'[w].told = {}
  BY <1>1 DEF WatchTypeOK, Row, Unused
<1>3. WatchTypeOK'
  BY <1>1, <1>2 DEF WatchTypeOK
<1>4. \A r \in Run : ~Holds(r, w)
  BY <1>1 DEF WakesAreAtWatches
<1>5. WakesAreAtWatches'
  BY <1>1, <1>2, <1>4 DEF WakesAreAtWatches, Holds
<1>6. HeldIsLeased' /\ OneHolder'
  BY <1>1, <1>2, <1>4 DEF HeldIsLeased, OneHolder, Holds, On
<1>7. FoundIsNew'
  <2> SUFFICES ASSUME NEW r \in Run, run[r].pc \in {"send", "record"}, (On(run[r].at))'
               PROVE  run[r].found \cap watch'[run[r].at].told = {}
    BY <1>1 DEF FoundIsNew
  <2>1. run[r].at \in Watch \ {w}
    BY <1>4 DEF WakesAreAtWatches, CheckingSteps, Holds
  <2> QED
    BY <1>1, <1>2, <2>1 DEF FoundIsNew, On
<1>8. RecordIsMailed'
  BY <1>1 DEF RecordIsMailed, Email
<1>9. RecordedIsTold' /\ RecordedMailsAreApart'
  BY <1>1, <1>2 DEF RecordedIsTold, RecordedMailsAreApart, On, WatchTypeOK, Mail
<1>10. ToldWasMailed'
  BY <1>1, <1>2 DEF ToldWasMailed
<1> QED
  BY <1>3, <1>5, <1>6, <1>7, <1>8, <1>9, <1>10

-----------------------------------------------------------------------------
(* A row changes under nobody, or stops: what it has told stays told, and  *)
(* its lease and its slot stay with whoever is at work on it.              *)
LEMMA RowMoves ==
    ASSUME WatchSound, NEW w \in Watch, NEW row \in Row,
           watch' = [watch EXCEPT ![w] = row],
           row.state = "unused" <=> watch[w].state = "unused",
           row.state = "on" => watch[w].state = "on",
           row.told = watch[w].told \/ (row.told = {} /\ row.state = "gone"),
           \A r \in Run : row.state = "on" /\ Holds(r, w) =>
               row.lease = watch[w].lease /\ row.slot = watch[w].slot,
           UNCHANGED <<standing, kept, changes, run, mails, recorded>>
    PROVE  WatchSound'
<1> USE DEF WatchSound
<1>1. /\ watch' \in [Watch -> Row]
      /\ watch'[w] = row
      /\ \A v \in Watch \ {w} : watch'[v] = watch[v]
  BY DEF WatchTypeOK
<1>2. WatchTypeOK'
  BY <1>1 DEF WatchTypeOK
<1>3. \A v \in Watch :
        /\ (On(v))' => On(v) /\ watch'[v].told = watch[v].told
        /\ watch'[v].told \subseteq watch[v].told
        /\ watch'[v].state = "unused" <=> watch[v].state = "unused"
        /\ \A r \in Run : (Holds(r, v))' <=> Holds(r, v)
  BY <1>1 DEF On, Holds
<1>4. WakesAreAtWatches'
  BY <1>3 DEF WakesAreAtWatches, Holds
<1>5. HeldIsLeased' /\ OneHolder'
  BY <1>1, <1>3 DEF HeldIsLeased, OneHolder, On
<1>6. FoundIsNew'
  BY <1>3 DEF FoundIsNew, WakesAreAtWatches, CheckingSteps
<1>7. RecordIsMailed'
  BY DEF RecordIsMailed, Email
<1>8. RecordedIsTold' /\ RecordedMailsAreApart'
  BY <1>3 DEF RecordedIsTold, RecordedMailsAreApart, WatchTypeOK, Mail
<1>9. ToldWasMailed'
  BY <1>3 DEF ToldWasMailed
<1> QED
  BY <1>2, <1>4, <1>5, <1>6, <1>7, <1>8, <1>9

LEMMA TimeAndAgentKeep ==
    ASSUME WatchSound, NEW w \in Watch, Stop(w) \/ SlotComes(w) \/ RetryComes(w) \/ WatchLeaseLapses(w)
    PROVE  WatchSound'
<1> USE DEF WatchSound
<1>1. watch[w] \in Row
  BY DEF WatchTypeOK
<1>2. CASE Stop(w)
  <2> DEFINE row == [watch[w] EXCEPT !.state = "gone", !.told = {}, !.lease = NoOne,
                                     !.slot = FALSE, !.retry = FALSE]
  <2>1. row \in Row /\ row.state = "gone" /\ row.told = {}
    BY <1>1 DEF Row
  <2>2. watch' = [watch EXCEPT ![w] = row]
    BY <1>2 DEF Stop, Removed, WatchTypeOK
  <2>3. watch[w].state = "on" /\ UNCHANGED <<standing, kept, changes, run, mails, recorded>>
    BY <1>2 DEF Stop, On
  <2> HIDE DEF row
  <2> QED
    BY <2>1, <2>2, <2>3, RowMoves
<1>3. CASE SlotComes(w)
  <2> DEFINE row == [watch[w] EXCEPT !.slot = FALSE]
  <2>1. row \in Row /\ row.state = watch[w].state /\ row.told = watch[w].told
    BY <1>1 DEF Row
  <2>2. watch' = [watch EXCEPT ![w] = row]
    BY <1>3 DEF SlotComes, WatchTypeOK
  <2>3. (\A r \in Run : ~Holds(r, w)) /\ UNCHANGED <<standing, kept, changes, run, mails, recorded>>
    BY <1>3 DEF SlotComes
  <2> HIDE DEF row
  <2> QED
    BY <2>1, <2>2, <2>3, RowMoves
<1>4. CASE RetryComes(w)
  <2> DEFINE row == [watch[w] EXCEPT !.retry = FALSE]
  <2>1. row \in Row /\ row.state = watch[w].state /\ row.told = watch[w].told
    BY <1>1 DEF Row
  <2>2. watch' = [watch EXCEPT ![w] = row]
    BY <1>4 DEF RetryComes, WatchTypeOK
  <2>3. (\A r \in Run : ~Holds(r, w)) /\ UNCHANGED <<standing, kept, changes, run, mails, recorded>>
    BY <1>4 DEF RetryComes
  <2> HIDE DEF row
  <2> QED
    BY <2>1, <2>2, <2>3, RowMoves
<1>5. CASE WatchLeaseLapses(w)
  <2> DEFINE row == [watch[w] EXCEPT !.lease = NoOne]
  <2>1. row \in Row /\ row.state = watch[w].state /\ row.told = watch[w].told
    BY <1>1 DEF Row
  <2>2. watch' = [watch EXCEPT ![w] = row]
    BY <1>5 DEF WatchLeaseLapses, WatchTypeOK
  <2>3. watch[w].lease # NoOne /\ ~Holds(watch[w].lease, w)
        /\ UNCHANGED <<standing, kept, changes, run, mails, recorded>>
    BY <1>5 DEF WatchLeaseLapses
  <2>4. \A r \in Run : watch[w].state = "on" => ~Holds(r, w)
    BY <2>3 DEF HeldIsLeased, On
  <2> HIDE DEF row
  <2> QED
    BY <2>1, <2>2, <2>3, <2>4, RowMoves
<1> QED
  BY <1>2, <1>3, <1>4, <1>5

-----------------------------------------------------------------------------
(* A wake goes on, and mails may be sent: it holds nothing it did not hold, *)
(* and is about to tell only what is new, to record only what was mailed.  *)
LEMMA WakeMoves ==
    ASSUME WatchSound, NEW r \in Run, NEW wake \in Wakes,
           run' = [run EXCEPT ![r] = wake],
           wake.todo \subseteq run[r].todo,
           wake.at \in Watch => wake.at = run[r].at \/ wake.at \in run[r].todo,
           wake.at = run[r].at /\ run[r].pc = "fail" => wake.pc = "fail",
           wake.pc \in CheckingSteps <=> wake.at \in Watch,
           wake.at \notin wake.todo,
           wake.pc = "idle" => wake.todo = {},
           wake.pc \in {"send", "record"} /\ On(wake.at) => wake.found \cap watch[wake.at].told = {},
           wake.pc = "record" =>
               [watch |-> wake.at, told |-> Selected(wake.found)] \in mails' \/ wake.found = {},
           mails' \subseteq Mail, mails \subseteq mails',
           UNCHANGED <<watch, standing, kept, changes, recorded>>
    PROVE  WatchSound'
<1> USE DEF WatchSound
<1>1. /\ run' \in [Run -> Wakes]
      /\ run'[r] = wake
      /\ \A q \in Run \ {r} : run'[q] = run[q]
  BY DEF WatchTypeOK
<1>2. WatchTypeOK'
  BY <1>1 DEF WatchTypeOK
<1>3. \A q \in Run, w \in Watch : ((Holds(q, w))' => Holds(q, w)) /\ ((On(w))' <=> On(w))
  BY <1>1 DEF Holds, On
<1>4. WakesAreAtWatches'
  BY <1>1, <1>3 DEF WakesAreAtWatches, Holds
<1>5. OneHolder'
  BY <1>3 DEF OneHolder
<1>6. HeldIsLeased'
  <2> SUFFICES ASSUME NEW q \in Run, NEW w \in Watch, (On(w))', (Holds(q, w))'
               PROVE  \/ watch[w].lease = q
                      \/ /\ watch[w].lease = NoOne /\ watch[w].slot
                         /\ run'[q].at = w /\ run'[q].pc = "fail"
    BY DEF HeldIsLeased
  <2>1. \/ watch[w].lease = q
        \/ /\ watch[w].lease = NoOne /\ watch[w].slot
           /\ run[q].at = w /\ run[q].pc = "fail"
    BY <1>3 DEF HeldIsLeased
  <2>2. ASSUME q = r, run[r].at = w, run[r].pc = "fail" PROVE wake.at = w /\ wake.pc = "fail"
    BY <2>2, <1>1 DEF WakesAreAtWatches, Holds
  <2> QED
    BY <1>1, <2>1, <2>2
<1>7. FoundIsNew'
  BY <1>1 DEF FoundIsNew, On
<1>8. RecordIsMailed'
  BY <1>1 DEF RecordIsMailed, Email
<1>9. RecordedIsTold' /\ RecordedMailsAreApart'
  BY DEF RecordedIsTold, RecordedMailsAreApart, On
<1>10. ToldWasMailed'
  BY DEF ToldWasMailed
<1> QED
  BY <1>2, <1>4, <1>5, <1>6, <1>7, <1>8, <1>9, <1>10

LEMMA ReadsKeep ==
    ASSUME WatchSound, NEW r \in Run, NEW w \in Watch,
           Begin(r, w) \/ AskStanding(r, w) \/ AskPoint(r, w) \/ ReadLedger(r, w) \/ ReadSeen(r, w)
    PROVE  WatchSound'
<1> USE DEF WatchSound
<1>1. /\ run[r] \in Wakes /\ mails \subseteq Mail /\ changes \subseteq Change
      /\ run[r].pc \in CheckingSteps <=> run[r].at \in Watch
      /\ run[r].at \notin run[r].todo
  BY DEF WatchTypeOK, WakesAreAtWatches
<1>2. CASE Begin(r, w)
  <2> DEFINE wake == [run[r] EXCEPT !.pc = "open", !.at = w, !.todo = @ \ {w}]
  <2>1. /\ wake \in Wakes /\ wake.pc = "open" /\ wake.at = w /\ wake.todo = run[r].todo \ {w}
        /\ w \in run[r].todo /\ run[r].pc = "loop"
    BY <1>1, <1>2 DEF Begin, Wakes, Steps
  <2>2. run' = [run EXCEPT ![r] = wake] /\ UNCHANGED <<watch, standing, kept, changes, mails, recorded>>
    BY <1>2 DEF Begin, WatchTypeOK
  <2> HIDE DEF wake
  <2> QED
    BY <1>1, <2>1, <2>2, WakeMoves DEF CheckingSteps
<1>3. ASSUME NEW pc \in {"point", "end", "read"}, GotoStep(r, pc), run[r].pc \in {"open", "point"},
             UNCHANGED <<watch, standing, kept, changes, mails, recorded>>
      PROVE  WatchSound'
  <2> DEFINE wake == [run[r] EXCEPT !.pc = pc]
  <2>1. wake \in Wakes /\ wake.pc = pc /\ wake.at = run[r].at /\ wake.todo = run[r].todo
    BY <1>1 DEF Wakes, Steps
  <2>2. run' = [run EXCEPT ![r] = wake]
    BY <1>3 DEF GotoStep, WatchTypeOK
  <2> HIDE DEF wake
  <2> QED
    BY <1>1, <1>3, <2>1, <2>2, WakeMoves DEF CheckingSteps
<1>4. CASE AskStanding(r, w) \/ AskPoint(r, w)
  BY <1>3, <1>4 DEF AskStanding, AskPoint
<1>5. CASE ReadLedger(r, w)
  <2> DEFINE wake == [run[r] EXCEPT !.pc = "seen", !.found = changes]
  <2>1. /\ wake \in Wakes /\ wake.pc = "seen" /\ wake.at = run[r].at /\ wake.todo = run[r].todo
        /\ run[r].pc = "read"
    BY <1>1, <1>5 DEF Wakes, Steps, ReadLedger
  <2>2. run' = [run EXCEPT ![r] = wake] /\ UNCHANGED <<watch, standing, kept, changes, mails, recorded>>
    BY <1>5 DEF ReadLedger, WatchTypeOK
  <2> HIDE DEF wake
  <2> QED
    BY <1>1, <2>1, <2>2, WakeMoves DEF CheckingSteps
<1>6. CASE ReadSeen(r, w)
  <2> DEFINE new  == Untold(r, w)
             wake == [run[r] EXCEPT !.pc = AfterSeen(new), !.found = new]
  <2>1. new \subseteq Change /\ new \cap watch[w].told = {} /\ run[r].at = w /\ run[r].pc = "seen"
    BY <1>1, <1>6 DEF ReadSeen, Untold, Wakes
  <2>2. /\ wake \in Wakes /\ wake.at = w /\ wake.todo = run[r].todo /\ wake.found = new
        /\ wake.pc \in {"send", "record"} /\ (wake.pc = "record" => new = {})
    BY <1>1, <2>1 DEF Wakes, Steps, AfterSeen
  <2>3. run' = [run EXCEPT ![r] = wake] /\ UNCHANGED <<watch, standing, kept, changes, mails, recorded>>
    BY <1>6 DEF ReadSeen, WatchTypeOK
  <2> HIDE DEF wake, new
  <2> QED
    BY <1>1, <2>1, <2>2, <2>3, WakeMoves DEF CheckingSteps
<1> QED
  BY <1>2, <1>4, <1>5, <1>6

LEMMA SendsKeep ==
    ASSUME WatchSound, NEW r \in Run,
           (\E w \in Watch : Send(r, w)) \/ LoseAnswerOfSend(r)
    PROVE  WatchSound'
<1> USE DEF WatchSound
<1>1. PICK pc \in {"record", "fail"} :
        /\ run[r].pc = "send" /\ mails' = mails \cup {Email(r)} /\ GotoStep(r, pc)
        /\ UNCHANGED <<watch, standing, kept, changes, recorded>>
  BY DEF Send, LoseAnswerOfSend
<1>2. /\ run[r] \in Wakes /\ mails \subseteq Mail
      /\ run[r].at \in Watch /\ run[r].at \notin run[r].todo
  BY <1>1 DEF WatchTypeOK, WakesAreAtWatches, CheckingSteps
<1> DEFINE wake == [run[r] EXCEPT !.pc = pc]
<1>3. /\ wake \in Wakes /\ wake.pc = pc /\ wake.at = run[r].at /\ wake.todo = run[r].todo
      /\ wake.found = run[r].found /\ run[r].found \subseteq Change
  BY <1>2 DEF Wakes, Steps
<1>4. Email(r) \in Mail /\ Email(r) = [watch |-> wake.at, told |-> Selected(wake.found)]
  BY <1>2, <1>3, SelectedIsFound DEF Email, Mail
<1>5. run' = [run EXCEPT ![r] = wake]
  BY <1>1 DEF GotoStep, WatchTypeOK
<1>6. wake.pc \in {"send", "record"} /\ On(wake.at) => wake.found \cap watch[wake.at].told = {}
  BY <1>1, <1>3 DEF FoundIsNew
<1> HIDE DEF wake
<1> QED
  BY <1>1, <1>2, <1>3, <1>4, <1>5, <1>6, WakeMoves DEF CheckingSteps

LEMMA DepartureKeeps ==
    ASSUME WatchSound, NEW r \in Run, GoToSleep(r) \/ FailureLost(r) \/ Die(r) \/ CannotFinish(r)
    PROVE  WatchSound'
<1> USE DEF WatchSound
<1>1. /\ run[r] \in Wakes /\ mails \subseteq Mail
      /\ run[r].pc \in CheckingSteps <=> run[r].at \in Watch
      /\ run[r].at \notin run[r].todo
  BY DEF WatchTypeOK, WakesAreAtWatches
<1>2. CASE GoToSleep(r) \/ Die(r)
  <2>1. /\ Asleep \in Wakes /\ Asleep.pc = "idle" /\ Asleep.at = NoOne /\ Asleep.todo = {}
        /\ run' = [run EXCEPT ![r] = Asleep]
        /\ UNCHANGED <<watch, standing, kept, changes, mails, recorded>>
    BY <1>2 DEF Asleep, Wakes, Steps, GoToSleep, Die
  <2> QED
    BY <1>1, <2>1, WakeMoves DEF CheckingSteps
<1>3. CASE FailureLost(r)
  <2> DEFINE wake == [run[r] EXCEPT !.pc = "loop", !.at = NoOne, !.found = {}]
  <2>1. wake \in Wakes /\ wake.pc = "loop" /\ wake.at = NoOne /\ wake.todo = run[r].todo
    BY <1>1 DEF Wakes, Steps
  <2>2. run' = [run EXCEPT ![r] = wake] /\ UNCHANGED <<watch, standing, kept, changes, mails, recorded>>
    BY <1>3 DEF FailureLost, NextWatch, WatchTypeOK
  <2>3. NoOne \notin run[r].todo
    BY <1>1 DEF Wakes
  <2> HIDE DEF wake
  <2> QED
    BY <1>1, <2>1, <2>2, <2>3, WakeMoves DEF CheckingSteps
<1>4. CASE CannotFinish(r)
  <2> DEFINE wake == [run[r] EXCEPT !.pc = "fail"]
  <2>1. /\ wake \in Wakes /\ wake.pc = "fail" /\ wake.at = run[r].at /\ wake.todo = run[r].todo
        /\ run[r].pc \in CheckingSteps
    BY <1>1, <1>4 DEF Wakes, Steps, CannotFinish, CheckingSteps
  <2>2. run' = [run EXCEPT ![r] = wake] /\ UNCHANGED <<watch, standing, kept, changes, mails, recorded>>
    BY <1>4 DEF CannotFinish, GotoStep, WatchTypeOK
  <2> HIDE DEF wake
  <2> QED
    BY <1>1, <2>1, <2>2, WakeMoves DEF CheckingSteps
<1> QED
  BY <1>2, <1>3, <1>4

-----------------------------------------------------------------------------
(* A wake takes only what nobody holds.                                    *)
LEMMA DueClaimKeeps ==
    ASSUME WatchSound, NEW r \in Run, ClaimDue(r)
    PROVE  WatchSound'
<1> USE DEF WatchSound
<1>1. PICK taken \in SUBSET {w \in Watch : Due(w)} :
        /\ run[r].pc = "idle"
        /\ watch' = [w \in Watch |-> IF w \in taken THEN [watch[w] EXCEPT !.lease = r] ELSE watch[w]]
        /\ run' = [run EXCEPT ![r] = [Asleep EXCEPT !.pc = "loop", !.todo = taken]]
        /\ UNCHANGED <<standing, kept, changes, mails, recorded>>
  BY DEF ClaimDue
<1>2. /\ run' \in [Run -> Wakes]
      /\ run'[r].pc = "loop" /\ run'[r].at = NoOne /\ run'[r].todo = taken
      /\ \A q \in Run \ {r} : run'[q] = run[q]
  BY <1>1 DEF WatchTypeOK, Wakes, Steps, Asleep
<1>3. /\ watch' \in [Watch -> Row]
      /\ \A w \in Watch :
           /\ watch'[w].state = watch[w].state /\ watch'[w].told = watch[w].told
           /\ watch'[w].slot = watch[w].slot
           /\ watch'[w].lease = IF w \in taken THEN r ELSE watch[w].lease
  BY <1>1 DEF WatchTypeOK, Row
<1>4. WatchTypeOK'
  BY <1>1, <1>2, <1>3 DEF WatchTypeOK
<1>5. /\ \A w \in taken : On(w) /\ \A q \in Run : ~Holds(q, w)
      /\ \A w \in Watch : ~Holds(r, w)
  <2>1. \A w \in taken : On(w) /\ ~watch[w].slot /\ watch[w].lease = NoOne
    BY DEF Due
  <2>2. \A w \in taken, q \in Run : ~Holds(q, w)
    BY <2>1 DEF HeldIsLeased
  <2>3. \A w \in Watch : ~Holds(r, w)
    BY <1>1 DEF WakesAreAtWatches, Holds, CheckingSteps
  <2> QED
    BY <2>1, <2>2, <2>3
<1>6. \A w \in Watch :
        /\ (On(w))' <=> On(w)
        /\ (Holds(r, w))' <=> w \in taken
        /\ \A q \in Run \ {r} : (Holds(q, w))' <=> Holds(q, w)
  BY <1>2, <1>3 DEF Holds, On
<1>7. WakesAreAtWatches'
  BY <1>2, <1>3, <1>5, <1>6 DEF WakesAreAtWatches, CheckingSteps, On
<1>8. HeldIsLeased' /\ OneHolder'
  BY <1>2, <1>3, <1>5, <1>6 DEF HeldIsLeased, OneHolder
<1>9. FoundIsNew' /\ RecordIsMailed'
  <2>1. FoundIsNew'
    BY <1>2, <1>3, <1>6 DEF FoundIsNew, WakesAreAtWatches, CheckingSteps
  <2>2. RecordIsMailed'
    BY <1>1, <1>2 DEF RecordIsMailed, Email
  <2> QED
    BY <2>1, <2>2
<1>10. RecordedIsTold' /\ RecordedMailsAreApart'
  BY <1>1, <1>3, <1>6 DEF RecordedIsTold, RecordedMailsAreApart, WatchTypeOK, Mail
<1>11. ToldWasMailed'
  BY <1>1, <1>3 DEF ToldWasMailed
<1> QED
  BY <1>4, <1>7, <1>8, <1>9, <1>10, <1>11

-----------------------------------------------------------------------------
(* A wake ends with the watch it is at, and changes its row as it goes: the *)
(* watch is over, or is put off, and what is new may be kept as told.      *)
LEMMA WakeLeavesRow ==
    ASSUME WatchSound, NEW r \in Run, NEW w \in Watch, On(w), run[r].at = w,
           NEW wake \in Wakes, NEW row \in Row, NEW new \in SUBSET Change,
           run' = [run EXCEPT ![r] = wake],
           watch' = [watch EXCEPT ![w] = row],
           wake.todo = run[r].todo,
           \/ wake.pc = "loop" /\ wake.at = NoOne
           \/ wake.pc = "fail" /\ wake.at = w /\ row.state = "on" /\ row.lease = NoOne /\ row.slot,
           \/ row.state = "gone" /\ row.told = {}
           \/ row.state = "on" /\ row.told = watch[w].told \cup new,
           new \cap watch[w].told = {},
           new = {} \/ [watch |-> w, told |-> new] \in mails,
           \/ recorded' = recorded
           \/ row.state = "on" /\ new # {} /\ recorded' = recorded \cup {[watch |-> w, told |-> new]},
           UNCHANGED <<standing, kept, changes, mails>>
    PROVE  WatchSound'
<1> USE DEF WatchSound
<1> DEFINE mail == [watch |-> w, told |-> new]
<1>1. /\ run' \in [Run -> Wakes] /\ run'[r] = wake
      /\ \A q \in Run \ {r} : run'[q] = run[q]
      /\ watch' \in [Watch -> Row] /\ watch'[w] = row
      /\ \A v \in Watch \ {w} : watch'[v] = watch[v]
  BY DEF WatchTypeOK
<1>2. WatchTypeOK'
  BY <1>1 DEF WatchTypeOK
<1>3. /\ Holds(r, w) /\ run[r].at \notin run[r].todo
      /\ \A q \in Run \ {r} : ~Holds(q, w)
  BY DEF Holds, OneHolder, WakesAreAtWatches
<1>4. /\ \A q \in Run, v \in Watch : (Holds(q, v))' => Holds(q, v)
      /\ (Holds(r, w))' => wake.pc = "fail" /\ wake.at = w
  BY <1>1, <1>3 DEF Holds
<1>5. WakesAreAtWatches'
  <2>1. \A q \in Run, v \in Watch : (Holds(q, v))' => watch'[v].state # "unused"
    BY <1>1, <1>4 DEF WakesAreAtWatches
  <2>2. NoOne \notin run[r].todo
    BY DEF WatchTypeOK, Wakes
  <2>3. /\ wake.pc \in CheckingSteps <=> wake.at \in Watch
        /\ wake.at \notin wake.todo
        /\ wake.pc # "idle"
    BY <1>3, <2>2 DEF CheckingSteps
  <2> QED
    BY <1>1, <2>1, <2>3 DEF WakesAreAtWatches
<1>6. HeldIsLeased'
  <2> SUFFICES ASSUME NEW q \in Run, NEW v \in Watch, (On(v))', (Holds(q, v))'
               PROVE  \/ watch'[v].lease = q
                      \/ /\ watch'[v].lease = NoOne /\ watch'[v].slot
                         /\ run'[q].at = v /\ run'[q].pc = "fail"
    BY DEF HeldIsLeased
  <2>1. CASE v = w
    BY <1>1, <1>3, <1>4, <2>1
  <2>2. CASE v # w
    <3>1. On(v) /\ Holds(q, v) /\ watch'[v] = watch[v]
      BY <1>1, <1>4, <2>2 DEF On
    <3>2. watch[v].lease = q \/ (watch[v].lease = NoOne /\ watch[v].slot /\ run[q].at = v /\ run[q].pc = "fail")
      BY <3>1 DEF HeldIsLeased
    <3>3. q = r => run[q].at # v
      BY <2>2
    <3> QED
      BY <1>1, <3>1, <3>2, <3>3
  <2> QED
    BY <2>1, <2>2
<1>7. OneHolder'
  <2> SUFFICES ASSUME NEW p \in Run, NEW q \in Run, NEW v \in Watch,
                      (On(v))', (Holds(p, v))', (Holds(q, v))'
               PROVE  p = q
    BY DEF OneHolder
  <2>1. On(v)
    BY <1>1 DEF On
  <2> QED
    BY <1>4, <2>1 DEF OneHolder
<1>8. FoundIsNew'
  <2> SUFFICES ASSUME NEW q \in Run, run'[q].pc \in {"send", "record"}, (On(run[q].at))'
               PROVE  run'[q].found \cap watch'[run'[q].at].told = {}
    BY <1>1 DEF FoundIsNew
  <2>1. q # r
    BY <1>1
  <2>2. run[q].at \in Watch /\ run[q].at # w
    BY <1>1, <1>3, <2>1 DEF WakesAreAtWatches, CheckingSteps, Holds
  <2> QED
    BY <1>1, <2>1, <2>2 DEF FoundIsNew, On
<1>9. RecordIsMailed'
  BY <1>1 DEF RecordIsMailed, Email
<1>10. RecordedIsTold'
  <2> SUFFICES ASSUME NEW m \in recorded'
               PROVE  /\ watch'[m.watch].state # "unused"
                      /\ (On(m.watch))' => m.told \subseteq watch'[m.watch].told
    BY DEF RecordedIsTold
  <2>1. CASE m \in recorded
    <3>1. m.watch \in Watch /\ watch[m.watch].state # "unused"
          /\ (On(m.watch) => m.told \subseteq watch[m.watch].told)
      BY <2>1 DEF RecordedIsTold, WatchTypeOK, Mail
    <3> QED
      BY <1>1, <3>1 DEF On
  <2>2. CASE m = mail
    BY <1>1, <2>2 DEF On
  <2> QED
    BY <2>1, <2>2
<1>11. RecordedMailsAreApart'
  <2>1. \A m \in recorded : m.watch = w => m.told \cap new = {}
    BY DEF RecordedIsTold
  <2> QED
    BY <2>1 DEF RecordedMailsAreApart
<1>12. ToldWasMailed'
  BY <1>1 DEF ToldWasMailed
<1> QED
  BY <1>2, <1>5, <1>6, <1>7, <1>8, <1>9, <1>10, <1>11, <1>12

LEMMA WatchEndKeeps ==
    ASSUME WatchSound, NEW r \in Run, NEW w \in Watch, EndWatch(r, w) \/ RecordFailure(r, w)
    PROVE  WatchSound'
<1> DEFINE wake == [run[r] EXCEPT !.pc = "loop", !.at = NoOne, !.found = {}]
<1>1. /\ run[r] \in Wakes /\ mails \subseteq Mail /\ watch[w] \in Row
      /\ run[r].at = w /\ NoOne \notin run[r].todo
  BY DEF WatchSound, WatchTypeOK, Wakes, EndWatch, RecordFailure
<1>2. wake \in Wakes /\ wake.pc = "loop" /\ wake.at = NoOne /\ wake.todo = run[r].todo
  BY <1>1 DEF Wakes, Steps
<1>3. run' = [run EXCEPT ![r] = wake] /\ UNCHANGED <<standing, kept, changes, mails, recorded>>
  BY DEF EndWatch, RecordFailure, NextWatch, WatchSound, WatchTypeOK
<1>4. CASE ~On(w)
  <2>1. UNCHANGED watch
    BY <1>4 DEF EndWatch, RecordFailure
  <2> HIDE DEF wake
  <2> QED
    BY <1>1, <1>2, <1>3, <2>1, WakeMoves DEF CheckingSteps
<1>5. CASE On(w) /\ EndWatch(r, w)
  <2> DEFINE row == [watch[w] EXCEPT !.state = "gone", !.told = {}, !.lease = NoOne,
                                     !.slot = FALSE, !.retry = FALSE]
  <2>1. row \in Row /\ row.state = "gone" /\ row.told = {}
    BY <1>1 DEF Row
  <2>2. watch' = [watch EXCEPT ![w] = row]
    BY <1>5 DEF EndWatch, Removed, WatchSound, WatchTypeOK
  <2> HIDE DEF wake, row
  <2> QED
    BY <1>1, <1>2, <1>3, <1>5, <2>1, <2>2, WakeLeavesRow, {} \in SUBSET Change
<1>6. CASE On(w) /\ RecordFailure(r, w)
  <2> DEFINE row == [watch[w] EXCEPT !.retry = TRUE, !.lease = NoOne]
  <2>1. row \in Row /\ row.state = "on" /\ row.told = watch[w].told \cup {}
    BY <1>1, <1>6 DEF Row, On
  <2>2. watch' = [watch EXCEPT ![w] = row]
    BY <1>6 DEF RecordFailure, WatchSound, WatchTypeOK
  <2> HIDE DEF wake, row
  <2> QED
    BY <1>1, <1>2, <1>3, <1>6, <2>1, <2>2, WakeLeavesRow, {} \in SUBSET Change
<1> QED
  BY <1>4, <1>5, <1>6

LEMMA RecordKeeps ==
    ASSUME WatchSound, NEW r \in Run,
           (\E w \in Watch : RecordRun(r, w)) \/ LoseAnswerOfRecord(r)
    PROVE  WatchSound'
<1> DEFINE w == run[r].at
<1>1. /\ run[r].pc = "record" /\ run[r] \in Wakes /\ mails \subseteq Mail
      /\ w \in Watch /\ w \notin run[r].todo /\ NoOne \notin run[r].todo /\ watch[w] \in Row
  BY DEF WatchSound, WatchTypeOK, Wakes, WakesAreAtWatches, CheckingSteps, RecordRun, LoseAnswerOfRecord
<1>2. PICK wake \in Wakes :
        /\ run' = [run EXCEPT ![r] = wake] /\ wake.todo = run[r].todo
        /\ \/ wake.pc = "loop" /\ wake.at = NoOne
           \/ wake.pc = "fail" /\ wake.at = w
  <2>1. CASE \E v \in Watch : RecordRun(r, v)
    <3> DEFINE wake == [run[r] EXCEPT !.pc = "loop", !.at = NoOne, !.found = {}]
    <3>1. wake \in Wakes /\ wake.pc = "loop" /\ wake.at = NoOne /\ wake.todo = run[r].todo
      BY <1>1 DEF Wakes, Steps
    <3>2. run' = [run EXCEPT ![r] = wake]
      BY <2>1 DEF RecordRun, NextWatch, WatchSound, WatchTypeOK
    <3> QED
      BY <3>1, <3>2
  <2>2. CASE LoseAnswerOfRecord(r)
    <3> DEFINE wake == [run[r] EXCEPT !.pc = "fail"]
    <3>1. wake \in Wakes /\ wake.pc = "fail" /\ wake.at = w /\ wake.todo = run[r].todo
      BY <1>1 DEF Wakes, Steps
    <3>2. run' = [run EXCEPT ![r] = wake]
      BY <2>2 DEF LoseAnswerOfRecord, GotoStep, WatchSound, WatchTypeOK
    <3> QED
      BY <3>1, <3>2
  <2> QED
    BY <2>1, <2>2
<1>3. RunOutcome(r, w) /\ UNCHANGED <<standing, kept, changes, mails>>
  BY DEF RecordRun, LoseAnswerOfRecord
<1>4. CASE ~On(w)
  <2>1. UNCHANGED <<watch, recorded>>
    BY <1>3, <1>4 DEF RunOutcome
  <2> HIDE DEF w
  <2> QED
    BY <1>1, <1>2, <1>3, <2>1, WakeMoves DEF CheckingSteps, w
<1>5. CASE On(w)
  <2> DEFINE new == Told(r)
             row == [watch[w] EXCEPT !.told = @ \cup new, !.slot = TRUE,
                                     !.retry = FALSE, !.lease = NoOne]
  <2>1. new \subseteq run[r].found /\ new \subseteq Change
    BY <1>1, SelectedIsFound DEF Told, Wakes
  <2>2. new \cap watch[w].told = {}
    BY <1>1, <1>5, <2>1 DEF WatchSound, FoundIsNew
  <2>3. /\ Email(r) = [watch |-> w, told |-> new]
        /\ new = {} \/ [watch |-> w, told |-> new] \in mails
    BY <1>1, SelectedOfNothing DEF WatchSound, RecordIsMailed, Email, Told
  <2>4. /\ row \in Row /\ row.state = "on" /\ row.told = watch[w].told \cup new
        /\ row.lease = NoOne /\ row.slot
    BY <1>1, <1>5, <2>1 DEF Row, On
  <2>5. watch' = [watch EXCEPT ![w] = row]
    BY <1>1, <1>3, <1>5 DEF RunOutcome, WatchSound, WatchTypeOK
  <2>6. recorded' = recorded \/ (new # {} /\ recorded' = recorded \cup {[watch |-> w, told |-> new]})
    BY <1>3, <1>5, <2>3 DEF RunOutcome
  <2> HIDE DEF new, row
  <2> QED
    BY <1>1, <1>2, <1>3, <1>5, <2>1, <2>2, <2>3, <2>4, <2>5, <2>6, WakeLeavesRow
<1> QED
  BY <1>4, <1>5

LEMMA AroundKeeps ==
    ASSUME WatchSound,
           \/ \E a \in Agent : LoseStanding(a)
           \/ PurgeContext
           \/ \E c \in Change : RecordChange(c)
           \/ UNCHANGED watchVars
    PROVE  WatchSound'
<1>1. UNCHANGED <<watch, run, mails, recorded>>
  BY DEF LoseStanding, PurgeContext, RecordChange, watchVars
<1>2. WatchTypeOK'
  BY <1>1 DEF WatchSound, WatchTypeOK, LoseStanding, PurgeContext, RecordChange, watchVars
<1>3. /\ \A r \in Run, w \in Watch : ((Holds(r, w))' <=> Holds(r, w)) /\ ((On(w))' <=> On(w))
      /\ \A r \in Run : Email(r)' = Email(r)
  BY <1>1 DEF Holds, On, Email
<1> QED
  BY <1>1, <1>2, <1>3 DEF WatchSound, WakesAreAtWatches, HeldIsLeased, OneHolder, FoundIsNew, On, Holds, Email,
       RecordIsMailed, RecordedIsTold, ToldWasMailed, RecordedMailsAreApart

LEMMA WatchStepKeeps == WatchSound /\ [WatchNext]_watchVars => WatchSound'
<1> SUFFICES ASSUME WatchSound, [WatchNext]_watchVars PROVE WatchSound'
  OBVIOUS
<1>1. CASE \E w \in Watch, a \in Agent : StartWatch(a, w)
  BY <1>1, StartKeeps
<1>2. CASE \E w \in Watch : Stop(w) \/ SlotComes(w) \/ RetryComes(w) \/ WatchLeaseLapses(w)
  BY <1>2, TimeAndAgentKeep
<1>3. CASE \E r \in Run : ClaimDue(r)
  BY <1>3, DueClaimKeeps
<1>4. CASE \E r \in Run, w \in Watch :
             \/ Begin(r, w) \/ AskStanding(r, w) \/ AskPoint(r, w) \/ ReadLedger(r, w) \/ ReadSeen(r, w)
  BY <1>4, ReadsKeep
<1>5. CASE \E r \in Run : (\E w \in Watch : Send(r, w)) \/ LoseAnswerOfSend(r)
  BY <1>5, SendsKeep
<1>6. CASE \E r \in Run : GoToSleep(r) \/ FailureLost(r) \/ Die(r) \/ CannotFinish(r)
  BY <1>6, DepartureKeeps
<1>7. CASE \E r \in Run, w \in Watch : EndWatch(r, w) \/ RecordFailure(r, w)
  BY <1>7, WatchEndKeeps
<1>8. CASE \E r \in Run : (\E w \in Watch : RecordRun(r, w)) \/ LoseAnswerOfRecord(r)
  BY <1>8, RecordKeeps
<1>9. CASE \/ \E a \in Agent : LoseStanding(a)
           \/ PurgeContext
           \/ \E c \in Change : RecordChange(c)
           \/ UNCHANGED watchVars
  BY <1>9, AroundKeeps
<1> QED
  BY <1>1, <1>2, <1>3, <1>4, <1>5, <1>6, <1>7, <1>8, <1>9 DEF WatchNext, Checks

LEMMA WatchStaysSound == WatchSpec => []WatchSound
BY WatchStartsSound, WatchStepKeeps, PTL DEF WatchSpec

-----------------------------------------------------------------------------
(* Watches, wakes, changes and mails hold what their types say, and a mail *)
(* that was recorded was accepted (property-watch.sql).                    *)
THEOREM WatchIsTyped == WatchSpec => []WatchTypeOK
<1>1. WatchSound => WatchTypeOK
  BY DEF WatchSound
<1> QED
  BY <1>1, WatchStaysSound, PTL

(* What a watch keeps as told is what some accepted mail listed, however    *)
(* many wakes run, die, or lose their answers (property-watch.sql, rule    *)
(* 10; run-property-watch/handler.ts, processWatch).                       *)
THEOREM ToldIsMailed == WatchSpec => []ToldWasMailed
<1>1. WatchSound => ToldWasMailed
  BY DEF WatchSound
<1> QED
  BY <1>1, WatchStaysSound, PTL

(* No change is in two recorded mails of one watch, however many wakes and  *)
(* watches there are (property-watch.sql, rule 9).                         *)
THEOREM RecordedMailsStayApart == WatchSpec => []RecordedMailsAreApart
<1>1. WatchSound => RecordedMailsAreApart
  BY DEF WatchSound
<1> QED
  BY <1>1, WatchStaysSound, PTL

(* Two wakes are never at work on one watch (property_watch_claim).        *)
THEOREM OneWakePerWatch == WatchSpec => []OneHolder
<1>1. WatchSound => OneHolder
  BY DEF WatchSound
<1> QED
  BY <1>1, WatchStaysSound, PTL
=============================================================================

----------------------------- MODULE VideoQueue -----------------------------
(***************************************************************************)
(* One video of a project, from its review to its post on Bluesky.         *)
(*                                                                         *)
(*   docs/video-bluesky-queue.sql            the job, its guard, the       *)
(*       dashboard's and the worker's functions                            *)
(*   docs/youtube-video-file-decide-queue-apply.sql   the decision and its *)
(*       job in one transaction                                            *)
(*   docs/youtube-video-revisions.sql, youtube-video-rebuild.sql           *)
(*       a new version of the file, made while the old one is under review *)
(*                                                                         *)
(* Every function but the caption's holds the row that its decision reads  *)
(* until it commits: it is one step.  The worker is another repository's:  *)
(* it may die anywhere, and posts while the lease it was given lasts.      *)
(***************************************************************************)
EXTENDS Naturals

CONSTANTS
    Worker,          \* owners of leases; each brings a record key of its own
    None,
    AttemptLimit,    \* claims of one approval: 6
    RetryLimit,      \* claims after which a failure is final: 3
    MaxContent       \* bound: versions of what would be posted

ASSUME QueueAssumption ==
    /\ None \notin Worker
    /\ AttemptLimit \in Nat \ {0} /\ RetryLimit \in Nat /\ MaxContent \in Nat \ {0}

VARIABLES
    review,          \* the decision, what would be posted, and if it lacks something
    revising,        \* a new version of the file is being made
    editing,         \* a caption has passed its check and is not written
    job,             \* the row of video_bluesky_jobs
    worker,
    posts            \* external: the records on Bluesky, by key

queueVars == <<review, revising, editing, job, worker, posts>>

InFlight == {"uploading", "processing", "publishing"}
Final == {"published", "external"}
Status == {"none", "held", "scheduled", "failed", "cancelled"} \cup InFlight \cup Final

(* At most one record bears a key: posting again writes it again.          *)
QueueInit ==
    /\ review \in [decision : {"pending"}, content : {1}, lacking : BOOLEAN]
    /\ revising = FALSE /\ editing = FALSE
    /\ job = [status |-> "none", frozen |-> 0, key |-> None, cancel |-> FALSE,
              attempts |-> 0, owner |-> None, leased |-> FALSE]
    /\ worker = [w \in Worker |-> [phase |-> "idle", text |-> 0, leased |-> FALSE]]
    /\ posts = [w \in Worker |-> 0]

-----------------------------------------------------------------------------
(* The job's row.                                                          *)

Cancelled(j) == [j EXCEPT !.status = "cancelled"]
Freed(j) == [j EXCEPT !.owner = None, !.leased = FALSE]

(* Fault: a job in flight takes up what is approved now.                   *)
ApplyInFlight(j, r) ==
    IF j.status \in Final THEN j
    ELSE IF r.decision # "approved" THEN Cancelled(j)
    ELSE [j EXCEPT !.frozen = r.content, !.cancel = FALSE, !.attempts = 0,
                   !.status = IF @ \in InFlight THEN @
                              ELSE IF r.lacking THEN "held" ELSE "scheduled"]

(* What is approved is frozen into the job.  A job in flight is left alone. *)
video_bsky_apply(j, r) ==
    IF j.status \in Final \cup InFlight THEN j
    ELSE IF r.decision # "approved" THEN Cancelled(j)
    ELSE [j EXCEPT !.frozen = r.content, !.cancel = FALSE, !.attempts = 0,
                   !.status = IF r.lacking THEN "held" ELSE "scheduled"]

(* The job after a decision, written in the decision's transaction.        *)
video_bsky_sync(j, r) ==
    IF r.decision = "approved"
    THEN IF j.status = "scheduled" /\ j.frozen = r.content THEN j ELSE video_bsky_apply(j, r)
    ELSE IF j.status \in {"held", "scheduled", "failed"} THEN Cancelled(j)
    ELSE IF j.status \in InFlight THEN [j EXCEPT !.cancel = TRUE]
    ELSE j

(* video_bluesky_jobs_guard: what a move into another state of flight asks. *)
MayFly(j) == review.decision = "approved" /\ j.frozen = review.content /\ ~j.cancel

-----------------------------------------------------------------------------
(* The review.  A caption being written holds the review's row.            *)

Reviewed(r) == review' = r /\ job' = video_bsky_sync(job, r)

Withdrawn(r) == [r EXCEPT !.decision = "pending"]

hs_youtube_video_file_decide ==
    \E decision \in {"approved", "rejected", "pending"} :
      /\ ~editing
      /\ decision = "approved" => ~revising
      /\ Reviewed([review EXCEPT !.decision = decision])
      /\ UNCHANGED <<revising, editing, worker, posts>>

(* The caption's function looks at the job without its lock ...            *)
CaptionChecked ==
    /\ ~editing /\ review.content < MaxContent
    /\ job.status \notin Final \cup InFlight
    /\ editing' = TRUE
    /\ UNCHANGED <<review, revising, job, worker, posts>>

(* ... and by the time it writes a worker may have claimed it.             *)
CaptionWritten ==
    LET edited == [review EXCEPT !.content = review.content + 1]
    IN  /\ editing /\ editing' = FALSE
        /\ \/ /\ review.decision = "approved" /\ Reviewed(Withdrawn(edited))
           \/ /\ review.decision # "approved" /\ review' = edited /\ job' = job
           \/ UNCHANGED <<review, job>>    \* it fails: a deadlock, a timeout
        /\ UNCHANGED <<revising, worker, posts>>

(* The first link of a project releases what only lacked it; another link  *)
(* or none withdraws the approval.                                         *)
hs_video_youtube_url_set ==
    /\ ~editing /\ review.content < MaxContent
    /\ \E lacking \in BOOLEAN :
         LET linked == [review EXCEPT !.content = review.content + 1, !.lacking = lacking]
         IN  \/ review.lacking /\ ~lacking /\ Reviewed(linked)
             \/ /\ ~review.lacking
                /\ \/ review.decision = "approved" /\ Reviewed(Withdrawn(linked))
                   \/ review.decision # "approved" /\ review' = linked /\ job' = job
    /\ UNCHANGED <<revising, editing, worker, posts>>

(* hs_video_reconcile_done, or a file that arrives, which tells no job.    *)
LackingIsMet ==
    /\ ~editing /\ review.lacking
    /\ \/ Reviewed([review EXCEPT !.lacking = FALSE])
       \/ review' = [review EXCEPT !.lacking = FALSE] /\ job' = job
    /\ UNCHANGED <<revising, editing, worker, posts>>

hs_video_job_cancel ==
    /\ ~editing /\ job.status \notin Final \cup {"none"}
    /\ Reviewed(Withdrawn(review))
    /\ UNCHANGED <<revising, editing, worker, posts>>

(* It takes the job's lock only: a caption may be half written.            *)
hs_video_job_retry ==
    /\ job.status \in {"held", "failed"}
    /\ job' = video_bsky_apply(job, review)
    /\ UNCHANGED <<review, revising, editing, worker, posts>>

video_job_mark_external ==
    /\ ~editing /\ job.status \notin InFlight \cup {"published"}
    /\ job' = [Freed(job) EXCEPT !.status = "external"]
    /\ UNCHANGED <<review, revising, editing, worker, posts>>

(* A rejection that asks for another version; a rebuild, or the retry of a *)
(* version that failed, which holds the version's row only, rejects nothing. *)
StartRevision ==
    /\ ~revising /\ revising' = TRUE
    /\ \/ ~editing /\ Reviewed([review EXCEPT !.decision = "rejected"])
       \/ UNCHANGED <<review, job>>
    /\ UNCHANGED <<editing, worker, posts>>

(* The new version has no decision; the job is not told.                   *)
hs_youtube_revision_complete ==
    /\ ~editing /\ revising /\ revising' = FALSE
    /\ review.content < MaxContent
    /\ review' = [Withdrawn(review) EXCEPT !.content = review.content + 1]
    /\ UNCHANGED <<editing, job, worker, posts>>

(* It fails, is cancelled, or is swept after 90 minutes.                   *)
RevisionEnds ==
    /\ revising /\ revising' = FALSE
    /\ UNCHANGED <<review, editing, job, worker, posts>>

(* External: the pipeline writes the row itself, decision or no decision.  *)
Reupload ==
    /\ ~editing /\ review.content < MaxContent
    /\ review' = [review EXCEPT !.content = review.content + 1]
    /\ UNCHANGED <<revising, editing, job, worker, posts>>

-----------------------------------------------------------------------------
(* The worker.                                                             *)

(* Fault: a lease keeps nobody out.                                        *)
AnyoneMay(j, w) == TRUE

(* A lease keeps others out until it ends.                                 *)
Claimable(j, w) == ~j.leased \/ j.owner = w

(* Fault: each claim brings its own key.                                   *)
NewKey(j, w) == w

(* The first claim's key is every later claim's.                           *)
RecordKey(j, w) == IF j.key = None THEN w ELSE j.key

Tired(j) == j.attempts >= AttemptLimit

(* The slot comes, the backoff ends: a scheduled job may be due.           *)
video_job_claim(w) ==
    /\ worker[w].phase = "idle"
    /\ job.status \in {"scheduled"} \cup InFlight
    /\ Claimable(job, w)
    /\ \/ /\ job.cancel \/ review.decision # "approved"
          /\ job' = Cancelled(Freed(job)) /\ worker' = worker
       \/ /\ ~job.cancel /\ review.decision = "approved" /\ job.frozen # review.content
          /\ job' = [Freed(job) EXCEPT !.status = "held"] /\ worker' = worker
       \/ /\ MayFly(job) /\ Tired(job)
          /\ job' = [Freed(job) EXCEPT !.status = "failed"] /\ worker' = worker
       \/ /\ MayFly(job) /\ ~Tired(job)
          /\ job' = [job EXCEPT !.status = IF @ = "scheduled" THEN "uploading" ELSE @,
                                !.attempts = @ + 1, !.key = RecordKey(job, w),
                                !.owner = w, !.leased = TRUE]
          /\ worker' = [worker EXCEPT ![w] = [phase |-> "working", text |-> job.frozen, leased |-> TRUE]]
    /\ UNCHANGED <<review, revising, editing, posts>>

Mine(w) == worker[w].phase # "idle" /\ job.owner = w /\ job.status \in InFlight

(* A lease that ended and that nobody took is renewed as well.             *)
video_job_progress(w, status) ==
    /\ worker[w].phase = "working" /\ Mine(w)
    /\ status # job.status => MayFly(job)
    /\ job' = [job EXCEPT !.status = status, !.leased = TRUE]
    /\ worker' = [worker EXCEPT ![w].leased = TRUE,
                                ![w].phase = IF status = "publishing" THEN "posting" ELSE @]
    /\ UNCHANGED <<review, revising, editing, posts>>

(* External: the record is written while the lease lasts; its answer may be *)
(* lost, and the worker writes it again or gives up.                       *)
Post(w) ==
    /\ worker[w].phase = "posting" /\ worker[w].leased
    /\ posts' = [posts EXCEPT ![job.key] = worker[w].text]
    /\ worker' \in {worker, [worker EXCEPT ![w].phase = "posted"]}
    /\ UNCHANGED <<review, revising, editing, job>>

video_job_finish(w) ==
    /\ worker[w].phase = "posted" /\ Mine(w) /\ job.status = "publishing"
    /\ job' = [Freed(job) EXCEPT !.status = "published"]
    /\ worker' = [worker EXCEPT ![w].phase = "idle", ![w].leased = FALSE]
    /\ UNCHANGED <<review, revising, editing, posts>>

video_job_fail(w) ==
    /\ Mine(w)
    /\ \/ job' = [Freed(job) EXCEPT !.status = "failed"]
       \/ job.attempts < RetryLimit /\ job' = [Freed(job) EXCEPT !.status = "scheduled"]
    /\ worker' = [worker EXCEPT ![w].phase = "idle", ![w].leased = FALSE]
    /\ UNCHANGED <<review, revising, editing, posts>>

video_job_hold(w) ==
    /\ Mine(w)
    /\ job' = [Freed(job) EXCEPT !.status = "held"]
    /\ worker' = [worker EXCEPT ![w].phase = "idle", ![w].leased = FALSE]
    /\ UNCHANGED <<review, revising, editing, posts>>

(* It dies, or hears that its lease is lost.                               *)
GiveUp(w) ==
    /\ worker[w].phase # "idle"
    /\ worker' = [worker EXCEPT ![w].phase = "idle"]
    /\ UNCHANGED <<review, revising, editing, job, posts>>

LeaseEnds(w) ==
    /\ worker[w].leased
    /\ worker' = [worker EXCEPT ![w].leased = FALSE]
    /\ job' = IF job.owner = w THEN [job EXCEPT !.leased = FALSE] ELSE job
    /\ UNCHANGED <<review, revising, editing, posts>>

Work(w) ==
    \/ video_job_claim(w) \/ Post(w) \/ video_job_finish(w) \/ video_job_fail(w)
    \/ video_job_hold(w) \/ GiveUp(w) \/ LeaseEnds(w)
    \/ \E status \in InFlight : video_job_progress(w, status)

QueueNext ==
    \/ hs_youtube_video_file_decide \/ CaptionChecked \/ CaptionWritten
    \/ hs_video_youtube_url_set \/ LackingIsMet \/ hs_video_job_cancel \/ hs_video_job_retry
    \/ video_job_mark_external \/ StartRevision \/ hs_youtube_revision_complete
    \/ RevisionEnds \/ Reupload
    \/ \E w \in Worker : Work(w)

QueueSpec == QueueInit /\ [][QueueNext]_queueVars

-----------------------------------------------------------------------------
(* Types; a lease the job shows is its owner's.                            *)
QueueTypeOK ==
    /\ review \in [decision : {"pending", "approved", "rejected"}, content : 1..MaxContent, lacking : BOOLEAN]
    /\ revising \in BOOLEAN /\ editing \in BOOLEAN
    /\ job \in [status : Status, frozen : 0..MaxContent, key : Worker \cup {None}, cancel : BOOLEAN,
                attempts : 0..AttemptLimit, owner : Worker \cup {None}, leased : BOOLEAN]
    /\ worker \in [Worker -> [phase : {"idle", "working", "posting", "posted"},
                              text : 0..MaxContent, leased : BOOLEAN]]
    /\ posts \in [Worker -> 0..MaxContent]
    /\ job.leased => job.owner # None /\ worker[job.owner].leased

(* While a worker may write the record, the job is its own, is being        *)
(* published and says what the worker would write: what the dashboard calls *)
(* cancelled, held, failed or external is not posted later                 *)
(* (video-bluesky-queue.sql 302-307, 334-345, 545, 592, 661-662).          *)
PostingIsFenced ==
    \A w \in Worker : worker[w].phase = "posting" /\ worker[w].leased =>
        job.status = "publishing" /\ job.owner = w /\ job.frozen = worker[w].text

(* However often workers die, leases end and approvals come and go, the     *)
(* item has one record on Bluesky (video-bluesky-queue.sql 22-32, 532-534).*)
OneRecord == \A v, w \in Worker : posts[v] # 0 /\ posts[w] # 0 => v = w

(* A published job's record is there and says what was approved and frozen *)
(* into the job (video-bluesky-queue.sql 22-32, 221-263).                  *)
PublishedAsFrozen ==
    job.status = "published" => job.key # None /\ posts[job.key] = job.frozen
=============================================================================

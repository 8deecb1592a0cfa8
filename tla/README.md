# HomeSignal: a TLA+ development

HomeSignal publishes, ZIP by ZIP, what public records say about development, and
sells one product on top of it: the *Development Activity report* that a real
estate brokerage makes for an address. Almost all of the logic that can go wrong
in an interesting way belongs to that product, and most of it is PostgreSQL
functions (`docs/*.sql`) called by edge functions (`supabase/functions/`) which
are called by a static page (`development-activity-reports.html`). Brokerages pay
for reports and are charged one by one, so this development begins there.

Paths below are relative to `src/`.

## 1. Inventory

### 1.1 Components

| Component | State it keeps | Operations | Talks to |
|---|---|---|---|
| Payment ledger (`docs/payment-event-ledger.sql`, `docs/brokerage-billing.sql`, `_shared/lemon-billing.ts`, `development-activity-billing-webhook`) | `payment_event` (append-only), `brokerage_subscription` (bindings) | a verified event is translated, recorded, bound to a brokerage, acknowledged; the plan is derived by a reader | the processor's webhooks; read by every issue and every checkout |
| Report issue (`docs/evaluation-entitlement.sql`, `docs/brokerage-billing.sql`, `docs/report-snapshot.sql`) | `evaluation`, `evaluation_credit`, `brokerage_paid_credit`, `report_snapshot` | issue (new report or retried key), revoke | reads membership, account and plan in the middle of its transaction |
| Account spine (`docs/brokerage-account-spine.sql`, `docs/evaluation-entitlement.sql`, `docs/individual-agent-signup.sql`, `docs/da-owner-safeguards.sql` part A) | `brokerage_account`, `brokerage_member`, `evaluation_invite` | create, mint, redeem, withdraw, sign up, remove an agent, revoke, delete a user; a guard on the last owner | its resolver `brokerage_membership_of` decides who may do anything |
| Rate limits (`docs/report-rate-limit.sql`, `docs/da-owner-safeguards.sql` part B) | one counter per subject and window length | claim | before the work of a report, before a view of a client link |
| Checkout (`docs/da-owner-safeguards.sql` part C, `manage-billing`, `_shared/lemon-billing.ts`) | `billing_checkout_claim`: one slot per brokerage | claim, create a payment page, release | the processor's API |
| Report request (`development-activity-reports.html`, `get-development-activity-report`, `_shared/admin-gate.ts`, `_shared/service-rest.ts`) | on the page: the session, the attempt's key, the report shown | press, give up, take the answer; gate, plan, claim, work, issue, replay | rate limit, report engine, issue |
| Follows (`shell.js`) | the rows of `app_follows`, a browser's storage, an open page's memory | sign in and out, follow and stop, the two-way merge at boot | the account's rows under row security |
| Property watch (`docs/property-watch.sql`, `run-property-watch`, `manage-property-watch`, `_shared/property-watch.ts`, `_shared/email-send.ts`) | `property_watch`, `property_watch_seen`: leases, slots, retries, what was told | start, stop, a wake that claims, checks, mails and records | the change ledger, the mail provider, membership |
| Rolling refresh (`docs/dev-reports-rolling-refresh.sql`, `docs/dev-refresh-*.sql`, `docs/dev-epa-*.sql`) | `development_reports`, the cursor of each page; `pg_net`'s queue and answers | a tick collects what answered and asks about the next pages | the report engine, over `pg_net` |
| Report engine (`get-address-report`) | none between requests; a budget within one | reads EPA by a ladder of circles, reads every other source | public registries |
| Video queue (`docs/video-bluesky-queue.sql`, `docs/youtube-video-*.sql`) | a video's review, its job, its lease | decide, revise, claim, progress, finish, fail, hold, cancel | the dashboard; a worker in another repository; Bluesky |
| Generation publish of the maps (`docs/n5-generation-*.sql`, `scripts/n5_orchestrate.py`, `scripts/n5_shard.py`) | `n5_generation`: states, predecessors; the rows of each; proofs; `n5_shard`, `n5_recovery_attempt`, `n5_geom` | build shard by shard, publish, account, prove, activate, roll back, fail, discard | publishers' services; Map 1 reads what serves |
| Saved reports, archive, sharing, private context | tables of their own | save, archive, share, revoke, purge | not modelled (section 7) |
| Change ledger, data-centre identity, alert subscriptions, ZIP coverage | tables derived from others | batch derivations | not modelled (section 7) |
| Pages, libraries, scripts, seeds | | render, import, deploy | not modelled (section 7) |

### 1.2 What is hard here

* **READ COMMITTED.** Each statement of a function sees what was committed when
  *it* began. A function therefore reads a membership, waits for a row lock, and
  acts on a world that has moved. The code's answer is to ask again after each
  lock; the models have one step per statement so that forgetting to is visible.
* **Two ledgers, no constraint across them.** A key must be charged once although
  the free and the paid credit live in different tables and the plan may change
  between a request and its retry.
* **Retries.** The processor repeats webhooks, out of order; the page repeats a
  request whose answer it never heard while the first may still be at work.
* **Locks of several kinds**: rows, advisory locks, unique indexes that make an
  insert wait for another transaction's uncommitted row.
* **Time.** `now()` is the transaction's start. A claim or a charge that waited
  carries a time that is already past: a window or a paid month that is over.
* **Leases.** A wake and a video worker hold what they work on for a time, and may
  still be at work when it is over.
* **Copies.** A follow is in the account, in the browser and in a page's memory;
  each may be newer than the others.
* **Counters that start again.** `pg_net` loses its queue, its answers and its
  counter in a crash of the database, while the cursors that refer to them stay.
* **A switch under its readers.** One row of `n5_generation` says what the maps
  serve; activations, rollbacks, discards and writers of rows meet at it.
* **Work that is cut off and done again.** A build of the maps lasts days, in hourly runs that may end between any two
  statements; what a later run takes for finished must be.

`PROJECT.json` lists each such hazard at its line, with the property that watches it.

## 2. Modules

| Module | What it is |
|---|---|
| `PaymentLedger` | webhooks, ledger, bindings, the plan |
| `Checkout` | presses, the slot, payment pages |
| `BillingProofs` | proofs about `PaymentLedger` and `Checkout` |
| `ReportIssue` | one issue transaction statement by statement, two ledgers, revocation |
| `ReportNumbers` | abstract: a brokerage's reports, each with one key and the next number, closed for ever by a revocation |
| `ReportIssueProofs` | proofs about `ReportIssue`, and that it implements `ReportNumbers` |
| `AccountSpine` | sessions that create, mint, redeem, withdraw, sign up, remove, change |
| `Membership` | abstract: one brokerage per person, an invite spent once, no joining of a closed brokerage |
| `AccountSpineProofs` | proofs about `AccountSpine`, and that it implements `Membership` |
| `RateLimit` | the claim, for both families of windows |
| `ReportRequest` | the page and the report function |
| `FollowSync` | accounts, browsers and open pages, and what each believes is followed |
| `AskingProofs` | proofs about `RateLimit`, `ReportRequest` and `FollowSync`, and the three together (`MCAsking`) |
| `PropertyWatch` | watches, wakes, mails |
| `RollingRefresh` | the ZIP pages, requests and answers, ticks, crashes |
| `FacilityRead` | one read of EPA's facility registry |
| `RefreshProofs` | proofs about `FacilityRead` and `RollingRefresh` |
| `VideoQueue` | a video's review, its job, the workers, the records on Bluesky |
| `SendingProofs` | proofs about `PropertyWatch` and `VideoQueue` |
| `GenerationPublish` | generations, proofs of them, and the calls that move what serves |
| `ServedMap` | abstract: one generation serves, is activated once, knows what it replaced, and can give way to it again |
| `ShardBuild` | the build of one generation: shards, what is asked and stored, prefixes published, what is missing accounted for |
| `GenerationPublishProofs` | proofs about `GenerationPublish` and `ShardBuild`, and that the former implements `ServedMap` |
| `MCReportIssue`, `MCAccountSpine`, `MCReportRequest`, `MCPropertyWatch`, `MCFollowSync`, `MCRollingRefresh` | instances for TLC: symmetry sets and constant functions only |
| `MCSpine`, `MCAsking`, `MCBackground` | several instances in one run (section 3) |
| `BackgroundProofs` | the modules of `MCBackground` together: each keeps its specification, and the types |

Modules that one run extends together name the parts of their specifications apart (`LedgerInit`, `FollowNext`, `requestVars`).

Common conventions. A **transaction** (a webhook, a call, a session, a claim) is a
slot with a `pc` and a record of what it was asked; each statement that can see
another transaction's commit is an action; what it has written and not committed
is in its own record (`draft`, or implied by `pc = "written"`) and reaches the
tables in the commit action; `Lose` or `Die` is a rollback at any point. Locks are either
a variable (`ReportIssue!lock`) or follow from where the sessions are (the
`Holders` operators). Definitions that begin with *Fault:* in their comment are never used
by a specification: each is a plausible bug in the definition after it, and
exists to show that a property would notice.

### 2.1 PaymentLedger

`Deliver`, `Lock`, `Apply` are `billing_event_apply`: the transaction opens (its `now()`
is fixed), takes the advisory lock of the subscription and reads its binding, then
records the event and binds an unbound subscription, or raises. `SameKey` is the
unique key of `payment_event`; a key that is already there with other contents is refused, not
taken for a retry. The key has the subscription's id and not its mode; the ids of a test and a live subscription are taken to differ, as one numbering of the
processor's gives them. `PlanState` is `billing_plan_of`: the current
binding (live before test, latest `bound_at`, then the id), then the word of the event
that is the latest in the *processor's* time. The processor (`Emit`, external) emits any
event at the present time; `Deliver` may bring any emitted event at any time and any number
of times, which is loss, delay, duplication and reordering at once.

### 2.2 ReportIssue and ReportNumbers

`Start` .. `CommitPaid` are `brokerage_report_issue` with `billing_paid_issue` and, nested in
it, `evaluation_report_issue`; the correspondence is in `PROJECT.json`'s map. Two facts of
the code shape the module. First, the free path hands over to a function that resolves
the caller's brokerage *again* (`AskFree`), so a call has a `brokerage` and a `charged`, which
differ when the caller moved between the two look-ups. Second, the call may then lock a second evaluation
row while holding the first. The world around a call (`Tick`, `PlanOrAccountMoves`, `Leave`,
`Join`, `RevokeEvaluation`) moves between its statements, `Join` and `RevokeEvaluation` only when
the evaluation's row is free, since the functions behind them lock it.

`ImplementsNumbers` is the refinement: `reports` is the ownership view `evaluation_credit_all`,
`closed` is the revoked status, and each commit is a `Charge`.

*Why calls do not deadlock.* A call waits for a second row only if its caller
joined that brokerage after the call locked its own row, and a join needs the joined
brokerage's row to be free. Around a cycle of waits each call would have locked its row
later than the one before it, which cannot close. `NoCallDeadlocks` (section 5.1) is that argument, proved
for any number of calls; `CallsEnd` is what it is for, and the mutant of `CallsEnd` (joining without the row) breaks both.

### 2.3 AccountSpine and Membership

A session is one call of a function: `AskX` opens it, `TakeLock` takes its first lock, the
`Check` actions are its conditions, `Insert` is the row that the unique index of one active
membership per user may make wait, `GuardChange` and `CountOwners` are the trigger
`brokerage_member_guard`, the `Commit` actions end it. Operations that write one statement, or only rows
nobody else can see, are single actions. `SetAccount` and the `change` sessions
are updates that only a migration or an administrator makes; the guard exists for them.
`Leaver` names the people whose auth user may be deleted, `Operation` and `Change` what an
instance runs.

### 2.4 RateLimit

One action per statement: the person's advisory lock, the brokerage's, the first pass
that only reads, the second that takes from every window. `window` holds one row per
subject and length, which a claim counts itself into even if the row's window began after the claim
did. `granted` is a history variable: when each allowed claim was asked for and when it
was given. `Retention` is the housekeeping of the share table (`None` for the report
table, which has none). `Patience`, the longest a claim is in flight (a statement timeout), is an assumption
of the housekeeping: a row may be deleted only when no claim at work can need it
(`RateAssumption`: the two days of `Retention` against windows of at most a day). The second pass, with the delete at its end, is one step (`Take`): a claim
keeps the rows it wrote and may wait for a row that another deletes or has written, which changes when it commits and not what it counts, since the advisory locks keep
every other claim off its subjects and the delete looks again at a row it waited for. Who may wait for whom there is stated apart, in `AskingProofs` (section 5.4).

### 2.5 Checkout

One brokerage, since nothing is shared between two. A press reads the plan, claims the slot
(its transaction's `now()` is fixed before it waits), asks the processor, and releases the slot if no page came. An
answer of the processor may be lost: the page then exists and is `unseen`. `RequestLife` is
the longest an edge function lives, which the platform bounds well below the ten
minutes of the slot; `CheckoutAssumption` states that.

### 2.6 ReportRequest

One brokerage; the database's issue is one step, which `ReportIssue` opens. The page keeps
`attempt` (key and address) until it hears an answer. Two history variables say what
"a retry" means to the person pressing: `errand` holds the keys sent for the address in hand since an
answer last came whole, and `broken` those of them whose answer broke off after its status. A request
that the page gave up on goes on working (`GiveUp`, then `Vanish`). `CutShort` is an answer whose
status arrives and whose body does not. `Fail` is a read that fails or an instance that is killed.

### 2.7 FollowSync

A page boots in steps (`BootSession`, `EnsureScope`, `AskZips` .. `Pushed`), each of which ends
where the code awaits something. A project's button waits for the account's answer (`Toggle`,
`ServeToggle`, `AnswerToggle`); a ZIP's button changes the browser's storage at once and
sends a request that nobody awaits (`ToggleZip`, `Deliver`). A request carries the session
that the *browser* has when it is sent and the user that the *page* believes in, and row
security compares the two: an insertion of somebody else's row is refused, a removal of one succeeds
and removes nothing. `asked`, `undone` and `clean` are history: what people of an account ever wanted, the
removals a page reported, and whether a page's merge met no failure and no other change.

### 2.8 PropertyWatch

A wake (`Run`) claims watches that are due (`ClaimDue`) and checks them one by one: standing, point,
ledger, what was told, one mail, the record. Any call may fail without its effect (`CannotFinish`), or
with it (`LoseAnswerOfSend`, `LoseAnswerOfRecord`), and a wake may die anywhere. Time is what it lets happen:
`SlotComes`, `RetryComes`, `WatchLeaseLapses`. The first two wait until no wake is at work on the watch, since a wake lasts
100 seconds and they are put off an hour or a day; a lease outlives its wake in the same way (ten
minutes), but two wakes still meet on a watch when one records and the other claims what it had not reached.

### 2.9 RollingRefresh

`dev_refresh_tick` is one transaction. `dev_refresh_collect` heals the cursors and evaluates what answered, at most `Cap`; `dev_refresh_fire_batch`
then asks about the next pages that are not cooling down, at most `Batch`. `turn` is the order of the pages' `refreshed_at` and `last_refresh_attempt_at` as a relation, pages of one
time being unordered, so a tick may take any of the `Batches` that respect it; what a tick writes and what it asks are stamped with its one `now()` and are level (`AfterTick`). `cooling` holds
the batches that were asked for and have not rested, in the order in which they were. The collector is the function as its splices leave it, so
its parts are operators named for what they decide (`Healed`, `Newer`, `Eligible`, `Trusted`, `Carried`,
`Withheld`, `FacilitiesUnavailable`). `Restart` empties `pg_net`'s tables and its counter. What an answer says is
chosen when it is evaluated, because nothing reads it earlier. `fires` numbers the requests in the order they were sent,
whatever ids the counter gave them; `judged`, `said` and `overtaken` are history: `said` is what the last answer evaluated said, written or withheld.

*Which collector.* The repository has several bodies of `dev_refresh_collect`. The one that runs is that of `dev-refresh-collect-once-per-response.sql` with the later splices:
`test/dev_collect_harness/build.sh` builds that chain and compares it with the fingerprint of the live one. `dev-epa-facility-clock-and-outcome.sql` has a whole body too, whose step (e)
writes EPA's plane on withheld answers; it predates the splices, and `dev-frs-start-hint.sql` 25-29 takes the clock half of that file alone and says that the body must not be replayed. So a withheld
answer moves the cursor only (`Collected`), and the freeze that the file describes is still there: section 6 tells it.

### 2.10 FacilityRead

One read: a ladder of circles that starts at the hinted one (`Start`), shrinks when EPA refuses a circle as too large (`TooBig`), retries
when a call fails (`Transient`) and ends when its attempts or its time are over. `Judge` is what the caller concludes: a
hinted answer that may have missed something sends it back to the full ladder.

### 2.11 VideoQueue

One item of one project. `job` is the row of `video_bluesky_jobs`, `review` the decision and the version of what would be
posted, `worker` what a claim handed out. The actions bear the names of the database's functions; the worker's own repository is
external (`Post`, `GiveUp`), and is assumed to post only while the lease it was given lasts. A post
writes the record under the job's key, so a second post under the same key replaces the first. A caption is checked and written in two statements
(`CaptionChecked`, `CaptionWritten`); every other function locks what it reads.

### 2.12 GenerationPublish and ServedMap

`gen` is `n5_generation` with what each generation's rows amount to; `tx` holds the calls in flight and the rows they have locked. Activation and rollback are taken
apart at each statement that may wait: `SeekServing` reads which generation serves, `LockServing` waits for its row, reads it
again as READ COMMITTED does and keeps its lock whatever it sees, and `Replace` writes both rows under the unique index `OnlyOne`. `BeginWrite` and `EndWrite` are a script
that rewrites the rows of a prefix, kept out of what serves by a trigger that locks the generation's row
(`GuardHolds`). A rollback may name any generation: it locks what serves, then the row it was given, and asks for that row's state last, so one that names what cannot be
restored waits like any other before it is refused (`Lose`). `replaced` and `returned` are history.

`ServedMap` is what a reader of the map and an operator are promised: what serves, which generations may be returned to (`kept`), which were thrown away (`gone`), and what each replaced
(`before`). `ImplementsServedMap` is the refinement: `kept` are the superseded rows that still have theirs (`Returnable`), `gone` the superseded rows that were discarded, `before` the column
`predecessor_generation_id`. The update that ends an activation is an `Activate`, that of a rollback a `Return`, the update of a discard of something that served a
`Discard`; the statements before them, what is built, proven or failed, and a discard of what never served, show nothing. An activation may record nothing
as replaced (section 6), which `Activate` allows and a wrong name it does not.

### 2.13 ShardBuild

The build of one generation, for one publisher: its records are stated in shards (`KeysOf`), its features lie in prefixes (`Place`)
that may be another shard's. `n5_claim_shard`, `LeaseLapses` and `requeue_halted` are the queue of shards; `Look` .. `MarkDone` are
the statements of `n5_shard.py` on one shard, with `halt` and `Killed` possible between any two of them; `MarksOpen` is the marker
`n5_recovery_attempt` that an attempt leaves before it asks. What is stored (`stored`) survives from one generation to the next. Then
`n5_gen_prepare_publish` fixes the candidates, `n5_gen_publish_prefix` puts a prefix on the map, `n5_gen_record_unresolved` gives what is not
there a reason and `n5_generation_mark_ready` counts. The workflow lets no two runs overlap, and the module has one `worker`. `unanswered`
is history: the keys whose last asking ended without an answer about them, for which see section 6. The publisher has the same
features each time it is asked.

## 3. Runs

All passing runs explore the whole state space of their instances. Several small modules are checked in one run: the module of such a run
has a variable `part` that an initial state chooses and no step changes; only the
chosen part moves, and the variables of the others stand still. The parts share no state, so
the run is the union of their state spaces and nothing more. `MCAsking` and `MCBackground` extend the modules they run, so the properties they check are
the modules' own; `MCSpine` extends `AccountSpine` with constants that allow what any of its three parts does, and takes each part's steps from an
instance whose constants allow less, so what is said of `AccountSpine` is asked of all three.

| Run | Instance | Shows |
|---|---|---|
| `issue_one` | 1 brokerage, 2 calls, 3 keys, 2 free reports, 1 a month, 3 months, an expiry | one charge of a key, numbers, status, ownership, answers; refinement of `ReportNumbers` |
| `issue_movers` | 2 brokerages, 1 person who moves, 2 calls, 1 key, fair calls | the answer is in the ledger it names; each call ends; nothing is charged after a revocation |
| `spine` | *people*: 2 people, 2 brokerages, 2 invites, 2 sessions that redeem, mint, withdraw, sign up, remove. *leaving*: the same without withdrawals, and a person's user may be deleted. *owners*: 2 people, 1 brokerage, 3 invites, 1 seat, 2 sessions, 2 times, with promotions and deactivations | one active membership and the seats (`PlacesAndSeatsHold`); an owner remains; no circle of waits; refinement of `Membership` |
| `asking` | *limit*: 2 people (1 claim a window), 1 brokerage (2 claims), 2 claims at once, windows of 1 and 2, 3 times, rows deleted at age 2. *customer*: 1 page, 2 people, 2 addresses, 2 keys, 2 requests. *onePage*, *lasting*: 2 accounts, 1 page, a project and a ZIP, a session that may end or lasts. *aProject*, *aZip*: 2 accounts, 2 browsers of one page each | no counter passes its limit, no stretch of windows either; a repeated press charges once, a report on the screen is its asker's and was charged; nobody inherits follows, an undisturbed merge leaves the copies alike, a removal that was reported was made |
| `background` | *payment*: 2 brokerages, 2 live and 1 test subscription, 2 deliveries, 2 events, 2 times. *slot*: 2 presses, each of which may be pressed again, 2 pages, a slot of 3, 5 times. *zips*: 2 pages, 3 requests, 1 crash, a tick that asks about and evaluates one page, and a source that has something, has nothing, fails or is no longer asked, with what EPA says then. *facility*: 3 circles, 4 facilities, 3 attempts, 4 units of time. *watching*: 2 wakes, 1 watch, 2 changes, mails of 2. *queue*: 2 workers, 3 claims, 2 versions. *maps*: the legacy generation and 2 candidates, 2 calls. *shards*: 2 shards, 2 keys of which one is stated in both and one has a feature in the other's prefix, 4 features of which one is unusable, 2 tries | what is recorded, bound, acknowledged and read as paid; pages spaced; answers counted once and in order across a crash, and what a page may then say; what a small circle of EPA's may stand for; mails apart; posts fenced, one, and as frozen; one generation serves, proven, and can be returned from; refinement of `ServedMap`, so that a generation names what it replaced; nothing is stored in part unless it is marked, and the map is whole when it is accounted for |
| `property_watch` | 1 watch, 2 wakes, 2 changes, mails of 1, fair | each change is told in the end; what is kept as told was mailed |

and six runs end in a counterexample, which section 6 tells: `issue_moved_key`, `spine_owner_deleted`,
`request_cut_short`, `request_used_up`, `watch_told_twice`, `follow_inherited`.

**Why these bounds.** Every rule here is about a pair: two calls and a lock, two retries of a
key, two owners, two windows, two ledgers. Two concurrent transactions show every race on one
lock, and the third actor, where there can be one, is an action of the world (a revocation, a move, a deletion) that needs no slot. Limits of one and
two are enough to be empty, partly used, just used up and past it. Three
keys are one charged to each ledger and one fresh; three reports are the two free ones and a month's one.
Three ticks give a paid month before, in and after a call's own. Three requests and one crash give a request from before the crash, one after it
with the same id, and one more; two candidates beside what serves give an activation that waits behind another. `MaxEvents`, `MaxTime`, `MaxClock`, `MaxFires`, `MaxRestarts`, `MaxContent` and `MaxClaims`
are the only caps on counters; `EvaluationEnds`, `InviteLife`, `MonthLength`, `SlotLife`, `PageLife`,
`Retention` are the code's durations in ticks, in the code's order. Symmetry is used only on model values that no
constant of the instance tells apart, and never with a liveness property.

Deadlock is checked in every run. The bounds of the refresh end all its behaviours, so its part may stutter (`RefreshStops`); a build ends when it is
ready, or waits for an operator when a shard was tried as often as it may be (`BuildStops`).

**Not shown together.** The part *owners* of `spine` lets nobody be deleted, since deleting the last owner is a
stated result (`brokerage-account-spine.sql` 39-42). `AnOwnerRemains` is a property of steps,
not of states: restoring a suspended account may give an active brokerage with no
owner, because the guard looks at active accounts only. `SeatsWithinLimit`, a part of `PlacesAndSeatsHold`, is checked where no migration
turns owners into agents, because the seats are counted on redeeming only; the guard on the last owner
makes no difference between a demotion and a deactivation (line 115), so that part loses nothing by
having only the latter. `KeyChargedOnce` is checked for people who stay in
their brokerage (`issue_one`); for others it fails (section 6). `OwnFollowsOnly` is checked with one open page to a browser, and fails with two.
`RecordedMailsAreApart` is about mails that were recorded; of all mails it fails. `LastingRemoval` asks
about removals only on one page whose session lasts: a removal in one browser may be undone by another's merge (section 6). `MergeAgrees` is about merges that nothing disturbs; what
a merge and a button do to each other is `LastingRemoval`'s. `PageSaysWhatWasRead` excuses a page whose newest answer was withheld for its projects (`NewestWithheld`): without that excuse TLC finds the freeze that section 6 tells.

**Every property is earned.** For each property of each passing run `PROJECT.json` names a mutant, a
fault put into one definition, that TLC finds with that run's own configuration.

## 4. Liveness and fairness

`CallsEnd` says that every call of the report issue ends. It is the one place where a transaction waits for a
second row of the same kind while it holds a first. The fairness is that of PostgreSQL's lock
queues: a waiter is granted the lock in its turn (strong fairness of the actions that take
a lock, which others may take in between), and a transaction that needs nothing more is
run to its end (weak fairness of the other steps). Nothing is assumed of the clock, of
people, of the processor, of failures or of deaths. PostgreSQL's deadlock detector is not modelled, on purpose:
if calls could wait in a circle `CallsEnd` would fail. That they cannot is proved for any number of calls (`NoCallDeadlocks`); that each one ends is checked on two.

`EachChangeTold` says that a change at a watch that stays on is told in the end. Its `FairSpec` assumes that days pass
(weak fairness of `SlotComes`, `RetryComes`, `WatchLeaseLapses`, of a wake's going to sleep and of the writing down of a failure, or its loss), that the
schedule starts a wake every ten minutes which takes the watch that is due longest, and that what is tried again and again succeeds
at last (strong fairness of the claim of each watch and of each step of a check). A wake may still die, and any call fail, any number of times.

No liveness is claimed of the page, of requests or of redelivery: an instance may die and a person may close the tab; nor of the build,
which may wait for an operator. In the other modules a wait for a lock is for a session that waits for nothing (`PaymentLedger`, `Checkout`) or is
ordered (`RateLimit`: the person's lock before the brokerage's); in `AccountSpine`, where the locks are of four kinds,
`NoCycleOfWaits` says that no set of sessions waits for itself, and `NobodyDeadlocks` (section 5) proves it. The claims of clients' links in `RateLimit` and the
calls of `GenerationPublish` may wait in a circle, which PostgreSQL ends by aborting one (`Lose`). It is proved where the circles are: each has a claim that deletes rows of others, or a rollback, in it
(`OnlyCleaningClaimsDeadlock`, `OnlyRollbacksDeadlock`).

## 5. Proofs

Every theorem is about any sets of people, brokerages, keys, pages, sessions and the rest, any limits and any clock; what is assumed of the constants is the
named `ASSUME` of the module, which TLC evaluates in the runs: mostly that a name that means "nothing" is no row, and that limits and lives are numbers in the
code's order (`RateAssumption`: old rows are kept as long as a claim may need them; `CheckoutAssumption`: a request's life is shorter than the slot's).
Where a theorem says more than an invariant of the run would need, its inductive invariant does: each was checked by TLC first, and the proof of a step has a
case for each action. Hypotheses of single theorems are named below, with the run that shows why they are needed.

### 5.1 Report issue (`ReportIssueProofs`)

* `TypeCorrect`: `TypeOK /\ Ledgers`. `TypeOK` is not inductive: that the number of the next free
  report is a number needs the free ledger to be finite with numbers within the limit; that a paid row has a
  binding needs every paid plan, and the plan a call has read, to have one. `Ledgers` says so.
* `LocksHold`: `Locks`. From the check of its standing to its end a call holds the row
  of its brokerage, when it writes it holds the row of the brokerage it charges, and neither evaluation is
  revoked, because a revocation needs the row.
* `RevocationIsFinal`: `NothingChargedAfterRevocation`, an action property, from `Locks` and the lemma
  that only a commit touches a ledger (`WhoCharges`). It holds whoever moves where.
* `LedgersStaySound`: `LedgersAreSound`, for people who change brokerage in the middle of a call too. A call that has written and not committed
  holds the *next* row of the ledger it charges, for a report nobody else has (`Drafts`, `Places`); that it is still the next one at the commit is what the row
  lock is for. `Accounts` has the series of numbers for every month a binding could have, the empty ones too.
* `AnswersAreInTheLedgers`: `AnswerIsInTheLedger`, since rows are never removed and a replay answers from what it read under the lock.
* `SettledKeyChargedOnce`, `SettledRetryIsNotUsedUp`, `SettledImplementsNumbers`: under `Settlement`, that
  each person has at most one brokerage they would ever join, `KeyChargedOnce` and `ChargedKeyIsNeverRefusedAsUsedUp` hold and the module implements
  `ReportNumbers` (`ImplementsNumbers`): a commit is a `Charge`, a revocation a `Close`, every other step a stutter. The invariant is `Keys`: past its look-up in the
  paid ledger a call's key is not there, when it writes it is in neither ledger, and since the call holds
  the row nobody else can change that before it commits. `issue_moved_key` is the counterexample without the hypothesis; `issue_one` satisfies it (`MayJoin <- Settled`).
* `NoCallDeadlocks`: `NoCircleOfWaits`, the safety half of `CallsEnd`, for people who move too: of any set of calls one waits for none of the others. The invariant
  is that calls can be ranked by when they took the row of their brokerage (`Ranked`): a call bound for another brokerage than its own is ranked before
  whichever call holds that one's row, since its caller joined when nobody held it. `Owners` says for what a row is held. A circle of calls that all wait would
  consist of calls queued for their second row, each ranked before the next; the largest rank (`Largest`) contradicts it. No run checks
  it by name: on an instance a circle is a counterexample to `CallsEnd`.

### 5.2 Accounts, memberships and invites (`AccountSpineProofs`)

`Core` is the invariant (`CoreHolds`): what each session in flight was asked fits the tables (`Fits`), a row lock has one holder (`OneHolder`), what a redeem or a
withdrawal saw of its invite still stands (`Stands`), whoever is being let in belongs nowhere and is let in by one session (`Entering`), whoever is being changed is a member (`Aims`).

* `TablesAreTyped`, `OnePlaceEach`: `TypeOK`, and `OneActiveMembership`, from `Core` alone: the unique index makes the second insert wait.
* `PlacesAndSeats`: `PlacesAndSeatsHold` if no migration turns owners into agents. A session that counted the seats has one free (`Seats`), because it holds the evaluation's row.
* `LastOwnerStays`: `AnOwnerRemains`, an action property, if nobody is deleted or migrations only make owners. `OwnersLeft`: a
  session that passed the guard's count holds the account's row, and another owner is there. `spine_owner_deleted` shows why a deletion, which takes no such lock, breaks it.
* `SpineImplementsMembership`: `ImplementsMembership`. A commit is `Found`, `Join`, `Leave` or `Withdraw` of `Membership`, `evaluation_create` an `Open`, a revocation
  a `Close`, and every other step of a session a stutter.
* `NobodyDeadlocks`: `NoCycleOfWaits`. Sessions waiting for a first lock wait for holders, holders for sessions that have written or are counting, and those for nobody.

### 5.3 Payments and the checkout slot (`BillingProofs`)

* `LedgerStaysFaithful`: `LedgerIsFaithful`, from `LedgerSound`: the advisory lock of a subscription is one delivery's, so the binding it read is still the one when it writes.
* `PaidIsPaidFor`, `OnlyNewsMovesPlans`: `PaidOnNewestLiveWord`, and the action property `PlansMoveForAReason`. Both rest on the readers' orders having one greatest
  row, which needs that `Rank` tells bindings of one time apart, as their ids do.
* `PagesStaySpaced`: `PagesAreSpaced`, from `CheckoutSound`: one press has the slot, it is alive, and a page that was shown lies behind the clock or its slot is still taken (`SpacedFromNow`).

### 5.4 What a visitor asks for (`AskingProofs`)

* `WithinLimitHolds`, `StretchHolds`, together `LimitsAlwaysHold`: `LimitsHold`. The counter's bound is not inductive, because the pass that counts and the pass
  that takes are apart: `CountStands` says that what a claim counted is still true when it takes, because `OneHolder` keeps every other claim
  off its subjects while housekeeping can only empty a window. For stretches, `Lasting` counts: what was granted since any window began is covered by the row that stands,
  or by the windows that have passed where the row is gone, which is where the retention and the longest wait of a claim enter.
* `RequestIsTyped`, `RetriesChargeOnce`, `ShownOnlyAsCharged`: `RequestTypeOK`, `RetryChargesOnce`, `ShownAsCharged`, from `Honest`: the keys of an errand whose answers did not break off are the
  attempt's at most (`OneKeyToAnErrand`), a page waits for a request of its own and of whoever is signed in unless the session moved (`WaitsForItsOwn`), the ledger charges a key
  once (`KeyChargedOnce`), and what was answered as charged is in it (`AnsweredAsCharged`). `request_cut_short` shows what the exception is about.
* `FollowsAreOnesOwn`: `OwnFollowsOnly`, where each browser has one page (`OnePageEach`); `follow_inherited` is the counterexample with two. `Owned` says whose account everything is that
  a page, its browser and a request under way hold.
* `MergesAgree`: `MergeAgrees`, without a hypothesis. `CleanMerges` says how far an undisturbed merge has come at each of its steps.
* `RemovalsStand`: `RemovedIsGone`, for any pages of which one is at work while the others have not started, and nobody loses a session but by what that page does (`AloneAtWork`, a restriction of the steps:
  a second page, or a session that ends elsewhere, may undo a removal, see section 6). `KeptOut` says that neither page, browser, rows read nor a write on its way still has what was removed, and `OthersWait`
  that the other pages stand where they began. `FollowsAreTyped` is the type invariant, with the phases of a merge.
* `ClaimsAreTyped`: `TypeOK` of the rate limit, from the counters' invariant and `InTime`, that nothing is recorded of a time to come.
* `OnlyCleaningClaimsDeadlock`: `NoCircleWithoutCleanUp`. Of any claims that find no row to delete (`CleansUp`) one waits for none of the others, over advisory locks and rows together. `RowsLocked` is what a claim in its second pass writes and keeps,
  `ClaimsBefore` whom it may wait for: who waits for its second advisory lock has the first, the two buckets of a claim lock different things, and the rows of two claims that have all their locks are apart (`RowsAreApart`). Claims of reports never delete. For
  those of clients' links the exception is needed: two claims write their own rows and then each deletes the other's old row of before (`da-owner-safeguards.sql` 196-206), which its advisory locks do not cover.
* `EachPartBehaves`, `AllIsTyped`, `RemovalsLast` are about the system of the run `asking`: each part changes its variables only by its own steps, so what is proved of a module holds there. `AllIsTyped` is `TypesOK`; `RemovalsLast` is
  `LastingRemoval`, where the two names of pages the run has are all there are (`Tab = {"left", "right"}`), since its restriction names them.

### 5.5 EPA and the rolling refresh (`RefreshProofs`)

* `ReadIsTyped`, `RefreshIsTyped`: the type invariants of the two modules.
* `AnswersAreExcused`: `SmallCircleIsExcused`. `Climbed`: every circle larger than the present one, up to the one the ladder began at, was refused as too large.
* `AnswersStayInOrder`: `AnswersCountInOrder`, from `Orderly`. The counter and the order of sending move apart in a crash and only then, so their difference is the same for every request that is
  under way or answered (`Dated`); what a page has judged lies behind what it may yet collect, by that difference (`JudgedIsBehind`); who was asked about while another waited is behind it in turn, and cools longer (`OvertakerIsBehind`).
  It rests on no order between pages of one tick: a page that a tick wrote or asked has had its turn, and whoever is asked later is strictly behind those who were not.
* `PagesSayWhatWasRead`: the action property `PageSaysWhatWasRead`, with what withheld answers said counted in `said`: the only pages that show what EPA did not last say are those whose newest answer found none of their projects.

### 5.6 Videos, watches, maps

* `SendingProofs`, videos: `QueueIsTyped`, `PostingStaysFenced`, `ItemHasOneRecord` and `PublishedSaysWhatWasFrozen` for any number of workers, claims and versions. None of
  the last three is inductive: what keeps a late worker from posting is that whoever may post holds the lease (`PosterIsLeased`), that the owner of a lease was given the
  text that is frozen in the job (`OwnerHasItsText`), and that a caption being edited finds no job in flight (`EditingHasRoom`). The assumption is in the
  model: a worker posts within its lease.
* `SendingProofs`, watches: `WatchIsTyped`, `ToldIsMailed`, `RecordedMailsStayApart` and `OneWakePerWatch`. The record of a mail comes several steps after the look at what was
  told, so the invariant says of a wake in between that what it found is still new (`FoundIsNew`), because no other wake holds the watch
  (`HeldIsLeased`, `OneHolder`).
* `GenerationPublishProofs`, the switch: `GenerationIsTyped`, `OneIsAlwaysServed`, `PredecessorWasReplaced` (`NamesWhatItReplaced`), `WhatServesWasProven` and `ReplacedCanReturn`. The strengthening is `CallsAreSound`, what each call in flight
  has read and still relies on, with the rows it has locked, and `ProofIsKept`, that the proof of what serves stays.
* `RowsImplementServedMap`: `ImplementsServedMap`, from the same invariant. `ContractSteps` says what each step of `ServedMap` is of the rows; then `Replace` is an `Activate`
  (`ReplaceActivates`: what it supersedes is what serves, because it holds that row, and its own generation is READY, so it never served), `Restore` a `Return`, `Discarded` a `Discard` or nothing to see, every other step a
  stutter (`OthersShowNothing`).
* `OnlyRollbacksDeadlock`: `NoCircleWithoutRollback`, calls that are no rollbacks wait in no circle. The circles with one are real: a rollback holds what serves and waits for the READY generation it was wrongly given, while that one's activation waits for what
  serves; or it goes back to a row that an activation holds since it found it serving no more, while that activation waits for what serves now. No order of the rows keeps the others apart: an activation that lost its race has kept a row and
  waits for the next. So the invariant is that no step closes a circle (`NoCircleCloses`): who begins to wait has nothing that others wait for, but for proofs (`prove`, `SeekServing`), or waits for what serves this moment (`SeekOld`), and whoever
  has that and is no rollback waits for nobody. `CallsKnow` says what each call holds, of which none serves but what it found (`HeldBeginsNotToServe`: no row begins to serve that another call holds), and that what it waits for has served. No run names it.
* `GenerationPublishProofs`, the build: `BuildIsTyped` (`BuildTypeOK`, by `WithinBounds`) and `PartlyStoredIsMarked` (`HolesAreMarked`) from `BuildSound`, which follows the worker: it asks for keys of its shard with the marker open
  (`AskingIsMarked`), what was answered is stored but for the rows that are left (`AnsweredIsStored`), and what it does not ask for is whole (`NotAsked`). `AccountedMapIsWhole` (`MapIsWhole`) from
  `Whence`: a shard that is done has decided about each of its keys (`DoneIsDecided`), once prepared nothing that the
  publication reads moves (`PreparedStands`), and a feature is on the map of each prefix that is published (`PublishedIsThere`).

### 5.7 The parts together (`BackgroundProofs`)

`EachPartBehaves`: a behaviour of the system that the run `background` explores is, of each of its eight modules' variables, a behaviour of that module's specification (the end of a refresh or of a build is
a stutter of it). So every theorem above about one of them holds in the whole, and `AllIsTyped` is the run's `TypesOK`. The parts share no state and one moves in a behaviour, so this says nothing of an interaction between them; it
says that what TLC checks and what is proved are about the same modules.

### 5.8 Only model-checked

Every invariant and every action property of the passing runs, and each refinement, has a theorem; for `KeyChargedOnce`, `ChargedKeyIsNeverRefusedAsUsedUp`, `ImplementsNumbers`, `PlacesAndSeatsHold`, `AnOwnerRemains`, `OwnFollowsOnly` and
`LastingRemoval` under the hypotheses named above. What is left to TLC is liveness: `CallsEnd` (beyond its safety half, `NoCallDeadlocks`) and `EachChangeTold`. The provers have no rule for fairness or
`ENABLED`, and for `CallsEnd` one would need an induction on the ranks of waiting calls. `LastingRemoval` is proved for the pages the run names. The six runs of section 6 that end in a counterexample are about
instances and prove nothing more.

## 6. Where the code and its words differ

Each has a run that ends in a counterexample.

* `issue_moved_key`. The free path resolves the caller's brokerage a second time, without pinning the one
  already locked, and looks the key up in the free ledger only. A person who left and rejoined between
  the two look-ups has a key that the second brokerage's paid month was charged for charged again to its free reports.
* `spine_owner_deleted`. The guard serialises on the account row; the cascade of a user's deletion takes no such lock. A demotion that counted
  an owner being deleted leaves an active brokerage without an owner, though the deleted one was not the last.
* `request_cut_short`. An answer whose body is lost counts as an answer: the page drops the key and the next
  press for the same address is charged again.
* `request_used_up`. The lost answer was of the report that used the allotment up: the retry is refused before the
  ledger, which would replay it, is asked.

* `watch_told_twice`. A mail's key is derived from the changes it tells, and what was told is recorded after the mail was accepted. When the record is lost and
  another change is found before the retry, the retry is another mail and tells the first change again.
* `follow_inherited`. A page keeps the follows of the account it was booted with in its memory. A second page of the same browser signs another account
  in and clears the storage, not the first page, which then pushes them to the second account.

More differences were met while modelling. They have no run of their own, since the model leaves out the actor or the statement they need, or excuses them by name.

*Reports and payments.*

* When the database's answer is lost after its commit, the function answers 502 for a report that was stored and charged
  (`get-development-activity-report/handler.ts` 316-320), and the page, which has heard an answer, drops the key.
  `docs/development-activity-report-engine-2026-09-30.md` 159-162 lists the 502 among refusals that charge nothing.
* A payment page lives an hour (`_shared/lemon-billing.ts` 168) and its slot ten minutes
  (`docs/da-owner-safeguards.sql` 245), so a second page may be open beside the first; `PagesAreSpaced` says what the slot does
  give. The comment at `manage-billing/handler.ts` 112 says two minutes.
* The audit of `docs/da-owner-safeguards.sql` 268-277 counts a claim of an account that is not active as a broken invariant, and nothing
  removes one when an account is suspended.
* Two claims of clients' links that clean up may wait for each other's rows (section 5.4); the one that is aborted counts nothing.
* A plan is read before the slot is claimed (`manage-billing/handler.ts` 93): a payment recorded in between does not stop the page.

*The video queue.*

* An approval that is claimed, withdrawn and approved again while the first post is on its way leaves `cancel_requested` set, so the next claim cancels an approved
  video, though `docs/video-bluesky-queue.sql` 467-468 says that only a new explicit approval revives one.
* A claim does not compare revisions, and a retry, a reconciliation or a first link freezes anew what was uploaded after the approval.
* `hs_video_job_cancel` locks the job and then the review, the decision the review and then the job: two of them may wait for each other, and one is aborted.

*The generations.*

* An activation that was checked against what served, and waited, supersedes what serves by then, with a proof against a generation that serves no more;
  `docs/n5-generation-publish-part-d.sql` 1091-1092 speaks of "the generation that is STILL serving". If it was already waiting for the row its predecessor becomes empty, and
  retention may retire what served before.
* A rollback that names the generation being activated, or returns to what an activation waited for and lost, may wait in a circle with it, and one of the two is aborted (section 5.6). Nothing is damaged,
  but an activation that counted for minutes may be the one.
* After a serves, b replaces it and b's own predecessor is discarded, a rollback leaves a generation whose predecessor is gone, and a second one
  says that no generation is serving.

*The build.*

* The marker of an attempt is closed whatever the publisher answered (`scripts/n5_shard.py` 360-370). A run that is cut off while it inserts, and is followed by one that finds the
  publisher unreachable or is refused single keys, leaves a key stored in part and unmarked: it counts as cached from then on, which is the
  "permanent hole" that the comment at 316-326 says the marker prevents. `HolesAreMarked` excuses exactly these keys (`unanswered`).
* `RECOVERY_NOT_RETURNED` is also recorded for a key whose own request failed while others succeeded; part D (D4) says a complete attempt returned no feature.
* Two orchestrators, one started by hand, are not kept apart by the lease: it lasts an hour, the script marks a shard done or halted without
  asking whose it is (lines 914, 926), and `n5_frozen` is keyed by the prefix alone, so that one may empty the slice the other verifies;
  `scripts/n5_orchestrate.py` 54-55 says they cannot collide. The accounting catches most of it later.
* A shard whose lease lapsed is claimed again without counting its tries; associations of an earlier attempt are kept with their evidence (`on conflict do nothing`).

*The refresh, the follows and EPA.*

* An answer with no project for a fresh page that shows some is withheld as a whole. If it has no facility either, the page keeps showing its facilities as
  known, though the same file says of the flag (`dev-refresh-collect-once-per-response.sql` 292-293) that what did not take a trusted write "renders as UNKNOWN, never as fact". The mending of it
  (`dev-epa-facility-clock-and-outcome.sql` 358-361, "old facility data presented as current") is in a body that does not run (section 2.9). `PageSaysWhatWasRead` excuses
  these pages, by `NewestWithheld`, and no others.
* Answers that arrive between a restart and the next tick are skipped (a test documents it).
* A removal after the session ended is refused by row security without an error, and a removal in one browser may be undone by another's merge.
* Zero facilities left after filtering on a smaller circle counts as an authoritative zero.

## 7. Not modelled

Most of the repository renders pages, reads public sources and converts what they say: the modules cover the logic that keeps state, which is a small part of its lines.

* **Ingest, maps, reports' contents**: reading public sources (all but EPA's facilities), geocoding, classifying and drawing is input, output and data. What
  a report says is a key here. Of the refresh the payload's shape, the enrichment from ECHO and CWA, the diagnostics and the statement timeout are left out.
* **Of the build**: two orchestrators at once, the freezing of a slice beyond that it may be refused, associations, markers, proven points and the other treatments.
* **Of the refresh**: the `for update skip locked` of two ticks that overlap (`pg_cron` starts them in turn), and the other reason to withhold an answer, a payload without sites, which leaves the page as `Withheld` does.
* **Of the watch**: the limit on watches, the wording of a mail, and the 90 days a check looks back: a change that could not be told for so long is not told.
* **Saved reports, sharing, private context**: rows that one person writes by single statements. Sharing's limits are in `RateLimit`; the purge that ends a watch is in `PropertyWatch`.
* **The change ledger**: appended to by the statement that writes a page; what is a change is a comparison of payloads, of which nothing is kept here.
* **Data-centre identity and geography, ZIP coverage, alerts**: single-operator batch derivations over large tables, and row-level rules.
* **The other operator queues** (impact, social, claims): their steps are single statements of one operator.
* **Pages and libraries** other than the report page and the follows: rendering.
* **The trial function** adds no state to what `AccountSpine` has; the saved-report actions of the report function need the saved reports.
* **Cryptography**: the webhook's signature and the invite's token are an event or an invite that exists.
* **The one-off change of the free limit** (`docs/free-report-limit-100.sql`), which locks the free ledger and counts the paid one; an invite minted by an owner whose membership is being ended
  (`docs/evaluation-entitlement.sql` 337) is accepted as minted.

## 8. What could come next

1. `SavedReports` and `ReportShare`: what a purge in the middle of a list or of a view leaves behind; links, their revocation, mail to the client.
2. `ChangeLedger` on top of `RollingRefresh`, and `PropertyWatch` reading it.
3. Two builders at once in `ShardBuild`, with the freeze and the owner of a claim.
4. Composition: `ReportRequest` over `ReportIssue` (the page's retry against the statement-level ledger), `Checkout` over
   `PaymentLedger`, and the change of the free limit against a paid issue at work.
5. Proofs: `RemovedIsGone` where other pages are at work for other accounts, and the invariants of the compositions above.

--------------------------- MODULE RollingRefresh ---------------------------
(***************************************************************************)
(* The rolling refresh of the ZIP pages' reports.                          *)
(*                                                                         *)
(*   docs/dev-reports-rolling-refresh.sql   a tick collects what answered  *)
(*       and asks about the next few pages; -fair-ordering names the next  *)
(*   docs/dev-refresh-collect-*.sql         the collector, as its splices  *)
(*       leave it: each answer once, the counter's restart healed, at most *)
(*       so many a tick, a failed source's records carried                 *)
(*   docs/dev-frs-start-hint.sql   when EPA's silence may empty the        *)
(*       facilities: the clock half of dev-epa-facility-clock-and-outcome  *)
(*       .sql, alone.  That file's whole body predates the splices and     *)
(*       does not run (lines 28-29; the chain that runs, with its          *)
(*       fingerprint: test/dev_collect_harness/build.sh)                   *)
(*                                                                         *)
(* Requests are answered in any order, late or never.  pg_net's queue, its *)
(* answers and its counter do not survive a crash; the pages do.           *)
(***************************************************************************)
EXTENDS Naturals, Sequences, FiniteSets, Functions

CONSTANTS
    Zip,
    Source,        \* development sources of a page
    Word,          \* what an answer may say
    Batch,         \* pages asked about in a tick
    Cap,           \* answers evaluated in a tick
    MaxFires,      \* bound: requests
    MaxRestarts    \* bound: crashes of the database

VARIABLES
    row,           \* development_reports, by ZIP
    turn,          \* pairs of ZIPs: the first was asked or written last before the second
    cooling,       \* the ZIPs each tick asked less than a cooldown ago, oldest first
    issued,        \* the last id pg_net's counter gave
    flight,        \* requests not answered
    answers,       \* net._http_response, inside the window
    \* history
    fires,         \* requests ever sent; a request's number in that order
    restarts,
    healed,        \* a tick has begun since the last restart
    judged,        \* the last request whose answer was evaluated, 0 before any
    said,          \* what the last answer evaluated said, written or withheld
    overtaken      \* for a page, how often each was asked after its own last turn

refreshVars == <<row, turn, cooling, issued, flight, answers,
                 fires, restarts, healed, judged, said, overtaken>>

(* What one read says of a source; of the facilities.  A source that fails *)
(* half way has records in the answer: "some".  Nothing reads an answer    *)
(* before a tick evaluates it: what it says is chosen then.                *)
SourceWord == {"some", "none", "failed", "gone"}
FacilityWord == {"some", "none", "down"}
Report == [source : [Source -> SourceWord], facilities : FacilityWord]

ASSUME RefreshAssumption ==
    /\ IsFiniteSet(Zip) /\ Word \subseteq Report
    /\ Batch \in Nat \ {0} /\ Cap \in Nat \ {0} /\ MaxFires \in Nat /\ MaxRestarts \in Nat

(* The ZIPs as any earlier ticks and writes left their turns.              *)
Turns == {{p \in Zip \X Zip : at[p[1]] < at[p[2]]} : at \in [Zip -> 1..Cardinality(Zip)]}

RefreshInit ==
    /\ row = [z \in Zip |-> [records |-> {}, fresh |-> TRUE, facilities |-> FALSE,
                             facilitiesFresh |-> TRUE, unavailable |-> FALSE, cursor |-> 0]]
    /\ turn \in Turns /\ cooling = <<>>
    /\ issued = 0 /\ flight = {} /\ answers = {}
    /\ fires = 0 /\ restarts = 0 /\ healed = TRUE
    /\ judged = [z \in Zip |-> 0]
    /\ said = [z \in Zip |-> [facilities |-> "none", without |-> Source]]
    /\ overtaken = [w \in Zip |-> [z \in Zip |-> 0]]

-----------------------------------------------------------------------------
(* Collecting.                                                             *)

(* Fault: the counter's value where it has issued nothing yet.             *)
HealsToLastValue == IF issued = 0 THEN 1 ELSE issued

LastIssued == issued

(* A cursor above every id the counter has issued is from before a crash.  *)
Healed(z) == IF row[z].cursor > LastIssued THEN LastIssued ELSE row[z].cursor

(* Fault: what answered lately, evaluated or not.                          *)
AnyRecent(r) == TRUE

Newer(r) == r.id > Healed(r.zip)

Eligible ==
    {r \in answers : Newer(r) /\ \A o \in answers : o.zip = r.zip => o.id <= r.id}

Evaluated == {r \in Eligible : Cardinality({o \in Eligible : o.id < r.id}) < Cap}

(* Fault: a failed source has nothing.                                     *)
OnlyWhatAnswered(d, report) == {s \in Source : report.source[s] = "some"}

(* The records after a write: a failed source keeps its stored ones.       *)
Carried(d, report) ==
    {s \in Source : \/ report.source[s] = "some"
                    \/ report.source[s] = "failed" /\ s \in d.records}

Discontinued(d, report) == \E s \in d.records : report.source[s] = "gone"

(* A fresh page does not lose everything at once unexplained.              *)
Withheld(d, report) ==
    d.fresh /\ d.records # {} /\ Carried(d, report) = {} /\ ~Discontinued(d, report)

Trusted(report, probe) == probe /\ report.facilities # "down"

dev_epa_write_refused(d, report, probe) ==
    /\ d.facilities /\ report.facilities # "some"
    /\ ~Trusted(report, probe) \/ d.facilitiesFresh

(* Fault: the flag follows EPA's word alone.                               *)
FlagFollowsEPA(d, report, probe) ==
    report.facilities # "some" /\ ~Trusted(report, probe)

(* facilities_unavailable: a list that was not written is not known.       *)
FacilitiesUnavailable(d, report, probe) ==
    \/ dev_epa_write_refused(d, report, probe)
    \/ report.facilities # "some" /\ ~Trusted(report, probe)

(* What a reader of this answer learns: "unknown" when EPA cannot be        *)
(* trusted to have nothing, and the sources that have nothing here.        *)
Heard(report, probe) ==
    [facilities |-> IF report.facilities = "some" THEN "some"
                    ELSE IF Trusted(report, probe) THEN "none" ELSE "unknown",
     without |-> {s \in Source : report.source[s] \in {"none", "gone"}}]

Written(d, r, report, probe) ==
    LET refused == dev_epa_write_refused(d, report, probe)
    IN  [records |-> Carried(d, report), fresh |-> TRUE,
         facilities |-> refused \/ report.facilities = "some",
         facilitiesFresh |-> refused => d.facilitiesFresh,
         unavailable |-> FacilitiesUnavailable(d, report, probe),
         cursor |-> r.id]

(* A page withheld keeps everything, its facilities and their flag too, and *)
(* is not shown this answer again (once-per-response, step (e)).           *)
Collected(r, word, probe) ==
    LET d == row[r.zip]
    IN  IF Withheld(d, word[r.zip]) THEN [d EXCEPT !.cursor = r.id]
        ELSE Written(d, r, word[r.zip], probe)

Of(z) == {r \in Evaluated : r.zip = z}
TheOf(z) == CHOOSE r \in Evaluated : r.zip = z

Accepted(word) == {r.zip : r \in {o \in Evaluated : ~Withheld(row[o.zip], word[o.zip])}}

-----------------------------------------------------------------------------
(* Asking.                                                                 *)

(* What is stamped now comes after everything that is not.                 *)
ToTheBack(order, zips) ==
    {p \in Zip \X Zip : p[1] \notin zips /\ (p[2] \in zips \/ p \in order)}

Cooling == UNION {cooling[i] : i \in DOMAIN cooling}
Rested == Zip \ Cooling

(* The first few in turn of those not cooling, in any order among equals.  *)
Batches(order) ==
    {zips \in SUBSET Rested :
        /\ Cardinality(zips) <= Batch
        /\ zips # Rested => Cardinality(zips) = Batch
        /\ \A w \in Rested \ zips, z \in zips : <<w, z>> \notin order}

(* One id after another, in the order nth.                                 *)
Requests(nth, safe) ==
    {[id |-> issued + nth[z], at |-> fires + nth[z], zip |-> z, safe |-> safe] : z \in DOMAIN nth}

(* Fault: a page keeps its place until it is written.                      *)
OnlyWritten(order, written, now) == ToTheBack(order, written)

(* A tick writes and claims in one transaction: one now(), and its pages    *)
(* are behind all others and level with each other.                        *)
AfterTick(order, written, now) == ToTheBack(order, written \cup now)

dev_refresh_collect(word, probe) ==
    /\ row' = [z \in Zip |-> IF Of(z) = {} THEN [row[z] EXCEPT !.cursor = Healed(z)]
                             ELSE Collected(TheOf(z), word, probe)]
    /\ judged' = [z \in Zip |-> IF Of(z) = {} THEN judged[z] ELSE TheOf(z).at]
    /\ said' = [z \in Zip |-> IF Of(z) = {} THEN said[z] ELSE Heard(word[z], probe)]
    /\ healed' = TRUE
    /\ UNCHANGED <<answers, restarts>>

dev_refresh_fire_batch(written, now, nth) ==
    /\ fires + Cardinality(now) <= MaxFires
    /\ turn' = AfterTick(turn, written, now)
    /\ cooling' = IF now = {} THEN cooling ELSE Append(cooling, now)
    /\ issued' = issued + Cardinality(now) /\ fires' = fires + Cardinality(now)
    /\ flight' = flight \cup Requests(nth, TRUE)
    /\ overtaken' =
         [w \in Zip |-> [z \in Zip |->
            IF w \in now \cup written THEN 0
            ELSE overtaken[w][z] + (IF z \in now THEN 1 ELSE 0)]]

(* dev_refresh_tick, one transaction: collect, then ask.                   *)
dev_refresh_tick ==
    \E probe \in BOOLEAN, word \in [{r.zip : r \in Evaluated} -> Word] :
    \E now \in Batches(ToTheBack(turn, Accepted(word))) :
    \E nth \in Bijection(now, 1..Cardinality(now)) :
        dev_refresh_collect(word, probe) /\ dev_refresh_fire_batch(Accepted(word), now, nth)

(* The catch-up and repair paths post the same request and claim nothing.  *)
AskElsewhere(z) ==
    /\ fires < MaxFires
    /\ issued' = issued + 1 /\ fires' = fires + 1
    /\ flight' = flight \cup Requests([y \in {z} |-> 1], healed)
    /\ UNCHANGED <<row, turn, cooling, answers, restarts, healed, judged, said, overtaken>>

CoolsDown ==
    /\ cooling # <<>> /\ cooling' = Tail(cooling)
    /\ UNCHANGED <<row, turn, issued, flight, answers,
                   fires, restarts, healed, judged, said, overtaken>>

-----------------------------------------------------------------------------
(* What happens to a request, and to what is stored.                       *)

Unseen == <<row, turn, cooling, issued, fires, restarts, healed, judged, said, overtaken>>

Answer(f) ==
    /\ flight' = flight \ {f}
    /\ answers' = answers \cup {f}
    /\ UNCHANGED Unseen

(* A timeout, a cold start, or anything but a 200.                         *)
LoseAnswer(f) ==
    /\ flight' = flight \ {f}
    /\ UNCHANGED <<Unseen, answers>>

LeavesWindow(r) ==
    /\ answers' = answers \ {r}
    /\ UNCHANGED <<Unseen, flight>>

(* Seven days without a write to the page; to its facilities.  The age of   *)
(* what is empty decides nothing and is not told apart.                    *)
Ages(z) ==
    /\ \/ row[z].fresh /\ row[z].records # {} /\ row' = [row EXCEPT ![z].fresh = FALSE]
       \/ row[z].facilitiesFresh /\ row[z].facilities
          /\ row' = [row EXCEPT ![z].facilitiesFresh = FALSE]
    /\ UNCHANGED <<turn, cooling, issued, flight, answers,
                   fires, restarts, healed, judged, said, overtaken>>

(* pg_net's tables and its counter are unlogged.                           *)
Restart ==
    /\ restarts < MaxRestarts /\ restarts' = restarts + 1
    /\ issued' = 0 /\ flight' = {} /\ answers' = {} /\ healed' = FALSE
    /\ UNCHANGED <<row, turn, cooling, fires, judged, said, overtaken>>

RefreshNext ==
    \/ dev_refresh_tick \/ CoolsDown \/ Restart
    \/ \E z \in Zip : AskElsewhere(z) \/ Ages(z)
    \/ \E f \in flight : Answer(f) \/ LoseAnswer(f)
    \/ \E r \in answers : LeavesWindow(r)

RefreshSpec == RefreshInit /\ [][RefreshNext]_refreshVars

-----------------------------------------------------------------------------
(* Types, and the counters a page's cursor and its answers come from.      *)
RefreshTypeOK ==
    /\ row \in [Zip -> [records : SUBSET Source, fresh : BOOLEAN, facilities : BOOLEAN,
                        facilitiesFresh : BOOLEAN, unavailable : BOOLEAN, cursor : 0..MaxFires]]
    /\ turn \subseteq Zip \X Zip /\ cooling \in Seq(SUBSET Zip)
    /\ issued \in 0..MaxFires /\ fires \in 0..MaxFires
    /\ \A f \in flight \cup answers : f.id \in 1..issued /\ f.at \in 1..fires /\ f.zip \in Zip
    /\ judged \in [Zip -> 0..MaxFires]
    /\ said \in [Zip -> [facilities : {"some", "none", "unknown"}, without : SUBSET Source]]
    /\ healed \in BOOLEAN /\ overtaken \in [Zip -> [Zip -> 0..MaxFires]]
    /\ \A z \in Zip : healed => row[z].cursor <= issued

(* An answer is evaluated once, and never after one asked for later, across *)
(* restarts of the counter (once-per-response, step (0)).                  *)
EvaluatedInOrder == \A r \in Evaluated : r.at > judged[r.zip]

(* Once a tick has healed the cursors, an answer is passed over only for    *)
(* one asked for later (dev-refresh-collect-restart-heal.sql).             *)
PassedOverForNewer ==
    \A r \in answers : r.safe /\ r.id <= row[r.zip].cursor => judged[r.zip] >= r.at

(* After a tick that wrote or asked a page, no other is asked about twice   *)
(* before it has its turn again: one that is refused every time delays no  *)
(* other (dev-refresh-fair-ordering.sql).                                  *)
NobodyIsOvertaken == \A w, z \in Zip : overtaken[w][z] <= 1

(* Each answer counts at most once, in the order of the questions, and each *)
(* page has its turn, whatever is withheld, lost, late or forgotten in a    *)
(* crash (the three files above).                                          *)
AnswersCountInOrder == EvaluatedInOrder /\ PassedOverForNewer /\ NobodyIsOvertaken

(* The newest answer was withheld: it found none of what the page shows.    *)
NewestWithheld(z) == row[z].records # {} /\ row[z].records \subseteq said[z].without

(* A list the newest answer did not bear out is not shown as fact           *)
(* (once-per-response, REVIEW FIX 2).  A withheld answer leaves it shown.   *)
SaysWhatEPASaid(z) ==
    ~row[z].unavailable => said[z].facilities = IF row[z].facilities THEN "some" ELSE "none"

(* A page that does not say its facilities are unknown shows what EPA last  *)
(* said of them, withheld answers counted, in a read that may be trusted,   *)
(* unless the newest answer found no project of those it shows.            *)
PageSaysWhatEPASaid == \A z \in Zip : SaysWhatEPASaid(z) \/ NewestWithheld(z)

(* That, at every step; and a source's records leave a page only by the     *)
(* word of a read that reached it, or when it is no longer asked            *)
(* (dev-refresh-collect-carry-failed-sources.sql).                         *)
PageSaysWhatWasRead ==
    [][ /\ PageSaysWhatEPASaid'
        /\ \A z \in Zip : \A s \in row[z].records \ row'[z].records :
             s \in said'[z].without ]_refreshVars
=============================================================================

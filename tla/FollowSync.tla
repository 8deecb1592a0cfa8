------------------------------ MODULE FollowSync ------------------------------
(***************************************************************************)
(* What a visitor follows, kept three times: in the account's rows         *)
(* (app_follows), in the browser's storage and in each open page's memory. *)
(*                                                                         *)
(*   shell.js    boot, sign-in and sign-out, the scope of an account on a  *)
(*               browser, the two-way merge at boot, the follow buttons    *)
(*                                                                         *)
(* Projects are held in memory and change only when the account answered;  *)
(* ZIP codes are read from storage each time, change at once and tell the  *)
(* account without waiting.  A request carries the session the BROWSER has *)
(* when it is sent, and names the user the PAGE believes in: the account's *)
(* row security refuses a row of somebody else, and lets a removal of one  *)
(* succeed without removing anything.                                      *)
(***************************************************************************)
EXTENDS Naturals, FiniteSets

CONSTANTS
    Account,
    Device,         \* browsers: one storage each
    Tab,            \* open pages
    DeviceOf,       \* the browser of a page
    Project, Zip,   \* what can be followed
    Expires,        \* whether a browser may lose its session by itself
    Null

VARIABLES
    rows,           \* app_follows, by account
    authed,         \* the session in a browser's storage
    stored,         \* hs:follows, hs:myCommunities, hs:accountUid
    page,           \* the memory of an open page
    flight,         \* ZIP requests nobody waits for
    asked,          \* history: what the people of an account ever followed
    undone,         \* history: removals the page reported, not asked for again
    clean           \* history: the page's merge met no failure and no other change

followVars == <<rows, authed, stored, page, flight, asked, undone, clean>>

Item == Project \cup Zip
Browser == [follows : SUBSET Project, zips : SUBSET Zip, uid : Account \cup {Null}]
Steps == {"boot", "scope", "zips", "zipsTold", "naming", "pushZips",
          "projects", "projectsTold", "pushProjects", "ready"}
Want == [item : Project, on : BOOLEAN, answer : {"none", "ok", "failed"}]
Memory == [session : Account \cup {Null}, follows : SUBSET Project, pc : Steps,
           acct : SUBSET Item, todo : SUBSET Item, want : Want \cup {Null}]
ZipRequest == [tab : Tab, user : Account, bearer : Account \cup {Null}, item : Zip, on : BOOLEAN]

ASSUME FollowAssumption ==
    /\ DeviceOf \in [Tab -> Device]
    /\ Project \cap Zip = {}
    /\ Null \notin Account \cup Want
    /\ Expires \in BOOLEAN

Here(t) == stored[DeviceOf[t]]
Bearer(t) == authed[DeviceOf[t]]

Opened(t) ==
    [session |-> Null, follows |-> Here(t).follows, pc |-> "boot", acct |-> {}, todo |-> {}, want |-> Null]

FollowInit ==
    /\ rows = [a \in Account |-> {}]
    /\ authed = [d \in Device |-> Null]
    /\ stored = [d \in Device |-> [follows |-> {}, zips |-> {}, uid |-> Null]]
    /\ page = [t \in Tab |-> Opened(t)]
    /\ flight = {}
    /\ asked = [a \in Account |-> {}]
    /\ undone = {}
    /\ clean = [t \in Tab |-> FALSE]

-----------------------------------------------------------------------------
(* The account's side.  Row security: auth.uid() = user_id.                *)

Inserted(bearer, user, item) ==
    IF bearer = user THEN [rows EXCEPT ![user] = @ \cup {item}] ELSE rows
Deleted(bearer, user, item) ==
    IF bearer = user THEN [rows EXCEPT ![user] = @ \ {item}] ELSE rows
RowsOf(bearer) == IF bearer = Null THEN {} ELSE rows[bearer]

Disturbed == clean' = [t \in Tab |-> FALSE]
Quietly(t) == clean' = [x \in Tab |-> x = t /\ clean[x]]

-----------------------------------------------------------------------------
(* Boot, and the same steps after a sign-in.                               *)

GoesTo(t, pc) == page' = [page EXCEPT ![t].pc = pc]

BootSession(t) ==
    /\ page[t].pc = "boot"
    /\ page' = [page EXCEPT ![t].session = Bearer(t),
                            ![t].pc = IF Bearer(t) = Null THEN "ready" ELSE "scope"]
    /\ UNCHANGED <<rows, authed, stored, flight, asked, undone, clean>>

(* Fault: project follows stay behind.                                     *)
ClearedZipsOnly(browser) == [browser EXCEPT !.zips = {}, !.uid = Null]

(* What the next account on this browser must not find.                    *)
Cleared(browser) == [browser EXCEPT !.follows = {}, !.zips = {}, !.uid = Null]

EnsureScope(t) ==
    LET a == page[t].session
        mine == Here(t).uid = a
        browser == IF mine THEN Here(t) ELSE Cleared(Here(t))
    IN  /\ page[t].pc = "scope"
        /\ stored' = [stored EXCEPT ![DeviceOf[t]] = [browser EXCEPT !.uid = a]]
        /\ page' = [page EXCEPT ![t].pc = "zips",
                                ![t].follows = IF mine THEN @ ELSE browser.follows]
        /\ clean' = [x \in Tab |-> x = t /\ Bearer(t) = a]
        /\ UNCHANGED <<rows, authed, flight, asked, undone>>

(* The account answers with what the bearer's account follows, or fails.   *)
AskZips(t) ==
    /\ page[t].pc = "zips"
    /\ \/ /\ page' = [page EXCEPT ![t].acct = RowsOf(Bearer(t)) \cap Zip, ![t].pc = "zipsTold"]
          /\ UNCHANGED clean
       \/ GoesTo(t, "projects") /\ Disturbed
    /\ UNCHANGED <<rows, authed, stored, flight, asked, undone>>

(* Reads the list; rows it does not know must be named before they are     *)
(* kept, and the list read here is what is written then.                   *)
TakeZips(t) ==
    LET known == Here(t).zips
    IN  /\ page[t].pc = "zipsTold"
        /\ page' = [page EXCEPT
             ![t].todo = IF page[t].acct \subseteq known THEN known \ page[t].acct
                         ELSE known \cup page[t].acct,
             ![t].pc = IF page[t].acct \subseteq known THEN "pushZips" ELSE "naming"]
        /\ UNCHANGED <<rows, authed, stored, flight, asked, undone, clean>>

NameZips(t) ==
    /\ page[t].pc = "naming"
    /\ stored' = [stored EXCEPT ![DeviceOf[t]].zips = page[t].todo]
    /\ page' = [page EXCEPT ![t].todo = @ \ page[t].acct, ![t].pc = "pushZips"]
    /\ Quietly(t)
    /\ UNCHANGED <<rows, authed, flight, asked, undone>>

AskProjects(t) ==
    /\ page[t].pc = "projects"
    /\ \/ /\ page' = [page EXCEPT ![t].acct = RowsOf(Bearer(t)) \cap Project, ![t].pc = "projectsTold"]
          /\ UNCHANGED clean
       \/ GoesTo(t, "ready") /\ Disturbed
    /\ UNCHANGED <<rows, authed, stored, flight, asked, undone>>

(* Fault: what only the browser knew stays there.                          *)
NothingNew(t) == {}

(* What the account has not got.                                           *)
OnlyHere(t) == page[t].follows \ page[t].acct

TakeProjects(t) ==
    /\ page[t].pc = "projectsTold"
    /\ page' = [page EXCEPT ![t].follows = @ \cup page[t].acct,
                            ![t].todo = OnlyHere(t),
                            ![t].pc = "pushProjects"]
    /\ stored' = [stored EXCEPT ![DeviceOf[t]].follows = page[t].follows \cup page[t].acct]
    /\ Quietly(t)
    /\ UNCHANGED <<rows, authed, flight, asked, undone>>

(* What only this browser knew goes up, one row at a time; a failure is    *)
(* passed over.                                                            *)
Push(t) ==
    /\ page[t].pc \in {"pushZips", "pushProjects"}
    /\ \E i \in page[t].todo :
         /\ page' = [page EXCEPT ![t].todo = @ \ {i}]
         /\ \/ rows' = Inserted(Bearer(t), page[t].session, i) /\ Quietly(t)
            \/ rows' = rows /\ Disturbed
    /\ UNCHANGED <<authed, stored, flight, asked, undone>>

Pushed(t) ==
    /\ page[t].pc \in {"pushZips", "pushProjects"} /\ page[t].todo = {}
    /\ GoesTo(t, IF page[t].pc = "pushZips" THEN "projects" ELSE "ready")
    /\ UNCHANGED <<rows, authed, stored, flight, asked, undone, clean>>

-----------------------------------------------------------------------------
(* Pressing a project's button: one request, and the page changes when it  *)
(* is answered.                                                            *)

Asks(a, i) == asked' = IF a = Null THEN asked ELSE [asked EXCEPT ![a] = @ \cup {i}]

Toggle(t, p) ==
    LET on == p \notin page[t].follows
    IN  /\ page[t].pc = "ready" /\ page[t].session # Null /\ page[t].want = Null
        /\ page' = [page EXCEPT ![t].want = [item |-> p, on |-> on, answer |-> "none"]]
        /\ undone' = IF on THEN undone \ {<<page[t].session, p>>} ELSE undone
        /\ IF on THEN Asks(page[t].session, p) ELSE UNCHANGED asked
        /\ Disturbed
        /\ UNCHANGED <<rows, authed, stored, flight>>

(* Row security refuses an insert for another user, and finds no row of    *)
(* another user to delete.                                                 *)
Refused(t) == page[t].want.on /\ Bearer(t) # page[t].session

ServeToggle(t) ==
    LET w == page[t].want
    IN  /\ w # Null /\ w.answer = "none"
        /\ \/ /\ rows' = IF w.on THEN Inserted(Bearer(t), page[t].session, w.item)
                         ELSE Deleted(Bearer(t), page[t].session, w.item)
              /\ \E heard \in {"ok", "failed"} :
                   page' = [page EXCEPT ![t].want.answer = IF Refused(t) THEN "failed" ELSE heard]
           \/ rows' = rows /\ page' = [page EXCEPT ![t].want.answer = "failed"]
        /\ Disturbed
        /\ UNCHANGED <<authed, stored, flight, asked, undone>>

(* Fault: an error in the answer is not looked at.                         *)
NeverFailed(w) == FALSE

Failed(w) == w.answer = "failed"

AnswerToggle(t) ==
    LET w == page[t].want
        held == IF Failed(w) THEN page[t].follows
                ELSE IF w.on THEN page[t].follows \cup {w.item} ELSE page[t].follows \ {w.item}
    IN  /\ w # Null /\ w.answer # "none"
        /\ page' = [page EXCEPT ![t].follows = held, ![t].want = Null]
        /\ stored' = IF Failed(w) THEN stored
                     ELSE [stored EXCEPT ![DeviceOf[t]].follows = held]
        /\ undone' = IF ~Failed(w) /\ ~w.on /\ page[t].session # Null
                     THEN undone \cup {<<page[t].session, w.item>>} ELSE undone
        /\ Disturbed
        /\ UNCHANGED <<rows, authed, flight, asked>>

Tells(t) == page[t].session # Null

(* A ZIP's button: storage at once, the account some time.                 *)
ToggleZip(t, z) ==
    LET on == z \notin Here(t).zips
        who == IF page[t].session = Null THEN Here(t).uid ELSE page[t].session
    IN  /\ page[t].pc = "ready"
        /\ stored' = [stored EXCEPT ![DeviceOf[t]].zips = IF on THEN @ \cup {z} ELSE @ \ {z}]
        /\ flight' = IF ~Tells(t) THEN flight ELSE flight \cup
             {[tab |-> t, user |-> page[t].session, bearer |-> Bearer(t), item |-> z, on |-> on]}
        /\ IF on THEN Asks(who, z) ELSE UNCHANGED asked
        /\ Disturbed
        /\ UNCHANGED <<rows, authed, page, undone>>

(* In any order, or never.                                                 *)
Deliver(r) ==
    /\ r \in flight
    /\ flight' = flight \ {r}
    /\ \/ rows' = IF r.on THEN Inserted(r.bearer, r.user, r.item) ELSE Deleted(r.bearer, r.user, r.item)
       \/ rows' = rows
    /\ Disturbed
    /\ UNCHANGED <<authed, stored, page, asked, undone>>

-----------------------------------------------------------------------------
(* Sessions.                                                               *)

(* The code was right: the page takes the session and merges.              *)
SignIn(t, a) ==
    /\ page[t].pc = "ready" /\ page[t].session = Null
    /\ authed' = [authed EXCEPT ![DeviceOf[t]] = a]
    /\ page' = [page EXCEPT ![t].session = a, ![t].pc = "scope"]
    /\ Disturbed
    /\ UNCHANGED <<rows, stored, flight, asked, undone>>

Settled(t) == \A r \in flight : r.tab # t

(* The browser's copy is dropped, the session ended, the page loaded anew. *)
SignOut(t) ==
    LET d == DeviceOf[t]
    IN  /\ page[t].pc = "ready" /\ page[t].session # Null /\ Settled(t)
        /\ \E ended \in BOOLEAN :
             authed' = IF ended THEN [authed EXCEPT ![d] = Null] ELSE authed
        /\ stored' = [stored EXCEPT ![d] = Cleared(@)]
        /\ page' = [page EXCEPT ![t] = [Opened(t) EXCEPT !.follows = {}]]
        /\ Disturbed
        /\ UNCHANGED <<rows, flight, asked, undone>>

(* A page's own requests are settled before the next page's are answered.  *)
Reload(t) ==
    /\ Settled(t) /\ page[t].pc # "boot"
    /\ page' = [page EXCEPT ![t] = Opened(t)]
    /\ Disturbed
    /\ UNCHANGED <<rows, authed, stored, flight, asked, undone>>

(* The session cannot be refreshed: it was ended elsewhere.                *)
Expire(d) ==
    /\ Expires /\ authed[d] # Null
    /\ authed' = [authed EXCEPT ![d] = Null]
    /\ Disturbed
    /\ UNCHANGED <<rows, stored, page, flight, asked, undone>>

FollowNext ==
    \/ \E t \in Tab :
         \/ BootSession(t) \/ EnsureScope(t) \/ AskZips(t) \/ TakeZips(t) \/ NameZips(t)
         \/ AskProjects(t) \/ TakeProjects(t) \/ Push(t) \/ Pushed(t)
         \/ \E p \in Project : Toggle(t, p)
         \/ ServeToggle(t) \/ AnswerToggle(t)
         \/ \E z \in Zip : ToggleZip(t, z)
         \/ \E a \in Account : SignIn(t, a)
         \/ SignOut(t) \/ Reload(t)
    \/ \E r \in flight : Deliver(r)
    \/ \E d \in Device : Expire(d)

FollowSpec == FollowInit /\ [][FollowNext]_followVars

-----------------------------------------------------------------------------
(* Types.                                                                  *)
FollowTypeOK ==
    /\ rows \in [Account -> SUBSET Item]
    /\ authed \in [Device -> Account \cup {Null}]
    /\ stored \in [Device -> Browser]
    /\ page \in [Tab -> Memory]
    /\ flight \subseteq ZipRequest
    /\ asked \in [Account -> SUBSET Item]
    /\ undone \subseteq Account \X Project
    /\ clean \in [Tab -> BOOLEAN]

(* Nobody's account ever follows what only somebody else asked for: a      *)
(* later sign-in neither inherits nor pushes another account's follows     *)
(* (shell.js 579-584), through reloads, lost answers, ended sessions and   *)
(* several browsers.                                                       *)
OwnFollowsOnly == \A a \in Account : rows[a] \subseteq asked[a]

(* A merge that met no failure and no other change ends with storage, the  *)
(* page and the account saying the same (shell.js 2900-2904).              *)
MergeAgrees ==
    \A t \in Tab : page[t].pc = "ready" /\ clean[t] =>
        /\ Here(t).zips = rows[page[t].session] \cap Zip
        /\ page[t].follows = rows[page[t].session] \cap Project
        /\ Here(t).follows = page[t].follows

(* In one browser whose session lasts, a removal the page reported is a     *)
(* removal the account made: the follow state changes only after the       *)
(* database confirms the write (shell.js 2629-2632).                       *)
RemovedIsGone == \A a \in Account, p \in Project : <<a, p>> \in undone => p \notin rows[a]
=============================================================================

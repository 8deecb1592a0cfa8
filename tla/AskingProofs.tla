----------------------------- MODULE AskingProofs -----------------------------
(***************************************************************************)
(* What a visitor's browser asks for: the rate limit, the report request   *)
(* and the follows.  They share no state; each has its part here.          *)
(***************************************************************************)
EXTENDS MCAsking, FiniteSetTheorems, TLAPS

-----------------------------------------------------------------------------
(***************************************************************************)
(* RateLimit.  The limit holds for any people, brokerages, spans, limits   *)
(* and number of concurrent claims.  The counter's bound alone is not      *)
(* inductive: between the pass that counts and the pass that takes a claim *)
(* relies on nobody else taking from its subjects, which is what the       *)
(* advisory locks give.  Over a stretch of windows, what was granted is    *)
(* counted by the rows still held and by those that went (Lasting).        *)
(***************************************************************************)

Tables ==
    /\ clock \in Nat
    /\ window \in [Subject -> [Span -> Row \cup {None}]]
    /\ claim \in [Claim -> InFlight \cup {None}]

(* A subject's lock is held by one claim at a time.                        *)
OneHolder == \A x \in Subject : \A c, d \in Holders(x) : c = d

(* A claim that counted still has room in every one of its windows.        *)
CountStands == \A c \in Claim : claim[c] # None /\ claim[c].pc = "room" => HasRoom(claim[c])

Inductive == Tables /\ OneHolder /\ CountStands /\ WithinLimit

-----------------------------------------------------------------------------

LEMMA LimitIsPositive ==
    ASSUME NEW x \in Subject, NEW w \in Span
    PROVE  LimitOf(x, w) \in Nat \ {0}
BY RateAssumption DEF LimitOf

LEMMA StartIsNat ==
    ASSUME NEW t \in Nat, NEW w \in Span
    PROVE  WindowStart(t, w) \in Nat
<1>1. w \in Nat \ {0}
  BY RateAssumption
<1>2. t \div w \in Nat
  BY <1>1
<1> QED
  BY <1>1, <1>2 DEF WindowStart

LEMMA SubjectsAreSubjects ==
    ASSUME NEW r \in InFlight
    PROVE  SubjectsOf(r) \subseteq Subject
BY DEF SubjectsOf, InFlight, Subject

(* Who holds no more than before, and sees no fuller windows, keeps the    *)
(* two invariants about the claims in flight.                              *)
LEMMA FewerHolders ==
    ASSUME OneHolder, \A x \in Subject : Holders(x)' \subseteq Holders(x)
    PROVE  OneHolder'
BY DEF OneHolder

(* What a counted claim holds: the locks of all its subjects.              *)
LEMMA CountedHolds ==
    ASSUME Tables, NEW c \in Claim, claim[c] # None, claim[c].pc \in {"both", "room"},
           NEW x \in SubjectsOf(claim[c])
    PROVE  c \in Holders(x)
BY DEF Holders, SubjectsOf

LEMMA InitInductive == Init => Inductive
<1> SUFFICES ASSUME Init PROVE Inductive
  OBVIOUS
<1>1. Tables
  BY DEF Init, Tables
<1>2. \A x \in Subject : Holders(x) = {}
  BY DEF Init, Holders
<1> QED
  BY <1>1, <1>2 DEF Init, Inductive, OneHolder, CountStands, WithinLimit

-----------------------------------------------------------------------------
(* One lemma for each action.                                              *)

LEMMA StartsFromIdle ==
    ASSUME Inductive, NEW c \in Claim, Ask(c)
    PROVE  Inductive'
<1>1. PICK x \in First, y \in Second \cup {None} :
         /\ claim[c] = None
         /\ claim' = [claim EXCEPT ![c] = [first |-> x, second |-> y, at |-> clock, pc |-> "asked"]]
         /\ UNCHANGED <<clock, window, granted>>
  BY DEF Ask
<1>2. Tables'
  BY <1>1 DEF Inductive, Tables, InFlight
<1>3. \A d \in Claim : claim'[d] # claim[d] => claim'[d].pc = "asked"
  BY <1>1 DEF Inductive, Tables
<1>4. \A z \in Subject : Holders(z)' \subseteq Holders(z)
  BY <1>3 DEF Holders
<1>5. CountStands'
  BY <1>1, <1>3 DEF Inductive, CountStands, HasRoom, Used
<1>6. WithinLimit'
  BY <1>1 DEF Inductive, WithinLimit
<1> QED
  BY <1>2, <1>4, <1>5, <1>6, FewerHolders DEF Inductive

LEMMA LocksOne ==
    ASSUME Inductive, NEW c \in Claim, LockFirst(c)
    PROVE  Inductive'
<1>1. /\ claim[c] # None /\ claim[c].pc = "asked" /\ Holders(claim[c].first) = {}
      /\ claim' = [claim EXCEPT ![c].pc = "one"] /\ UNCHANGED <<clock, window, granted>>
  BY DEF LockFirst, Goto
<1>2. Tables'
  BY <1>1 DEF Inductive, Tables, InFlight
<1>3. \A d \in Claim \ {c} : claim'[d] = claim[d]
  BY <1>1 DEF Inductive, Tables
<1>4. claim'[c].pc = "one" /\ claim'[c].first = claim[c].first
  BY <1>1 DEF Inductive, Tables, InFlight
<1>5. \A z \in Subject : Holders(z)' \subseteq Holders(z) \cup (IF z = claim[c].first THEN {c} ELSE {})
  BY <1>1, <1>3, <1>4 DEF Holders
<1>6. OneHolder'
  BY <1>1, <1>5 DEF Inductive, OneHolder
<1>7. CountStands'
  BY <1>1, <1>3, <1>4 DEF Inductive, CountStands, HasRoom, Used
<1>8. WithinLimit'
  BY <1>1 DEF Inductive, WithinLimit
<1> QED
  BY <1>2, <1>6, <1>7, <1>8 DEF Inductive

LEMMA LocksTwo ==
    ASSUME Inductive, NEW c \in Claim, LockSecond(c)
    PROVE  Inductive'
<1>1. /\ claim[c] # None /\ claim[c].pc = "one"
      /\ claim[c].second # None => Holders(claim[c].second) = {}
      /\ claim' = [claim EXCEPT ![c].pc = "both"] /\ UNCHANGED <<clock, window, granted>>
  BY DEF LockSecond, Goto
<1>2. Tables'
  BY <1>1 DEF Inductive, Tables, InFlight
<1>3. \A d \in Claim \ {c} : claim'[d] = claim[d]
  BY <1>1 DEF Inductive, Tables
<1>4. /\ claim'[c].pc = "both" /\ claim'[c].first = claim[c].first
      /\ claim'[c].second = claim[c].second
  BY <1>1 DEF Inductive, Tables, InFlight
<1>5. \A z \in Subject : Holders(z)' \subseteq Holders(z) \cup (IF z = claim[c].second THEN {c} ELSE {})
  BY <1>1, <1>3, <1>4 DEF Holders
<1>6. OneHolder'
  <2>1. None \notin Subject
    BY RateAssumption DEF Subject
  <2>2. \A z \in Subject : z = claim[c].second => Holders(z) = {}
    BY <1>1, <2>1
  <2> QED
    BY <1>5, <2>2 DEF Inductive, OneHolder
<1>7. CountStands'
  BY <1>1, <1>3, <1>4 DEF Inductive, CountStands, HasRoom, Used
<1>8. WithinLimit'
  BY <1>1 DEF Inductive, WithinLimit
<1> QED
  BY <1>2, <1>6, <1>7, <1>8 DEF Inductive

(* A claim that ends without taking, refused or lost.                      *)
LEMMA LeavingKeepsRoom ==
    ASSUME Inductive, NEW c \in Claim,
           claim' = [claim EXCEPT ![c] = None], UNCHANGED <<clock, window, granted>>
    PROVE  Inductive'
<1>1. Tables'
  BY DEF Inductive, Tables
<1>2. \A d \in Claim : claim'[d] # None => claim'[d] = claim[d]
  BY DEF Inductive, Tables
<1>3. \A z \in Subject : Holders(z)' \subseteq Holders(z)
  BY <1>2 DEF Holders
<1>4. CountStands'
  BY <1>2 DEF Inductive, CountStands, HasRoom, Used
<1>5. WithinLimit'
  BY DEF Inductive, WithinLimit
<1> QED
  BY <1>1, <1>3, <1>4, <1>5, FewerHolders DEF Inductive

LEMMA Counts ==
    ASSUME Inductive, NEW c \in Claim, Count(c)
    PROVE  Inductive'
<1> USE DEF Inductive
<1>1. UNCHANGED <<clock, window, granted>> /\ claim[c] # None /\ claim[c].pc = "both"
  BY DEF Count, Goto
<1>2. CASE HasRoom(claim[c]) /\ claim' = [claim EXCEPT ![c].pc = "room"]
  <2>1. Tables'
    BY <1>1, <1>2 DEF Tables, InFlight
  <2>2. \A d \in Claim \ {c} : claim'[d] = claim[d]
    BY <1>2 DEF Tables
  <2>3. /\ claim'[c].pc = "room" /\ claim'[c].first = claim[c].first
        /\ claim'[c].second = claim[c].second /\ claim'[c].at = claim[c].at
    BY <1>1, <1>2 DEF Tables, InFlight
  <2>4. \A z \in Subject : Holders(z)' \subseteq Holders(z)
    BY <1>1, <2>2, <2>3 DEF Holders
  <2>5. HasRoom(claim[c])'
    BY <1>1, <1>2, <2>3 DEF HasRoom, Used, SubjectsOf
  <2>6. CountStands'
    BY <1>1, <2>2, <2>5 DEF CountStands, HasRoom, Used
  <2>7. WithinLimit'
    BY <1>1 DEF WithinLimit
  <2> QED
    BY <2>1, <2>4, <2>6, <2>7, FewerHolders
<1>3. CASE claim' = [claim EXCEPT ![c] = None]
  BY <1>1, <1>3, LeavingKeepsRoom DEF Count
<1> QED
  BY <1>2, <1>3 DEF Count, Goto

LEMMA Takes ==
    ASSUME Inductive, NEW c \in Claim, Take(c)
    PROVE  Inductive'
<1> DEFINE r == claim[c]
           gone(x, w) == window'[x][w] = None \/ window'[x][w] = window[x][w]
<1>1. /\ r # None /\ r.pc = "room" /\ r \in InFlight /\ HasRoom(r)
      /\ claim' = [claim EXCEPT ![c] = None] /\ clock' = clock
  BY DEF Take, Inductive, Tables, CountStands
<1>2. window' = [x \in Subject |-> [w \in Span |->
          IF x \in SubjectsOf(r) THEN Taken(window[x][w], w, r.at)
          ELSE IF <<x, w>> \in Dead(r.at) THEN None ELSE window[x][w]]]
  BY DEF Take
<1>3. \A x \in SubjectsOf(r), w \in Span : window'[x][w] = Taken(window[x][w], w, r.at)
  BY <1>1, <1>2, SubjectsAreSubjects
<1>4. \A x \in Subject \ SubjectsOf(r), w \in Span : gone(x, w)
  <2> SUFFICES ASSUME NEW x \in Subject, x \notin SubjectsOf(r), NEW w \in Span
               PROVE  gone(x, w)
    OBVIOUS
  <2>1. window'[x][w] = IF <<x, w>> \in Dead(r.at) THEN None ELSE window[x][w]
    BY <1>2
  <2> QED
    BY <2>1
<1>5. \A x \in SubjectsOf(r), w \in Span :
        window'[x][w] \in Row /\ window'[x][w].used <= LimitOf(x, w)
  <2> SUFFICES ASSUME NEW x \in SubjectsOf(r), NEW w \in Span
               PROVE  /\ Taken(window[x][w], w, r.at) \in Row
                      /\ Taken(window[x][w], w, r.at).used <= LimitOf(x, w)
    BY <1>3
  <2>1. x \in Subject /\ window[x][w] \in Row \cup {None}
    BY <1>1, SubjectsAreSubjects DEF Inductive, Tables
  <2>2. LimitOf(x, w) \in Nat \ {0} /\ WindowStart(r.at, w) \in Nat
    BY <1>1, <2>1, LimitIsPositive, StartIsNat DEF InFlight
  <2>3. Used(x, w, r.at) < LimitOf(x, w)
    BY <1>1 DEF HasRoom
  <2> QED
    BY <2>1, <2>2, <2>3 DEF Taken, Used, Row
<1>6. Tables'
  <2>1. \A x \in Subject, w \in Span : window'[x][w] \in Row \cup {None}
    BY <1>4, <1>5 DEF Inductive, Tables
  <2>2. window' \in [Subject -> [Span -> Row \cup {None}]]
    BY <1>2, <2>1
  <2> QED
    BY <1>1, <2>2 DEF Inductive, Tables
<1>7. OneHolder'
  <2>1. \A z \in Subject : Holders(z)' \subseteq Holders(z)
    BY <1>1 DEF Holders, Inductive, Tables
  <2> QED
    BY <2>1, FewerHolders DEF Inductive
<1>8. CountStands'
  <2> SUFFICES ASSUME NEW d \in Claim, claim'[d] # None, claim'[d].pc = "room"
               PROVE  HasRoom(claim[d])'
    BY DEF CountStands
  <2>1. d # c /\ claim'[d] = claim[d] /\ claim[d] \in InFlight /\ HasRoom(claim[d])
    BY <1>1 DEF Inductive, Tables, CountStands
  <2> SUFFICES ASSUME NEW x \in SubjectsOf(claim[d]), NEW w \in Span
               PROVE  Used(x, w, claim[d].at)' < LimitOf(x, w)
    BY <2>1 DEF HasRoom, SubjectsOf, LimitOf
  <2>2. x \in Subject
    BY <2>1, SubjectsAreSubjects
  <2>3. x \notin SubjectsOf(r)
    BY <1>1, <2>1, <2>2, CountedHolds DEF Inductive, OneHolder
  <2>4. gone(x, w)
    BY <1>4, <2>2, <2>3
  <2>5. Used(x, w, claim[d].at) < LimitOf(x, w) /\ 0 < LimitOf(x, w)
    BY <2>1, <2>2, LimitIsPositive DEF HasRoom
  <2> QED
    BY <2>1, <2>4, <2>5 DEF Used
<1>9. WithinLimit'
  BY <1>4, <1>5 DEF Inductive, WithinLimit
<1> QED
  BY <1>6, <1>7, <1>8, <1>9 DEF Inductive

LEMMA Ticks ==
    ASSUME Inductive, Tick
    PROVE  Inductive'
<1>1. clock' = clock + 1 /\ UNCHANGED <<window, claim, granted>>
  BY DEF Tick
<1> QED
  BY <1>1 DEF Inductive, Tables, OneHolder, Holders, CountStands, HasRoom, Used, WithinLimit

LEMMA Idles ==
    ASSUME Inductive, UNCHANGED rateVars
    PROVE  Inductive'
BY DEF rateVars, Inductive, Tables, OneHolder, Holders, CountStands, HasRoom, Used, WithinLimit

LEMMA StepInductive ==
    ASSUME Inductive, [Next]_rateVars
    PROVE  Inductive'
<1>1. CASE Tick
  BY <1>1, Ticks
<1>2. ASSUME NEW c \in Claim, Ask(c) PROVE Inductive'
  BY <1>2, StartsFromIdle
<1>3. ASSUME NEW c \in Claim, LockFirst(c) PROVE Inductive'
  BY <1>3, LocksOne
<1>4. ASSUME NEW c \in Claim, LockSecond(c) PROVE Inductive'
  BY <1>4, LocksTwo
<1>5. ASSUME NEW c \in Claim, Count(c) PROVE Inductive'
  BY <1>5, Counts
<1>6. ASSUME NEW c \in Claim, Take(c) PROVE Inductive'
  BY <1>6, Takes
<1>7. ASSUME NEW c \in Claim, Lose(c) PROVE Inductive'
  BY <1>7, LeavingKeepsRoom DEF Lose
<1>8. CASE UNCHANGED rateVars
  BY <1>8, Idles
<1> QED
  BY <1>1, <1>2, <1>3, <1>4, <1>5, <1>6, <1>7, <1>8 DEF Next

-----------------------------------------------------------------------------
(* No window's counter ever stands above its limit: for every set of       *)
(* people and brokerages, every set of spans, every limit of at least one, *)
(* and any number of claims in flight (report_rate_claim_at and            *)
(* share_view_claim_at, both passes under the advisory locks).             *)
THEOREM WithinLimitHolds == Spec => []WithinLimit
<1>1. Init => Inductive
  BY InitInductive
<1>2. Inductive /\ [Next]_rateVars => Inductive'
  BY StepInductive
<1>3. Inductive => WithinLimit
  BY DEF Inductive
<1> QED
  BY <1>1, <1>2, <1>3, PTL DEF Spec

-----------------------------------------------------------------------------
(* A row's counter is of one window, and a claim that waited is counted in *)
(* a later one than it asked in, so no sum of counters bounds a stretch.   *)
(* What does is what each row owes: a row that stands at window k with u   *)
(* used vouches for everything asked since any earlier window i, for its   *)
(* own u and the whole limit of each window between.  A row that was       *)
(* deleted vouched for a window no claim still in flight reaches back to.  *)
Of(x) == {g \in granted : g.subject = x}
Since(x, n) == {g \in Of(x) : g.asked >= n}

Owed(x, w, k, u) ==
    \A i \in Nat :
        Cardinality(Since(x, i * w)) <= IF i <= k THEN LimitOf(x, w) * (k - i) + u ELSE 0

Accounted ==
    \A x \in Subject, w \in Span :
        IF window[x][w] # None
        THEN \E k \in Nat : /\ window[x][w].start = k * w /\ k * w <= clock
                            /\ Owed(x, w, k, window[x][w].used)
        ELSE \/ Of(x) = {}
             \/ /\ Retention # None
                /\ \E k \in Nat : k * w + Retention < clock /\ Owed(x, w, k, LimitOf(x, w))

(* A claim in flight asked no longer ago than a statement may take.        *)
Waits == \A c \in Claim : claim[c] # None => claim[c].at <= clock /\ clock <= claim[c].at + Patience

Grants ==
    /\ IsFiniteSet(granted)
    /\ granted \subseteq [subject : Subject, asked : Nat, given : Nat, nth : Nat]

Stretches ==
    \A x \in Subject, w \in Span : \A i, j \in Nat :
        i <= j => AllowedIn(x, i * w, (j + 1) * w) <= LimitOf(x, w) * (j + 1 - i)

Lasting == Waits /\ Grants /\ Accounted /\ Stretches

-----------------------------------------------------------------------------
(* Arithmetic of windows.                                                  *)

LEMMA ProductGrows ==
    ASSUME NEW a \in Nat, NEW b \in Nat, NEW w \in Nat, a <= b
    PROVE  a * w <= b * w
<1>1. b * w - a * w = (b - a) * w
  OBVIOUS
<1>2. (b - a) * w >= 0
  OBVIOUS
<1>3. a * w \in Int /\ b * w \in Int
  OBVIOUS
<1> QED
  BY <1>1, <1>2, <1>3

(* Who asked in window i at a time of window k, or before its end.         *)
LEMMA NoLaterThan ==
    ASSUME NEW i \in Nat, NEW k \in Nat, NEW w \in Nat \ {0}, NEW t \in Nat,
           i * w <= t, t < k * w + w
    PROVE  i <= k
<1>1. CASE k + 1 <= i
  <2>1. (k + 1) * w <= i * w
    BY <1>1, ProductGrows
  <2>2. (k + 1) * w = k * w + w
    OBVIOUS
  <2>3. k * w \in Nat /\ i * w \in Nat
    OBVIOUS
  <2> QED
    BY <2>1, <2>2, <2>3
<1> QED
  BY <1>1

LEMMA StartOfWindow ==
    ASSUME NEW t \in Nat, NEW w \in Span
    PROVE  /\ w \in Nat \ {0} /\ t \div w \in Nat
           /\ WindowStart(t, w) = (t \div w) * w
           /\ (t \div w) * w <= t /\ t < (t \div w) * w + w
<1>1. w \in Nat \ {0}
  BY RateAssumption
<1> QED
  BY <1>1 DEF WindowStart

LEMMA LimitTimes ==
    ASSUME NEW L \in Nat, NEW i \in Nat, NEW k \in Nat, NEW j \in Nat, i <= k, k <= j
    PROVE  /\ L * (k - i) \in Nat
           /\ L * (k - i) + L <= L * (j + 1 - i)
<1>1. L * (k - i) + L = (k + 1 - i) * L /\ L * (j + 1 - i) = (j + 1 - i) * L
  OBVIOUS
<1>2. k + 1 - i \in Nat /\ j + 1 - i \in Nat /\ k + 1 - i <= j + 1 - i
  OBVIOUS
<1>3. (k + 1 - i) * L <= (j + 1 - i) * L
  BY <1>2, ProductGrows
<1>4. L * (k - i) \in Nat
  OBVIOUS
<1> QED
  BY <1>1, <1>3, <1>4

-----------------------------------------------------------------------------
(* What a row owes.                                                        *)

LEMMA CountsAreNat ==
    ASSUME Grants, NEW x \in Subject, NEW n, NEW m
    PROVE  /\ IsFiniteSet(Of(x)) /\ IsFiniteSet(Since(x, n))
           /\ Cardinality(Since(x, n)) \in Nat /\ AllowedIn(x, n, m) \in Nat
<1>1. IsFiniteSet(Of(x))
  BY FS_Subset DEF Grants, Of
<1>2. IsFiniteSet(Since(x, n))
  BY <1>1, FS_Subset DEF Since
<1>3. IsFiniteSet({g \in granted : g.subject = x /\ g.asked >= n /\ g.given < m})
  BY FS_Subset DEF Grants
<1> QED
  BY <1>1, <1>2, <1>3, FS_CardinalityType DEF AllowedIn

LEMMA OwedMore ==
    ASSUME Grants, NEW x \in Subject, NEW w \in Span, NEW k \in Nat, NEW u \in Nat, NEW v \in Nat,
           u <= v, Owed(x, w, k, u)
    PROVE  Owed(x, w, k, v)
<1> SUFFICES ASSUME NEW i \in Nat
             PROVE  Cardinality(Since(x, i * w)) <= IF i <= k THEN LimitOf(x, w) * (k - i) + v ELSE 0
  BY DEF Owed
<1>1. Cardinality(Since(x, i * w)) \in Nat
  BY CountsAreNat
<1>2. i <= k => LimitOf(x, w) * (k - i) \in Nat
  <2>1. LimitOf(x, w) \in Nat
    BY LimitIsPositive
  <2> QED
    BY <2>1, LimitTimes
<1>3. Cardinality(Since(x, i * w)) <= IF i <= k THEN LimitOf(x, w) * (k - i) + u ELSE 0
  BY DEF Owed
<1> QED
  BY <1>1, <1>2, <1>3

(* A row that is full vouches for nothing of any later window.             *)
LEMMA OwedLater ==
    ASSUME Grants, NEW x \in Subject, NEW w \in Span, NEW k \in Nat, NEW m \in Nat, k < m,
           Owed(x, w, k, LimitOf(x, w))
    PROVE  Owed(x, w, m, 0)
<1> SUFFICES ASSUME NEW i \in Nat
             PROVE  Cardinality(Since(x, i * w)) <= IF i <= m THEN LimitOf(x, w) * (m - i) + 0 ELSE 0
  BY DEF Owed
<1> DEFINE L == LimitOf(x, w)
           n == Cardinality(Since(x, i * w))
<1>1. L \in Nat /\ n \in Nat
  BY LimitIsPositive, CountsAreNat
<1>2. n <= IF i <= k THEN L * (k - i) + L ELSE 0
  BY DEF Owed
<1>3. CASE i <= k
  <2>1. m - 1 \in Nat /\ k <= m - 1 /\ (m - 1) + 1 - i = m - i
    BY <1>3
  <2>2. L * (k - i) + L <= L * (m - i) /\ L * (k - i) \in Nat
    <3> HIDE DEF L
    <3>1. /\ L * (k - i) \in Nat
          /\ L * (k - i) + L <= L * ((m - 1) + 1 - i)
      BY <1>1, <1>3, <2>1, LimitTimes
    <3> QED
      BY <2>1, <3>1
  <2>3. L * (m - i) \in Nat
    <3> HIDE DEF L
    <3> QED
      BY <1>1, <1>3
  <2> HIDE DEF L, n
  <2> QED
    BY <1>1, <1>2, <1>3, <2>2, <2>3 DEF L, n
<1>4. CASE k < i
  <2>1. n = 0
    BY <1>1, <1>2, <1>4
  <2>2. i <= m => L * (m - i) \in Nat
    <3> HIDE DEF L
    <3> QED
      BY <1>1
  <2> QED
    BY <2>1, <2>2
<1> QED
  BY <1>3, <1>4

-----------------------------------------------------------------------------
(* One claim's taking.                                                     *)

(* Each subject of the claim is granted it once, and nobody else is.       *)
LEMMA GrantsOne ==
    ASSUME Tables, Waits, Grants, NEW c \in Claim, Take(c)
    PROVE  /\ claim[c] \in InFlight /\ clock \in Nat /\ Grants'
           /\ \A x \in Subject : x \notin SubjectsOf(claim[c]) => Of(x)' = Of(x)
           /\ \A x \in SubjectsOf(claim[c]) : \E g :
                 Of(x)' = Of(x) \cup {g} /\ g.asked = claim[c].at /\ g.given = clock /\ g.subject = x
<1> DEFINE r == claim[c]
           Of1(x) == [subject |-> x, asked |-> r.at, given |-> clock,
               nth |-> Cardinality({g \in granted : g.subject = x /\ g.asked = r.at /\ g.given = clock})]
<1>1. /\ r \in InFlight /\ clock \in Nat
      /\ granted' = granted \cup {Of1(x) : x \in SubjectsOf(r)}
  BY DEF Take, Tables
<1>2. SubjectsOf(r) \subseteq Subject
  BY <1>1, SubjectsAreSubjects
<1>3. \A x \in Subject : Of1(x) \in [subject : Subject, asked : Nat, given : Nat, nth : Nat]
  <2> TAKE x \in Subject
  <2>1. IsFiniteSet({g \in granted : g.subject = x /\ g.asked = r.at /\ g.given = clock})
    BY FS_Subset DEF Grants
  <2>2. Cardinality({g \in granted : g.subject = x /\ g.asked = r.at /\ g.given = clock}) \in Nat
    BY <2>1, FS_CardinalityType
  <2> QED
    BY <1>1, <2>2 DEF InFlight
<1>4. \A x \in Subject : Of1(x).subject = x /\ Of1(x).asked = r.at /\ Of1(x).given = clock
  OBVIOUS
<1> HIDE DEF Of1
<1>5. Grants'
  <2>1. IsFiniteSet({Of1(x) : x \in SubjectsOf(r)})
    <3>1. {Of1(x) : x \in SubjectsOf(r)} \subseteq {Of1(r.first)} \cup {Of1(r.second)}
      BY DEF SubjectsOf
    <3>2. IsFiniteSet({Of1(r.first)}) /\ IsFiniteSet({Of1(r.second)})
      BY FS_Singleton
    <3>3. IsFiniteSet({Of1(r.first)} \cup {Of1(r.second)})
      BY <3>2, FS_Union
    <3> QED
      BY <3>1, <3>3, FS_Subset
  <2>2. IsFiniteSet(granted')
    BY <1>1, <2>1, FS_Union DEF Grants
  <2> QED
    BY <1>1, <1>2, <1>3, <2>2 DEF Grants
<1>6. \A x \in Subject : x \notin SubjectsOf(r) => Of(x)' = Of(x)
  BY <1>1, <1>2, <1>4 DEF Of
<1>7. \A x \in SubjectsOf(r) : Of(x)' = Of(x) \cup {Of1(x)}
  BY <1>1, <1>2, <1>4 DEF Of
<1> QED
  BY <1>1, <1>2, <1>4, <1>5, <1>6, <1>7

LEMMA OneMore ==
    ASSUME Grants, Grants', NEW x \in Subject, NEW g, Of(x)' = Of(x) \cup {g}, NEW n \in Nat,
           g.asked \in Nat
    PROVE  /\ Cardinality(Since(x, n))' <= Cardinality(Since(x, n)) + 1
           /\ g.asked < n => Since(x, n)' = Since(x, n)
<1>1. Since(x, n)' \subseteq Since(x, n) \cup {g}
  BY DEF Since
<1>2. g.asked < n => Since(x, n)' = Since(x, n)
  BY DEF Since
<1>3. IsFiniteSet(Since(x, n)) /\ Cardinality(Since(x, n)) \in Nat
  BY CountsAreNat
<1>4. /\ IsFiniteSet(Since(x, n) \cup {g})
      /\ Cardinality(Since(x, n) \cup {g}) <= Cardinality(Since(x, n)) + 1
      /\ Cardinality(Since(x, n) \cup {g}) \in Nat
  <2>1. /\ IsFiniteSet(Since(x, n) \cup {g})
        /\ Cardinality(Since(x, n) \cup {g}) = IF g \in Since(x, n) THEN Cardinality(Since(x, n))
                                               ELSE Cardinality(Since(x, n)) + 1
    BY <1>3, FS_AddElement
  <2> QED
    BY <1>3, <2>1
<1>5. /\ Cardinality(Since(x, n)') <= Cardinality(Since(x, n) \cup {g})
      /\ Cardinality(Since(x, n)') \in Nat
  <2>1. IsFiniteSet(Since(x, n)')
    BY <1>1, <1>4, FS_Subset
  <2> QED
    BY <1>1, <1>4, <2>1, FS_Subset, FS_CardinalityType
<1> QED
  BY <1>2, <1>3, <1>4, <1>5

(* The row a claim takes from vouches for its own window or a later one.   *)
LEMMA TakesFromRow ==
    ASSUME Inductive, Waits, Grants, Accounted, NEW c \in Claim, Take(c),
           NEW x \in SubjectsOf(claim[c]), NEW w \in Span
    PROVE  \E k, u \in Nat :
              /\ Taken(window[x][w], w, claim[c].at).start = k * w
              /\ Taken(window[x][w], w, claim[c].at).used = u + 1
              /\ claim[c].at < k * w + w /\ k * w <= clock
              /\ u < LimitOf(x, w) /\ Owed(x, w, k, u)
<1> DEFINE row == window[x][w]
           L == LimitOf(x, w)
<1>1. PICK r \in InFlight : r = claim[c]
  BY DEF Take, Inductive, Tables
<1>2. PICK at \in Nat : at = r.at
  BY DEF InFlight
<1>3. x \in Subject /\ row \in Row \cup {None} /\ L \in Nat \ {0} /\ clock \in Nat
  BY <1>1, SubjectsAreSubjects, LimitIsPositive DEF Inductive, Tables
<1>4. Used(x, w, at) < L
  BY <1>1, <1>2 DEF Take, Inductive, CountStands, HasRoom
<1>5. at <= clock /\ clock <= at + Patience
  BY <1>1, <1>2 DEF Take, Waits
<1>6. PICK m \in Nat : /\ m = at \div w /\ WindowStart(at, w) = m * w
                       /\ m * w \in Nat /\ m * w <= at /\ at < m * w + w
  <2>1. /\ w \in Nat \ {0} /\ at \div w \in Nat /\ WindowStart(at, w) = (at \div w) * w
        /\ (at \div w) * w <= at /\ at < (at \div w) * w + w
    BY <1>2, StartOfWindow
  <2>2. PICK m \in Nat : m = at \div w
    BY <2>1
  <2>3. m * w \in Nat
    BY <2>1
  <2> QED
    BY <2>1, <2>2, <2>3
<1>7. w \in Nat \ {0}
  BY RateAssumption
<1>8. \A k \in Nat : k * w < m * w => k < m
  <2> TAKE k \in Nat
  <2>1. m <= k => m * w <= k * w
    BY <1>7, ProductGrows
  <2> QED
    BY <1>6, <1>7, <2>1
<1>9. CASE row # None
  <2>1. PICK k \in Nat : row.start = k * w /\ k * w <= clock /\ Owed(x, w, k, row.used)
    BY <1>3, <1>9 DEF Accounted
  <2>2. row.used \in Nat /\ row.used <= L
    BY <1>3, <1>9 DEF Row, Inductive, WithinLimit
  <2>3. k * w \in Nat
    BY <1>7
  <2>4. CASE row.start >= WindowStart(at, w)
    <3>1. Taken(row, w, at).start = k * w /\ Taken(row, w, at).used = row.used + 1
      BY <1>3, <1>9, <2>1, <2>4 DEF Taken, Row
    <3>2. row.used < L
      BY <1>4, <1>9, <2>4 DEF Used
    <3>3. at < k * w + w
      <4>1. m * w <= k * w
        BY <1>6, <2>1, <2>4
      <4> QED
        BY <1>6, <1>7, <2>3, <4>1
    <3> QED
      BY <1>1, <1>2, <2>1, <2>2, <3>1, <3>2, <3>3
  <2>5. CASE ~(row.start >= WindowStart(at, w))
    <3>1. Taken(row, w, at).start = m * w /\ Taken(row, w, at).used = 0 + 1
      BY <1>6, <2>5 DEF Taken
    <3>2. k < m
      BY <1>6, <1>8, <2>1, <2>3, <2>5
    <3>3. Owed(x, w, k, L)
      BY <1>3, <2>1, <2>2, OwedMore
    <3>4. Owed(x, w, m, 0)
      BY <1>3, <3>2, <3>3, OwedLater
    <3>5. m * w <= clock
      BY <1>2, <1>3, <1>5, <1>6
    <3> QED
      BY <1>1, <1>2, <1>3, <1>6, <3>1, <3>4, <3>5
  <2> QED
    BY <2>4, <2>5
<1>10. CASE row = None
  <2>1. Taken(row, w, at).start = m * w /\ Taken(row, w, at).used = 0 + 1
    BY <1>6, <1>10 DEF Taken
  <2>2. Owed(x, w, m, 0)
    <3>1. CASE Of(x) = {}
      <4>1. \A n : Since(x, n) = {}
        BY <3>1 DEF Since
      <4>2. \A n : Cardinality(Since(x, n)) = 0
        BY <4>1, FS_EmptySet
      <4>3. \A i \in Nat : i <= m => L * (m - i) \in Nat
        <5> HIDE DEF L
        <5> QED
          BY <1>3
      <4> QED
        BY <4>2, <4>3 DEF Owed
    <3>2. CASE Of(x) # {}
      <4>1. Retention \in Nat /\ Retention + 1 >= w + Patience /\ Patience \in Nat
        BY <1>3, <1>10, <3>2, RateAssumption DEF Accounted
      <4>2. PICK k \in Nat : k * w + Retention < clock /\ Owed(x, w, k, L)
        BY <1>3, <1>10, <3>2 DEF Accounted
      <4>3. k * w < m * w
        <5>1. k * w \in Nat
          BY <1>7
        <5> QED
          BY <1>3, <1>5, <1>6, <1>7, <4>1, <4>2, <5>1
      <4> QED
        BY <1>3, <1>8, <4>2, <4>3, OwedLater
    <3> QED
      BY <3>1, <3>2
  <2>3. m * w <= clock
    BY <1>2, <1>3, <1>5, <1>6
  <2> QED
    BY <1>1, <1>2, <1>3, <1>6, <2>1, <2>2, <2>3
<1> QED
  BY <1>9, <1>10

(* What it vouches for once the claim has taken from it.                   *)
LEMMA OwedNow ==
    ASSUME Grants, Grants', NEW x \in Subject, NEW g, Of(x)' = Of(x) \cup {g}, g.asked \in Nat,
           NEW w \in Span, NEW k \in Nat, NEW u \in Nat, g.asked < k * w + w, Owed(x, w, k, u)
    PROVE  Owed(x, w, k, u + 1)'
<1> SUFFICES ASSUME NEW i \in Nat
             PROVE  Cardinality(Since(x, i * w))' <= IF i <= k THEN LimitOf(x, w) * (k - i) + (u + 1) ELSE 0
  BY DEF Owed
<1> DEFINE n == Cardinality(Since(x, i * w))
           n1 == Cardinality(Since(x, i * w))'
           L == LimitOf(x, w)
<1>1. w \in Nat \ {0}
  BY RateAssumption
<1>2. PICK s \in Nat : s = i * w
  BY <1>1
<1>3. /\ Cardinality(Since(x, s))' <= Cardinality(Since(x, s)) + 1
      /\ g.asked < s => Since(x, s)' = Since(x, s)
  BY OneMore
<1>4. n \in Nat /\ n1 \in Nat
  <2>1. n \in Nat
    BY CountsAreNat
  <2>2. IsFiniteSet(Of(x)')
    BY FS_Subset DEF Grants, Of
  <2>3. IsFiniteSet(Since(x, i * w)')
    BY <2>2, FS_Subset DEF Since
  <2> QED
    BY <2>1, <2>3, FS_CardinalityType
<1>5. n1 <= n + 1 /\ (g.asked < s => n1 = n)
  BY <1>2, <1>3
<1>6. n <= IF i <= k THEN L * (k - i) + u ELSE 0
  BY DEF Owed
<1>7. CASE i <= k
  <2>1. L * (k - i) \in Nat
    <3>1. L \in Nat
      BY LimitIsPositive
    <3> HIDE DEF L
    <3> QED
      BY <1>7, <3>1
  <2> HIDE DEF n, n1, L
  <2>2. n1 <= L * (k - i) + (u + 1)
    BY <1>4, <1>5, <1>6, <1>7, <2>1
  <2> QED
    BY <1>7, <2>2 DEF n1, L
<1>8. CASE k < i
  <2>1. (k + 1) * w <= s
    BY <1>1, <1>2, <1>8, ProductGrows
  <2>2. (k + 1) * w = k * w + w /\ k * w \in Nat
    BY <1>1
  <2>3. g.asked < s
    BY <1>1, <2>1, <2>2
  <2> HIDE DEF n, n1, L
  <2>4. n1 <= 0
    BY <1>4, <1>5, <1>6, <1>8, <2>3
  <2> QED
    BY <1>8, <2>4 DEF n1
<1> QED
  BY <1>7, <1>8

(* A stretch that takes in the claim begins no later than its row's window *)
(* and ends no sooner, so what the row vouches for bounds it.              *)
LEMMA StretchNow ==
    ASSUME Grants, Grants', Stretches, NEW x \in Subject, NEW g, Of(x)' = Of(x) \cup {g},
           g.subject = x, g.asked \in Nat, g.given = clock, clock \in Nat,
           NEW w \in Span, NEW k \in Nat, NEW u \in Nat, g.asked < k * w + w, k * w <= clock,
           u < LimitOf(x, w), Owed(x, w, k, u), NEW i \in Nat, NEW j \in Nat, i <= j
    PROVE  AllowedIn(x, i * w, (j + 1) * w)' <= LimitOf(x, w) * (j + 1 - i)
<1> DEFINE s == i * w
           e == (j + 1) * w
           L == LimitOf(x, w)
<1>1. w \in Nat \ {0} /\ s \in Nat /\ e \in Nat /\ e = j * w + w /\ j * w \in Nat /\ k * w \in Nat
  <2>1. w \in Nat \ {0}
    BY RateAssumption
  <2> QED
    BY <2>1
<1>2. L \in Nat \ {0}
  BY LimitIsPositive
<1>3. AllowedIn(x, s, e) <= L * (j + 1 - i)
  BY DEF Stretches
<1>4. AllowedIn(x, s, e) = Cardinality({h \in Of(x) : h.asked >= s /\ h.given < e})
  <2>1. {h \in granted : h.subject = x /\ h.asked >= s /\ h.given < e} = {h \in Of(x) : h.asked >= s /\ h.given < e}
    BY DEF Of
  <2> QED
    BY <2>1 DEF AllowedIn
<1>5. AllowedIn(x, s, e)' = Cardinality({h \in Of(x)' : h.asked >= s /\ h.given < e})
  <2>1. {h \in granted' : h.subject = x /\ h.asked >= s /\ h.given < e} = {h \in Of(x)' : h.asked >= s /\ h.given < e}
    BY DEF Of
  <2> QED
    BY <2>1 DEF AllowedIn
<1>6. CASE ~(g.asked >= s /\ clock < e)
  <2>1. {h \in Of(x)' : h.asked >= s /\ h.given < e} = {h \in Of(x) : h.asked >= s /\ h.given < e}
    BY <1>6
  <2> QED
    BY <1>3, <1>4, <1>5, <2>1
<1>7. CASE g.asked >= s /\ clock < e
  <2>1. i <= k
    BY <1>1, <1>7, NoLaterThan
  <2>2. k <= j
    BY <1>1, <1>7, NoLaterThan
  <2>3. Cardinality(Since(x, s)') <= L * (k - i) + (u + 1)
    <3>1. Owed(x, w, k, u + 1)'
      BY OwedNow
    <3> QED
      BY <2>1, <3>1 DEF Owed
  <2>4. /\ Cardinality({h \in Of(x)' : h.asked >= s /\ h.given < e}) <= Cardinality(Since(x, s)')
        /\ Cardinality({h \in Of(x)' : h.asked >= s /\ h.given < e}) \in Nat
        /\ Cardinality(Since(x, s)') \in Nat
    <3>1. IsFiniteSet(Of(x)')
      BY FS_Subset DEF Grants, Of
    <3>2. IsFiniteSet(Since(x, s)')
      BY <3>1, FS_Subset DEF Since
    <3>3. {h \in Of(x)' : h.asked >= s /\ h.given < e} \subseteq Since(x, s)'
      BY DEF Since
    <3>4. IsFiniteSet({h \in Of(x)' : h.asked >= s /\ h.given < e})
      BY <3>2, <3>3, FS_Subset
    <3> QED
      BY <3>2, <3>3, <3>4, FS_Subset, FS_CardinalityType
  <2>5. L * (k - i) \in Nat /\ L * (k - i) + L <= L * (j + 1 - i)
    <3> HIDE DEF L
    <3> QED
      BY <1>2, <2>1, <2>2, LimitTimes
  <2>6. PICK a \in Nat : a = L * (k - i)
    BY <2>5
  <2>7. PICK b \in Nat : b = L * (j + 1 - i)
    <3> HIDE DEF L
    <3> QED
      BY <1>2
  <2> HIDE DEF L
  <2>8. AllowedIn(x, s, e)' <= L * (j + 1 - i)
    <3>1. u < L
      BY DEF L
    <3> QED
      BY <1>2, <1>5, <2>3, <2>4, <2>5, <2>6, <2>7, <3>1
  <2> QED
    BY <2>8 DEF L
<1> QED
  BY <1>6, <1>7

-----------------------------------------------------------------------------
(* The steps.                                                              *)

LEMMA SameOwed ==
    ASSUME NEW x \in Subject, Of(x)' = Of(x), NEW w \in Span
    PROVE  /\ \A k, u \in Nat : Owed(x, w, k, u)' <=> Owed(x, w, k, u)
           /\ \A n, m \in Nat : AllowedIn(x, n, m)' = AllowedIn(x, n, m)
<1>1. \A n : Since(x, n)' = Since(x, n)
  BY DEF Since
<1>2. \A k, u \in Nat : Owed(x, w, k, u)' <=> Owed(x, w, k, u)
  BY <1>1 DEF Owed
<1>3. ASSUME NEW n \in Nat, NEW m \in Nat PROVE AllowedIn(x, n, m)' = AllowedIn(x, n, m)
  <2>1. {h \in granted : h.subject = x /\ h.asked >= n /\ h.given < m}
          = {h \in granted' : h.subject = x /\ h.asked >= n /\ h.given < m}
    BY DEF Of
  <2> QED
    BY <2>1 DEF AllowedIn
<1> QED
  BY <1>2, <1>3

(* Whatever leaves the tables alone only ages them.                        *)
LEMMA QuietLasts ==
    ASSUME Grants, Accounted, Stretches, UNCHANGED <<window, granted>>,
           clock \in Nat, clock' \in Nat, clock <= clock'
    PROVE  Grants' /\ Accounted' /\ Stretches'
<1>1. Grants'
  BY DEF Grants
<1>2. \A x \in Subject : Of(x)' = Of(x)
  BY DEF Of
<1>3. ASSUME NEW x \in Subject, NEW w \in Span
      PROVE  IF window'[x][w] # None
             THEN \E k \in Nat : /\ window'[x][w].start = k * w /\ k * w <= clock'
                                 /\ Owed(x, w, k, window[x][w].used)'
             ELSE \/ Of(x)' = {}
                  \/ /\ Retention # None
                     /\ \E k \in Nat : k * w + Retention < clock' /\ Owed(x, w, k, LimitOf(x, w))'
  <2>1. Of(x)' = Of(x) /\ w \in Nat \ {0}
    BY <1>2, RateAssumption
  <2>3. CASE window[x][w] # None
    <3>1. PICK k \in Nat : window[x][w].start = k * w /\ k * w <= clock /\ Owed(x, w, k, window[x][w].used)
      BY <2>3 DEF Accounted
    <3>2. k * w \in Nat /\ k * w <= clock'
      BY <2>1, <3>1
    <3>3. Owed(x, w, k, window[x][w].used)'
      <4>1. window'[x][w] = window[x][w]
        OBVIOUS
      <4>2. \A i : Since(x, i)' = Since(x, i)
        BY <2>1 DEF Since
      <4> QED
        BY <3>1, <4>1, <4>2 DEF Owed
    <3> QED
      BY <2>3, <3>1, <3>2, <3>3
  <2>4. CASE window[x][w] = None /\ Of(x) = {}
    BY <2>1, <2>4
  <2>5. CASE window[x][w] = None /\ Of(x) # {}
    <3>1. PICK k \in Nat : Retention # None /\ k * w + Retention < clock /\ Owed(x, w, k, LimitOf(x, w))
      BY <2>5 DEF Accounted
    <3>2. Retention \in Nat /\ k * w \in Nat
      BY <2>1, <3>1, RateAssumption
    <3>3. k * w + Retention < clock'
      BY <3>1, <3>2
    <3>4. Owed(x, w, k, LimitOf(x, w))'
      <4>1. \A i : Since(x, i)' = Since(x, i)
        BY <2>1 DEF Since
      <4> QED
        BY <3>1, <4>1 DEF Owed
    <3> QED
      BY <2>5, <3>1, <3>3, <3>4
  <2> QED
    BY <2>3, <2>4, <2>5
<1>4. Accounted'
  BY <1>3 DEF Accounted
<1>5. Stretches'
  BY DEF Stretches, AllowedIn
<1> QED
  BY <1>1, <1>4, <1>5

LEMMA TakeLasts ==
    ASSUME Inductive, Waits, Grants, Accounted, Stretches, NEW c \in Claim, Take(c)
    PROVE  Grants' /\ Accounted' /\ Stretches'
<1>1. PICK r \in InFlight : r = claim[c]
  BY DEF Take, Inductive, Tables
<1>2. r.at \in Nat /\ r.at <= clock /\ clock \in Nat /\ clock' = clock
  BY <1>1 DEF InFlight, Take, Waits, Inductive, Tables
<1>3. /\ Grants' /\ \A x \in Subject : x \notin SubjectsOf(r) => Of(x)' = Of(x)
      /\ \A x \in SubjectsOf(r) : \E g :
           Of(x)' = Of(x) \cup {g} /\ g.asked = r.at /\ g.given = clock /\ g.subject = x
  BY <1>1, GrantsOne DEF Inductive
<1>4. window' = [x \in Subject |-> [w \in Span |->
          IF x \in SubjectsOf(r) THEN Taken(window[x][w], w, r.at)
          ELSE IF <<x, w>> \in Dead(r.at) THEN None ELSE window[x][w]]]
  BY <1>1 DEF Take
<1>5. Tables'
  BY Takes DEF Inductive
<1>6. ASSUME NEW x \in Subject, NEW w \in Span
      PROVE  IF window'[x][w] # None
             THEN \E k \in Nat : /\ window'[x][w].start = k * w /\ k * w <= clock'
                                 /\ Owed(x, w, k, window[x][w].used)'
             ELSE \/ Of(x)' = {}
                  \/ /\ Retention # None
                     /\ \E k \in Nat : k * w + Retention < clock' /\ Owed(x, w, k, LimitOf(x, w))'
  <2>1. CASE x \in SubjectsOf(r)
    <3>1. window'[x][w] = Taken(window[x][w], w, r.at)
      BY <1>4, <2>1
    <3>2. PICK k \in Nat, u \in Nat :
             /\ Taken(window[x][w], w, r.at).start = k * w
             /\ Taken(window[x][w], w, r.at).used = u + 1
             /\ r.at < k * w + w /\ k * w <= clock
             /\ u < LimitOf(x, w) /\ Owed(x, w, k, u)
      BY <1>1, <2>1, TakesFromRow
    <3>3. PICK g : Of(x)' = Of(x) \cup {g} /\ g.asked = r.at
      BY <1>3, <2>1
    <3>4. Owed(x, w, k, u + 1)'
      BY <1>2, <1>3, <3>2, <3>3, OwedNow
    <3>5. window'[x][w] # None
      <4>1. WindowStart(r.at, w) \in Nat
        BY <1>2, StartIsNat
      <4>2. window[x][w] \in Row \cup {None}
        BY DEF Inductive, Tables
      <4>3. Taken(window[x][w], w, r.at) \in Row
        BY <4>1, <4>2 DEF Taken, Row
      <4> QED
        BY <3>1, <4>3, RowsAreRows
    <3>6. window'[x][w].used = u + 1
      BY <3>1, <3>2
    <3>7. Owed(x, w, k, window[x][w].used)'
      BY <3>4, <3>6 DEF Owed
    <3> QED
      BY <1>2, <3>1, <3>2, <3>5, <3>7
  <2>2. CASE x \notin SubjectsOf(r)
    <3>1. Of(x)' = Of(x)
      BY <1>3, <2>2
    <3>2. \A i : Since(x, i)' = Since(x, i)
      BY <3>1 DEF Since
    <3>3. w \in Nat \ {0}
      BY RateAssumption
    <3>4. CASE <<x, w>> \in Dead(r.at)
      <4>1. /\ Retention # None /\ window[x][w] # None /\ window[x][w].start + Retention < r.at
            /\ window'[x][w] = None
        BY <1>4, <2>2, <3>4 DEF Dead
      <4>2. PICK k \in Nat : window[x][w].start = k * w /\ Owed(x, w, k, window[x][w].used)
        BY <4>1 DEF Accounted
      <4>3. window[x][w].used \in Nat /\ window[x][w].used <= LimitOf(x, w) /\ LimitOf(x, w) \in Nat
        BY <4>1, LimitIsPositive DEF Inductive, Tables, Row, WithinLimit
      <4>4. Owed(x, w, k, LimitOf(x, w))
        BY <4>2, <4>3, OwedMore
      <4>5. Owed(x, w, k, LimitOf(x, w))'
        BY <3>2, <4>4 DEF Owed
      <4>6. k * w + Retention < clock'
        <5>1. Retention \in Nat /\ k * w \in Nat
          BY <3>3, <4>1, RateAssumption
        <5> QED
          BY <1>2, <4>1, <4>2, <5>1
      <4> QED
        BY <4>1, <4>5, <4>6
    <3>5. CASE <<x, w>> \notin Dead(r.at)
      <4>1. window'[x][w] = window[x][w]
        BY <1>4, <2>2, <3>5
      <4>2. \A k, u \in Nat : Owed(x, w, k, u)' <=> Owed(x, w, k, u)
        BY <3>1, SameOwed
      <4>3. window[x][w] # None => window[x][w].used \in Nat
        BY DEF Inductive, Tables, Row
      <4>4. CASE window[x][w] # None
        <5>1. PICK k \in Nat : /\ window[x][w].start = k * w /\ k * w <= clock
                               /\ Owed(x, w, k, window[x][w].used)
          BY <4>4 DEF Accounted
        <5>2. Owed(x, w, k, window[x][w].used)'
          BY <3>2, <4>1, <5>1 DEF Owed
        <5> QED
          BY <1>2, <4>1, <4>4, <5>1, <5>2
      <4>5. CASE window[x][w] = None /\ Of(x) # {}
        <5>1. PICK k \in Nat : /\ Retention # None /\ k * w + Retention < clock
                               /\ Owed(x, w, k, LimitOf(x, w))
          BY <4>5 DEF Accounted
        <5>2. Owed(x, w, k, LimitOf(x, w))'
          BY <3>2, <5>1 DEF Owed
        <5> QED
          BY <1>2, <4>1, <4>5, <5>1, <5>2
      <4> QED
        BY <3>1, <4>1, <4>4, <4>5
    <3> QED
      BY <3>4, <3>5
  <2> QED
    BY <2>1, <2>2
<1>7. Accounted'
  BY <1>6 DEF Accounted
<1>8. ASSUME NEW x \in Subject, NEW w \in Span, NEW i \in Nat, NEW j \in Nat, i <= j
      PROVE  AllowedIn(x, i * w, (j + 1) * w)' <= LimitOf(x, w) * (j + 1 - i)
  <2>1. CASE x \in SubjectsOf(r)
    <3>1. PICK k \in Nat, u \in Nat :
             r.at < k * w + w /\ k * w <= clock /\ u < LimitOf(x, w) /\ Owed(x, w, k, u)
      BY <1>1, <2>1, TakesFromRow
    <3>2. PICK g : Of(x)' = Of(x) \cup {g} /\ g.asked = r.at /\ g.given = clock /\ g.subject = x
      BY <1>3, <2>1
    <3> QED
      BY <1>2, <1>3, <1>8, <3>1, <3>2, StretchNow
  <2>2. CASE x \notin SubjectsOf(r)
    <3>1. Of(x)' = Of(x)
      BY <1>3, <2>2
    <3>2. i * w \in Nat /\ (j + 1) * w \in Nat
      <4>1. w \in Nat
        BY RateAssumption
      <4> QED
        BY <4>1
    <3>3. AllowedIn(x, i * w, (j + 1) * w)' = AllowedIn(x, i * w, (j + 1) * w)
      BY <3>1, <3>2, SameOwed
    <3> QED
      BY <1>8, <3>3 DEF Stretches
  <2> QED
    BY <2>1, <2>2
<1>9. Stretches'
  BY <1>8 DEF Stretches
<1> QED
  BY <1>3, <1>7, <1>9

LEMMA InitLasts == Init => Lasting
<1> SUFFICES ASSUME Init PROVE Lasting
  OBVIOUS
<1>1. \A x \in Subject, w \in Span : window[x][w] = None
  BY DEF Init
<1>2. granted = {} /\ \A x \in Subject : Of(x) = {}
  BY DEF Init, Of
<1>3. Accounted
  BY <1>1, <1>2 DEF Accounted
<1>4. Waits /\ Grants
  BY <1>2, FS_EmptySet DEF Init, Waits, Grants
<1>5. Stretches
  <2> SUFFICES ASSUME NEW x \in Subject, NEW w \in Span, NEW i \in Nat, NEW j \in Nat, i <= j
               PROVE  AllowedIn(x, i * w, (j + 1) * w) <= LimitOf(x, w) * (j + 1 - i)
    BY DEF Stretches
  <2>1. {g \in granted : g.subject = x /\ g.asked >= i * w /\ g.given < (j + 1) * w} = {}
    BY <1>2
  <2>2. AllowedIn(x, i * w, (j + 1) * w) = 0
    BY <2>1, FS_EmptySet DEF AllowedIn
  <2>3. LimitOf(x, w) \in Nat /\ j + 1 - i \in Nat
    BY LimitIsPositive
  <2>4. LimitOf(x, w) * (j + 1 - i) \in Nat
    BY <2>3
  <2> QED
    BY <2>2, <2>4
<1> QED
  BY <1>3, <1>4, <1>5 DEF Lasting

(* The statement timeout is what keeps a claim within reach of its row.    *)
LEMMA StepWaits ==
    ASSUME Inductive, Waits, Next
    PROVE  Waits' /\ clock \in Nat /\ clock' \in Nat /\ clock <= clock'
<1>1. clock \in Nat /\ Patience \in Nat /\ \A c \in Claim : claim[c] # None => claim[c].at \in Nat
  BY RateAssumption DEF Inductive, Tables, InFlight
<1>2. CASE Tick
  BY <1>1, <1>2 DEF Tick, Waits
<1>3. ASSUME NEW c \in Claim, Ask(c) PROVE Waits' /\ clock' = clock
  BY <1>1, <1>3 DEF Ask, Waits, Inductive, Tables
<1>4. ASSUME NEW c \in Claim, LockFirst(c) \/ LockSecond(c) \/ Count(c) \/ Take(c) \/ Lose(c)
      PROVE  Waits' /\ clock' = clock
  <2>1. clock' = clock
    BY <1>4 DEF LockFirst, LockSecond, Count, Take, Lose, Goto
  <2>2. /\ claim[c] # None
        /\ \/ \E p \in {"one", "both", "room"} : claim' = [claim EXCEPT ![c].pc = p]
           \/ claim' = [claim EXCEPT ![c] = None]
    BY <1>4 DEF LockFirst, LockSecond, Count, Take, Lose, Goto
  <2>3. \A d \in Claim : claim'[d] # None => claim[d] # None /\ claim'[d].at = claim[d].at
    BY <2>2 DEF Inductive, Tables, InFlight
  <2> QED
    BY <2>1, <2>3 DEF Waits
<1> QED
  BY <1>1, <1>2, <1>3, <1>4 DEF Next, Tick

LEMMA StepLasts ==
    ASSUME Inductive, Lasting, [Next]_rateVars
    PROVE  Lasting'
<1>1. CASE UNCHANGED rateVars
  <2>1. clock \in Nat /\ clock' = clock /\ UNCHANGED <<window, granted>> /\ claim' = claim
    BY <1>1 DEF rateVars, Inductive, Tables
  <2>2. Grants' /\ Accounted' /\ Stretches'
    BY <2>1, QuietLasts DEF Lasting
  <2> QED
    BY <2>1, <2>2 DEF Lasting, Waits
<1>2. CASE Next
  <2>1. Waits' /\ clock \in Nat /\ clock' \in Nat /\ clock <= clock'
    BY <1>2, StepWaits DEF Lasting
  <2>2. ASSUME NEW c \in Claim, Take(c) PROVE Grants' /\ Accounted' /\ Stretches'
    BY <2>2, TakeLasts DEF Lasting
  <2>3. CASE UNCHANGED <<window, granted>>
    BY <2>1, <2>3, QuietLasts DEF Lasting
  <2>4. UNCHANGED <<window, granted>> \/ \E c \in Claim : Take(c)
    BY <1>2 DEF Next, Tick, Ask, LockFirst, LockSecond, Count, Lose, Goto
  <2> QED
    BY <2>1, <2>2, <2>3, <2>4 DEF Lasting
<1> QED
  BY <1>1, <1>2

(* In any stretch of windows, the claims of a person or a brokerage that   *)
(* were asked for and allowed within it number at most the limit for each  *)
(* of its windows: for any limits and spans, any claims in flight, and a   *)
(* retention no shorter than a window and a statement's timeout            *)
(* (report_rate_claim_at, share_view_claim_at and its housekeeping).       *)
THEOREM StretchHolds == Spec => []StretchWithinLimit
<1>1. Init => Inductive /\ Lasting
  BY InitInductive, InitLasts
<1>2. Inductive /\ Lasting /\ [Next]_rateVars => Inductive' /\ Lasting'
  BY StepInductive, StepLasts
<1>3. Lasting => StretchWithinLimit
  <2> SUFFICES ASSUME Lasting, NEW x \in Subject, NEW w \in Span,
                      NEW i \in 0..(MaxClock \div w), NEW j \in i..(MaxClock \div w)
               PROVE  AllowedIn(x, i * w, (j + 1) * w) <= LimitOf(x, w) * (j + 1 - i)
    BY DEF StretchWithinLimit
  <2>1. MaxClock \div w \in Nat
    BY RateAssumption
  <2>2. i \in Nat /\ j \in Nat /\ i <= j
    BY <2>1
  <2> QED
    BY <2>2 DEF Lasting, Stretches
<1> QED
  BY <1>1, <1>2, <1>3, PTL DEF Spec

(* The two together (report-rate-limit.sql 16-19, 167-169).                *)
THEOREM LimitsAlwaysHold == Spec => []LimitsHold
BY WithinLimitHolds, StretchHolds, PTL DEF LimitsHold

(* No time is recorded that the clock has not shown.                       *)
InTime == clock <= MaxClock /\ \A g \in granted : g.asked <= MaxClock /\ g.given <= MaxClock

(* Counters, claims in flight and what was granted hold what TypeOK says   *)
(* (report_rate_window, share_view_window).                                *)
THEOREM ClaimsAreTyped == Spec => []TypeOK
<1>1. Init => Inductive /\ Lasting /\ InTime
  BY InitInductive, InitLasts, RateAssumption DEF Init, InTime
<1>2. Inductive /\ Lasting /\ InTime /\ [Next]_rateVars => (Inductive /\ Lasting /\ InTime)'
  <2> SUFFICES ASSUME Inductive, Lasting, InTime, [Next]_rateVars PROVE InTime'
    BY StepInductive, StepLasts
  <2>1. clock \in Nat /\ MaxClock \in Nat
    BY RateAssumption DEF Inductive, Tables
  <2>2. ASSUME NEW c \in Claim, Take(c) PROVE InTime'
    <3>1. claim[c] \in InFlight /\ claim[c].at <= clock /\ clock' = clock
      BY <2>2 DEF Take, Inductive, Tables, Lasting, Waits
    <3>2. \A g \in granted' : g \in granted \/ (g.asked = claim[c].at /\ g.given = clock)
      <4> DEFINE nth(x) == Cardinality({g \in granted : g.subject = x /\ g.asked = claim[c].at /\ g.given = clock})
      <4>1. granted' = granted \cup {[subject |-> x, asked |-> claim[c].at, given |-> clock, nth |-> nth(x)] :
                                      x \in SubjectsOf(claim[c])}
        BY <2>2 DEF Take
      <4> HIDE DEF nth
      <4> QED
        BY <4>1
    <3>3. claim[c].at \in Nat /\ claim[c].at <= MaxClock /\ clock <= MaxClock
      BY <2>1, <3>1 DEF InTime, InFlight
    <3>4. \A g \in granted : g.asked <= MaxClock /\ g.given <= MaxClock
      BY DEF InTime
    <3> QED
      BY <3>1, <3>2, <3>3, <3>4 DEF InTime
  <2>3. CASE Tick
    BY <2>1, <2>3 DEF Tick, InTime
  <2>4. CASE UNCHANGED <<clock, granted>>
    BY <2>4 DEF InTime
  <2> QED
    BY <2>2, <2>3, <2>4 DEF Next, Ask, LockFirst, LockSecond, Count, Goto, Lose, rateVars
<1>3. Inductive /\ Lasting /\ InTime => TypeOK
  <2> SUFFICES ASSUME Inductive, Lasting, InTime PROVE TypeOK
    OBVIOUS
  <2>1. MaxClock \in Nat /\ clock \in 0..MaxClock
    BY RateAssumption DEF Inductive, Tables, InTime
  <2>2. ASSUME NEW g \in granted PROVE g \in Grant
    <3>1. g \in [subject : Subject, asked : Nat, given : Nat, nth : Nat] /\ g.asked <= MaxClock /\ g.given <= MaxClock
      BY DEF Lasting, Grants, InTime
    <3>2. g.asked \in 0..MaxClock /\ g.given \in 0..MaxClock
      BY <2>1, <3>1
    <3> QED
      BY <3>1, <3>2 DEF Grant
  <2> QED
    BY <2>1, <2>2 DEF Inductive, Tables, TypeOK
<1> QED
  BY <1>1, <1>2, <1>3, PTL DEF Spec

(* The rows a second pass locks: its subjects', under their advisory locks, *)
(* and those its housekeeping finds old, whosever they are                  *)
(* (share_view_claim_at, step 3).                                          *)
RowsLocked(c) == (SubjectsOf(claim[c]) \X Span) \cup Dead(claim[c].at)

Counted(c) == claim[c] # None /\ claim[c].pc = "room"

CleansUp(c) == Counted(c) /\ Dead(claim[c].at) # {}

(* Whose advisory lock, or whose row, a claim may wait for.                *)
ClaimsBefore(c) ==
    {d \in Claim :
        \/ claim[c] # None /\ claim[c].pc = "asked" /\ d \in Holders(claim[c].first)
        \/ claim[c] # None /\ claim[c].pc = "one" /\ claim[c].second # None /\ d \in Holders(claim[c].second)
        \/ Counted(c) /\ Counted(d) /\ d # c /\ RowsLocked(c) \cap RowsLocked(d) # {}}

(* Of any claims none of which finds a row to delete one waits for none of *)
(* the others: every claim locks its person before its brokerage, or its   *)
(* caller before its link, and its own rows after both                     *)
(* (report_rate_claim_at, share_view_claim_at).                            *)
NoCircleWithoutCleanUp ==
    \A S \in SUBSET Claim : S # {} /\ (\A c \in S : ~CleansUp(c)) => \E c \in S : ClaimsBefore(c) \cap S = {}

(* Two claims have no row of their own in common.                          *)
LEMMA RowsAreApart ==
    ASSUME Inductive, NEW c \in Claim, NEW d \in Claim, c # d,
           Counted(c), Counted(d), ~CleansUp(c), ~CleansUp(d)
    PROVE  RowsLocked(c) \cap RowsLocked(d) = {}
<1>1. RowsLocked(c) = SubjectsOf(claim[c]) \X Span /\ RowsLocked(d) = SubjectsOf(claim[d]) \X Span
  BY DEF CleansUp, RowsLocked
<1>2. \A x \in SubjectsOf(claim[c]) \cap SubjectsOf(claim[d]) : x \in Subject /\ c \in Holders(x) /\ d \in Holders(x)
  BY CountedHolds, SubjectsAreSubjects DEF Counted, Inductive, Tables
<1>3. SubjectsOf(claim[c]) \cap SubjectsOf(claim[d]) = {}
  BY <1>2 DEF Inductive, OneHolder
<1> QED
  BY <1>1, <1>3

(* Claims wait in a circle only where one deletes rows of others, which     *)
(* those of the reports never do: where Retention = None nothing is Dead.  *)
(* The clients' links have that circle: two claims whose own rows are old, *)
(* each deleting the other's (da-owner-safeguards.sql 196-206).            *)
THEOREM OnlyCleaningClaimsDeadlock == Spec => []NoCircleWithoutCleanUp
<1>1. Inductive => NoCircleWithoutCleanUp
  <2> SUFFICES ASSUME Inductive, NEW S \in SUBSET Claim, S # {}, \A c \in S : ~CleansUp(c)
               PROVE  \E c \in S : ClaimsBefore(c) \cap S = {}
    BY DEF NoCircleWithoutCleanUp
  <2>1. \A c \in Claim : claim[c] # None => claim[c] \in InFlight
    BY DEF Inductive, Tables
  <2>2. ASSUME NEW c \in S, claim[c] = None \/ claim[c].pc \in {"both", "room"}
        PROVE  ClaimsBefore(c) \cap S = {}
    <3>1. \A d \in S : ~(Counted(c) /\ Counted(d) /\ d # c /\ RowsLocked(c) \cap RowsLocked(d) # {})
      BY RowsAreApart
    <3> QED
      BY <2>2, <3>1 DEF ClaimsBefore
  <2>3. ASSUME NEW c \in S, claim[c] # None, claim[c].pc = "one", NEW d \in ClaimsBefore(c)
        PROVE  claim[d] # None /\ claim[d].pc \in {"both", "room"}
    <3>1. claim[c].second \in Second /\ d \in Claim /\ d \in Holders(claim[c].second)
      BY <2>1, <2>3 DEF ClaimsBefore, Counted, InFlight
    <3>2. claim[d] \in InFlight /\ claim[d].first # claim[c].second
      BY <2>1, <3>1, RateAssumption DEF Holders, InFlight
    <3> QED
      BY <3>1, <3>2 DEF Holders
  <2>4. ASSUME NEW c \in S, claim[c] # None, claim[c].pc = "asked", NEW d \in ClaimsBefore(c)
        PROVE  claim[d] # None /\ claim[d].pc # "asked"
    BY <2>4 DEF ClaimsBefore, Counted, Holders
  <2>5. CASE \E c \in S : claim[c] = None \/ claim[c].pc \in {"both", "room"}
    BY <2>2, <2>5
  <2>6. CASE \A c \in S : claim[c] # None /\ claim[c].pc \notin {"both", "room"}
    <3>1. CASE \E c \in S : claim[c].pc = "one"
      BY <2>3, <2>6, <3>1
    <3>2. CASE \A c \in S : claim[c].pc # "one"
      <4>1. \A d \in S : claim[d].pc = "asked"
        BY <2>1, <2>6, <3>2 DEF InFlight
      <4> QED
        BY <2>4, <2>6, <4>1
    <3> QED
      BY <3>1, <3>2
  <2> QED
    BY <2>5, <2>6
<1> QED
  BY <1>1, InitInductive, StepInductive, PTL DEF Spec

-----------------------------------------------------------------------------
(***************************************************************************)
(* ReportRequest.  A retry charges once, and what is shown was charged to  *)
(* whoever asked, for any pages, people, addresses, keys and requests in   *)
(* flight.  Neither is inductive: the first needs that an errand holds no  *)
(* key but its attempt's, though an answer may break off, time out or come *)
(* for nobody (OneKeyToAnErrand, WaitsForItsOwn), and that the ledger      *)
(* charges a key once (KeyChargedOnce); the second, what every request in  *)
(* flight has been answered (AnsweredAsCharged).                           *)
(***************************************************************************)

(* Who holds what, and the ledger.                                         *)
AskingTyped ==
    /\ session \in [Page -> User \cup {Nobody}]
    /\ attempt \in [Page -> Attempt \cup {Nothing}]
    /\ subject \in [Page -> Address \cup {Nothing}]
    /\ waiting \in [Page -> Request \cup {Nothing}]
    /\ sameSession \in [Page -> BOOLEAN]
    /\ shown \in [Page -> Screen \cup {Nothing}]
    /\ errand \in [Page -> SUBSET Key]
    /\ broken \in [Page -> SUBSET Key]
    /\ request \in [Request -> Posted \cup {Nothing}]

ChargesTyped == charges \subseteq Charge /\ IsFiniteSet(charges) /\ paidPlan \in BOOLEAN /\ ended \in BOOLEAN

(* A page waits for a request of its own; while nobody else has signed in  *)
(* it is for the page's attempt, and its sender is who is signed in.       *)
WaitsForItsOwn ==
    \A p \in Page : waiting[p] # Nothing =>
        /\ request[waiting[p]] # Nothing /\ request[waiting[p]].page = p
        /\ sameSession[p] => /\ request[waiting[p]].user = session[p]
                             /\ attempt[p] # Nothing
                             /\ attempt[p].key = request[waiting[p]].key

(* The errand's keys but those an answer broke off for: at most the        *)
(* attempt's, which is for the address in the field.                       *)
OneKeyToAnErrand ==
    \A p \in Page :
        /\ broken[p] \subseteq errand[p]
        /\ attempt[p] # Nothing => attempt[p].address = subject[p] /\ attempt[p].key \in errand[p]
        /\ errand[p] \ broken[p] \subseteq IF attempt[p] = Nothing THEN {} ELSE {attempt[p].key}

KeyChargedOnce == \A x, y \in charges : x.key = y.key => x = y

Backed(ledger, k, a) == \E x \in ledger : x.key = k /\ x.address = a

AnsweredAsCharged ==
    \A q \in Request : request[q] # Nothing /\ request[q].answer \in {"charged", "replayed"} =>
        Backed(charges, request[q].key, request[q].address)

Honest ==
    /\ AskingTyped /\ ChargesTyped /\ WaitsForItsOwn /\ OneKeyToAnErrand /\ KeyChargedOnce
    /\ AnsweredAsCharged /\ ShownAsCharged

-----------------------------------------------------------------------------

LEMMA HonestAtFirst == RequestInit => Honest
<1> SUFFICES ASSUME RequestInit PROVE Honest
  OBVIOUS
<1>1. AskingTyped
  BY DEF RequestInit, AskingTyped
<1>2. ChargesTyped
  BY FS_EmptySet DEF RequestInit, ChargesTyped
<1>3. WaitsForItsOwn /\ OneKeyToAnErrand /\ KeyChargedOnce /\ AnsweredAsCharged /\ ShownAsCharged
  BY DEF RequestInit, WaitsForItsOwn, OneKeyToAnErrand, KeyChargedOnce, AnsweredAsCharged,
         ShownAsCharged, ShownToItsAsker, NoReportGivenFree
<1> QED
  BY <1>1, <1>2, <1>3 DEF Honest

(* A step of the function: one request goes on, its sender, key and        *)
(* address as they were, and the page sees nothing of it.                  *)
LEMMA RequestGoesOn ==
    ASSUME Honest, NEW q \in Request, request[q] # Nothing, NEW r \in Posted,
           request' = [request EXCEPT ![q] = r],
           r.page = request[q].page, r.user = request[q].user,
           r.key = request[q].key, r.address = request[q].address,
           UNCHANGED pageVars, charges \subseteq charges', ChargesTyped', KeyChargedOnce',
           r.answer \in {"charged", "replayed"} => Backed(charges', r.key, r.address)
    PROVE  Honest'
<1> USE DEF pageVars
<1>0. r # Nothing /\ Nothing \notin Request
  BY RequestAssumption
<1>1. AskingTyped'
  BY DEF Honest, AskingTyped
<1>2. WaitsForItsOwn'
  <2> SUFFICES ASSUME NEW p \in Page, waiting'[p] # Nothing
               PROVE  /\ request'[waiting'[p]] # Nothing /\ request'[waiting'[p]].page = p
                      /\ sameSession'[p] => /\ request'[waiting'[p]].user = session'[p]
                                            /\ attempt'[p] # Nothing
                                            /\ attempt'[p].key = request'[waiting'[p]].key
    BY DEF WaitsForItsOwn
  <2>1. waiting[p] \in Request /\ waiting'[p] = waiting[p]
    BY DEF Honest, AskingTyped
  <2>2. CASE waiting[p] = q
    BY <1>0, <2>1, <2>2 DEF Honest, AskingTyped, WaitsForItsOwn
  <2>3. CASE waiting[p] # q
    BY <1>0, <2>1, <2>3 DEF Honest, AskingTyped, WaitsForItsOwn
  <2> QED
    BY <2>2, <2>3
<1>3. OneKeyToAnErrand'
  BY DEF Honest, OneKeyToAnErrand
<1>4. AnsweredAsCharged'
  <2> SUFFICES ASSUME NEW z \in Request, request'[z] # Nothing, request'[z].answer \in {"charged", "replayed"}
               PROVE  Backed(charges', request'[z].key, request'[z].address)
    BY DEF AnsweredAsCharged
  <2>1. CASE z = q
    BY <2>1 DEF Honest, AskingTyped
  <2>2. CASE z # q
    <3>1. request'[z] = request[z]
      BY <2>2 DEF Honest, AskingTyped
    <3>2. Backed(charges, request[z].key, request[z].address)
      BY <3>1 DEF Honest, AnsweredAsCharged
    <3> QED
      BY <3>1, <3>2 DEF Backed
  <2> QED
    BY <2>1, <2>2
<1>5. ShownAsCharged'
  BY DEF Honest, ShownAsCharged, ShownToItsAsker, NoReportGivenFree
<1> QED
  BY <1>1, <1>2, <1>3, <1>4, <1>5 DEF Honest

LEMMA SaysItsAnswer ==
    ASSUME Honest, NEW q \in Request, request[q] # Nothing, NEW word \in Answers, Reply(q, word),
           UNCHANGED pageVars, charges \subseteq charges', ChargesTyped', KeyChargedOnce',
           word \in {"charged", "replayed"} => Backed(charges', request[q].key, request[q].address)
    PROVE  Honest'
<1>1. request[q] \in Posted
  BY DEF Honest, AskingTyped
<1>2. request' = [request EXCEPT ![q] = [request[q] EXCEPT !.pc = "answered", !.answer = word]]
  BY <1>1 DEF Reply, Honest, AskingTyped
<1>3. PICK r \in Posted : r = [request[q] EXCEPT !.pc = "answered", !.answer = word]
  BY <1>1 DEF Posted
<1>4. /\ r.page = request[q].page /\ r.user = request[q].user
      /\ r.key = request[q].key /\ r.address = request[q].address /\ r.answer = word
  BY <1>1, <1>3 DEF Posted
<1>5. r.answer \in {"charged", "replayed"} => Backed(charges', r.key, r.address)
  BY <1>4
<1> QED
  BY <1>2, <1>3, <1>4, <1>5, RequestGoesOn

(* The words that are not of a charge.                                     *)
LEMMA SaysAnother ==
    ASSUME Honest, NEW q \in Request, request[q] # Nothing,
           NEW word \in Answers \ {"charged", "replayed"}, Say(q, word)
    PROVE  Honest'
<1>1. /\ Reply(q, word) /\ UNCHANGED pageVars /\ charges' = charges
      /\ paidPlan' = paidPlan /\ ended' = ended
  BY DEF Say, databaseVars
<1>2. ChargesTyped' /\ KeyChargedOnce'
  BY <1>1 DEF Honest, ChargesTyped, KeyChargedOnce
<1> QED
  BY <1>1, <1>2, SaysItsAnswer

LEMMA GoesOnTo ==
    ASSUME Honest, NEW q \in Request, request[q] # Nothing, NEW pc, NEW complete \in BOOLEAN,
           pc \in {"plan", "claim", "work", "issue", "replay"}, 
           request' = [request EXCEPT ![q] = [request[q] EXCEPT !.pc = pc, !.complete = complete]],
           UNCHANGED <<pageVars, databaseVars>>
    PROVE  Honest'
<1>1. request[q] \in Posted
  BY DEF Honest, AskingTyped
<1>3. PICK r \in Posted : r = [request[q] EXCEPT !.pc = pc, !.complete = complete]
  BY <1>1 DEF Posted
<1>4. /\ r.page = request[q].page /\ r.user = request[q].user
      /\ r.key = request[q].key /\ r.address = request[q].address /\ r.answer = request[q].answer
  BY <1>1, <1>3 DEF Posted
<1>5. charges' = charges /\ paidPlan' = paidPlan /\ ended' = ended
  BY DEF databaseVars
<1>6. ChargesTyped' /\ KeyChargedOnce'
  BY <1>5 DEF Honest, ChargesTyped, KeyChargedOnce
<1>7. r.answer \in {"charged", "replayed"} => Backed(charges', r.key, r.address)
  BY <1>4, <1>5 DEF Honest, AnsweredAsCharged
<1> QED
  BY <1>3, <1>4, <1>5, <1>6, <1>7, RequestGoesOn

LEMMA ContinuesTo ==
    ASSUME Honest, NEW q \in Request, request[q] # Nothing, NEW pc, Continue(q, pc),
           pc \in {"plan", "claim", "work", "issue", "replay"}
    PROVE  Honest'
<1>1. request[q] \in Posted
  BY DEF Honest, AskingTyped
<1>2. request[q].complete \in BOOLEAN
  BY <1>1 DEF Posted
<1>3. request' = [request EXCEPT ![q] = [request[q] EXCEPT !.pc = pc, !.complete = request[q].complete]]
  BY <1>1 DEF Continue, Posted
<1> QED
  BY <1>2, <1>3, GoesOnTo DEF Continue

LEMMA WordsApart ==
    /\ \A word \in Refusals \cup {"free_of_charge"} : word \in Answers \ {"charged", "replayed"}
    /\ {"charged", "replayed"} \subseteq Answers
BY DEF Answers, Refusals

LEMMA GateIsHonest ==
    ASSUME Honest, NEW q \in Request, Gate(q)
    PROVE  Honest'
<1>1. request[q] # Nothing
  BY DEF Gate, At
<1>2. CASE Say(q, "signin") \/ Say(q, "forbidden")
  BY <1>1, <1>2, WordsApart, SaysAnother DEF Refusals
<1>3. CASE /\ request' = [request EXCEPT ![q].pc = "plan", ![q].complete = FreeUsed >= FreeLimit]
           /\ UNCHANGED <<pageVars, databaseVars>>
  <2>1. IsFiniteSet({x \in charges : ~x.paid})
    BY FS_Subset DEF Honest, ChargesTyped
  <2>2. FreeUsed \in Nat
    BY <2>1, FS_CardinalityType DEF FreeUsed
  <2>6. (FreeUsed >= FreeLimit) \in BOOLEAN
    BY <2>2, RequestAssumption
  <2>3. PICK complete \in BOOLEAN : complete = (FreeUsed >= FreeLimit)
    BY <2>6, Zenon
  <2>4. request[q] \in Posted
    BY <1>1 DEF Honest, AskingTyped
  <2>5. request' = [request EXCEPT ![q] = [request[q] EXCEPT !.pc = "plan", !.complete = complete]]
    BY <1>3, <2>3, <2>4 DEF Honest, AskingTyped
  <2> QED
    BY <1>1, <1>3, <2>5, GoesOnTo
<1> QED
  BY <1>2, <1>3 DEF Gate

LEMMA FunctionIsHonest ==
    ASSUME Honest, NEW q \in Request,
           ReadPlan(q) \/ ClaimOfRateLimit(q) \/ Work(q) \/ Fail(q)
    PROVE  Honest'
<1>1. request[q] # Nothing
  BY DEF ReadPlan, ClaimOfRateLimit, Work, Fail, At
<1>2. \/ Say(q, "used_up") \/ Say(q, "limited") \/ Say(q, "not_a_report") \/ Say(q, "free_of_charge")
      \/ Say(q, "unavailable") \/ Continue(q, "claim") \/ Continue(q, "work") \/ Continue(q, "issue")
  BY DEF ReadPlan, ClaimOfRateLimit, Work, Fail
<1>3. ASSUME NEW pc \in {"claim", "work", "issue"}, Continue(q, pc) PROVE Honest'
  BY <1>1, <1>3, ContinuesTo
<1>4. ASSUME NEW word \in {"used_up", "limited", "not_a_report", "free_of_charge", "unavailable"}, Say(q, word)
      PROVE  Honest'
  BY <1>1, <1>4, SaysAnother, WordsApart DEF Refusals
<1> QED
  BY <1>2, <1>3, <1>4

LEMMA IssueIsHonest ==
    ASSUME Honest, NEW q \in Request, Issue(q)
    PROVE  Honest'
<1>1. request[q] # Nothing /\ request[q] \in Posted
  BY DEF Issue, At, Honest, AskingTyped
<1>2. CASE Say(q, "forbidden") \/ Say(q, "used_up")
  BY <1>1, <1>2, WordsApart, SaysAnother DEF Refusals
<1>3. CASE Continue(q, "replay")
  BY <1>1, <1>3, ContinuesTo
<1>4. ASSUME /\ ~Known(request[q].key)
             /\ charges' = charges \cup
                  {[key |-> request[q].key, address |-> request[q].address, paid |-> paidPlan]}
             /\ Reply(q, "charged") \/ Reply(q, "unavailable")
             /\ UNCHANGED <<pageVars, paidPlan, ended>>
      PROVE  Honest'
  <2> DEFINE new == [key |-> request[q].key, address |-> request[q].address, paid |-> paidPlan]
  <2>1. new \in Charge
    BY <1>1 DEF Honest, ChargesTyped, Charge, Posted
  <2>2. ChargesTyped'
    BY <1>4, <2>1, FS_AddElement DEF Honest, ChargesTyped
  <2>3. KeyChargedOnce'
    BY <1>4 DEF Honest, KeyChargedOnce, Known
  <2>4. charges \subseteq charges'
    BY <1>4
  <2>6. new \in charges' /\ new.key = request[q].key /\ new.address = request[q].address
    BY <1>4
  <2> HIDE DEF new
  <2>5. Backed(charges', request[q].key, request[q].address)
    BY <2>6 DEF Backed
  <2> QED
    BY <1>1, <1>4, <2>2, <2>3, <2>4, <2>5, WordsApart, SaysItsAnswer DEF Refusals, Answers
<1> QED
  BY <1>2, <1>3, <1>4 DEF Issue, RefusedByLedger

LEMMA ReplayIsHonest ==
    ASSUME Honest, NEW q \in Request, Replay(q)
    PROVE  Honest'
<1>1. request[q] # Nothing
  BY DEF Replay, At
<1>2. CASE Say(q, "reused")
  BY <1>1, <1>2, WordsApart, SaysAnother DEF Refusals
<1>3. CASE SameAddress(q) /\ Say(q, "replayed")
  <2>1. /\ Reply(q, "replayed") /\ UNCHANGED pageVars /\ charges' = charges
        /\ paidPlan' = paidPlan /\ ended' = ended
    BY <1>3 DEF Say, databaseVars
  <2>2. ChargesTyped' /\ KeyChargedOnce'
    BY <2>1 DEF Honest, ChargesTyped, KeyChargedOnce
  <2>3. Backed(charges', request[q].key, request[q].address)
    BY <1>3, <2>1 DEF SameAddress, Backed
  <2> QED
    BY <1>1, <2>1, <2>2, <2>3, WordsApart, SaysItsAnswer
<1> QED
  BY <1>2, <1>3 DEF Replay

-----------------------------------------------------------------------------
(* The page's steps leave the ledger alone.                                *)
LEMMA LedgerStands ==
    ASSUME Honest, UNCHANGED databaseVars
    PROVE  ChargesTyped' /\ KeyChargedOnce' /\ charges' = charges
BY DEF Honest, ChargesTyped, KeyChargedOnce, databaseVars

LEMMA SessionMovesHonestly ==
    ASSUME Honest, NEW p \in Page, SessionMoves(p)
    PROVE  Honest'
<1>1. PICK u \in (User \cup {Nobody}) \ {session[p]} :
        /\ session' = [session EXCEPT ![p] = u]
        /\ sameSession' = [sameSession EXCEPT ![p] = FALSE]
        /\ shown' = [shown EXCEPT ![p] = Nothing]
        /\ attempt' = IF u = Nobody THEN [attempt EXCEPT ![p] = Nothing] ELSE attempt
        /\ IF u = Nobody THEN ErrandEnds(p) ELSE UNCHANGED <<errand, broken>>
        /\ UNCHANGED <<subject, waiting, request, databaseVars>>
  BY DEF SessionMoves
<1>2. ChargesTyped' /\ KeyChargedOnce' /\ charges' = charges
  BY <1>1, LedgerStands
<1>3. AskingTyped'
  BY <1>1 DEF Honest, AskingTyped, ErrandEnds
<1>4. WaitsForItsOwn'
  BY <1>1 DEF Honest, AskingTyped, WaitsForItsOwn
<1>5. OneKeyToAnErrand'
  BY <1>1 DEF Honest, AskingTyped, OneKeyToAnErrand, ErrandEnds
<1>6. AnsweredAsCharged'
  BY <1>1, <1>2 DEF Honest, AnsweredAsCharged
<1>7. ShownAsCharged'
  BY <1>1, <1>2 DEF Honest, AskingTyped, ShownAsCharged, ShownToItsAsker, NoReportGivenFree
<1> QED
  BY <1>2, <1>3, <1>4, <1>5, <1>6, <1>7 DEF Honest

LEMMA GivesUpHonestly ==
    ASSUME Honest, NEW p \in Page, GiveUp(p)
    PROVE  Honest'
<1>1. ChargesTyped' /\ KeyChargedOnce' /\ charges' = charges
  BY LedgerStands DEF GiveUp
<1>3. AskingTyped'
  BY DEF GiveUp, Honest, AskingTyped, ErrandEnds
<1>4. WaitsForItsOwn'
  BY DEF GiveUp, Honest, AskingTyped, WaitsForItsOwn
<1>5. OneKeyToAnErrand'
  BY DEF GiveUp, Honest, AskingTyped, OneKeyToAnErrand, ErrandEnds
<1>6. AnsweredAsCharged'
  BY <1>1 DEF GiveUp, Honest, AnsweredAsCharged
<1>7. ShownAsCharged'
  BY <1>1 DEF GiveUp, Honest, AskingTyped, ShownAsCharged, ShownToItsAsker, NoReportGivenFree
<1> QED
  BY <1>1, <1>3, <1>4, <1>5, <1>6, <1>7 DEF Honest

LEMMA VanishesHonestly ==
    ASSUME Honest, NEW q \in Request, Vanish(q)
    PROVE  Honest'
<1> USE DEF pageVars
<1>1. ChargesTyped' /\ KeyChargedOnce' /\ charges' = charges
  BY LedgerStands DEF Vanish
<1>2. request' = [request EXCEPT ![q] = Nothing] /\ UNCHANGED pageVars
  BY DEF Vanish
<1>3. AskingTyped'
  BY <1>2 DEF Honest, AskingTyped
<1>4. \A p \in Page : waiting[p] # Nothing => waiting[p] # q
  BY DEF Vanish, Unheard, Honest, WaitsForItsOwn
<1>5. WaitsForItsOwn'
  BY <1>2, <1>4 DEF Honest, AskingTyped, WaitsForItsOwn
<1>6. OneKeyToAnErrand'
  BY <1>2 DEF Honest, OneKeyToAnErrand
<1>7. AnsweredAsCharged'
  BY <1>1, <1>2 DEF Honest, AskingTyped, AnsweredAsCharged
<1>8. ShownAsCharged'
  BY <1>1, <1>2 DEF Honest, AskingTyped, ShownAsCharged, ShownToItsAsker, NoReportGivenFree
<1> QED
  BY <1>1, <1>3, <1>5, <1>6, <1>7, <1>8 DEF Honest

LEMMA CutsShortHonestly ==
    ASSUME Honest, NEW p \in Page, CutShort(p)
    PROVE  Honest'
<1>1. ChargesTyped' /\ KeyChargedOnce' /\ charges' = charges
  BY LedgerStands DEF CutShort
<1>2. PICK q \in Request : q = waiting[p] /\ request[q] # Nothing /\ request[q].page = p
  BY DEF CutShort, Honest, AskingTyped, WaitsForItsOwn
<1>3. PICK k \in Key : k = request[q].key
  BY <1>2 DEF Honest, AskingTyped, Posted
<1>4. /\ waiting' = [waiting EXCEPT ![p] = Nothing]
      /\ attempt' = [attempt EXCEPT ![p] = Nothing]
      /\ IF sameSession[p]
         THEN broken' = [broken EXCEPT ![p] = @ \cup {k}] /\ UNCHANGED errand
         ELSE ErrandEnds(p)
      /\ request' = [request EXCEPT ![q] = Nothing]
      /\ UNCHANGED <<session, subject, sameSession, shown>>
  BY <1>2, <1>3 DEF CutShort
<1>5. AskingTyped'
  BY <1>4 DEF Honest, AskingTyped, ErrandEnds
<1>6. \A z \in Page : z # p /\ waiting[z] # Nothing => waiting[z] # q
  BY <1>2 DEF Honest, WaitsForItsOwn
<1>7. WaitsForItsOwn'
  BY <1>4, <1>6 DEF Honest, AskingTyped, WaitsForItsOwn
<1>8. OneKeyToAnErrand'
  <2>1. sameSession[p] => attempt[p] # Nothing /\ attempt[p].key = k
    BY <1>2, <1>3, RequestAssumption DEF Honest, WaitsForItsOwn
  <2>2. errand[p] \ broken[p] \subseteq {k} \/ ~sameSession[p]
    BY <2>1 DEF Honest, OneKeyToAnErrand
  <2>3. /\ broken'[p] \subseteq errand'[p]
        /\ attempt'[p] = Nothing
        /\ errand'[p] \ broken'[p] = {}
    <3>1. CASE sameSession[p]
      <4>1. broken'[p] = broken[p] \cup {k} /\ errand'[p] = errand[p] /\ attempt'[p] = Nothing
        BY <1>4, <3>1 DEF Honest, AskingTyped
      <4>2. broken[p] \subseteq errand[p]
        BY DEF Honest, OneKeyToAnErrand
      <4>3. k \in errand[p]
        BY <2>1, <3>1 DEF Honest, OneKeyToAnErrand
      <4> QED
        BY <2>2, <3>1, <4>1, <4>2, <4>3
    <3>2. CASE ~sameSession[p]
      BY <1>4, <3>2 DEF Honest, AskingTyped, ErrandEnds
    <3> QED
      BY <3>1, <3>2
  <2>4. ASSUME NEW z \in Page, z # p
        PROVE  /\ errand'[z] = errand[z] /\ broken'[z] = broken[z]
               /\ attempt'[z] = attempt[z] /\ subject'[z] = subject[z]
    BY <1>4, <2>4 DEF Honest, AskingTyped, ErrandEnds
  <2> QED
    BY <2>3, <2>4 DEF Honest, OneKeyToAnErrand
<1>9. AnsweredAsCharged'
  BY <1>1, <1>4 DEF Honest, AskingTyped, AnsweredAsCharged
<1>10. ShownAsCharged'
  BY <1>1, <1>4 DEF Honest, AskingTyped, ShownAsCharged, ShownToItsAsker, NoReportGivenFree
<1> QED
  BY <1>1, <1>5, <1>7, <1>8, <1>9, <1>10 DEF Honest

LEMMA PressesHonestly ==
    ASSUME Honest, NEW p \in Page, Press(p)
    PROVE  Honest'
<1>1. PICK a \in Address, q \in Request : \E t \in AttemptFor(p, a) :
        /\ waiting[p] = Nothing /\ session[p] # Nobody
        /\ request[q] = Nothing
        /\ attempt' = [attempt EXCEPT ![p] = t]
        /\ errand' = [errand EXCEPT ![p] = IF a = subject[p] THEN @ \cup {t.key} ELSE {t.key}]
        /\ broken' = [broken EXCEPT ![p] = IF a = subject[p] THEN @ ELSE {}]
        /\ subject' = [subject EXCEPT ![p] = a]
        /\ request' = [request EXCEPT ![q] =
             [page |-> p, user |-> session[p], key |-> t.key, address |-> a,
              pc |-> "gate", complete |-> FALSE, answer |-> Nothing]]
        /\ waiting' = [waiting EXCEPT ![p] = q]
        /\ sameSession' = [sameSession EXCEPT ![p] = TRUE]
        /\ shown' = [shown EXCEPT ![p] = Nothing]
        /\ UNCHANGED <<session, databaseVars>>
  BY DEF Press
<1>2. PICK t \in AttemptFor(p, a) :
        /\ waiting[p] = Nothing /\ session[p] # Nobody
        /\ request[q] = Nothing
        /\ attempt' = [attempt EXCEPT ![p] = t]
        /\ errand' = [errand EXCEPT ![p] = IF a = subject[p] THEN @ \cup {t.key} ELSE {t.key}]
        /\ broken' = [broken EXCEPT ![p] = IF a = subject[p] THEN @ ELSE {}]
        /\ subject' = [subject EXCEPT ![p] = a]
        /\ request' = [request EXCEPT ![q] =
             [page |-> p, user |-> session[p], key |-> t.key, address |-> a,
              pc |-> "gate", complete |-> FALSE, answer |-> Nothing]]
        /\ waiting' = [waiting EXCEPT ![p] = q]
        /\ sameSession' = [sameSession EXCEPT ![p] = TRUE]
        /\ shown' = [shown EXCEPT ![p] = Nothing]
        /\ UNCHANGED <<session, databaseVars>>
  BY <1>1
<1>3. /\ t \in Attempt /\ t.address = a /\ t # Nothing
      /\ attempt[p] # Nothing /\ attempt[p].address = a => t = attempt[p]
  <2>1. CASE attempt[p] # Nothing /\ attempt[p].address = a
    BY <2>1, RequestAssumption DEF AttemptFor, Honest, AskingTyped
  <2>2. CASE ~(attempt[p] # Nothing /\ attempt[p].address = a)
    BY <2>2, RequestAssumption DEF AttemptFor, Attempt
  <2> QED
    BY <2>1, <2>2
<1>4. PICK k \in Key : k = t.key
  BY <1>3 DEF Attempt
<1>5. session[p] \in User
  BY <1>2 DEF Honest, AskingTyped
<1>6. PICK r \in Posted : r = [page |-> p, user |-> session[p], key |-> k, address |-> a,
                               pc |-> "gate", complete |-> FALSE, answer |-> Nothing]
  BY <1>5 DEF Posted
<1>7. /\ r # Nothing /\ r.page = p /\ r.user = session[p] /\ r.key = k /\ r.answer = Nothing
      /\ Nothing \notin Request /\ Nothing \notin {"charged", "replayed"}
  BY <1>6, RequestAssumption DEF Answers, Refusals
<1>8. request' = [request EXCEPT ![q] = r]
  BY <1>2, <1>4, <1>6
<1>9. ChargesTyped' /\ KeyChargedOnce' /\ charges' = charges
  BY <1>2, LedgerStands
<1>10. AskingTyped'
  BY <1>2, <1>3, <1>4, <1>8 DEF Honest, AskingTyped
<1>11. WaitsForItsOwn'
  <2>1. /\ waiting'[p] = q /\ request'[q] = r /\ session'[p] = session[p]
        /\ attempt'[p] = t
    BY <1>2, <1>8 DEF Honest, AskingTyped
  <2>2. ASSUME NEW z \in Page, z # p, waiting'[z] # Nothing
        PROVE  /\ waiting[z] = waiting'[z] /\ request'[waiting[z]] = request[waiting[z]]
               /\ sameSession'[z] = sameSession[z] /\ session'[z] = session[z] /\ attempt'[z] = attempt[z]
    BY <1>2, <1>8, <2>2 DEF Honest, AskingTyped, WaitsForItsOwn
  <2> QED
    BY <1>3, <1>4, <1>7, <2>1, <2>2 DEF Honest, WaitsForItsOwn
<1>12. OneKeyToAnErrand'
  <2>1. /\ attempt'[p] = t /\ subject'[p] = a /\ k \in errand'[p]
        /\ errand'[p] = (IF a = subject[p] THEN errand[p] \cup {k} ELSE {k})
        /\ broken'[p] = (IF a = subject[p] THEN broken[p] ELSE {})
    BY <1>2, <1>4 DEF Honest, AskingTyped
  <2>2. errand'[p] \ broken'[p] \subseteq {k} /\ broken'[p] \subseteq errand'[p]
    BY <1>3, <1>4, <2>1 DEF Honest, OneKeyToAnErrand
  <2>3. ASSUME NEW z \in Page, z # p
        PROVE  /\ errand'[z] = errand[z] /\ broken'[z] = broken[z]
               /\ attempt'[z] = attempt[z] /\ subject'[z] = subject[z]
    BY <1>2, <2>3 DEF Honest, AskingTyped
  <2> QED
    BY <1>3, <1>4, <2>1, <2>2, <2>3 DEF Honest, OneKeyToAnErrand
<1>13. AnsweredAsCharged'
  BY <1>7, <1>8, <1>9 DEF Honest, AskingTyped, AnsweredAsCharged
<1>14. ShownAsCharged'
  BY <1>2, <1>9 DEF Honest, AskingTyped, ShownAsCharged, ShownToItsAsker, NoReportGivenFree
<1> QED
  BY <1>9, <1>10, <1>11, <1>12, <1>13, <1>14 DEF Honest

LEMMA LandsHonestly ==
    ASSUME Honest, NEW p \in Page, Land(p)
    PROVE  Honest'
<1>1. ChargesTyped' /\ KeyChargedOnce' /\ charges' = charges
  BY LedgerStands DEF Land
<1>2. PICK q \in Request : q = waiting[p] /\ request[q] # Nothing /\ request[q].page = p
  BY DEF Land, Honest, AskingTyped, WaitsForItsOwn
<1>3. PICK r \in Posted : r = request[q]
  BY <1>2 DEF Honest, AskingTyped
<1>4. /\ waiting' = [waiting EXCEPT ![p] = Nothing]
      /\ attempt' = [attempt EXCEPT ![p] = Nothing]
      /\ ErrandEnds(p)
      /\ shown' = [shown EXCEPT ![p] =
             IF Shows(p, r)
             THEN [user |-> r.user, key |-> r.key, address |-> r.address, charged |-> r.answer # "free_of_charge"]
             ELSE Nothing]
      /\ session' = IF sameSession[p] /\ r.answer = "signin" THEN [session EXCEPT ![p] = Nobody] ELSE session
      /\ request' = [request EXCEPT ![q] = Nothing]
      /\ UNCHANGED <<subject, sameSession>>
  BY <1>2, <1>3 DEF Land
<1>5. PICK image \in Screen :
        image = [user |-> r.user, key |-> r.key, address |-> r.address, charged |-> r.answer # "free_of_charge"]
  <2>1. (r.answer # "free_of_charge") \in BOOLEAN
    OBVIOUS
  <2>2. r.user \in User /\ r.key \in Key /\ r.address \in Address
    BY DEF Posted
  <2> QED
    BY <2>1, <2>2, Zenon DEF Screen
<1>6. AskingTyped'
  BY <1>4, <1>5 DEF Honest, AskingTyped, ErrandEnds
<1>7. WaitsForItsOwn'
  <2>1. ASSUME NEW z \in Page, z # p, waiting'[z] # Nothing
        PROVE  /\ waiting[z] = waiting'[z] /\ request'[waiting[z]] = request[waiting[z]]
               /\ sameSession'[z] = sameSession[z] /\ session'[z] = session[z] /\ attempt'[z] = attempt[z]
    BY <1>2, <1>4, <2>1 DEF Honest, AskingTyped, WaitsForItsOwn
  <2>2. waiting'[p] = Nothing
    BY <1>4 DEF Honest, AskingTyped
  <2> QED
    BY <2>1, <2>2 DEF Honest, WaitsForItsOwn
<1>8. OneKeyToAnErrand'
  BY <1>4 DEF Honest, AskingTyped, OneKeyToAnErrand, ErrandEnds
<1>9. AnsweredAsCharged'
  BY <1>1, <1>4 DEF Honest, AskingTyped, AnsweredAsCharged
<1>10. ShownAsCharged'
  <2>1. ASSUME NEW z \in Page, z # p
        PROVE  shown'[z] = shown[z] /\ session'[z] = session[z]
    BY <1>4, <2>1 DEF Honest, AskingTyped
  <2>2. CASE Shows(p, r)
    <3>1. shown'[p] = image /\ session'[p] = session[p]
      BY <1>4, <1>5, <2>2 DEF Honest, AskingTyped, Shows
    <3>2. image.user = session[p]
      BY <1>2, <1>3, <1>5, <2>2, RequestAssumption DEF Shows, Honest, WaitsForItsOwn
    <3>3. image.charged => Backed(charges, image.key, image.address)
      BY <1>2, <1>3, <1>5, <2>2 DEF Shows, Honest, AnsweredAsCharged
    <3> QED
      BY <1>1, <2>1, <3>1, <3>2, <3>3 DEF Honest, ShownAsCharged, ShownToItsAsker, NoReportGivenFree, Backed
  <2>3. CASE ~Shows(p, r)
    <3>1. shown'[p] = Nothing
      BY <1>4, <2>3 DEF Honest, AskingTyped
    <3> QED
      BY <1>1, <2>1, <3>1 DEF Honest, ShownAsCharged, ShownToItsAsker, NoReportGivenFree
  <2> QED
    BY <2>2, <2>3
<1> QED
  BY <1>1, <1>6, <1>7, <1>8, <1>9, <1>10 DEF Honest

-----------------------------------------------------------------------------

LEMMA StepIsHonest == Honest /\ [RequestNext]_requestVars => Honest'
<1> SUFFICES ASSUME Honest, [RequestNext]_requestVars PROVE Honest'
  OBVIOUS
<1>1. CASE UNCHANGED requestVars
  BY <1>1 DEF requestVars, Honest, AskingTyped, ChargesTyped, WaitsForItsOwn, OneKeyToAnErrand, KeyChargedOnce,
              AnsweredAsCharged, ShownAsCharged, ShownToItsAsker, NoReportGivenFree
<1>2. CASE \E p \in Page : SessionMoves(p) \/ Press(p) \/ GiveUp(p) \/ Land(p) \/ CutShort(p)
  BY <1>2, SessionMovesHonestly, PressesHonestly, GivesUpHonestly, LandsHonestly, CutsShortHonestly
<1>3. CASE \E q \in Request :
             Vanish(q) \/ Gate(q) \/ ReadPlan(q) \/ ClaimOfRateLimit(q) \/ Work(q) \/ Issue(q) \/ Replay(q) \/ Fail(q)
  BY <1>3, VanishesHonestly, GateIsHonest, FunctionIsHonest, IssueIsHonest, ReplayIsHonest
<1>4. CASE PlanMoves \/ TrialEnds
  <2>1. /\ UNCHANGED pageVars /\ request' = request /\ charges' = charges
        /\ paidPlan' \in BOOLEAN /\ ended' \in BOOLEAN
    BY <1>4 DEF PlanMoves, TrialEnds, Honest, ChargesTyped
  <2> QED
    BY <2>1 DEF pageVars, Honest, AskingTyped, ChargesTyped, WaitsForItsOwn, OneKeyToAnErrand, KeyChargedOnce,
                AnsweredAsCharged, ShownAsCharged, ShownToItsAsker, NoReportGivenFree
<1> QED
  BY <1>1, <1>2, <1>3, <1>4 DEF RequestNext

LEMMA AlwaysHonest == RequestSpec => []Honest
BY HonestAtFirst, StepIsHonest, PTL DEF RequestSpec

(* Pages, requests and charges hold what RequestTypeOK says, and a page    *)
(* waits only for a request of its own, posted and not forgotten (run,     *)
(* development-activity-reports.html 1954-2000).                           *)
THEOREM RequestIsTyped == RequestSpec => []RequestTypeOK
<1>1. Honest => RequestTypeOK
  BY DEF Honest, AskingTyped, ChargesTyped, WaitsForItsOwn, OneKeyToAnErrand, RequestTypeOK
<1> QED
  BY <1>1, AlwaysHonest, PTL

(* Until an answer has come, pressing again for the same address never     *)
(* uses a second report, though answers time out, break off (those are set *)
(* apart) or come after the page gave up: for any pages, people, addresses,*)
(* keys and requests (development-activity-reports.html 679-680, 1973).    *)
THEOREM RetriesChargeOnce == RequestSpec => []RetryChargesOnce
<1>1. Honest => RetryChargesOnce
  <2> SUFFICES ASSUME Honest, NEW p \in Page PROVE Charged(errand[p] \ broken[p]) <= 1
    BY DEF RetryChargesOnce
  <2> DEFINE hits == {x \in charges : x.key \in errand[p] \ broken[p]}
  <2>1. \A x, y \in hits : x = y
    BY DEF Honest, OneKeyToAnErrand, KeyChargedOnce
  <2>2. hits = {} \/ \E x : hits = {x}
    BY <2>1
  <2>3. Cardinality(hits) <= 1
    <3>1. CASE hits = {}
      BY <3>1, FS_EmptySet
    <3>2. CASE \E x : hits = {x}
      <4>1. PICK x : hits = {x}
        BY <3>2
      <4>2. Cardinality({x}) = 1
        BY FS_Singleton
      <4> HIDE DEF hits
      <4> QED
        BY <4>1, <4>2
    <3> QED
      BY <2>2, <3>1, <3>2
  <2> QED
    BY <2>3 DEF Charged
<1> QED
  BY <1>1, AlwaysHonest, PTL

(* A report on the screen was asked for by whoever is signed in there, and *)
(* one of the charged kind was charged under its key for its address       *)
(* (development-activity-reports.html 1972; handler.ts 286).               *)
THEOREM ShownOnlyAsCharged == RequestSpec => []ShownAsCharged
BY AlwaysHonest, PTL DEF Honest

-----------------------------------------------------------------------------
(***************************************************************************)
(* FollowSync.  Each of the three properties has its own invariant over    *)
(* the common one (Following: types, and what each phase of a merge is     *)
(* about): whose account everything is that a browser holds or is asking   *)
(* (Owned), how far an undisturbed merge has come (CleanMerges), and that  *)
(* nothing a removed follow could return from still has it (KeptOut).      *)
(***************************************************************************)

(* A page that is merging has a session, and each step of the merge works  *)
(* on items of its own kind.                                               *)
Phases ==
    \A t \in Tab :
        /\ page[t].session = Null => page[t].pc \in {"boot", "ready"}
        /\ page[t].pc = "boot" => page[t].session = Null
        /\ page[t].want # Null => page[t].pc = "ready" /\ page[t].session # Null
        /\ page[t].pc \in {"zipsTold", "naming"} => page[t].acct \subseteq Zip
        /\ page[t].pc \in {"naming", "pushZips"} => page[t].todo \subseteq Zip
        /\ page[t].pc = "projectsTold" => page[t].acct \subseteq Project
        /\ page[t].pc = "pushProjects" => page[t].todo \subseteq Project

Following == FollowTypeOK /\ Phases

(* What a step makes of a page and of its browser's storage.               *)
Becomes(t, m, b) ==
    /\ page' = [page EXCEPT ![t] = m]
    /\ stored' = [stored EXCEPT ![DeviceOf[t]] = b]

PhaseOf(m) ==
    /\ m.session = Null => m.pc \in {"boot", "ready"}
    /\ m.pc = "boot" => m.session = Null
    /\ m.want # Null => m.pc = "ready" /\ m.session # Null
    /\ m.pc \in {"zipsTold", "naming"} => m.acct \subseteq Zip
    /\ m.pc \in {"naming", "pushZips"} => m.todo \subseteq Zip
    /\ m.pc = "projectsTold" => m.acct \subseteq Project
    /\ m.pc = "pushProjects" => m.todo \subseteq Project

-----------------------------------------------------------------------------

LEMMA DeviceOfPage == \A t \in Tab : DeviceOf[t] \in Device
BY FollowAssumption

LEMMA PageAndStorage ==
    ASSUME FollowTypeOK, NEW t \in Tab
    PROVE  page[t] \in Memory /\ Here(t) \in Browser /\ Bearer(t) \in Account \cup {Null}
BY DeviceOfPage DEF FollowTypeOK, Here, Bearer

LEMMA BecameSo ==
    ASSUME FollowTypeOK, NEW t \in Tab, NEW m, NEW b, Becomes(t, m, b)
    PROVE  /\ page'[t] = m /\ Here(t)' = b
           /\ \A x \in Tab : x # t => page'[x] = page[x]
           /\ \A x \in Tab : DeviceOf[x] # DeviceOf[t] => Here(x)' = Here(x)
BY DeviceOfPage DEF FollowTypeOK, Here, Becomes

LEMMA FollowingOn ==
    ASSUME Following, NEW t \in Tab, NEW m \in Memory, NEW b \in Browser, Becomes(t, m, b), PhaseOf(m),
           rows' \in [Account -> SUBSET Item], authed' \in [Device -> Account \cup {Null}],
           flight' \subseteq ZipRequest, asked' \in [Account -> SUBSET Item],
           undone' \subseteq Account \X Project, clean' \in [Tab -> BOOLEAN]
    PROVE  Following'
<1>1. page' \in [Tab -> Memory]
  BY DEF Following, FollowTypeOK, Becomes
<1>2. stored' \in [Device -> Browser]
  BY DEF Following, FollowTypeOK, Becomes
<1>3. Phases'
  BY BecameSo DEF Following, Phases, PhaseOf
<1> QED
  BY <1>1, <1>2, <1>3 DEF Following, FollowTypeOK

LEMMA FollowingAtFirst == FollowInit => Following
<1> SUFFICES ASSUME FollowInit PROVE Following
  OBVIOUS
<1> DEFINE fresh == [session |-> Null, follows |-> {}, pc |-> "boot", acct |-> {}, todo |-> {}, want |-> Null]
<1>1. \A t \in Tab : page[t] = fresh
  BY DeviceOfPage DEF FollowInit, Opened, Here
<1>2. fresh \in Memory
  BY DEF Memory, Steps
<1>3. page \in [Tab -> Memory]
  BY <1>1, <1>2 DEF FollowInit
<1>4. Phases
  BY <1>1 DEF Phases
<1> QED
  BY <1>3, <1>4 DEF FollowInit, Following, FollowTypeOK, Browser

LEMMA CleanIsFlags ==
    ASSUME FollowTypeOK
    PROVE  /\ Disturbed => clean' \in [Tab -> BOOLEAN] /\ \A x \in Tab : ~clean'[x]
           /\ \A t \in Tab : Quietly(t) =>
                 clean' \in [Tab -> BOOLEAN] /\ clean'[t] = clean[t] /\ \A x \in Tab : x # t => ~clean'[x]
BY DEF FollowTypeOK, Disturbed, Quietly

(* What the account's side makes of its rows.                              *)
LEMMA RowsBecome ==
    ASSUME FollowTypeOK, NEW bearer \in Account \cup {Null}, NEW user \in Account, NEW item \in Item
    PROVE  /\ Inserted(bearer, user, item) \in [Account -> SUBSET Item]
           /\ Deleted(bearer, user, item) \in [Account -> SUBSET Item]
           /\ \A a \in Account :
                /\ Inserted(bearer, user, item)[a] = IF bearer = user /\ a = user THEN rows[a] \cup {item} ELSE rows[a]
                /\ Deleted(bearer, user, item)[a] = IF bearer = user /\ a = user THEN rows[a] \ {item} ELSE rows[a]
BY DEF FollowTypeOK, Inserted, Deleted

-----------------------------------------------------------------------------
(* What each step of a page does.                                          *)

LEMMA BootSessionDoes ==
    ASSUME Following, NEW t \in Tab, BootSession(t)
    PROVE  /\ Following'
           /\ \E m \in Memory :
                /\ Becomes(t, m, Here(t)) /\ m.session = Bearer(t) /\ m.follows = page[t].follows /\ m.want = Null
                /\ m.pc = IF Bearer(t) = Null THEN "ready" ELSE "scope"
           /\ page[t].pc = "boot"
           /\ UNCHANGED <<rows, authed, flight, asked, undone, clean>>
<1>1. /\ page[t] \in Memory /\ Here(t) \in Browser /\ Bearer(t) \in Account \cup {Null}
      /\ page[t].want = Null
  BY PageAndStorage DEF Following, BootSession, Phases
<1>2. PICK m \in Memory : m = [page[t] EXCEPT !.session = Bearer(t),
                                 !.pc = IF Bearer(t) = Null THEN "ready" ELSE "scope"]
  BY <1>1 DEF Memory, Steps
<1>3. /\ m.session = Bearer(t) /\ m.follows = page[t].follows /\ m.want = Null
      /\ m.pc = IF Bearer(t) = Null THEN "ready" ELSE "scope"
  BY <1>1, <1>2 DEF Memory
<1>4. page' = [page EXCEPT ![t] = m]
  BY <1>2 DEF BootSession, Following, FollowTypeOK
<1>5. Becomes(t, m, Here(t))
  BY <1>4, DeviceOfPage DEF BootSession, Becomes, Following, FollowTypeOK, Here
<1>6. PhaseOf(m)
  BY <1>3 DEF PhaseOf
<1>7. Following'
  BY <1>1, <1>5, <1>6, FollowingOn DEF BootSession, Following, FollowTypeOK
<1> QED
  BY <1>3, <1>5, <1>7 DEF BootSession

LEMMA EnsureScopeDoes ==
    ASSUME Following, NEW t \in Tab, EnsureScope(t)
    PROVE  /\ Following'
           /\ \E m \in Memory, b \in Browser :
                /\ Becomes(t, m, b) /\ m.session = page[t].session /\ m.want = Null /\ m.pc = "zips"
                /\ b.uid = page[t].session
                /\ \/ /\ Here(t).uid = page[t].session
                      /\ b.zips = Here(t).zips /\ b.follows = Here(t).follows /\ m.follows = page[t].follows
                   \/ b.zips = {} /\ b.follows = {} /\ m.follows = {}
           /\ page[t].pc = "scope" /\ page[t].session \in Account
           /\ clean' = [x \in Tab |-> x = t /\ Bearer(t) = page[t].session]
           /\ UNCHANGED <<rows, authed, flight, asked, undone>>
<1> DEFINE a == page[t].session
           mine == Here(t).uid = a
           browser == IF mine THEN Here(t) ELSE Cleared(Here(t))
<1>1. /\ page[t] \in Memory /\ Here(t) \in Browser /\ page[t].want = Null /\ a \in Account
  BY PageAndStorage DEF Following, EnsureScope, Phases, Memory
<1>2. PICK b \in Browser : b = [browser EXCEPT !.uid = a]
  BY <1>1 DEF Browser, Cleared
<1>3. /\ b.uid = a
      /\ mine => b.zips = Here(t).zips /\ b.follows = Here(t).follows
      /\ ~mine => b.zips = {} /\ b.follows = {} /\ browser.follows = {}
  BY <1>1, <1>2 DEF Browser, Cleared
<1>4. PICK m \in Memory :
         m = [page[t] EXCEPT !.pc = "zips", !.follows = IF mine THEN page[t].follows ELSE browser.follows]
  BY <1>1, <1>3 DEF Memory, Steps
<1>5. /\ m.session = a /\ m.want = Null /\ m.pc = "zips"
      /\ mine => m.follows = page[t].follows
      /\ ~mine => m.follows = {}
  BY <1>1, <1>3, <1>4 DEF Memory
<1>6. page' = [page EXCEPT ![t] = m]
  BY <1>4 DEF EnsureScope, Following, FollowTypeOK
<1>7. stored' = [stored EXCEPT ![DeviceOf[t]] = b]
  BY <1>2 DEF EnsureScope
<1>8. PhaseOf(m)
  BY <1>1, <1>5, FollowAssumption DEF PhaseOf
<1>9. clean' = [x \in Tab |-> x = t /\ Bearer(t) = a]
  BY DEF EnsureScope
<1>11. clean' \in [Tab -> BOOLEAN]
  BY <1>9, Zenon
<1>10. Following'
  BY <1>6, <1>7, <1>8, <1>11, FollowingOn DEF Becomes, EnsureScope, Following, FollowTypeOK
<1> QED
  BY <1>1, <1>3, <1>5, <1>6, <1>7, <1>9, <1>10 DEF Becomes, EnsureScope

LEMMA AskZipsDoes ==
    ASSUME Following, NEW t \in Tab, AskZips(t)
    PROVE  /\ Following'
           /\ \E m \in Memory :
                /\ Becomes(t, m, Here(t)) /\ m.session = page[t].session /\ m.follows = page[t].follows
                /\ m.want = Null
                /\ \/ m.pc = "zipsTold" /\ m.acct = RowsOf(Bearer(t)) \cap Zip /\ UNCHANGED clean
                   \/ m.pc = "projects" /\ Disturbed
           /\ page[t].pc = "zips" /\ page[t].session \in Account
           /\ UNCHANGED <<rows, authed, flight, asked, undone>>
<1>1. /\ page[t] \in Memory /\ Here(t) \in Browser /\ page[t].want = Null /\ page[t].session \in Account
  BY PageAndStorage DEF Following, AskZips, Phases, Memory
<1>2. RowsOf(Bearer(t)) \cap Zip \in SUBSET Item
  BY DEF Item
<1>3. stored' = [stored EXCEPT ![DeviceOf[t]] = Here(t)] /\ UNCHANGED <<rows, authed, flight, asked, undone>>
  BY DeviceOfPage DEF AskZips, Following, FollowTypeOK, Here
<1>4. CASE /\ page' = [page EXCEPT ![t].acct = RowsOf(Bearer(t)) \cap Zip, ![t].pc = "zipsTold"]
           /\ UNCHANGED clean
  <2>1. PICK m \in Memory : m = [page[t] EXCEPT !.acct = RowsOf(Bearer(t)) \cap Zip, !.pc = "zipsTold"]
    BY <1>1, <1>2 DEF Memory, Steps
  <2>2. /\ m.session = page[t].session /\ m.follows = page[t].follows /\ m.want = Null
        /\ m.pc = "zipsTold" /\ m.acct = RowsOf(Bearer(t)) \cap Zip
    BY <1>1, <2>1 DEF Memory
  <2>3. page' = [page EXCEPT ![t] = m]
    BY <1>4, <2>1 DEF Following, FollowTypeOK
  <2>4. PhaseOf(m)
    BY <1>1, <2>2, FollowAssumption DEF PhaseOf
  <2>5. Following'
    BY <1>1, <1>3, <1>4, <2>3, <2>4, FollowingOn DEF Becomes, Following, FollowTypeOK
  <2> QED
    BY <1>1, <1>3, <1>4, <2>2, <2>3, <2>5 DEF Becomes, AskZips
<1>5. CASE GoesTo(t, "projects") /\ Disturbed
  <2>1. PICK m \in Memory : m = [page[t] EXCEPT !.pc = "projects"]
    BY <1>1 DEF Memory, Steps
  <2>2. m.session = page[t].session /\ m.follows = page[t].follows /\ m.want = Null /\ m.pc = "projects"
    BY <1>1, <2>1 DEF Memory
  <2>3. page' = [page EXCEPT ![t] = m]
    BY <1>5, <2>1 DEF Following, FollowTypeOK, GoesTo
  <2>4. PhaseOf(m)
    BY <1>1, <2>2, FollowAssumption DEF PhaseOf
  <2>5. Following'
    BY <1>1, <1>3, <1>5, <2>3, <2>4, FollowingOn, CleanIsFlags DEF Becomes, Following, FollowTypeOK
  <2> QED
    BY <1>1, <1>3, <1>5, <2>2, <2>3, <2>5 DEF Becomes, AskZips
<1> QED
  BY <1>4, <1>5 DEF AskZips

LEMMA TakeZipsDoes ==
    ASSUME Following, NEW t \in Tab, TakeZips(t)
    PROVE  /\ Following'
           /\ \E m \in Memory :
                /\ Becomes(t, m, Here(t)) /\ m.session = page[t].session /\ m.follows = page[t].follows
                /\ m.want = Null /\ m.acct = page[t].acct
                /\ \/ /\ page[t].acct \subseteq Here(t).zips /\ m.pc = "pushZips"
                      /\ m.todo = Here(t).zips \ page[t].acct
                   \/ m.pc = "naming" /\ m.todo = Here(t).zips \cup page[t].acct
           /\ page[t].pc = "zipsTold" /\ page[t].session \in Account
           /\ UNCHANGED <<rows, authed, flight, asked, undone, clean>>
<1> DEFINE known == Here(t).zips
<1>1. /\ page[t] \in Memory /\ Here(t) \in Browser /\ page[t].want = Null /\ page[t].session \in Account
      /\ page[t].acct \subseteq Zip
  BY PageAndStorage DEF Following, TakeZips, Phases, Memory
<1>2. stored' = [stored EXCEPT ![DeviceOf[t]] = Here(t)] /\ UNCHANGED <<rows, authed, flight, asked, undone, clean>>
  BY DeviceOfPage DEF TakeZips, Following, FollowTypeOK, Here
<1>3. known \subseteq Zip
  BY <1>1 DEF Browser
<1>4. PICK m \in Memory :
        m = [page[t] EXCEPT
             !.todo = IF page[t].acct \subseteq known THEN known \ page[t].acct ELSE known \cup page[t].acct,
             !.pc = IF page[t].acct \subseteq known THEN "pushZips" ELSE "naming"]
  BY <1>1, <1>3 DEF Memory, Steps, Item
<1>5. /\ m.session = page[t].session /\ m.follows = page[t].follows /\ m.want = Null /\ m.acct = page[t].acct
      /\ m.todo = (IF page[t].acct \subseteq known THEN known \ page[t].acct ELSE known \cup page[t].acct)
      /\ m.pc = IF page[t].acct \subseteq known THEN "pushZips" ELSE "naming"
  BY <1>1, <1>4 DEF Memory
<1>6. page' = [page EXCEPT ![t] = m]
  BY <1>4 DEF TakeZips, Following, FollowTypeOK
<1>7. PhaseOf(m)
  BY <1>1, <1>3, <1>5, FollowAssumption DEF PhaseOf
<1>8. Following'
  BY <1>1, <1>2, <1>6, <1>7, FollowingOn DEF Becomes, Following, FollowTypeOK
<1> QED
  BY <1>1, <1>2, <1>5, <1>6, <1>8 DEF Becomes, TakeZips

LEMMA NameZipsDoes ==
    ASSUME Following, NEW t \in Tab, NameZips(t)
    PROVE  /\ Following'
           /\ \E m \in Memory, b \in Browser :
                /\ Becomes(t, m, b) /\ m.session = page[t].session /\ m.follows = page[t].follows
                /\ m.want = Null /\ m.pc = "pushZips" /\ m.todo = page[t].todo \ page[t].acct
                /\ b.zips = page[t].todo /\ b.follows = Here(t).follows /\ b.uid = Here(t).uid
           /\ page[t].pc = "naming" /\ page[t].session \in Account
           /\ Quietly(t) /\ UNCHANGED <<rows, authed, flight, asked, undone>>
<1>1. /\ page[t] \in Memory /\ Here(t) \in Browser /\ page[t].want = Null /\ page[t].session \in Account
      /\ page[t].todo \subseteq Zip
  BY PageAndStorage DEF Following, NameZips, Phases, Memory
<1>2. PICK b \in Browser : b = [Here(t) EXCEPT !.zips = page[t].todo]
  BY <1>1 DEF Browser
<1>3. b.zips = page[t].todo /\ b.follows = Here(t).follows /\ b.uid = Here(t).uid
  BY <1>1, <1>2 DEF Browser
<1>4. stored' = [stored EXCEPT ![DeviceOf[t]] = b]
  BY <1>2, DeviceOfPage DEF NameZips, Following, FollowTypeOK, Here
<1>5. PICK m \in Memory : m = [page[t] EXCEPT !.todo = page[t].todo \ page[t].acct, !.pc = "pushZips"]
  BY <1>1 DEF Memory, Steps, Item
<1>6. /\ m.session = page[t].session /\ m.follows = page[t].follows /\ m.want = Null
      /\ m.todo = page[t].todo \ page[t].acct /\ m.pc = "pushZips"
  BY <1>1, <1>5 DEF Memory
<1>7. page' = [page EXCEPT ![t] = m]
  BY <1>5 DEF NameZips, Following, FollowTypeOK
<1>8. PhaseOf(m)
  BY <1>1, <1>6, FollowAssumption DEF PhaseOf
<1>9. Following'
  BY <1>4, <1>7, <1>8, FollowingOn, CleanIsFlags DEF Becomes, NameZips, Following, FollowTypeOK
<1> QED
  BY <1>1, <1>3, <1>4, <1>6, <1>7, <1>9 DEF Becomes, NameZips

LEMMA AskProjectsDoes ==
    ASSUME Following, NEW t \in Tab, AskProjects(t)
    PROVE  /\ Following'
           /\ \E m \in Memory :
                /\ Becomes(t, m, Here(t)) /\ m.session = page[t].session /\ m.follows = page[t].follows
                /\ m.want = Null
                /\ \/ m.pc = "projectsTold" /\ m.acct = RowsOf(Bearer(t)) \cap Project /\ UNCHANGED clean
                   \/ m.pc = "ready" /\ Disturbed
           /\ page[t].pc = "projects" /\ page[t].session \in Account
           /\ UNCHANGED <<rows, authed, flight, asked, undone>>
<1>1. /\ page[t] \in Memory /\ Here(t) \in Browser /\ page[t].want = Null /\ page[t].session \in Account
  BY PageAndStorage DEF Following, AskProjects, Phases, Memory
<1>2. RowsOf(Bearer(t)) \cap Project \in SUBSET Item
  BY DEF Item
<1>3. stored' = [stored EXCEPT ![DeviceOf[t]] = Here(t)] /\ UNCHANGED <<rows, authed, flight, asked, undone>>
  BY DeviceOfPage DEF AskProjects, Following, FollowTypeOK, Here
<1>4. CASE /\ page' = [page EXCEPT ![t].acct = RowsOf(Bearer(t)) \cap Project, ![t].pc = "projectsTold"]
           /\ UNCHANGED clean
  <2>1. PICK m \in Memory : m = [page[t] EXCEPT !.acct = RowsOf(Bearer(t)) \cap Project, !.pc = "projectsTold"]
    BY <1>1, <1>2 DEF Memory, Steps
  <2>2. /\ m.session = page[t].session /\ m.follows = page[t].follows /\ m.want = Null
        /\ m.pc = "projectsTold" /\ m.acct = RowsOf(Bearer(t)) \cap Project
    BY <1>1, <2>1 DEF Memory
  <2>3. page' = [page EXCEPT ![t] = m]
    BY <1>4, <2>1 DEF Following, FollowTypeOK
  <2>4. PhaseOf(m)
    BY <1>1, <2>2, FollowAssumption DEF PhaseOf
  <2>5. Following'
    BY <1>1, <1>3, <1>4, <2>3, <2>4, FollowingOn DEF Becomes, Following, FollowTypeOK
  <2> QED
    BY <1>1, <1>3, <1>4, <2>2, <2>3, <2>5 DEF Becomes, AskProjects
<1>5. CASE GoesTo(t, "ready") /\ Disturbed
  <2>1. PICK m \in Memory : m = [page[t] EXCEPT !.pc = "ready"]
    BY <1>1 DEF Memory, Steps
  <2>2. m.session = page[t].session /\ m.follows = page[t].follows /\ m.want = Null /\ m.pc = "ready"
    BY <1>1, <2>1 DEF Memory
  <2>3. page' = [page EXCEPT ![t] = m]
    BY <1>5, <2>1 DEF Following, FollowTypeOK, GoesTo
  <2>4. PhaseOf(m)
    BY <1>1, <2>2, FollowAssumption DEF PhaseOf
  <2>5. Following'
    BY <1>1, <1>3, <1>5, <2>3, <2>4, FollowingOn, CleanIsFlags DEF Becomes, Following, FollowTypeOK
  <2> QED
    BY <1>1, <1>3, <1>5, <2>2, <2>3, <2>5 DEF Becomes, AskProjects
<1> QED
  BY <1>4, <1>5 DEF AskProjects

LEMMA TakeProjectsDoes ==
    ASSUME Following, NEW t \in Tab, TakeProjects(t)
    PROVE  /\ Following'
           /\ \E m \in Memory, b \in Browser :
                /\ Becomes(t, m, b) /\ m.session = page[t].session /\ m.want = Null /\ m.pc = "pushProjects"
                /\ m.follows = page[t].follows \cup page[t].acct /\ m.todo = page[t].follows \ page[t].acct
                /\ b.follows = m.follows /\ b.zips = Here(t).zips /\ b.uid = Here(t).uid
           /\ page[t].pc = "projectsTold" /\ page[t].session \in Account
           /\ Quietly(t) /\ UNCHANGED <<rows, authed, flight, asked, undone>>
<1>1. /\ page[t] \in Memory /\ Here(t) \in Browser /\ page[t].want = Null /\ page[t].session \in Account
      /\ page[t].acct \subseteq Project
  BY PageAndStorage DEF Following, TakeProjects, Phases, Memory
<1>2. page[t].follows \subseteq Project
  BY <1>1 DEF Memory
<1>3. PICK b \in Browser : b = [Here(t) EXCEPT !.follows = page[t].follows \cup page[t].acct]
  BY <1>1, <1>2 DEF Browser
<1>4. b.follows = page[t].follows \cup page[t].acct /\ b.zips = Here(t).zips /\ b.uid = Here(t).uid
  BY <1>1, <1>3 DEF Browser
<1>5. stored' = [stored EXCEPT ![DeviceOf[t]] = b]
  BY <1>3, DeviceOfPage DEF TakeProjects, Following, FollowTypeOK, Here
<1>6. PICK m \in Memory :
        m = [page[t] EXCEPT !.follows = page[t].follows \cup page[t].acct,
                            !.todo = page[t].follows \ page[t].acct, !.pc = "pushProjects"]
  BY <1>1, <1>2 DEF Memory, Steps, Item
<1>7. /\ m.session = page[t].session /\ m.want = Null /\ m.pc = "pushProjects"
      /\ m.follows = page[t].follows \cup page[t].acct /\ m.todo = page[t].follows \ page[t].acct
  BY <1>1, <1>6 DEF Memory
<1>8. page' = [page EXCEPT ![t] = m]
  BY <1>6 DEF TakeProjects, OnlyHere, Following, FollowTypeOK
<1>9. PhaseOf(m)
  BY <1>1, <1>2, <1>7, FollowAssumption DEF PhaseOf
<1>10. Following'
  BY <1>5, <1>8, <1>9, FollowingOn, CleanIsFlags DEF Becomes, TakeProjects, Following, FollowTypeOK
<1>11. Becomes(t, m, b) /\ b.follows = m.follows
  BY <1>4, <1>5, <1>7, <1>8 DEF Becomes
<1> QED
  BY <1>1, <1>4, <1>7, <1>10, <1>11 DEF TakeProjects

LEMMA PushDoes ==
    ASSUME Following, NEW t \in Tab, Push(t)
    PROVE  /\ Following'
           /\ \E m \in Memory, i \in page[t].todo :
                /\ Becomes(t, m, Here(t)) /\ m.session = page[t].session /\ m.follows = page[t].follows
                /\ m.want = Null /\ m.pc = page[t].pc /\ m.todo = page[t].todo \ {i}
                /\ \/ rows' = Inserted(Bearer(t), page[t].session, i) /\ Quietly(t)
                   \/ rows' = rows /\ Disturbed
                /\ i \in Item /\ (page[t].pc = "pushZips" => i \in Zip) /\ (page[t].pc = "pushProjects" => i \in Project)
           /\ page[t].pc \in {"pushZips", "pushProjects"} /\ page[t].session \in Account
           /\ UNCHANGED <<authed, flight, asked, undone>>
<1>1. /\ page[t] \in Memory /\ Here(t) \in Browser /\ page[t].want = Null /\ page[t].session \in Account
      /\ page[t].pc \in {"pushZips", "pushProjects"} /\ Bearer(t) \in Account \cup {Null}
      /\ page[t].pc = "pushZips" => page[t].todo \subseteq Zip
      /\ page[t].pc = "pushProjects" => page[t].todo \subseteq Project
  BY PageAndStorage DEF Following, Push, Phases, Memory
<1>2. PICK i \in page[t].todo :
         /\ page' = [page EXCEPT ![t].todo = @ \ {i}]
         /\ \/ rows' = Inserted(Bearer(t), page[t].session, i) /\ Quietly(t)
            \/ rows' = rows /\ Disturbed
  BY DEF Push
<1>3. i \in Item
  BY <1>1 DEF Item
<1>4. PICK m \in Memory : m = [page[t] EXCEPT !.todo = page[t].todo \ {i}]
  BY <1>1 DEF Memory
<1>5. /\ m.session = page[t].session /\ m.follows = page[t].follows /\ m.want = Null /\ m.pc = page[t].pc
      /\ m.todo = page[t].todo \ {i}
  BY <1>1, <1>4 DEF Memory
<1>6. page' = [page EXCEPT ![t] = m]
  BY <1>2, <1>4 DEF Following, FollowTypeOK
<1>7. stored' = [stored EXCEPT ![DeviceOf[t]] = Here(t)] /\ UNCHANGED <<authed, flight, asked, undone>>
  BY DeviceOfPage DEF Push, Following, FollowTypeOK, Here
<1>8. PhaseOf(m)
  BY <1>1, <1>5, FollowAssumption DEF PhaseOf
<1>9. clean' \in [Tab -> BOOLEAN]
  BY <1>2, CleanIsFlags DEF Following
<1>11. Inserted(Bearer(t), page[t].session, i) \in [Account -> SUBSET Item]
  BY <1>1, <1>3, RowsBecome DEF Following
<1>12. rows' \in [Account -> SUBSET Item]
  BY <1>2, <1>11 DEF Following, FollowTypeOK
<1>10. Following'
  BY <1>1, <1>6, <1>7, <1>8, <1>9, <1>12, FollowingOn DEF Becomes, Following, FollowTypeOK
<1> QED
  BY <1>1, <1>2, <1>3, <1>5, <1>6, <1>7, <1>10 DEF Becomes

LEMMA PushedDoes ==
    ASSUME Following, NEW t \in Tab, Pushed(t)
    PROVE  /\ Following'
           /\ \E m \in Memory :
                /\ Becomes(t, m, Here(t)) /\ m.session = page[t].session /\ m.follows = page[t].follows
                /\ m.want = Null /\ m.pc = IF page[t].pc = "pushZips" THEN "projects" ELSE "ready"
           /\ page[t].pc \in {"pushZips", "pushProjects"} /\ page[t].todo = {} /\ page[t].session \in Account
           /\ UNCHANGED <<rows, authed, flight, asked, undone, clean>>
<1>1. /\ page[t] \in Memory /\ Here(t) \in Browser /\ page[t].want = Null /\ page[t].session \in Account
  BY PageAndStorage DEF Following, Pushed, Phases, Memory
<1>2. PICK m \in Memory : m = [page[t] EXCEPT !.pc = IF page[t].pc = "pushZips" THEN "projects" ELSE "ready"]
  BY <1>1 DEF Memory, Steps
<1>3. /\ m.session = page[t].session /\ m.follows = page[t].follows /\ m.want = Null
      /\ m.pc = IF page[t].pc = "pushZips" THEN "projects" ELSE "ready"
  BY <1>1, <1>2 DEF Memory
<1>4. page' = [page EXCEPT ![t] = m]
  BY <1>2 DEF Pushed, GoesTo, Following, FollowTypeOK
<1>5. stored' = [stored EXCEPT ![DeviceOf[t]] = Here(t)] /\ UNCHANGED <<rows, authed, flight, asked, undone, clean>>
  BY DeviceOfPage DEF Pushed, Following, FollowTypeOK, Here
<1>6. PhaseOf(m)
  BY <1>1, <1>3, FollowAssumption DEF PhaseOf
<1>7. Following'
  BY <1>1, <1>4, <1>5, <1>6, FollowingOn DEF Becomes, Following, FollowTypeOK
<1> QED
  BY <1>1, <1>3, <1>4, <1>5, <1>7 DEF Becomes, Pushed

LEMMA ToggleDoes ==
    ASSUME Following, NEW t \in Tab, NEW p \in Project, Toggle(t, p)
    PROVE  /\ Following'
           /\ \E m \in Memory :
                /\ Becomes(t, m, Here(t)) /\ m.session = page[t].session /\ m.follows = page[t].follows
                /\ m.pc = "ready" /\ m.want \in Want
                /\ m.want.item = p /\ m.want.on = (p \notin page[t].follows) /\ m.want.answer = "none"
           /\ page[t].pc = "ready" /\ page[t].session \in Account
           /\ IF p \notin page[t].follows
              THEN /\ undone' = undone \ {<<page[t].session, p>>}
                   /\ asked' = [asked EXCEPT ![page[t].session] = @ \cup {p}]
              ELSE UNCHANGED <<undone, asked>>
           /\ Disturbed /\ UNCHANGED <<rows, authed, flight>>
<1> DEFINE on == p \notin page[t].follows
<1>1. /\ page[t] \in Memory /\ Here(t) \in Browser /\ page[t].session \in Account /\ page[t].pc = "ready"
  BY PageAndStorage DEF Following, Toggle, Memory
<1>2. on \in BOOLEAN
  OBVIOUS
<1>3. PICK w \in Want : w = [item |-> p, on |-> on, answer |-> "none"]
  BY <1>2, Zenon DEF Want
<1>4. w.item = p /\ w.on = on /\ w.answer = "none" /\ w # Null
  BY <1>3, FollowAssumption
<1>5. PICK m \in Memory : m = [page[t] EXCEPT !.want = w]
  BY <1>1 DEF Memory
<1>6. m.session = page[t].session /\ m.follows = page[t].follows /\ m.pc = "ready" /\ m.want = w
  BY <1>1, <1>5 DEF Memory
<1>7. page' = [page EXCEPT ![t] = m]
  BY <1>3, <1>5 DEF Toggle, Following, FollowTypeOK
<1>8. stored' = [stored EXCEPT ![DeviceOf[t]] = Here(t)] /\ Disturbed /\ UNCHANGED <<rows, authed, flight>>
  BY DeviceOfPage DEF Toggle, Following, FollowTypeOK, Here
<1>9. PhaseOf(m)
  BY <1>1, <1>6, FollowAssumption DEF PhaseOf
<1>10. IF on THEN undone' = undone \ {<<page[t].session, p>>} /\ asked' = [asked EXCEPT ![page[t].session] = @ \cup {p}]
       ELSE UNCHANGED <<undone, asked>>
  BY <1>1, FollowAssumption DEF Toggle, Asks
<1>11. undone' \subseteq Account \X Project
  BY <1>10 DEF Following, FollowTypeOK
<1>12. asked' \in [Account -> SUBSET Item]
  <2>1. p \in Item
    BY DEF Item
  <2>2. CASE on
    BY <1>10, <2>1, <2>2 DEF Following, FollowTypeOK
  <2>3. CASE ~on
    BY <1>10, <2>3 DEF Following, FollowTypeOK
  <2> QED
    BY <2>2, <2>3
<1>13. Following'
  BY <1>1, <1>7, <1>8, <1>9, <1>11, <1>12, FollowingOn, CleanIsFlags DEF Becomes, Following, FollowTypeOK
<1>14. Becomes(t, m, Here(t)) /\ m.want \in Want
  BY <1>6, <1>7, <1>8 DEF Becomes
<1> QED
  BY <1>1, <1>4, <1>6, <1>8, <1>10, <1>13, <1>14 DEF Toggle

LEMMA ServeToggleDoes ==
    ASSUME Following, NEW t \in Tab, ServeToggle(t)
    PROVE  /\ Following'
           /\ page[t].want \in Want /\ page[t].session \in Account /\ page[t].want.item \in Item
           /\ \E m \in Memory :
                /\ Becomes(t, m, Here(t)) /\ m.session = page[t].session /\ m.follows = page[t].follows
                /\ m.pc = page[t].pc /\ m.want \in Want
                /\ m.want.item = page[t].want.item /\ m.want.on = page[t].want.on
                /\ \/ /\ page[t].want.on
                      /\ rows' = Inserted(Bearer(t), page[t].session, page[t].want.item)
                   \/ /\ ~page[t].want.on
                      /\ rows' = Deleted(Bearer(t), page[t].session, page[t].want.item)
                   \/ rows' = rows /\ m.want.answer = "failed"
           /\ page[t].pc = "ready" /\ Disturbed /\ UNCHANGED <<authed, flight, asked, undone>>
<1> DEFINE w == page[t].want
<1>1. /\ page[t] \in Memory /\ Here(t) \in Browser /\ page[t].session \in Account /\ w \in Want
      /\ page[t].pc = "ready" /\ Bearer(t) \in Account \cup {Null}
  BY PageAndStorage DEF Following, ServeToggle, Phases, Memory
<1>2. w.item \in Item /\ w.on \in BOOLEAN
  BY <1>1 DEF Want, Item
<1>3. PICK answer \in {"ok", "failed"} :
        /\ page' = [page EXCEPT ![t].want.answer = answer]
        /\ \/ w.on /\ rows' = Inserted(Bearer(t), page[t].session, w.item)
           \/ ~w.on /\ rows' = Deleted(Bearer(t), page[t].session, w.item)
           \/ rows' = rows /\ answer = "failed"
  <2>1. CASE rows' = rows /\ page' = [page EXCEPT ![t].want.answer = "failed"]
    BY <2>1
  <2>2. ASSUME NEW heard \in {"ok", "failed"},
               rows' = (IF w.on THEN Inserted(Bearer(t), page[t].session, w.item)
                        ELSE Deleted(Bearer(t), page[t].session, w.item)),
               page' = [page EXCEPT ![t].want.answer = IF Refused(t) THEN "failed" ELSE heard]
        PROVE  \E answer \in {"ok", "failed"} :
                 /\ page' = [page EXCEPT ![t].want.answer = answer]
                 /\ \/ w.on /\ rows' = Inserted(Bearer(t), page[t].session, w.item)
                    \/ ~w.on /\ rows' = Deleted(Bearer(t), page[t].session, w.item)
                    \/ rows' = rows /\ answer = "failed"
    <3>1. PICK answer \in {"ok", "failed"} : answer = IF Refused(t) THEN "failed" ELSE heard
      OBVIOUS
    <3>2. page' = [page EXCEPT ![t].want.answer = answer]
      BY <2>2, <3>1
    <3> QED
      BY <2>2, <3>2
  <2> QED
    BY <2>1, <2>2 DEF ServeToggle
<1>4. PICK v \in Want : v = [w EXCEPT !.answer = answer]
  BY <1>1 DEF Want
<1>5. v.item = w.item /\ v.on = w.on /\ v.answer = answer
  BY <1>1, <1>4 DEF Want
<1>6. PICK m \in Memory : m = [page[t] EXCEPT !.want = v]
  BY <1>1 DEF Memory
<1>7. m.session = page[t].session /\ m.follows = page[t].follows /\ m.pc = page[t].pc /\ m.want = v
  BY <1>1, <1>6 DEF Memory
<1>8. page' = [page EXCEPT ![t] = m]
  BY <1>3, <1>4, <1>6 DEF Following, FollowTypeOK
<1>9. /\ stored' = [stored EXCEPT ![DeviceOf[t]] = Here(t)]
      /\ Disturbed /\ UNCHANGED <<authed, flight, asked, undone>>
  BY DeviceOfPage DEF ServeToggle, Following, FollowTypeOK, Here
<1>10. PhaseOf(m)
  BY <1>1, <1>7, FollowAssumption DEF PhaseOf
<1>11. rows' \in [Account -> SUBSET Item]
  <2>1. /\ Inserted(Bearer(t), page[t].session, w.item) \in [Account -> SUBSET Item]
        /\ Deleted(Bearer(t), page[t].session, w.item) \in [Account -> SUBSET Item]
    BY <1>1, <1>2, RowsBecome DEF Following
  <2> QED
    BY <1>3, <2>1 DEF Following, FollowTypeOK
<1>12. Following'
  BY <1>1, <1>8, <1>9, <1>10, <1>11, FollowingOn, CleanIsFlags DEF Becomes, Following, FollowTypeOK
<1>13. Becomes(t, m, Here(t)) /\ m.want \in Want
  BY <1>7, <1>8, <1>9 DEF Becomes
<1>14. \/ w.on /\ rows' = Inserted(Bearer(t), page[t].session, w.item)
       \/ ~w.on /\ rows' = Deleted(Bearer(t), page[t].session, w.item)
       \/ rows' = rows /\ m.want.answer = "failed"
  BY <1>3, <1>5, <1>7
<1> QED
  BY <1>1, <1>2, <1>5, <1>7, <1>9, <1>12, <1>13, <1>14

LEMMA AnswerToggleDoes ==
    ASSUME Following, NEW t \in Tab, AnswerToggle(t)
    PROVE  /\ Following'
           /\ page[t].want \in Want /\ page[t].session \in Account /\ page[t].pc = "ready"
           /\ \E m \in Memory, b \in Browser :
                /\ Becomes(t, m, b) /\ m.session = page[t].session /\ m.want = Null /\ m.pc = "ready"
                /\ b.zips = Here(t).zips /\ b.uid = Here(t).uid
                /\ IF page[t].want.answer = "failed"
                   THEN m.follows = page[t].follows /\ b.follows = Here(t).follows /\ undone' = undone
                   ELSE /\ page[t].want.answer = "ok" /\ b.follows = m.follows
                        /\ IF page[t].want.on
                           THEN m.follows = page[t].follows \cup {page[t].want.item} /\ undone' = undone
                           ELSE /\ m.follows = page[t].follows \ {page[t].want.item}
                                /\ undone' = undone \cup {<<page[t].session, page[t].want.item>>}
           /\ Disturbed /\ UNCHANGED <<rows, authed, flight, asked>>
<1> DEFINE w == page[t].want
           held == IF Failed(w) THEN page[t].follows
                   ELSE IF w.on THEN page[t].follows \cup {w.item} ELSE page[t].follows \ {w.item}
<1>1. /\ page[t] \in Memory /\ Here(t) \in Browser /\ page[t].session \in Account /\ w \in Want
      /\ page[t].pc = "ready" /\ page[t].session # Null
  BY PageAndStorage, FollowAssumption DEF Following, AnswerToggle, Phases, Memory
<1>2. w.item \in Project /\ w.on \in BOOLEAN /\ w.answer \in {"ok", "failed"}
  BY <1>1 DEF Want, AnswerToggle
<1>3. held \subseteq Project
  BY <1>1, <1>2 DEF Memory
<1>4. PICK m \in Memory : m = [page[t] EXCEPT !.follows = held, !.want = Null]
  BY <1>1, <1>3 DEF Memory
<1>5. m.session = page[t].session /\ m.follows = held /\ m.pc = "ready" /\ m.want = Null
  BY <1>1, <1>4 DEF Memory
<1>6. page' = [page EXCEPT ![t] = m]
  BY <1>4 DEF AnswerToggle, Following, FollowTypeOK
<1>7. PICK b \in Browser : b = IF Failed(w) THEN Here(t) ELSE [Here(t) EXCEPT !.follows = held]
  BY <1>1, <1>3 DEF Browser
<1>8. /\ b.zips = Here(t).zips /\ b.uid = Here(t).uid
      /\ b.follows = IF Failed(w) THEN Here(t).follows ELSE held
  BY <1>1, <1>7 DEF Browser
<1>9. stored' = [stored EXCEPT ![DeviceOf[t]] = b]
  BY <1>7, DeviceOfPage DEF AnswerToggle, Following, FollowTypeOK, Here
<1>10. undone' = IF ~Failed(w) /\ ~w.on THEN undone \cup {<<page[t].session, w.item>>} ELSE undone
  BY <1>1 DEF AnswerToggle
<1>11. undone' \subseteq Account \X Project
  BY <1>1, <1>2, <1>10 DEF Following, FollowTypeOK
<1>12. PhaseOf(m)
  BY <1>1, <1>5, FollowAssumption DEF PhaseOf
<1>13. Disturbed /\ UNCHANGED <<rows, authed, flight, asked>>
  BY DEF AnswerToggle
<1>14. Following'
  BY <1>6, <1>9, <1>11, <1>12, <1>13, FollowingOn, CleanIsFlags DEF Becomes, Following, FollowTypeOK
<1>15. Becomes(t, m, b)
  BY <1>6, <1>9 DEF Becomes
<1>16. IF w.answer = "failed"
       THEN m.follows = page[t].follows /\ b.follows = Here(t).follows /\ undone' = undone
       ELSE /\ w.answer = "ok" /\ b.follows = m.follows
            /\ IF w.on
               THEN m.follows = page[t].follows \cup {w.item} /\ undone' = undone
               ELSE /\ m.follows = page[t].follows \ {w.item}
                    /\ undone' = undone \cup {<<page[t].session, w.item>>}
  BY <1>2, <1>5, <1>8, <1>10 DEF Failed
<1> QED
  BY <1>1, <1>5, <1>8, <1>13, <1>14, <1>15, <1>16

(* Whose wish a ZIP's button is.                                           *)
Presser(t) == IF page[t].session = Null THEN Here(t).uid ELSE page[t].session

LEMMA ToggleZipSends ==
    ASSUME Following, NEW t \in Tab, NEW z \in Zip, ToggleZip(t, z)
    PROVE  \/ flight' = flight
           \/ \E r \in ZipRequest :
                /\ flight' = flight \cup {r}
                /\ page[t].session \in Account /\ r.user = page[t].session /\ r.item = z
                /\ r.on => z \notin Here(t).zips
<1> DEFINE on == z \notin Here(t).zips
<1>1. page[t].session \in Account \cup {Null} /\ Bearer(t) \in Account \cup {Null}
  BY PageAndStorage DEF Following, Memory
<1>2. CASE ~Tells(t)
  BY <1>2 DEF ToggleZip
<1>3. CASE Tells(t)
  <2>1. page[t].session \in Account /\ on \in BOOLEAN
    BY <1>1, <1>3 DEF Tells
  <2>2. PICK r \in ZipRequest :
          r = [tab |-> t, user |-> page[t].session, bearer |-> Bearer(t), item |-> z, on |-> on]
    BY <1>1, <2>1, Zenon DEF ZipRequest
  <2>3. flight' = flight \cup {r}
    BY <1>3, <2>2 DEF ToggleZip
  <2>4. r.user = page[t].session /\ r.item = z /\ (r.on => on)
    BY <2>2
  <2> QED
    BY <2>1, <2>3, <2>4
<1> QED
  BY <1>2, <1>3

LEMMA ToggleZipDoes ==
    ASSUME Following, NEW t \in Tab, NEW z \in Zip, ToggleZip(t, z)
    PROVE  /\ Following'
           /\ \E b \in Browser :
                /\ Becomes(t, page[t], b) /\ b.follows = Here(t).follows /\ b.uid = Here(t).uid
                /\ b.zips = IF z \notin Here(t).zips THEN Here(t).zips \cup {z} ELSE Here(t).zips \ {z}
           /\ page[t].pc = "ready"
           /\ asked' = IF z \notin Here(t).zips /\ Presser(t) # Null
                       THEN [asked EXCEPT ![Presser(t)] = @ \cup {z}] ELSE asked
           /\ Disturbed /\ UNCHANGED <<rows, authed, page, undone>>
<1> DEFINE on == z \notin Here(t).zips
           who == Presser(t)
<1>1. /\ page[t] \in Memory /\ Here(t) \in Browser /\ Bearer(t) \in Account \cup {Null} /\ page[t].pc = "ready"
      /\ page[t].session \in Account \cup {Null} /\ Here(t).uid \in Account \cup {Null}
      /\ Here(t).zips \subseteq Zip
  BY PageAndStorage DEF Following, ToggleZip, Memory, Browser
<1>2. PICK b \in Browser : b = [Here(t) EXCEPT !.zips = IF on THEN Here(t).zips \cup {z} ELSE Here(t).zips \ {z}]
  BY <1>1 DEF Browser
<1>3. /\ b.follows = Here(t).follows /\ b.uid = Here(t).uid
      /\ b.zips = IF on THEN Here(t).zips \cup {z} ELSE Here(t).zips \ {z}
  BY <1>1, <1>2 DEF Browser
<1>4. stored' = [stored EXCEPT ![DeviceOf[t]] = b]
  BY <1>2, DeviceOfPage DEF ToggleZip, Following, FollowTypeOK, Here
<1>5. page' = [page EXCEPT ![t] = page[t]] /\ Disturbed /\ UNCHANGED <<rows, authed, page, undone>>
  BY DEF ToggleZip, Following, FollowTypeOK
<1>6. Becomes(t, page[t], b)
  BY <1>4, <1>5 DEF Becomes
<1>8. asked' = IF on /\ who # Null THEN [asked EXCEPT ![who] = @ \cup {z}] ELSE asked
  BY DEF ToggleZip, Asks, Presser
<1>9. flight' \subseteq ZipRequest
  <2>1. flight \subseteq ZipRequest
    BY DEF Following, FollowTypeOK
  <2>2. flight' = flight \/ \E r \in ZipRequest : flight' = flight \cup {r}
    BY ToggleZipSends
  <2> QED
    BY <2>1, <2>2
<1>10. asked' \in [Account -> SUBSET Item]
  <2>1. z \in Item /\ who \in Account \cup {Null}
    BY <1>1 DEF Item, Presser
  <2>2. CASE on /\ who # Null
    <3> HIDE DEF who
    <3> QED
      BY <1>8, <2>1, <2>2 DEF Following, FollowTypeOK
  <2>3. CASE ~(on /\ who # Null)
    <3>1. asked' = asked
      BY <1>8, <2>3
    <3> QED
      BY <3>1 DEF Following, FollowTypeOK
  <2> QED
    BY <2>2, <2>3
<1>11. PhaseOf(page[t])
  BY DEF PhaseOf, Following, Phases
<1>12. Following'
  BY <1>1, <1>5, <1>6, <1>9, <1>10, <1>11, FollowingOn, CleanIsFlags DEF Following, FollowTypeOK
<1>13. \E c \in Browser :
         /\ Becomes(t, page[t], c) /\ c.follows = Here(t).follows /\ c.uid = Here(t).uid
         /\ c.zips = IF z \notin Here(t).zips THEN Here(t).zips \cup {z} ELSE Here(t).zips \ {z}
  BY <1>3, <1>6
<1> QED
  BY <1>1, <1>5, <1>8, <1>12, <1>13

LEMMA DeliverDoes ==
    ASSUME Following, NEW r \in flight, Deliver(r)
    PROVE  /\ Following'
           /\ r.user \in Account /\ r.bearer \in Account \cup {Null} /\ r.item \in Zip /\ r.item \in Item
           /\ \/ r.on /\ rows' = Inserted(r.bearer, r.user, r.item)
              \/ ~r.on /\ rows' = Deleted(r.bearer, r.user, r.item)
              \/ rows' = rows
           /\ flight' = flight \ {r} /\ Disturbed /\ UNCHANGED <<authed, stored, page, asked, undone>>
<1>1. /\ r.user \in Account /\ r.bearer \in Account \cup {Null} /\ r.item \in Zip /\ r.item \in Item
      /\ r.on \in BOOLEAN
  BY DEF Following, FollowTypeOK, ZipRequest, Item
<1>2. /\ \/ r.on /\ rows' = Inserted(r.bearer, r.user, r.item)
         \/ ~r.on /\ rows' = Deleted(r.bearer, r.user, r.item)
         \/ rows' = rows
      /\ flight' = flight \ {r} /\ Disturbed /\ UNCHANGED <<authed, stored, page, asked, undone>>
  BY <1>1 DEF Deliver
<1>3. rows' \in [Account -> SUBSET Item]
  <2>1. /\ Inserted(r.bearer, r.user, r.item) \in [Account -> SUBSET Item]
        /\ Deleted(r.bearer, r.user, r.item) \in [Account -> SUBSET Item]
    BY <1>1, RowsBecome DEF Following
  <2> QED
    BY <1>2, <2>1 DEF Following, FollowTypeOK
<1>4. clean' \in [Tab -> BOOLEAN]
  BY <1>2, CleanIsFlags DEF Following
<1>5. Following'
  BY <1>2, <1>3, <1>4 DEF Following, FollowTypeOK, Phases
<1> QED
  BY <1>1, <1>2, <1>5

LEMMA SignInDoes ==
    ASSUME Following, NEW t \in Tab, NEW a \in Account, SignIn(t, a)
    PROVE  /\ Following'
           /\ \E m \in Memory :
                /\ Becomes(t, m, Here(t)) /\ m.session = a /\ m.follows = page[t].follows
                /\ m.pc = "scope" /\ m.want = Null
           /\ page[t].pc = "ready" /\ page[t].session = Null
           /\ authed' = [authed EXCEPT ![DeviceOf[t]] = a]
           /\ Disturbed /\ UNCHANGED <<rows, flight, asked, undone>>
<1>1. page[t] \in Memory /\ Here(t) \in Browser /\ page[t].want = Null
  BY PageAndStorage DEF Following, SignIn, Phases
<1>2. PICK m \in Memory : m = [page[t] EXCEPT !.session = a, !.pc = "scope"]
  BY <1>1 DEF Memory, Steps
<1>3. m.session = a /\ m.follows = page[t].follows /\ m.pc = "scope" /\ m.want = Null
  BY <1>1, <1>2 DEF Memory
<1>4. page' = [page EXCEPT ![t] = m]
  BY <1>2 DEF SignIn, Following, FollowTypeOK
<1>5. /\ stored' = [stored EXCEPT ![DeviceOf[t]] = Here(t)] /\ Disturbed /\ UNCHANGED <<rows, flight, asked, undone>>
      /\ authed' = [authed EXCEPT ![DeviceOf[t]] = a]
  BY DeviceOfPage DEF SignIn, Following, FollowTypeOK, Here
<1>6. PhaseOf(m)
  BY <1>3, FollowAssumption DEF PhaseOf
<1>7. authed' \in [Device -> Account \cup {Null}]
  BY <1>5 DEF Following, FollowTypeOK
<1>8. Following'
  BY <1>1, <1>4, <1>5, <1>6, <1>7, FollowingOn, CleanIsFlags DEF Becomes, Following, FollowTypeOK
<1>9. Becomes(t, m, Here(t))
  BY <1>4, <1>5 DEF Becomes
<1> QED
  BY <1>3, <1>5, <1>8, <1>9 DEF SignIn

LEMMA SignOutDoes ==
    ASSUME Following, NEW t \in Tab, SignOut(t)
    PROVE  /\ Following'
           /\ \E m \in Memory, b \in Browser :
                /\ Becomes(t, m, b) /\ m.session = Null /\ m.follows = {} /\ m.pc = "boot" /\ m.want = Null
                /\ b.follows = {} /\ b.zips = {} /\ b.uid = Null
           /\ authed' = [authed EXCEPT ![DeviceOf[t]] = Null] \/ authed' = authed
           /\ Disturbed /\ UNCHANGED <<rows, flight, asked, undone>>
<1>1. Here(t) \in Browser
  BY PageAndStorage DEF Following
<1>2. PICK m \in Memory : m = [Opened(t) EXCEPT !.follows = {}]
  BY DEF Opened, Memory, Steps
<1>3. m.session = Null /\ m.follows = {} /\ m.pc = "boot" /\ m.want = Null
  BY <1>2 DEF Opened
<1>4. PICK b \in Browser : b = Cleared(Here(t))
  BY <1>1 DEF Browser, Cleared
<1>5. b.follows = {} /\ b.zips = {} /\ b.uid = Null
  BY <1>1, <1>4 DEF Browser, Cleared
<1>6. Becomes(t, m, b)
  BY <1>2, <1>4 DEF SignOut, Becomes, Here
<1>7. authed' = [authed EXCEPT ![DeviceOf[t]] = Null] \/ authed' = authed
  BY DEF SignOut
<1>8. PhaseOf(m)
  BY <1>3 DEF PhaseOf
<1>9. authed' \in [Device -> Account \cup {Null}]
  BY <1>7 DEF Following, FollowTypeOK
<1>10. Disturbed /\ UNCHANGED <<rows, flight, asked, undone>>
  BY DEF SignOut
<1>11. Following'
  BY <1>6, <1>8, <1>9, <1>10, FollowingOn, CleanIsFlags DEF Following, FollowTypeOK
<1> QED
  BY <1>3, <1>5, <1>6, <1>7, <1>10, <1>11

LEMMA ReloadDoes ==
    ASSUME Following, NEW t \in Tab, Reload(t)
    PROVE  /\ Following'
           /\ \E m \in Memory :
                /\ Becomes(t, m, Here(t)) /\ m.session = Null /\ m.follows = Here(t).follows
                /\ m.pc = "boot" /\ m.want = Null
           /\ Disturbed /\ UNCHANGED <<rows, authed, flight, asked, undone>>
<1>1. Here(t) \in Browser
  BY PageAndStorage DEF Following
<1>2. PICK m \in Memory : m = Opened(t)
  BY <1>1 DEF Opened, Memory, Steps, Browser
<1>3. m.session = Null /\ m.follows = Here(t).follows /\ m.pc = "boot" /\ m.want = Null
  BY <1>2 DEF Opened
<1>4. Becomes(t, m, Here(t))
  BY <1>2, DeviceOfPage DEF Reload, Becomes, Here, Following, FollowTypeOK
<1>5. PhaseOf(m)
  BY <1>3 DEF PhaseOf
<1>6. Disturbed /\ UNCHANGED <<rows, authed, flight, asked, undone>>
  BY DEF Reload
<1>7. Following'
  BY <1>1, <1>4, <1>5, <1>6, FollowingOn, CleanIsFlags DEF Following, FollowTypeOK
<1> QED
  BY <1>3, <1>4, <1>6, <1>7

LEMMA ExpireDoes ==
    ASSUME Following, NEW d \in Device, Expire(d)
    PROVE  /\ Following' /\ Expires
           /\ authed' = [authed EXCEPT ![d] = Null]
           /\ Disturbed /\ UNCHANGED <<rows, stored, page, flight, asked, undone>>
BY CleanIsFlags DEF Expire, Following, FollowTypeOK, Phases

LEMMA FollowingAlways == Following /\ [FollowNext]_followVars => Following'
<1> SUFFICES ASSUME Following, [FollowNext]_followVars PROVE Following'
  OBVIOUS
<1>1. CASE UNCHANGED followVars
  BY <1>1 DEF followVars, Following, FollowTypeOK, Phases
<1>2. ASSUME NEW t \in Tab,
             \/ BootSession(t) \/ EnsureScope(t) \/ AskZips(t) \/ TakeZips(t) \/ NameZips(t)
             \/ AskProjects(t) \/ TakeProjects(t) \/ Push(t) \/ Pushed(t)
      PROVE  Following'
  BY <1>2, BootSessionDoes, EnsureScopeDoes, AskZipsDoes, TakeZipsDoes, NameZipsDoes, AskProjectsDoes,
     TakeProjectsDoes, PushDoes, PushedDoes
<1>3. ASSUME NEW t \in Tab,
             \/ \E p \in Project : Toggle(t, p)
             \/ ServeToggle(t) \/ AnswerToggle(t)
             \/ \E z \in Zip : ToggleZip(t, z)
             \/ \E a \in Account : SignIn(t, a)
             \/ SignOut(t) \/ Reload(t)
      PROVE  Following'
  BY <1>3, ToggleDoes, ServeToggleDoes, AnswerToggleDoes, ToggleZipDoes, SignInDoes, SignOutDoes, ReloadDoes
<1>4. CASE (\E r \in flight : Deliver(r)) \/ (\E d \in Device : Expire(d))
  BY <1>4, DeliverDoes, ExpireDoes
<1> QED
  BY <1>1, <1>2, <1>3, <1>4 DEF FollowNext

-----------------------------------------------------------------------------
(* Whose follows a browser holds, with one page to a browser.              *)

OnePageEach == \A t, u \in Tab : DeviceOf[t] = DeviceOf[u] => t = u

(* What page m and storage b of a browser whose session is c hold is of    *)
(* the account they are about.                                             *)
Its(m, b, c, wanted) ==
    /\ b.follows = m.follows
    /\ b.uid # Null => b.zips \subseteq wanted[b.uid] /\ b.follows \subseteq wanted[b.uid]
    /\ m.session # Null =>
         /\ c \in {Null, m.session}
         /\ m.pc # "scope" => b.uid = m.session
         /\ m.pc \in {"zipsTold", "naming", "projectsTold"} => m.acct \subseteq wanted[m.session]
         /\ m.pc \in {"naming", "pushZips", "pushProjects"} => m.todo \subseteq wanted[m.session]
         /\ m.want # Null /\ m.want.on => m.want.item \in wanted[m.session]

Owned ==
    /\ \A t \in Tab : Its(page[t], Here(t), Bearer(t), asked)
    /\ \A r \in flight : r.on => r.item \in asked[r.user]
    /\ OwnFollowsOnly

LEMMA MoreIsAsked ==
    ASSUME Following, NEW m \in Memory, NEW b \in Browser, NEW c, NEW c2, c2 \in {Null, c},
           \A a \in Account : asked[a] \subseteq asked'[a],
           Its(m, b, c, asked)
    PROVE  Its(m, b, c2, asked')
<1>1. m.session \in Account \cup {Null} /\ b.uid \in Account \cup {Null}
  BY DEF Memory, Browser
<1> QED
  BY <1>1 DEF Its

(* A step of one page leaves the other pages' browsers alone.              *)
LEMMA OwnedOn ==
    ASSUME Following, Following', Owned, OnePageEach, NEW t \in Tab, NEW m \in Memory, NEW b \in Browser,
           Becomes(t, m, b), \A a \in Account : asked[a] \subseteq asked'[a],
           \A d \in Device : d # DeviceOf[t] => authed'[d] = authed[d],
           Its(m, b, Bearer(t)', asked'),
           \A r \in flight' : r.on => r.item \in asked'[r.user],
           OwnFollowsOnly'
    PROVE  Owned'
<1>1. ASSUME NEW x \in Tab, x # t
      PROVE  Its(page[x], Here(x), Bearer(x), asked)'
  <2>1. DeviceOf[x] # DeviceOf[t] /\ DeviceOf[x] \in Device
    BY <1>1, DeviceOfPage DEF OnePageEach
  <2>2. page'[x] = page[x] /\ Here(x)' = Here(x) /\ Bearer(x)' = Bearer(x)
    BY <1>1, <2>1, BecameSo DEF Following, Bearer
  <2>3. page[x] \in Memory /\ Here(x) \in Browser
    BY PageAndStorage DEF Following
  <2>4. Its(page[x], Here(x), Bearer(x), asked')
    BY <2>3, MoreIsAsked DEF Owned
  <2> QED
    BY <2>2, <2>4
<1>2. Its(page[t], Here(t), Bearer(t), asked)'
  BY BecameSo DEF Following
<1> QED
  BY <1>1, <1>2 DEF Owned

(* A step that writes no rows and asks for nothing.                        *)
LEMMA OwnedQuietly ==
    ASSUME Following, Following', Owned, OnePageEach, NEW t \in Tab, NEW m \in Memory, NEW b \in Browser,
           Becomes(t, m, b), UNCHANGED <<rows, asked>>, flight' \subseteq flight,
           \A d \in Device : d # DeviceOf[t] => authed'[d] = authed[d],
           Its(m, b, Bearer(t)', asked)
    PROVE  Owned'
<1>1. /\ \A a \in Account : asked[a] \subseteq asked'[a]
      /\ \A r \in flight' : r.on => r.item \in asked'[r.user]
      /\ OwnFollowsOnly'
  BY DEF Owned, OwnFollowsOnly
<1> QED
  BY <1>1, OwnedOn

LEMMA OwnedAtFirst == FollowInit => Owned
<1> SUFFICES ASSUME FollowInit PROVE Owned
  OBVIOUS
<1>1. \A t \in Tab : /\ Here(t).follows = {} /\ Here(t).uid = Null
                     /\ page[t].session = Null /\ page[t].follows = {}
  BY DeviceOfPage DEF FollowInit, Opened, Here
<1> QED
  BY <1>1 DEF FollowInit, Owned, Its, OwnFollowsOnly

(* What the account tells a page is its own account's.                     *)
LEMMA ToldItsOwn ==
    ASSUME Following, Owned, NEW t \in Tab, page[t].session \in Account
    PROVE  RowsOf(Bearer(t)) \subseteq asked[page[t].session]
<1>1. Bearer(t) \in {Null, page[t].session}
  BY FollowAssumption DEF Owned, Its
<1> QED
  BY <1>1 DEF RowsOf, Owned, OwnFollowsOnly

LEMMA WrittenIsAsked ==
    ASSUME Following, OwnFollowsOnly, NEW bearer \in Account \cup {Null}, NEW user \in Account, NEW item \in Item
    PROVE  /\ item \in asked[user] => \A a \in Account : Inserted(bearer, user, item)[a] \subseteq asked[a]
           /\ \A a \in Account : Deleted(bearer, user, item)[a] \subseteq asked[a]
<1>1. ASSUME item \in asked[user], NEW a \in Account
      PROVE  Inserted(bearer, user, item)[a] \subseteq asked[a]
  BY <1>1 DEF Following, FollowTypeOK, OwnFollowsOnly, Inserted
<1>2. ASSUME NEW a \in Account
      PROVE  Deleted(bearer, user, item)[a] \subseteq asked[a]
  BY DEF Following, FollowTypeOK, OwnFollowsOnly, Deleted
<1> QED
  BY <1>1, <1>2

LEMMA OwnedInMerge ==
    ASSUME Following, Following', Owned, OnePageEach, NEW t \in Tab,
           BootSession(t) \/ EnsureScope(t) \/ AskZips(t) \/ TakeZips(t) \/ NameZips(t)
    PROVE  Owned'
<1>1. Its(page[t], Here(t), Bearer(t), asked) /\ Here(t) \in Browser /\ Null \notin Account
  BY PageAndStorage, FollowAssumption DEF Owned, Following
<1>2. CASE BootSession(t)
  <2>1. PICK m \in Memory :
          /\ Becomes(t, m, Here(t)) /\ m.session = Bearer(t) /\ m.follows = page[t].follows /\ m.want = Null
          /\ m.pc = IF Bearer(t) = Null THEN "ready" ELSE "scope"
    BY <1>2, BootSessionDoes
  <2>2. UNCHANGED <<rows, authed, flight, asked>> /\ Bearer(t)' = Bearer(t)
    BY <1>2, BootSessionDoes DEF Bearer
  <2>3. Its(m, Here(t), Bearer(t), asked)
    BY <1>1, <2>1 DEF Its
  <2> QED
    BY <1>1, <2>1, <2>2, <2>3, OwnedQuietly
<1>3. CASE EnsureScope(t)
  <2>1. PICK m \in Memory, b \in Browser :
          /\ Becomes(t, m, b) /\ m.session = page[t].session /\ m.want = Null /\ m.pc = "zips"
          /\ b.uid = page[t].session
          /\ \/ /\ Here(t).uid = page[t].session
                /\ b.zips = Here(t).zips /\ b.follows = Here(t).follows /\ m.follows = page[t].follows
             \/ b.zips = {} /\ b.follows = {} /\ m.follows = {}
    BY <1>3, EnsureScopeDoes
  <2>2. UNCHANGED <<rows, authed, flight, asked>> /\ Bearer(t)' = Bearer(t)
    BY <1>3, EnsureScopeDoes DEF Bearer
  <2>3. Its(m, b, Bearer(t), asked)
    BY <1>1, <2>1 DEF Its
  <2> QED
    BY <2>1, <2>2, <2>3, OwnedQuietly
<1>4. CASE AskZips(t)
  <2>1. PICK m \in Memory :
          /\ Becomes(t, m, Here(t)) /\ m.session = page[t].session /\ m.follows = page[t].follows
          /\ m.want = Null
          /\ (m.pc = "zipsTold" /\ m.acct = RowsOf(Bearer(t)) \cap Zip) \/ m.pc = "projects"
    BY <1>4, AskZipsDoes
  <2>2. /\ UNCHANGED <<rows, authed, flight, asked>> /\ Bearer(t)' = Bearer(t)
        /\ page[t].session \in Account /\ page[t].pc = "zips"
    BY <1>4, AskZipsDoes DEF Bearer
  <2>3. Its(m, Here(t), Bearer(t), asked)
    BY <1>1, <2>1, <2>2, ToldItsOwn DEF Its
  <2> QED
    BY <1>1, <2>1, <2>2, <2>3, OwnedQuietly
<1>5. CASE TakeZips(t)
  <2>1. PICK m \in Memory :
          /\ Becomes(t, m, Here(t)) /\ m.session = page[t].session /\ m.follows = page[t].follows
          /\ m.want = Null /\ m.acct = page[t].acct /\ m.pc \in {"pushZips", "naming"}
          /\ m.todo \subseteq Here(t).zips \cup page[t].acct
    BY <1>5, TakeZipsDoes
  <2>2. /\ UNCHANGED <<rows, authed, flight, asked>> /\ Bearer(t)' = Bearer(t)
        /\ page[t].session \in Account /\ page[t].pc = "zipsTold"
    BY <1>5, TakeZipsDoes DEF Bearer
  <2>3. Its(m, Here(t), Bearer(t), asked)
    BY <1>1, <2>1, <2>2 DEF Its
  <2> QED
    BY <1>1, <2>1, <2>2, <2>3, OwnedQuietly
<1>6. CASE NameZips(t)
  <2>1. PICK m \in Memory, b \in Browser :
          /\ Becomes(t, m, b) /\ m.session = page[t].session /\ m.follows = page[t].follows
          /\ m.want = Null /\ m.pc = "pushZips" /\ m.todo = page[t].todo \ page[t].acct
          /\ b.zips = page[t].todo /\ b.follows = Here(t).follows /\ b.uid = Here(t).uid
    BY <1>6, NameZipsDoes
  <2>2. /\ UNCHANGED <<rows, authed, flight, asked>> /\ Bearer(t)' = Bearer(t)
        /\ page[t].session \in Account /\ page[t].pc = "naming"
    BY <1>6, NameZipsDoes DEF Bearer
  <2>3. Its(m, b, Bearer(t), asked)
    BY <1>1, <2>1, <2>2 DEF Its
  <2> QED
    BY <2>1, <2>2, <2>3, OwnedQuietly
<1> QED
  BY <1>2, <1>3, <1>4, <1>5, <1>6

LEMMA OwnedInProjects ==
    ASSUME Following, Following', Owned, OnePageEach, NEW t \in Tab,
           AskProjects(t) \/ TakeProjects(t) \/ Push(t) \/ Pushed(t)
    PROVE  Owned'
<1>1. Its(page[t], Here(t), Bearer(t), asked) /\ Here(t) \in Browser /\ Null \notin Account
      /\ Bearer(t) \in Account \cup {Null}
  BY PageAndStorage, FollowAssumption DEF Owned, Following
<1>2. CASE AskProjects(t)
  <2>1. PICK m \in Memory :
          /\ Becomes(t, m, Here(t)) /\ m.session = page[t].session /\ m.follows = page[t].follows
          /\ m.want = Null
          /\ (m.pc = "projectsTold" /\ m.acct = RowsOf(Bearer(t)) \cap Project) \/ m.pc = "ready"
    BY <1>2, AskProjectsDoes
  <2>2. /\ UNCHANGED <<rows, authed, flight, asked>> /\ Bearer(t)' = Bearer(t)
        /\ page[t].session \in Account /\ page[t].pc = "projects"
    BY <1>2, AskProjectsDoes DEF Bearer
  <2>3. Its(m, Here(t), Bearer(t), asked)
    BY <1>1, <2>1, <2>2, ToldItsOwn DEF Its
  <2> QED
    BY <1>1, <2>1, <2>2, <2>3, OwnedQuietly
<1>3. CASE TakeProjects(t)
  <2>1. PICK m \in Memory, b \in Browser :
          /\ Becomes(t, m, b) /\ m.session = page[t].session /\ m.want = Null /\ m.pc = "pushProjects"
          /\ m.follows = page[t].follows \cup page[t].acct /\ m.todo = page[t].follows \ page[t].acct
          /\ b.follows = m.follows /\ b.zips = Here(t).zips /\ b.uid = Here(t).uid
    BY <1>3, TakeProjectsDoes
  <2>2. /\ UNCHANGED <<rows, authed, flight, asked>> /\ Bearer(t)' = Bearer(t)
        /\ page[t].session \in Account /\ page[t].pc = "projectsTold"
    BY <1>3, TakeProjectsDoes DEF Bearer
  <2>3. Its(m, b, Bearer(t), asked)
    BY <1>1, <2>1, <2>2 DEF Its
  <2> QED
    BY <2>1, <2>2, <2>3, OwnedQuietly
<1>4. CASE Push(t)
  <2>1. PICK m \in Memory, i \in page[t].todo :
          /\ Becomes(t, m, Here(t)) /\ m.session = page[t].session /\ m.follows = page[t].follows
          /\ m.want = Null /\ m.pc = page[t].pc /\ m.todo = page[t].todo \ {i}
          /\ rows' = Inserted(Bearer(t), page[t].session, i) \/ rows' = rows
          /\ i \in Item
    BY <1>4, PushDoes
  <2>2. /\ UNCHANGED <<authed, flight, asked>> /\ Bearer(t)' = Bearer(t)
        /\ page[t].session \in Account /\ page[t].pc \in {"pushZips", "pushProjects"}
    BY <1>4, PushDoes DEF Bearer
  <2>3. Its(m, Here(t), Bearer(t), asked)
    BY <1>1, <2>1, <2>2 DEF Its
  <2>4. i \in asked[page[t].session]
    BY <1>1, <2>2 DEF Its
  <2>5. OwnFollowsOnly'
    <3>1. \A a \in Account : Inserted(Bearer(t), page[t].session, i)[a] \subseteq asked[a]
      BY <1>1, <2>1, <2>2, <2>4, WrittenIsAsked DEF Owned
    <3> QED
      BY <2>1, <2>2, <3>1 DEF Owned, OwnFollowsOnly
  <2>6. \A r \in flight' : r.on => r.item \in asked'[r.user]
    BY <2>2 DEF Owned
  <2> QED
    BY <1>1, <2>1, <2>2, <2>3, <2>5, <2>6, OwnedOn
<1>5. CASE Pushed(t)
  <2>1. PICK m \in Memory :
          /\ Becomes(t, m, Here(t)) /\ m.session = page[t].session /\ m.follows = page[t].follows
          /\ m.want = Null /\ m.pc \in {"projects", "ready"}
    BY <1>5, PushedDoes
  <2>2. /\ UNCHANGED <<rows, authed, flight, asked>> /\ Bearer(t)' = Bearer(t)
        /\ page[t].session \in Account /\ page[t].pc \in {"pushZips", "pushProjects"}
    BY <1>5, PushedDoes DEF Bearer
  <2>3. Its(m, Here(t), Bearer(t), asked)
    BY <1>1, <2>1, <2>2 DEF Its
  <2> QED
    BY <1>1, <2>1, <2>2, <2>3, OwnedQuietly
<1> QED
  BY <1>2, <1>3, <1>4, <1>5

(* What a step asks for is asked of the account it names.                  *)
LEMMA AskedMore ==
    ASSUME Following, NEW u \in Account, NEW i, asked' = [asked EXCEPT ![u] = @ \cup {i}]
    PROVE  /\ \A a \in Account : asked[a] \subseteq asked'[a]
           /\ i \in asked'[u]
BY DEF Following, FollowTypeOK

LEMMA OwnedInUse ==
    ASSUME Following, Following', Owned, OnePageEach, NEW t \in Tab,
           (\E p \in Project : Toggle(t, p)) \/ ServeToggle(t) \/ AnswerToggle(t) \/ (\E z \in Zip : ToggleZip(t, z))
    PROVE  Owned'
<1>1. Its(page[t], Here(t), Bearer(t), asked) /\ page[t] \in Memory /\ Here(t) \in Browser /\ Null \notin Account
      /\ Bearer(t) \in Account \cup {Null}
  BY PageAndStorage, FollowAssumption DEF Owned, Following
<1>2. ASSUME NEW p \in Project, Toggle(t, p) PROVE Owned'
  <2>1. PICK m \in Memory :
          /\ Becomes(t, m, Here(t)) /\ m.session = page[t].session /\ m.follows = page[t].follows
          /\ m.pc = "ready" /\ m.want \in Want
          /\ m.want.item = p /\ m.want.on = (p \notin page[t].follows) /\ m.want.answer = "none"
    BY <1>2, ToggleDoes
  <2>2. /\ page[t].pc = "ready" /\ page[t].session \in Account
        /\ UNCHANGED <<rows, authed, flight>> /\ Bearer(t)' = Bearer(t)
    BY <1>2, ToggleDoes DEF Bearer
  <2>3. /\ \A a \in Account : asked[a] \subseteq asked'[a]
        /\ p \notin page[t].follows => p \in asked'[page[t].session]
    BY <1>2, <2>2, ToggleDoes, AskedMore
  <2>4. Its(page[t], Here(t), Bearer(t), asked')
    BY <1>1, <2>3, MoreIsAsked
  <2>5. Its(m, Here(t), Bearer(t), asked')
    BY <1>1, <2>1, <2>2, <2>3, <2>4 DEF Its
  <2>6. OwnFollowsOnly'
    BY <2>2, <2>3 DEF Owned, OwnFollowsOnly
  <2>7. \A r \in flight' : r.on => r.item \in asked'[r.user]
    BY <2>2, <2>3 DEF Owned, Following, FollowTypeOK, ZipRequest
  <2> QED
    BY <1>1, <2>1, <2>2, <2>3, <2>5, <2>6, <2>7, OwnedOn
<1>3. CASE ServeToggle(t)
  <2>1. PICK m \in Memory :
          /\ Becomes(t, m, Here(t)) /\ m.session = page[t].session /\ m.follows = page[t].follows
          /\ m.pc = page[t].pc /\ m.want \in Want
          /\ m.want.item = page[t].want.item /\ m.want.on = page[t].want.on
          /\ \/ /\ page[t].want.on
                /\ rows' = Inserted(Bearer(t), page[t].session, page[t].want.item)
             \/ /\ ~page[t].want.on
                /\ rows' = Deleted(Bearer(t), page[t].session, page[t].want.item)
             \/ rows' = rows
    BY <1>3, ServeToggleDoes
  <2>2. /\ page[t].want \in Want /\ page[t].session \in Account /\ page[t].want.item \in Item
        /\ page[t].pc = "ready" /\ UNCHANGED <<authed, flight, asked>> /\ Bearer(t)' = Bearer(t)
    BY <1>3, ServeToggleDoes DEF Bearer
  <2>3. page[t].want.on => page[t].want.item \in asked[page[t].session]
    BY <1>1, <2>2, FollowAssumption DEF Its
  <2>4. Its(m, Here(t), Bearer(t), asked)
    BY <1>1, <2>1, <2>2, <2>3 DEF Its
  <2>5. OwnFollowsOnly'
    <3> DEFINE i == page[t].want.item
    <3>2. /\ page[t].want.on => \A a \in Account : Inserted(Bearer(t), page[t].session, i)[a] \subseteq asked[a]
          /\ \A a \in Account : Deleted(Bearer(t), page[t].session, i)[a] \subseteq asked[a]
      BY <1>1, <2>2, <2>3, WrittenIsAsked DEF Owned
    <3> QED
      BY <2>1, <2>2, <3>2 DEF Owned, OwnFollowsOnly
  <2>6. \A r \in flight' : r.on => r.item \in asked'[r.user]
    BY <2>2 DEF Owned
  <2> QED
    BY <1>1, <2>1, <2>2, <2>4, <2>5, <2>6, OwnedOn
<1>4. CASE AnswerToggle(t)
  <2>1. PICK m \in Memory, b \in Browser :
          /\ Becomes(t, m, b) /\ m.session = page[t].session /\ m.want = Null /\ m.pc = "ready"
          /\ b.zips = Here(t).zips /\ b.uid = Here(t).uid
          /\ IF page[t].want.answer = "failed"
             THEN m.follows = page[t].follows /\ b.follows = Here(t).follows /\ undone' = undone
             ELSE /\ page[t].want.answer = "ok" /\ b.follows = m.follows
                  /\ IF page[t].want.on
                     THEN m.follows = page[t].follows \cup {page[t].want.item} /\ undone' = undone
                     ELSE /\ m.follows = page[t].follows \ {page[t].want.item}
                          /\ undone' = undone \cup {<<page[t].session, page[t].want.item>>}
    BY <1>4, AnswerToggleDoes
  <2>2. /\ page[t].want \in Want /\ page[t].session \in Account
        /\ page[t].pc = "ready" /\ UNCHANGED <<rows, authed, flight, asked>> /\ Bearer(t)' = Bearer(t)
    BY <1>4, AnswerToggleDoes DEF Bearer
  <2>3. /\ page[t].want.on => page[t].want.item \in asked[page[t].session]
        /\ Here(t).uid = page[t].session /\ Here(t).follows = page[t].follows
        /\ Here(t).zips \subseteq asked[page[t].session] /\ Here(t).follows \subseteq asked[page[t].session]
        /\ Bearer(t) \in {Null, page[t].session}
    BY <1>1, <2>2, FollowAssumption DEF Its
  <2>4. b.follows = m.follows /\ b.follows \subseteq asked[page[t].session]
    BY <2>1, <2>3
  <2>5. Its(m, b, Bearer(t), asked)
    BY <2>1, <2>2, <2>3, <2>4 DEF Its
  <2> QED
    BY <2>1, <2>2, <2>5, OwnedQuietly
<1>5. ASSUME NEW z \in Zip, ToggleZip(t, z) PROVE Owned'
  <2>1. PICK b \in Browser :
          /\ Becomes(t, page[t], b) /\ b.follows = Here(t).follows /\ b.uid = Here(t).uid
          /\ b.zips = IF z \notin Here(t).zips THEN Here(t).zips \cup {z} ELSE Here(t).zips \ {z}
    BY <1>5, ToggleZipDoes
  <2>2. /\ page[t].pc = "ready" /\ UNCHANGED <<rows, authed, page>> /\ Bearer(t)' = Bearer(t)
        /\ asked' = IF z \notin Here(t).zips /\ Presser(t) # Null
                    THEN [asked EXCEPT ![Presser(t)] = @ \cup {z}] ELSE asked
    BY <1>5, ToggleZipDoes DEF Bearer
  <2>3. Presser(t) \in Account \cup {Null}
    BY <1>1 DEF Presser, Memory, Browser
  <2>4. /\ \A a \in Account : asked[a] \subseteq asked'[a]
        /\ z \notin Here(t).zips /\ Presser(t) # Null => z \in asked'[Presser(t)]
    BY <2>2, <2>3, AskedMore
  <2>5. Its(page[t], Here(t), Bearer(t), asked')
    BY <1>1, <2>4, MoreIsAsked
  <2>6. page[t].session # Null => Here(t).uid = page[t].session
    BY <1>1, <2>2 DEF Its
  <2>7. b.uid # Null => b.zips \subseteq asked'[b.uid]
    BY <2>1, <2>4, <2>5, <2>6 DEF Its, Presser
  <2>8. Its(page[t], b, Bearer(t), asked')
    BY <2>1, <2>2, <2>5, <2>7 DEF Its
  <2>9. OwnFollowsOnly'
    BY <2>2, <2>4 DEF Owned, OwnFollowsOnly
  <2>10. \A r \in flight' : r.on => r.item \in asked'[r.user]
    <3>1. \A r \in flight : r.on => r.item \in asked'[r.user]
      BY <2>4 DEF Owned, Following, FollowTypeOK, ZipRequest
    <3>2. ASSUME NEW r \in ZipRequest, page[t].session \in Account, r.user = page[t].session, r.item = z,
                 r.on => z \notin Here(t).zips, r.on
          PROVE  r.item \in asked'[r.user]
      BY <1>1, <2>4, <3>2 DEF Presser
    <3> QED
      BY <1>5, <3>1, <3>2, ToggleZipSends
  <2> QED
    BY <1>1, <2>1, <2>2, <2>4, <2>8, <2>9, <2>10, OwnedOn
<1> QED
  BY <1>2, <1>3, <1>4, <1>5

LEMMA OwnedThroughSessions ==
    ASSUME Following, Following', Owned, OnePageEach, NEW t \in Tab,
           (\E a \in Account : SignIn(t, a)) \/ SignOut(t) \/ Reload(t)
    PROVE  Owned'
<1>1. Its(page[t], Here(t), Bearer(t), asked) /\ page[t] \in Memory /\ Here(t) \in Browser /\ Null \notin Account
      /\ Bearer(t) \in Account \cup {Null} /\ DeviceOf[t] \in Device
  BY PageAndStorage, FollowAssumption, DeviceOfPage DEF Owned, Following
<1>2. ASSUME NEW a \in Account, SignIn(t, a) PROVE Owned'
  <2>1. PICK m \in Memory :
          /\ Becomes(t, m, Here(t)) /\ m.session = a /\ m.follows = page[t].follows
          /\ m.pc = "scope" /\ m.want = Null
    BY <1>2, SignInDoes
  <2>2. UNCHANGED <<rows, flight, asked>> /\ authed' = [authed EXCEPT ![DeviceOf[t]] = a]
    BY <1>2, SignInDoes
  <2>3. Bearer(t)' = a /\ \A d \in Device : d # DeviceOf[t] => authed'[d] = authed[d]
    BY <1>1, <2>2 DEF Bearer, Following, FollowTypeOK
  <2>4. Its(m, Here(t), Bearer(t)', asked)
    BY <1>1, <2>1, <2>3 DEF Its
  <2> QED
    BY <1>1, <2>1, <2>2, <2>3, <2>4, OwnedQuietly
<1>3. CASE SignOut(t)
  <2>1. PICK m \in Memory, b \in Browser :
          /\ Becomes(t, m, b) /\ m.session = Null /\ m.follows = {} /\ m.pc = "boot" /\ m.want = Null
          /\ b.follows = {} /\ b.zips = {} /\ b.uid = Null
    BY <1>3, SignOutDoes
  <2>2. /\ UNCHANGED <<rows, flight, asked>>
        /\ \A d \in Device : d # DeviceOf[t] => authed'[d] = authed[d]
    BY <1>3, SignOutDoes DEF Following, FollowTypeOK
  <2>3. Its(m, b, Bearer(t)', asked)
    BY <2>1 DEF Its
  <2> QED
    BY <2>1, <2>2, <2>3, OwnedQuietly
<1>4. CASE Reload(t)
  <2>1. PICK m \in Memory :
          /\ Becomes(t, m, Here(t)) /\ m.session = Null /\ m.follows = Here(t).follows
          /\ m.pc = "boot" /\ m.want = Null
    BY <1>4, ReloadDoes
  <2>2. UNCHANGED <<rows, authed, flight, asked>> /\ Bearer(t)' = Bearer(t)
    BY <1>4, ReloadDoes DEF Bearer
  <2>3. Its(m, Here(t), Bearer(t), asked)
    BY <1>1, <2>1 DEF Its
  <2> QED
    BY <1>1, <2>1, <2>2, <2>3, OwnedQuietly
<1> QED
  BY <1>2, <1>3, <1>4

LEMMA OwnedOutside ==
    ASSUME Following, Following', Owned,
           (\E r \in flight : Deliver(r)) \/ (\E d \in Device : Expire(d))
    PROVE  Owned'
<1>1. ASSUME NEW r \in flight, Deliver(r) PROVE Owned'
  <2>1. /\ r.user \in Account /\ r.bearer \in Account \cup {Null} /\ r.item \in Item
        /\ \/ r.on /\ rows' = Inserted(r.bearer, r.user, r.item)
           \/ ~r.on /\ rows' = Deleted(r.bearer, r.user, r.item)
           \/ rows' = rows
        /\ flight' = flight \ {r} /\ UNCHANGED <<authed, stored, page, asked, undone>>
    BY <1>1, DeliverDoes
  <2>3. r.on => r.item \in asked[r.user]
    BY DEF Owned
  <2>4. /\ r.on => \A a \in Account : Inserted(r.bearer, r.user, r.item)[a] \subseteq asked[a]
        /\ \A a \in Account : Deleted(r.bearer, r.user, r.item)[a] \subseteq asked[a]
    BY <2>1, <2>3, WrittenIsAsked DEF Owned
  <2>5. OwnFollowsOnly'
    BY <2>1, <2>4 DEF Owned, OwnFollowsOnly
  <2>6. \A t \in Tab : Its(page[t], Here(t), Bearer(t), asked)'
    BY <2>1 DEF Owned, Here, Bearer, Its
  <2>7. \A x \in flight' : x.on => x.item \in asked'[x.user]
    BY <2>1 DEF Owned
  <2> QED
    BY <2>5, <2>6, <2>7 DEF Owned
<1>2. ASSUME NEW d \in Device, Expire(d) PROVE Owned'
  <2>1. /\ authed' = [authed EXCEPT ![d] = Null]
        /\ UNCHANGED <<rows, stored, page, flight, asked>>
    BY <1>2, ExpireDoes
  <2>2. ASSUME NEW t \in Tab PROVE Its(page[t], Here(t), Bearer(t), asked)'
    <3>1. Bearer(t)' \in {Null, Bearer(t)}
      BY <2>1, DeviceOfPage DEF Bearer, Following, FollowTypeOK
    <3>2. page'[t] = page[t] /\ Here(t)' = Here(t) /\ asked' = asked
      BY <2>1 DEF Here
    <3>3. Its(page[t], Here(t), Bearer(t), asked) /\ page[t] \in Memory /\ Here(t) \in Browser
      BY PageAndStorage DEF Owned, Following
    <3>4. Its(page[t], Here(t), Bearer(t)', asked)
      BY <3>1, <3>3 DEF Its
    <3> QED
      BY <3>2, <3>4
  <2> QED
    BY <2>1, <2>2 DEF Owned, OwnFollowsOnly
<1> QED
  BY <1>1, <1>2

(* Nobody's account follows what only somebody else asked for, wherever    *)
(* each browser has one page: a later sign-in neither inherits nor pushes  *)
(* another account's follows (shell.js 579-584).                           *)
THEOREM FollowsAreOnesOwn ==
    ASSUME OnePageEach
    PROVE  FollowSpec => []OwnFollowsOnly
<1>1. FollowInit => Following /\ Owned
  BY FollowingAtFirst, OwnedAtFirst
<1>2. Following /\ Owned /\ [FollowNext]_followVars => (Following /\ Owned)'
  <2> SUFFICES ASSUME Following, Owned, [FollowNext]_followVars PROVE Following' /\ Owned'
    OBVIOUS
  <2>1. Following'
    BY FollowingAlways
  <2>2. CASE UNCHANGED followVars
    BY <2>1, <2>2 DEF followVars, Owned, Its, OwnFollowsOnly, Here, Bearer
  <2>3. CASE FollowNext
    BY <2>1, <2>3, OwnedInMerge, OwnedInProjects, OwnedInUse, OwnedThroughSessions, OwnedOutside DEF FollowNext
  <2> QED
    BY <2>1, <2>2, <2>3
<1>3. Owned => OwnFollowsOnly
  BY DEF Owned
<1> QED
  BY <1>1, <1>2, <1>3, PTL DEF FollowSpec

-----------------------------------------------------------------------------
(* How far an undisturbed merge has come: page m, storage b, the session c *)
(* of the browser and the rows held.                                       *)

Merging(m, b, c, held) ==
    /\ m.session # Null /\ c = m.session /\ m.pc \notin {"boot", "scope"}
    /\ m.pc \in {"zipsTold", "naming"} => m.acct = held[m.session] \cap Zip
    /\ m.pc = "naming" => m.todo = b.zips \cup m.acct
    /\ m.pc = "pushZips" => b.zips = (held[m.session] \cap Zip) \cup m.todo
    /\ m.pc \in {"projects", "projectsTold", "pushProjects", "ready"} => b.zips = held[m.session] \cap Zip
    /\ m.pc = "projectsTold" => m.acct = held[m.session] \cap Project
    /\ m.pc = "pushProjects" => m.follows = (held[m.session] \cap Project) \cup m.todo
    /\ m.pc = "ready" => m.follows = held[m.session] \cap Project
    /\ m.pc \in {"pushProjects", "ready"} => b.follows = m.follows

CleanMerges == \A t \in Tab : clean[t] => Merging(page[t], Here(t), Bearer(t), rows)

LEMMA MergesOn ==
    ASSUME Following, CleanMerges, NEW t \in Tab, NEW m \in Memory, NEW b \in Browser, Becomes(t, m, b),
           clean'[t] => Merging(m, b, Bearer(t)', rows'),
           \/ \A x \in Tab : x # t => ~clean'[x]
           \/ b = Here(t) /\ UNCHANGED <<rows, authed, clean>>
    PROVE  CleanMerges'
<1> SUFFICES ASSUME NEW x \in Tab, clean'[x] PROVE Merging(page[x], Here(x), Bearer(x), rows)'
  BY DEF CleanMerges
<1>1. CASE x = t
  BY <1>1, BecameSo DEF Following
<1>2. CASE x # t
  <2>1. b = Here(t) /\ UNCHANGED <<rows, authed, clean>>
    BY <1>2
  <2>2. page'[x] = page[x] /\ Bearer(x)' = Bearer(x)
    BY <1>2, <2>1, BecameSo DEF Following, Bearer
  <2>3. Here(x)' = Here(x)
    <3>1. CASE DeviceOf[x] = DeviceOf[t]
      BY <2>1, <3>1, BecameSo DEF Following, Here
    <3>2. CASE DeviceOf[x] # DeviceOf[t]
      BY <3>2, BecameSo DEF Following
    <3> QED
      BY <3>1, <3>2
  <2> QED
    BY <2>1, <2>2, <2>3 DEF CleanMerges
<1> QED
  BY <1>1, <1>2

LEMMA MergesInBoot ==
    ASSUME Following, CleanMerges, NEW t \in Tab, BootSession(t) \/ EnsureScope(t)
    PROVE  CleanMerges'
<1>1. clean[t] => Merging(page[t], Here(t), Bearer(t), rows)
  BY DEF CleanMerges
<1>2. CASE BootSession(t)
  <2>1. PICK m \in Memory : Becomes(t, m, Here(t))
    BY <1>2, BootSessionDoes
  <2>2. UNCHANGED <<rows, authed, clean>> /\ ~clean[t]
    BY <1>1, <1>2, BootSessionDoes DEF Merging
  <2> QED
    BY <2>1, <2>2, MergesOn, PageAndStorage DEF Following
<1>3. CASE EnsureScope(t)
  <2>1. PICK m \in Memory, b \in Browser :
          Becomes(t, m, b) /\ m.session = page[t].session /\ m.pc = "zips"
    BY <1>3, EnsureScopeDoes
  <2>2. /\ clean' = [x \in Tab |-> x = t /\ Bearer(t) = page[t].session]
        /\ Bearer(t)' = Bearer(t) /\ page[t].session \in Account
    BY <1>3, EnsureScopeDoes DEF Bearer
  <2>3. clean'[t] => Merging(m, b, Bearer(t)', rows')
    BY <2>1, <2>2, FollowAssumption DEF Merging
  <2>4. \A x \in Tab : x # t => ~clean'[x]
    BY <2>2
  <2> QED
    BY <2>1, <2>3, <2>4, MergesOn
<1> QED
  BY <1>2, <1>3

LEMMA MergesInZips ==
    ASSUME Following, CleanMerges, NEW t \in Tab, AskZips(t) \/ TakeZips(t) \/ NameZips(t)
    PROVE  CleanMerges'
<1>1. /\ clean[t] => Merging(page[t], Here(t), Bearer(t), rows)
      /\ Here(t) \in Browser
  BY PageAndStorage DEF CleanMerges, Following
<1>2. CASE AskZips(t)
  <2>1. PICK m \in Memory :
          /\ Becomes(t, m, Here(t)) /\ m.session = page[t].session
          /\ \/ m.pc = "zipsTold" /\ m.acct = RowsOf(Bearer(t)) \cap Zip /\ UNCHANGED clean
             \/ m.pc = "projects" /\ Disturbed
    BY <1>2, AskZipsDoes
  <2>2. /\ UNCHANGED <<rows, authed>> /\ Bearer(t)' = Bearer(t)
        /\ page[t].session \in Account /\ page[t].pc = "zips"
    BY <1>2, AskZipsDoes DEF Bearer
  <2>3. CASE m.pc = "zipsTold" /\ m.acct = RowsOf(Bearer(t)) \cap Zip /\ UNCHANGED clean
    <3>1. clean'[t] => Merging(m, Here(t), Bearer(t)', rows')
      BY <1>1, <2>1, <2>2, <2>3 DEF Merging, RowsOf
    <3> QED
      BY <1>1, <2>1, <2>2, <2>3, <3>1, MergesOn
  <2>4. CASE Disturbed
    BY <1>1, <2>1, <2>4, CleanIsFlags, MergesOn DEF Following
  <2> QED
    BY <2>1, <2>3, <2>4
<1>3. CASE TakeZips(t)
  <2>1. PICK m \in Memory :
          /\ Becomes(t, m, Here(t)) /\ m.session = page[t].session
          /\ m.acct = page[t].acct
          /\ \/ /\ page[t].acct \subseteq Here(t).zips /\ m.pc = "pushZips"
                /\ m.todo = Here(t).zips \ page[t].acct
             \/ m.pc = "naming" /\ m.todo = Here(t).zips \cup page[t].acct
    BY <1>3, TakeZipsDoes
  <2>2. /\ UNCHANGED <<rows, authed, clean>> /\ Bearer(t)' = Bearer(t)
        /\ page[t].session \in Account /\ page[t].pc = "zipsTold"
    BY <1>3, TakeZipsDoes DEF Bearer
  <2>3. clean'[t] => Merging(m, Here(t), Bearer(t)', rows')
    BY <1>1, <2>1, <2>2 DEF Merging
  <2> QED
    BY <1>1, <2>1, <2>2, <2>3, MergesOn
<1>4. CASE NameZips(t)
  <2>1. PICK m \in Memory, b \in Browser :
          /\ Becomes(t, m, b) /\ m.session = page[t].session
          /\ m.pc = "pushZips" /\ m.todo = page[t].todo \ page[t].acct
          /\ b.zips = page[t].todo
    BY <1>4, NameZipsDoes
  <2>2. /\ Quietly(t) /\ UNCHANGED <<rows, authed>> /\ Bearer(t)' = Bearer(t)
        /\ page[t].session \in Account /\ page[t].pc = "naming"
    BY <1>4, NameZipsDoes DEF Bearer
  <2>3. clean'[t] = clean[t] /\ \A x \in Tab : x # t => ~clean'[x]
    BY <2>2, CleanIsFlags DEF Following
  <2>4. clean'[t] => Merging(m, b, Bearer(t)', rows')
    BY <1>1, <2>1, <2>2, <2>3 DEF Merging
  <2> QED
    BY <2>1, <2>3, <2>4, MergesOn
<1> QED
  BY <1>2, <1>3, <1>4

LEMMA MergesInProjects ==
    ASSUME Following, CleanMerges, NEW t \in Tab, AskProjects(t) \/ TakeProjects(t) \/ Push(t) \/ Pushed(t)
    PROVE  CleanMerges'
<1>1. /\ clean[t] => Merging(page[t], Here(t), Bearer(t), rows)
      /\ Here(t) \in Browser
  BY PageAndStorage DEF CleanMerges, Following
<1>2. CASE AskProjects(t)
  <2>1. PICK m \in Memory :
          /\ Becomes(t, m, Here(t)) /\ m.session = page[t].session
          /\ \/ m.pc = "projectsTold" /\ m.acct = RowsOf(Bearer(t)) \cap Project /\ UNCHANGED clean
             \/ m.pc = "ready" /\ Disturbed
    BY <1>2, AskProjectsDoes
  <2>2. /\ UNCHANGED <<rows, authed>> /\ Bearer(t)' = Bearer(t)
        /\ page[t].session \in Account /\ page[t].pc = "projects"
    BY <1>2, AskProjectsDoes DEF Bearer
  <2>3. CASE m.pc = "projectsTold" /\ m.acct = RowsOf(Bearer(t)) \cap Project /\ UNCHANGED clean
    <3>1. clean'[t] => Merging(m, Here(t), Bearer(t)', rows')
      BY <1>1, <2>1, <2>2, <2>3 DEF Merging, RowsOf
    <3> QED
      BY <1>1, <2>1, <2>2, <2>3, <3>1, MergesOn
  <2>4. CASE Disturbed
    BY <1>1, <2>1, <2>4, CleanIsFlags, MergesOn DEF Following
  <2> QED
    BY <2>1, <2>3, <2>4
<1>3. CASE TakeProjects(t)
  <2>1. PICK m \in Memory, b \in Browser :
          /\ Becomes(t, m, b) /\ m.session = page[t].session /\ m.pc = "pushProjects"
          /\ m.follows = page[t].follows \cup page[t].acct /\ m.todo = page[t].follows \ page[t].acct
          /\ b.follows = m.follows /\ b.zips = Here(t).zips
    BY <1>3, TakeProjectsDoes
  <2>2. /\ Quietly(t) /\ UNCHANGED <<rows, authed>> /\ Bearer(t)' = Bearer(t)
        /\ page[t].session \in Account /\ page[t].pc = "projectsTold"
    BY <1>3, TakeProjectsDoes DEF Bearer
  <2>3. clean'[t] = clean[t] /\ \A x \in Tab : x # t => ~clean'[x]
    BY <2>2, CleanIsFlags DEF Following
  <2>4. clean'[t] => Merging(m, b, Bearer(t)', rows')
    BY <1>1, <2>1, <2>2, <2>3 DEF Merging
  <2> QED
    BY <2>1, <2>3, <2>4, MergesOn
<1>4. CASE Push(t)
  <2>1. PICK m \in Memory, i \in page[t].todo :
          /\ Becomes(t, m, Here(t)) /\ m.session = page[t].session /\ m.follows = page[t].follows
          /\ m.pc = page[t].pc /\ m.todo = page[t].todo \ {i}
          /\ \/ rows' = Inserted(Bearer(t), page[t].session, i) /\ Quietly(t)
             \/ rows' = rows /\ Disturbed
          /\ (page[t].pc = "pushZips" => i \in Zip) /\ (page[t].pc = "pushProjects" => i \in Project)
    BY <1>4, PushDoes
  <2>2. /\ UNCHANGED authed /\ Bearer(t)' = Bearer(t)
        /\ page[t].session \in Account /\ page[t].pc \in {"pushZips", "pushProjects"}
    BY <1>4, PushDoes DEF Bearer
  <2>3. CASE rows' = Inserted(Bearer(t), page[t].session, i) /\ Quietly(t)
    <3>1. clean'[t] = clean[t] /\ \A x \in Tab : x # t => ~clean'[x]
      BY <2>3, CleanIsFlags DEF Following
    <3>2. clean'[t] => Merging(m, Here(t), Bearer(t)', rows')
      <4> SUFFICES ASSUME clean[t] PROVE Merging(m, Here(t), Bearer(t)', rows')
        BY <3>1
      <4>1. Bearer(t) = page[t].session
        BY <1>1 DEF Merging
      <4>2. rows'[page[t].session] = rows[page[t].session] \cup {i}
        BY <2>2, <2>3, <4>1 DEF Inserted, Following, FollowTypeOK
      <4>3. CASE page[t].pc = "pushZips"
        BY <1>1, <2>1, <2>2, <4>1, <4>2, <4>3 DEF Merging
      <4>4. CASE page[t].pc = "pushProjects"
        <5>1. i \in Project /\ i \notin Zip
          BY <2>1, <4>4, FollowAssumption
        <5> QED
          BY <1>1, <2>1, <2>2, <4>1, <4>2, <4>4, <5>1 DEF Merging
      <4> QED
        BY <2>2, <4>3, <4>4
    <3> QED
      BY <1>1, <2>1, <3>1, <3>2, MergesOn
  <2>4. CASE Disturbed
    BY <1>1, <2>1, <2>4, CleanIsFlags, MergesOn DEF Following
  <2> QED
    BY <2>1, <2>3, <2>4
<1>5. CASE Pushed(t)
  <2>1. PICK m \in Memory :
          /\ Becomes(t, m, Here(t)) /\ m.session = page[t].session /\ m.follows = page[t].follows
          /\ m.pc = IF page[t].pc = "pushZips" THEN "projects" ELSE "ready"
    BY <1>5, PushedDoes
  <2>2. /\ UNCHANGED <<rows, authed, clean>> /\ Bearer(t)' = Bearer(t)
        /\ page[t].session \in Account /\ page[t].pc \in {"pushZips", "pushProjects"} /\ page[t].todo = {}
    BY <1>5, PushedDoes DEF Bearer
  <2>3. clean'[t] => Merging(m, Here(t), Bearer(t)', rows')
    BY <1>1, <2>1, <2>2 DEF Merging
  <2> QED
    BY <1>1, <2>1, <2>2, <2>3, MergesOn
<1> QED
  BY <1>2, <1>3, <1>4, <1>5

(* A merge that met no failure and no other change leaves page, browser    *)
(* and account saying the same, however pages share browsers (shell.js     *)
(* 2900-2904).                                                             *)
THEOREM MergesAgree == FollowSpec => []MergeAgrees
<1>1. FollowInit => Following /\ CleanMerges
  BY FollowingAtFirst DEF FollowInit, CleanMerges
<1>2. Following /\ CleanMerges /\ [FollowNext]_followVars => (Following /\ CleanMerges)'
  <2> SUFFICES ASSUME Following, CleanMerges, [FollowNext]_followVars PROVE Following' /\ CleanMerges'
    OBVIOUS
  <2>1. Following'
    BY FollowingAlways
  <2>2. CASE UNCHANGED followVars
    BY <2>1, <2>2 DEF followVars, CleanMerges, Here, Bearer
  <2>3. CASE Disturbed
    BY <2>1, <2>3, CleanIsFlags DEF Following, CleanMerges
  <2>4. CASE FollowNext
    BY <2>1, <2>3, <2>4, MergesInBoot, MergesInZips, MergesInProjects
       DEF FollowNext, Toggle, ServeToggle, AnswerToggle, ToggleZip, SignIn, SignOut, Reload, Deliver, Expire
  <2> QED
    BY <2>1, <2>2, <2>4
<1>3. CleanMerges => MergeAgrees
  BY DEF CleanMerges, MergeAgrees, Merging
<1> QED
  BY <1>1, <1>2, <1>3, PTL DEF FollowSpec

-----------------------------------------------------------------------------
(* Removals, with one page whose session lasts.  What was removed is       *)
(* nowhere it could come back from: not in storage or in memory, not in    *)
(* what the account told the page, not in a request to follow it.          *)

Barred(m, b, c, held, gone) ==
    /\ b.follows = m.follows
    /\ m.session # Null => c = m.session
    /\ m.session # Null /\ m.pc # "scope" => b.uid = m.session
    /\ b.uid # Null => \A p \in b.follows : <<b.uid, p>> \notin gone
    /\ m.pc = "projectsTold" => \A p \in m.acct : <<m.session, p>> \notin gone
    /\ m.pc = "pushProjects" => m.todo \subseteq m.follows
    /\ m.want # Null =>
         /\ m.want.on => <<m.session, m.want.item>> \notin gone
         /\ ~m.want.on /\ m.want.answer = "ok" => m.want.item \notin held[m.session]

KeptOut(t) == Barred(page[t], Here(t), Bearer(t), rows, undone) /\ RemovedIsGone

LEMMA KeptOutOn ==
    ASSUME Following, NEW t \in Tab, NEW m \in Memory, NEW b \in Browser, Becomes(t, m, b),
           Barred(m, b, Bearer(t)', rows', undone'), RemovedIsGone'
    PROVE  KeptOut(t)'
<1>1. page'[t] = m /\ Here(t)' = b
  BY BecameSo DEF Following
<1>2. Barred(page[t], Here(t), Bearer(t), rows, undone)'
  BY <1>1
<1> QED
  BY <1>2 DEF KeptOut

(* A step that writes no rows and removes nothing.                         *)
LEMMA KeptOutQuietly ==
    ASSUME Following, NEW t \in Tab, KeptOut(t), NEW m \in Memory, NEW b \in Browser, Becomes(t, m, b),
           UNCHANGED <<rows, authed, undone>>, Barred(m, b, Bearer(t), rows, undone)
    PROVE  KeptOut(t)'
<1>1. RemovedIsGone' /\ Bearer(t)' = Bearer(t)
  BY DEF KeptOut, RemovedIsGone, Bearer
<1> QED
  BY <1>1, KeptOutOn

LEMMA KeptOutAtFirst ==
    ASSUME NEW t \in Tab, FollowInit
    PROVE  KeptOut(t)
<1>1. /\ Here(t).follows = {} /\ Here(t).uid = Null
      /\ page[t].session = Null /\ page[t].follows = {}
      /\ page[t].pc = "boot" /\ page[t].want = Null
  BY DeviceOfPage DEF FollowInit, Opened, Here
<1> QED
  BY <1>1 DEF FollowInit, KeptOut, Barred, RemovedIsGone

LEMMA KeptOutInMerge ==
    ASSUME Following, NEW t \in Tab, KeptOut(t),
           BootSession(t) \/ EnsureScope(t) \/ AskZips(t) \/ TakeZips(t) \/ NameZips(t)
    PROVE  KeptOut(t)'
<1>1. Barred(page[t], Here(t), Bearer(t), rows, undone) /\ Here(t) \in Browser /\ Null \notin Account
  BY PageAndStorage, FollowAssumption DEF KeptOut, Following
<1>2. CASE BootSession(t)
  <2>1. PICK m \in Memory :
          /\ Becomes(t, m, Here(t)) /\ m.session = Bearer(t) /\ m.follows = page[t].follows /\ m.want = Null
          /\ m.pc = IF Bearer(t) = Null THEN "ready" ELSE "scope"
    BY <1>2, BootSessionDoes
  <2>2. UNCHANGED <<rows, authed, undone>>
    BY <1>2, BootSessionDoes
  <2>3. Barred(m, Here(t), Bearer(t), rows, undone)
    BY <1>1, <2>1 DEF Barred
  <2> QED
    BY <1>1, <2>1, <2>2, <2>3, KeptOutQuietly
<1>3. CASE EnsureScope(t)
  <2>1. PICK m \in Memory, b \in Browser :
          /\ Becomes(t, m, b) /\ m.session = page[t].session /\ m.want = Null /\ m.pc = "zips"
          /\ b.uid = page[t].session
          /\ \/ /\ Here(t).uid = page[t].session
                /\ b.zips = Here(t).zips /\ b.follows = Here(t).follows /\ m.follows = page[t].follows
             \/ b.zips = {} /\ b.follows = {} /\ m.follows = {}
    BY <1>3, EnsureScopeDoes
  <2>2. UNCHANGED <<rows, authed, undone>>
    BY <1>3, EnsureScopeDoes
  <2>3. Barred(m, b, Bearer(t), rows, undone)
    BY <1>1, <2>1 DEF Barred
  <2> QED
    BY <2>1, <2>2, <2>3, KeptOutQuietly
<1>4. CASE AskZips(t)
  <2>1. PICK m \in Memory :
          /\ Becomes(t, m, Here(t)) /\ m.session = page[t].session /\ m.follows = page[t].follows
          /\ m.want = Null /\ m.pc \in {"zipsTold", "projects"}
    BY <1>4, AskZipsDoes
  <2>2. UNCHANGED <<rows, authed, undone>> /\ page[t].pc = "zips"
    BY <1>4, AskZipsDoes
  <2>3. Barred(m, Here(t), Bearer(t), rows, undone)
    BY <1>1, <2>1, <2>2 DEF Barred
  <2> QED
    BY <1>1, <2>1, <2>2, <2>3, KeptOutQuietly
<1>5. CASE TakeZips(t)
  <2>1. PICK m \in Memory :
          /\ Becomes(t, m, Here(t)) /\ m.session = page[t].session /\ m.follows = page[t].follows
          /\ m.want = Null /\ m.pc \in {"pushZips", "naming"}
    BY <1>5, TakeZipsDoes
  <2>2. UNCHANGED <<rows, authed, undone>> /\ page[t].pc = "zipsTold"
    BY <1>5, TakeZipsDoes
  <2>3. Barred(m, Here(t), Bearer(t), rows, undone)
    BY <1>1, <2>1, <2>2 DEF Barred
  <2> QED
    BY <1>1, <2>1, <2>2, <2>3, KeptOutQuietly
<1>6. CASE NameZips(t)
  <2>1. PICK m \in Memory, b \in Browser :
          /\ Becomes(t, m, b) /\ m.session = page[t].session /\ m.follows = page[t].follows
          /\ m.want = Null /\ m.pc = "pushZips"
          /\ b.follows = Here(t).follows /\ b.uid = Here(t).uid
    BY <1>6, NameZipsDoes
  <2>2. UNCHANGED <<rows, authed, undone>> /\ page[t].pc = "naming"
    BY <1>6, NameZipsDoes
  <2>3. Barred(m, b, Bearer(t), rows, undone)
    BY <1>1, <2>1, <2>2 DEF Barred
  <2> QED
    BY <2>1, <2>2, <2>3, KeptOutQuietly
<1> QED
  BY <1>2, <1>3, <1>4, <1>5, <1>6

(* A new row that was not removed leaves what was removed out.             *)
LEMMA GoneWithTheNew ==
    ASSUME Following, RemovedIsGone, NEW bearer, NEW user \in Account, NEW item,
           item \in Project => <<user, item>> \notin undone,
           UNCHANGED undone,
           rows' = Inserted(bearer, user, item) \/ rows' = Deleted(bearer, user, item) \/ rows' = rows
    PROVE  RemovedIsGone'
<1> SUFFICES ASSUME NEW a \in Account, NEW p \in Project, <<a, p>> \in undone PROVE p \notin rows'[a]
  BY DEF RemovedIsGone
<1>1. p \notin rows[a] /\ rows \in [Account -> SUBSET Item]
  BY DEF RemovedIsGone, Following, FollowTypeOK
<1>2. ~(a = user /\ p = item)
  OBVIOUS
<1>3. p \notin Inserted(bearer, user, item)[a] /\ p \notin Deleted(bearer, user, item)[a]
  BY <1>1, <1>2 DEF Inserted, Deleted
<1> QED
  BY <1>1, <1>3

LEMMA KeptOutInProjects ==
    ASSUME Following, NEW t \in Tab, KeptOut(t),
           AskProjects(t) \/ TakeProjects(t) \/ Push(t) \/ Pushed(t)
    PROVE  KeptOut(t)'
<1>1. Barred(page[t], Here(t), Bearer(t), rows, undone) /\ Here(t) \in Browser /\ Null \notin Account
  BY PageAndStorage, FollowAssumption DEF KeptOut, Following
<1>2. CASE AskProjects(t)
  <2>1. PICK m \in Memory :
          /\ Becomes(t, m, Here(t)) /\ m.session = page[t].session /\ m.follows = page[t].follows
          /\ m.want = Null
          /\ (m.pc = "projectsTold" /\ m.acct = RowsOf(Bearer(t)) \cap Project) \/ m.pc = "ready"
    BY <1>2, AskProjectsDoes
  <2>2. UNCHANGED <<rows, authed, undone>> /\ page[t].pc = "projects" /\ page[t].session \in Account
    BY <1>2, AskProjectsDoes
  <2>3. \A p \in RowsOf(Bearer(t)) \cap Project : <<page[t].session, p>> \notin undone
    BY <1>1, <2>2 DEF Barred, RowsOf, KeptOut, RemovedIsGone
  <2>4. Barred(m, Here(t), Bearer(t), rows, undone)
    BY <1>1, <2>1, <2>2, <2>3 DEF Barred
  <2> QED
    BY <1>1, <2>1, <2>2, <2>4, KeptOutQuietly
<1>3. CASE TakeProjects(t)
  <2>1. PICK m \in Memory, b \in Browser :
          /\ Becomes(t, m, b) /\ m.session = page[t].session /\ m.want = Null /\ m.pc = "pushProjects"
          /\ m.follows = page[t].follows \cup page[t].acct /\ m.todo = page[t].follows \ page[t].acct
          /\ b.follows = m.follows /\ b.uid = Here(t).uid
    BY <1>3, TakeProjectsDoes
  <2>2. UNCHANGED <<rows, authed, undone>> /\ page[t].pc = "projectsTold" /\ page[t].session \in Account
    BY <1>3, TakeProjectsDoes
  <2>3. Barred(m, b, Bearer(t), rows, undone)
    BY <1>1, <2>1, <2>2 DEF Barred
  <2> QED
    BY <2>1, <2>2, <2>3, KeptOutQuietly
<1>4. CASE Push(t)
  <2>1. PICK m \in Memory, i \in page[t].todo :
          /\ Becomes(t, m, Here(t)) /\ m.session = page[t].session /\ m.follows = page[t].follows
          /\ m.want = Null /\ m.pc = page[t].pc /\ m.todo = page[t].todo \ {i}
          /\ rows' = Inserted(Bearer(t), page[t].session, i) \/ rows' = rows
          /\ (page[t].pc = "pushZips" => i \in Zip)
    BY <1>4, PushDoes
  <2>2. /\ UNCHANGED <<authed, undone>> /\ page[t].session \in Account /\ Bearer(t)' = Bearer(t)
        /\ page[t].pc \in {"pushZips", "pushProjects"}
    BY <1>4, PushDoes DEF Bearer
  <2>3. i \in Project => <<page[t].session, i>> \notin undone
    BY <1>1, <2>1, <2>2, FollowAssumption DEF Barred
  <2>4. RemovedIsGone'
    BY <2>1, <2>2, <2>3, GoneWithTheNew DEF KeptOut
  <2>5. Barred(m, Here(t), Bearer(t)', rows', undone')
    BY <1>1, <2>1, <2>2 DEF Barred
  <2> QED
    BY <1>1, <2>1, <2>4, <2>5, KeptOutOn
<1>5. CASE Pushed(t)
  <2>1. PICK m \in Memory :
          /\ Becomes(t, m, Here(t)) /\ m.session = page[t].session /\ m.follows = page[t].follows
          /\ m.want = Null /\ m.pc \in {"projects", "ready"}
    BY <1>5, PushedDoes
  <2>2. UNCHANGED <<rows, authed, undone>> /\ page[t].pc \in {"pushZips", "pushProjects"}
    BY <1>5, PushedDoes
  <2>3. Barred(m, Here(t), Bearer(t), rows, undone)
    BY <1>1, <2>1, <2>2 DEF Barred
  <2> QED
    BY <1>1, <2>1, <2>2, <2>3, KeptOutQuietly
<1> QED
  BY <1>2, <1>3, <1>4, <1>5

LEMMA KeptOutInUse ==
    ASSUME Following, NEW t \in Tab, KeptOut(t),
           (\E p \in Project : Toggle(t, p)) \/ ServeToggle(t) \/ AnswerToggle(t) \/ (\E z \in Zip : ToggleZip(t, z))
    PROVE  KeptOut(t)'
<1>1. /\ Barred(page[t], Here(t), Bearer(t), rows, undone) /\ page[t] \in Memory /\ Here(t) \in Browser
      /\ Null \notin Account /\ Null \notin Want /\ RemovedIsGone
  BY PageAndStorage, FollowAssumption DEF KeptOut, Following
<1>2. ASSUME NEW p \in Project, Toggle(t, p) PROVE KeptOut(t)'
  <2>1. PICK m \in Memory :
          /\ Becomes(t, m, Here(t)) /\ m.session = page[t].session /\ m.follows = page[t].follows
          /\ m.pc = "ready" /\ m.want \in Want
          /\ m.want.item = p /\ m.want.on = (p \notin page[t].follows) /\ m.want.answer = "none"
    BY <1>2, ToggleDoes
  <2>2. /\ UNCHANGED <<rows, authed>> /\ Bearer(t)' = Bearer(t) /\ page[t].pc = "ready" /\ page[t].session \in Account
        /\ undone' \subseteq undone /\ (p \notin page[t].follows => <<page[t].session, p>> \notin undone')
    BY <1>2, ToggleDoes DEF Bearer
  <2>3. RemovedIsGone'
    BY <1>1, <2>2 DEF RemovedIsGone
  <2>4. Barred(m, Here(t), Bearer(t)', rows', undone')
    BY <1>1, <2>1, <2>2 DEF Barred
  <2> QED
    BY <1>1, <2>1, <2>3, <2>4, KeptOutOn
<1>3. CASE ServeToggle(t)
  <2>1. PICK m \in Memory :
          /\ Becomes(t, m, Here(t)) /\ m.session = page[t].session /\ m.follows = page[t].follows
          /\ m.pc = page[t].pc /\ m.want \in Want
          /\ m.want.item = page[t].want.item /\ m.want.on = page[t].want.on
          /\ \/ /\ page[t].want.on
                /\ rows' = Inserted(Bearer(t), page[t].session, page[t].want.item)
             \/ /\ ~page[t].want.on
                /\ rows' = Deleted(Bearer(t), page[t].session, page[t].want.item)
             \/ rows' = rows /\ m.want.answer = "failed"
    BY <1>3, ServeToggleDoes
  <2>2. /\ page[t].want \in Want /\ page[t].session \in Account /\ page[t].pc = "ready"
        /\ UNCHANGED <<authed, undone>> /\ Bearer(t)' = Bearer(t)
    BY <1>3, ServeToggleDoes DEF Bearer
  <2>3. /\ page[t].want.on => <<page[t].session, page[t].want.item>> \notin undone
        /\ Bearer(t) = page[t].session
    BY <1>1, <2>2 DEF Barred
  <2>4. RemovedIsGone'
    <3>1. CASE page[t].want.on
      BY <1>1, <2>1, <2>2, <2>3, <3>1, GoneWithTheNew
    <3>2. CASE ~page[t].want.on
      <4>1. rows' = Deleted(Bearer(t), page[t].session, page[t].want.item) \/ rows' = rows
        BY <2>1, <3>2
      <4> QED
        BY <1>1, <2>2, <4>1 DEF RemovedIsGone, Deleted, Following, FollowTypeOK
    <3> QED
      BY <3>1, <3>2
  <2>5. ~m.want.on /\ m.want.answer = "ok" => m.want.item \notin rows'[page[t].session]
    <3> SUFFICES ASSUME ~m.want.on, m.want.answer = "ok" PROVE m.want.item \notin rows'[page[t].session]
      OBVIOUS
    <3>1. rows' = Deleted(Bearer(t), page[t].session, page[t].want.item)
      BY <2>1
    <3> QED
      BY <2>1, <2>2, <2>3, <3>1 DEF Deleted, Following, FollowTypeOK
  <2>6. Barred(m, Here(t), Bearer(t)', rows', undone')
    BY <1>1, <2>1, <2>2, <2>3, <2>5 DEF Barred
  <2> QED
    BY <1>1, <2>1, <2>4, <2>6, KeptOutOn
<1>4. CASE AnswerToggle(t)
  <2>1. PICK m \in Memory, b \in Browser :
          /\ Becomes(t, m, b) /\ m.session = page[t].session /\ m.want = Null /\ m.pc = "ready"
          /\ b.zips = Here(t).zips /\ b.uid = Here(t).uid
          /\ IF page[t].want.answer = "failed"
             THEN m.follows = page[t].follows /\ b.follows = Here(t).follows /\ undone' = undone
             ELSE /\ page[t].want.answer = "ok" /\ b.follows = m.follows
                  /\ IF page[t].want.on
                     THEN m.follows = page[t].follows \cup {page[t].want.item} /\ undone' = undone
                     ELSE /\ m.follows = page[t].follows \ {page[t].want.item}
                          /\ undone' = undone \cup {<<page[t].session, page[t].want.item>>}
    BY <1>4, AnswerToggleDoes
  <2>2. /\ page[t].want \in Want /\ page[t].session \in Account /\ page[t].pc = "ready"
        /\ UNCHANGED <<rows, authed>> /\ Bearer(t)' = Bearer(t)
    BY <1>4, AnswerToggleDoes DEF Bearer
  <2>3. /\ Here(t).uid = page[t].session /\ Here(t).follows = page[t].follows /\ Bearer(t) = page[t].session
        /\ page[t].want.on => <<page[t].session, page[t].want.item>> \notin undone
        /\ ~page[t].want.on /\ page[t].want.answer = "ok" => page[t].want.item \notin rows[page[t].session]
        /\ \A p \in page[t].follows : <<page[t].session, p>> \notin undone
    BY <1>1, <2>2 DEF Barred
  <2>4. RemovedIsGone'
    BY <1>1, <2>1, <2>2, <2>3 DEF RemovedIsGone
  <2>5. \A p \in b.follows : <<b.uid, p>> \notin undone'
    BY <2>1, <2>3
  <2>6. b.follows = m.follows
    BY <2>1, <2>3
  <2>7. Barred(m, b, Bearer(t)', rows', undone')
    BY <2>1, <2>2, <2>3, <2>5, <2>6 DEF Barred
  <2> QED
    BY <2>1, <2>4, <2>7, KeptOutOn
<1>5. ASSUME NEW z \in Zip, ToggleZip(t, z) PROVE KeptOut(t)'
  <2>1. PICK b \in Browser :
          Becomes(t, page[t], b) /\ b.follows = Here(t).follows /\ b.uid = Here(t).uid
    BY <1>5, ToggleZipDoes
  <2>2. UNCHANGED <<rows, authed, undone>>
    BY <1>5, ToggleZipDoes
  <2>3. Barred(page[t], b, Bearer(t), rows, undone)
    BY <1>1, <2>1 DEF Barred
  <2> QED
    BY <1>1, <2>1, <2>2, <2>3, KeptOutQuietly
<1> QED
  BY <1>2, <1>3, <1>4, <1>5

LEMMA KeptOutThroughSessions ==
    ASSUME Following, NEW t \in Tab, KeptOut(t),
           (\E a \in Account : SignIn(t, a)) \/ SignOut(t) \/ Reload(t)
    PROVE  KeptOut(t)'
<1>1. /\ Barred(page[t], Here(t), Bearer(t), rows, undone) /\ page[t] \in Memory /\ Here(t) \in Browser
      /\ RemovedIsGone /\ DeviceOf[t] \in Device
  BY PageAndStorage, DeviceOfPage DEF KeptOut, Following
<1>2. ASSUME NEW a \in Account, SignIn(t, a) PROVE KeptOut(t)'
  <2>1. PICK m \in Memory :
          /\ Becomes(t, m, Here(t)) /\ m.session = a /\ m.follows = page[t].follows
          /\ m.pc = "scope" /\ m.want = Null
    BY <1>2, SignInDoes
  <2>2. UNCHANGED <<rows, undone>> /\ Bearer(t)' = a
    BY <1>1, <1>2, SignInDoes DEF Bearer, Following, FollowTypeOK
  <2>3. Barred(m, Here(t), Bearer(t)', rows', undone') /\ RemovedIsGone'
    BY <1>1, <2>1, <2>2 DEF Barred, RemovedIsGone
  <2> QED
    BY <1>1, <2>1, <2>3, KeptOutOn
<1>3. CASE SignOut(t)
  <2>1. PICK m \in Memory, b \in Browser :
          /\ Becomes(t, m, b) /\ m.session = Null /\ m.follows = {} /\ m.pc = "boot" /\ m.want = Null
          /\ b.follows = {} /\ b.uid = Null
    BY <1>3, SignOutDoes
  <2>2. UNCHANGED <<rows, undone>>
    BY <1>3, SignOutDoes
  <2>3. Barred(m, b, Bearer(t)', rows', undone') /\ RemovedIsGone'
    BY <1>1, <2>1, <2>2 DEF Barred, RemovedIsGone
  <2> QED
    BY <2>1, <2>3, KeptOutOn
<1>4. CASE Reload(t)
  <2>1. PICK m \in Memory :
          /\ Becomes(t, m, Here(t)) /\ m.session = Null /\ m.follows = Here(t).follows
          /\ m.pc = "boot" /\ m.want = Null
    BY <1>4, ReloadDoes
  <2>2. UNCHANGED <<rows, authed, undone>>
    BY <1>4, ReloadDoes
  <2>3. Barred(m, Here(t), Bearer(t), rows, undone)
    BY <1>1, <2>1 DEF Barred
  <2> QED
    BY <1>1, <2>1, <2>2, <2>3, KeptOutQuietly
<1> QED
  BY <1>2, <1>3, <1>4

LEMMA KeptOutByDelivery ==
    ASSUME Following, NEW t \in Tab, KeptOut(t), NEW r \in flight, Deliver(r)
    PROVE  KeptOut(t)'
<1>1. /\ r.user \in Account /\ r.item \in Zip /\ r.item \notin Project
      /\ \/ rows' = Inserted(r.bearer, r.user, r.item)
         \/ rows' = Deleted(r.bearer, r.user, r.item)
         \/ rows' = rows
      /\ UNCHANGED <<authed, stored, page, undone>>
  BY DeliverDoes, FollowAssumption
<1>2. RemovedIsGone'
  BY <1>1, GoneWithTheNew DEF KeptOut
<1>3. \A a \in Account, p \in Project : p \notin rows[a] => p \notin rows'[a]
  <2>1. ASSUME NEW a \in Account, NEW p \in Project, p \notin rows[a]
        PROVE  /\ p \notin Inserted(r.bearer, r.user, r.item)[a]
               /\ p \notin Deleted(r.bearer, r.user, r.item)[a]
    BY <1>1, <2>1 DEF Inserted, Deleted, Following, FollowTypeOK
  <2> QED
    BY <1>1, <2>1
<1>4. Barred(page[t], Here(t), Bearer(t), rows, undone)'
  <2>1. Barred(page[t], Here(t), Bearer(t), rows, undone) /\ page[t] \in Memory /\ Null \notin Account
    BY PageAndStorage, FollowAssumption DEF KeptOut, Following
  <2>2. page[t].want # Null => page[t].want.item \in Project /\ page[t].session \in Account
    BY <2>1 DEF Memory, Want, Following, Phases
  <2>3. page'[t] = page[t] /\ Here(t)' = Here(t) /\ Bearer(t)' = Bearer(t) /\ undone' = undone
    BY <1>1 DEF Here, Bearer
  <2>4. Barred(page[t], Here(t), Bearer(t), rows', undone)
    BY <1>3, <2>1, <2>2 DEF Barred
  <2> QED
    BY <2>3, <2>4
<1> QED
  BY <1>2, <1>4 DEF KeptOut

(* A step of one page at work: the others have not started, and nobody     *)
(* loses a session but by what a page does.                                *)
AloneAtWork(t) ==
    /\ \A u \in Tab \ {t} : page'[u] = page[u]
    /\ ~\E d \in Device : authed[d] # Null /\ authed'[d] = Null /\ page' = page

OthersWait(t) == \A u \in Tab \ {t} : page[u].pc = "boot"

(* A page that has not started can only start.                             *)
LEMMA StartsOrRests ==
    ASSUME Following, NEW u \in Tab, page[u].pc = "boot", page'[u] = page[u]
    PROVE  /\ ~BootSession(u) /\ ~EnsureScope(u) /\ ~AskZips(u) /\ ~TakeZips(u) /\ ~NameZips(u)
           /\ ~AskProjects(u) /\ ~TakeProjects(u) /\ ~Push(u) /\ ~Pushed(u)
           /\ (\A p \in Project : ~Toggle(u, p)) /\ ~ServeToggle(u) /\ ~AnswerToggle(u)
           /\ (\A z \in Zip : ~ToggleZip(u, z))
           /\ (\A a \in Account : ~SignIn(u, a)) /\ ~SignOut(u) /\ ~Reload(u)
<1>1. page[u].want = Null
  BY PageAndStorage DEF Following, Phases
<1>2. ASSUME BootSession(u) PROVE FALSE
  <2>1. PICK m \in Memory : Becomes(u, m, Here(u)) /\ m.pc = IF Bearer(u) = Null THEN "ready" ELSE "scope"
    BY <1>2, BootSessionDoes
  <2>2. page'[u] = m
    BY <2>1, BecameSo DEF Following
  <2> QED
    BY <2>1, <2>2
<1> QED
  BY <1>1, <1>2
     DEF EnsureScope, AskZips, TakeZips, NameZips, AskProjects, TakeProjects, Push, Pushed, Toggle,
         ServeToggle, AnswerToggle, ToggleZip, SignIn, SignOut, Reload

LEMMA KeptOutAlways ==
    ASSUME Following, NEW t \in Tab, KeptOut(t), OthersWait(t), [FollowNext /\ AloneAtWork(t)]_followVars
    PROVE  KeptOut(t)' /\ OthersWait(t)'
<1>1. CASE UNCHANGED followVars
  BY <1>1 DEF followVars, KeptOut, Barred, RemovedIsGone, Here, Bearer, OthersWait
<1>2. CASE FollowNext /\ AloneAtWork(t)
  <2>1. OthersWait(t)'
    BY <1>2 DEF AloneAtWork, OthersWait
  <2>2. ASSUME NEW d \in Device, Expire(d) PROVE FALSE
    BY <1>2, <2>2 DEF AloneAtWork, Expire, Following, FollowTypeOK
  <2>3. \A u \in Tab \ {t} : page[u].pc = "boot" /\ page'[u] = page[u]
    BY <1>2 DEF AloneAtWork, OthersWait
  <2> QED
    BY <1>2, <2>1, <2>2, <2>3, StartsOrRests, KeptOutInMerge, KeptOutInProjects, KeptOutInUse,
       KeptOutThroughSessions, KeptOutByDelivery
       DEF FollowNext
<1> QED
  BY <1>1, <1>2

(* In one page whose session is not ended from elsewhere, a removal the    *)
(* page reported is one the account made, and it does not come back until  *)
(* it is asked for again, whatever other pages are opened and not started  *)
(* (shell.js 2629-2632).                                                   *)
THEOREM RemovalsStand ==
    ASSUME NEW t \in Tab
    PROVE  FollowInit /\ [][FollowNext /\ AloneAtWork(t)]_followVars => []RemovedIsGone
<1>1. FollowInit => Following /\ KeptOut(t) /\ OthersWait(t)
  BY FollowingAtFirst, KeptOutAtFirst DEF FollowInit, Opened, OthersWait
<1>2. Following /\ KeptOut(t) /\ OthersWait(t) /\ [FollowNext /\ AloneAtWork(t)]_followVars
        => (Following /\ KeptOut(t) /\ OthersWait(t))'
  BY FollowingAlways, KeptOutAlways
<1>3. KeptOut(t) => RemovedIsGone
  BY DEF KeptOut
<1> QED
  BY <1>1, <1>2, <1>3, PTL

(* Accounts, browsers, pages and requests under way hold what FollowTypeOK *)
(* says (shell.js 2851-2940).                                              *)
THEOREM FollowsAreTyped == FollowSpec => []FollowTypeOK
<1>1. Following => FollowTypeOK
  BY DEF Following
<1> QED
  BY <1>1, FollowingAtFirst, FollowingAlways, PTL DEF FollowSpec

-----------------------------------------------------------------------------
(***************************************************************************)
(* The three together, as they are checked: an initial state chooses the   *)
(* part that moves.                                                        *)
(***************************************************************************)

askingVars == <<part, rateVars, requestVars, followVars>>

LEMMA LimitMoves ==
    ASSUME [SumNext]_askingVars
    PROVE  [Next]_rateVars
BY DEF SumNext, askingVars, rateVars

LEMMA CustomerMoves ==
    ASSUME [SumNext]_askingVars
    PROVE  [RequestNext]_requestVars
BY DEF SumNext, askingVars, requestVars

LEMMA FollowsMove ==
    ASSUME [SumNext]_askingVars
    PROVE  [FollowNext /\ StaysInPart]_followVars
BY DEF SumNext, askingVars, followVars

LEMMA PartStays ==
    ASSUME [SumNext]_askingVars
    PROVE  part' = part
BY DEF SumNext, askingVars

(* Each part behaves as its own specification says, so what is proved of   *)
(* the parts holds where they are checked together.                        *)
THEOREM EachPartBehaves == SumSpec => Spec /\ RequestSpec /\ FollowSpec
<1>1. SumInit => Init /\ RequestInit /\ FollowInit
  BY DEF SumInit
<1>2. [SumNext]_askingVars => [Next]_rateVars /\ [RequestNext]_requestVars /\ [FollowNext]_followVars
  BY LimitMoves, CustomerMoves, FollowsMove
<1> QED
  BY <1>1, <1>2, PTL DEF SumSpec, askingVars, Spec, RequestSpec, FollowSpec

(* Counters, claims, pages, requests and follows hold what their types     *)
(* say, and a page waits for a request of its own (report_rate_window,     *)
(* shell.js 2851-2940).                                                    *)
THEOREM AllIsTyped == SumSpec => []TypesOK
BY EachPartBehaves, ClaimsAreTyped, RequestIsTyped, FollowsAreTyped, PTL DEF TypesOK

(* A removal the page reported is one the account made, on the one page of *)
(* the part whose session lasts (shell.js 2629-2632).                      *)
THEOREM RemovalsLast ==
    ASSUME Tab = {"left", "right"}
    PROVE  SumSpec => []LastingRemoval
<1> DEFINE KeptOutHere == part = "lasting" => KeptOut("left") /\ OthersWait("left")
<1>1. SumInit => Following /\ KeptOutHere
  BY FollowingAtFirst, KeptOutAtFirst DEF SumInit, FollowInit, Opened, OthersWait
<1>2. Following /\ KeptOutHere /\ [SumNext]_askingVars => Following' /\ KeptOutHere'
  <2> SUFFICES ASSUME Following, KeptOutHere, [SumNext]_askingVars PROVE Following' /\ KeptOutHere'
    OBVIOUS
  <2>1. Following'
    BY FollowsMove, FollowingAlways
  <2>2. ASSUME part' = "lasting" PROVE KeptOut("left")' /\ OthersWait("left")'
    <3>1. part = "lasting"
      BY <2>2, PartStays
    <3>2. [FollowNext /\ AloneAtWork("left")]_followVars
      BY <3>1, FollowsMove DEF StaysInPart, AloneAtWork
    <3> QED
      BY <3>1, <3>2, KeptOutAlways
  <2> QED
    BY <2>1, <2>2
<1>3. KeptOutHere => LastingRemoval
  BY DEF KeptOut, LastingRemoval
<1> QED
  BY <1>1, <1>2, <1>3, PTL DEF SumSpec, askingVars

==============================================================================

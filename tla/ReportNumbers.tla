---------------------------- MODULE ReportNumbers ----------------------------
(***************************************************************************)
(* What the two ledgers promise together: each brokerage has a growing set *)
(* of reports.  A key names one report for ever; a report has one owner    *)
(* and one number; the numbers run 1 to the free limit and on from there,  *)
(* each series without a gap; and a brokerage whose evaluation was revoked *)
(* is closed, and its reports stand still (brokerage-billing.sql, the      *)
(* rules 3 and 6 and the comment on the standing of an account).           *)
(***************************************************************************)
EXTENDS Integers

CONSTANTS Brokerage, Key, Report, FreeLimit

VARIABLES
    reports,    \* the reports of a brokerage, each with its number and key
    closed      \* whether the brokerage's evaluation was revoked

numbersVars == <<reports, closed>>

Init ==
    /\ reports = [b \in Brokerage |-> {}]
    /\ closed = [b \in Brokerage |-> FALSE]

Numbers(b) == {x.number : x \in reports[b]}

(* The next number of the free series, or of the paid one.                 *)
IsNext(b, n) ==
    /\ n \notin Numbers(b)
    /\ n \in {1, FreeLimit + 1} \/ n - 1 \in Numbers(b)

Charge(b, n, k, r) ==
    /\ ~closed[b]
    /\ IsNext(b, n)
    /\ \A x \in reports[b] : x.key # k
    /\ \A d \in Brokerage : \A x \in reports[d] : x.report # r
    /\ reports' = [reports EXCEPT ![b] = @ \cup {[number |-> n, key |-> k, report |-> r]}]
    /\ UNCHANGED closed

Close(b) ==
    /\ closed' = [closed EXCEPT ![b] = TRUE]
    /\ UNCHANGED reports

Next ==
    \E b \in Brokerage :
        \/ \E x \in reports'[b] : Charge(b, x.number, x.key, x.report)
        \/ Close(b)

Spec == Init /\ [][Next]_numbersVars
=============================================================================

------------------------------ MODULE MCAsking -------------------------------
(* What a visitor's browser asks for, in one run: the rate limit of report  *)
(* requests, the request itself, and what the visitor follows.  These share *)
(* no state: an initial state chooses the part that moves, and the          *)
(* variables of the others stand still.                                    *)
EXTENDS RateLimit, ReportRequest, FollowSync, TLC

CONSTANTS x1, x2, y1, y2, b1, k1, k2, q1, q2

(* One claim to a person and two to a brokerage, in a window of any length. *)
MCLimit == [bucket \in {"first", "second"} |-> [w \in Span |-> IF bucket = "first" THEN 1 ELSE 2]]

(* Two browsers of one page each.                                          *)
MCDeviceOf == [t \in Tab |-> t]

VARIABLE part

(* What is followed: on one page whose session may end, or lasts; a project *)
(* or a ZIP code in two browsers.                                          *)
Follows == {"onePage", "lasting", "aProject", "aZip"}

SumInit ==
    /\ part \in {"limit", "customer"} \cup Follows
    /\ Init /\ RequestInit /\ FollowInit

(* Where there is one page the right one never starts; only its session    *)
(* may end; one kind of thing is followed in two browsers.                 *)
StaysInPart ==
    /\ part \in {"onePage", "lasting"} => page'["right"] = page["right"]
    /\ part # "onePage" => ~\E d \in Device : authed[d] # Null /\ authed'[d] = Null /\ page' = page
    /\ part = "aProject" => \A d \in Device : stored'[d].zips = {}
    /\ part = "aZip" => \A t \in Tab : page'[t].want = Null

SumNext ==
    /\ UNCHANGED part
    /\ \/ part = "limit" /\ Next /\ UNCHANGED <<requestVars, followVars>>
       \/ part = "customer" /\ RequestNext /\ UNCHANGED <<rateVars, followVars>>
       \/ part \in Follows /\ FollowNext /\ StaysInPart /\ UNCHANGED <<rateVars, requestVars>>

SumSpec == SumInit /\ [][SumNext]_<<part, rateVars, requestVars, followVars>>

AskingSymmetry ==
    Permutations({x1, x2}) \cup Permutations({y1, y2}) \cup Permutations({k1, k2}) \cup Permutations({q1, q2})

-----------------------------------------------------------------------------
(* The properties keep their names; these two are of this run.             *)

(* Types, and a page waits for a request of its own.                       *)
TypesOK == TypeOK /\ RequestTypeOK /\ FollowTypeOK

(* A removal the page reported is one the account made, on one page whose  *)
(* session lasts (shell.js 2629-2632).                                     *)
LastingRemoval == part = "lasting" => RemovedIsGone
=============================================================================

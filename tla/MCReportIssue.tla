---------------------------- MODULE MCReportIssue ----------------------------
(* Model-checking instances of ReportIssue.                                *)
EXTENDS ReportIssue, TLC

CONSTANTS b1, b2, u1, u2, k1, k2, k3, r1, r2, r3, c1, c2, x1

(* No evaluation expires, as every writer in the code makes them; or the   *)
(* first of them expires at tick 2.                                        *)
NoExpiry == [b \in Brokerage |-> Never]
OneExpires == [b \in Brokerage |-> IF b = CHOOSE x \in Brokerage : TRUE THEN 2 ELSE Never]

(* Each user keeps to the first brokerage, or may move between them.       *)
Settled == [u \in User |-> {CHOOSE b \in Brokerage : TRUE}]
Movers == [u \in User |-> Brokerage]

IssueSymmetry ==
    Permutations(User) \cup Permutations(Key) \cup Permutations(Report) \cup Permutations(Call)
MoverSymmetry == IssueSymmetry \cup Permutations(Brokerage)
=============================================================================

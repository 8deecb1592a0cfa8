--------------------------- MODULE MCReportRequest ---------------------------
(* Model-checking instances of ReportRequest.                              *)
EXTENDS ReportRequest, TLC

CONSTANTS p1, p2, u1, u2, a1, a2, k1, k2, k3, q1, q2

RequestSymmetry ==
    Permutations(Page) \cup Permutations(User) \cup Permutations(Address) \cup
    Permutations(Key) \cup Permutations(Request)
=============================================================================

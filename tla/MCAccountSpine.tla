---------------------------- MODULE MCAccountSpine ----------------------------
(* Model-checking instances of AccountSpine.                               *)
EXTENDS AccountSpine, TLC

CONSTANTS u1, u2, b1, b2, i1, i2, i3, s1, s2

SpineSymmetry ==
    Permutations(User) \cup Permutations(Brokerage) \cup Permutations(Invite) \cup Permutations(Session)
=============================================================================

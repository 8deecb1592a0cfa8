---------------------------- MODULE MCFollowSync -----------------------------
(* A model-checking instance of FollowSync: two open pages of one browser.  *)
EXTENDS FollowSync, TLC

CONSTANTS a1, a2, p1

MCOneBrowser == [t \in Tab |-> "browser"]
MCSymmetry == Permutations(Account)
=============================================================================

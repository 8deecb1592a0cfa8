------------------------------- MODULE MCSpine -------------------------------
(* Three instances of AccountSpine in one run: people who come and go       *)
(* between two brokerages, the same with people who are deleted, and owners *)
(* and agents of one brokerage.  An initial state chooses the instance.  The *)
(* run's own constants allow what any of the three does, so that what is    *)
(* said of AccountSpine is asked of each.                                  *)
EXTENDS AccountSpine, TLC

CONSTANTS u1, u2, b1, b2, i1, i2, i3, s1, s2

VARIABLE part

People == INSTANCE AccountSpine WITH
    Operation <- {"redeem", "mint", "withdraw", "signup", "remove"}, Change <- {}, Leaver <- {},
    MaxClock <- 0
Leaving == INSTANCE AccountSpine WITH
    Operation <- {"redeem", "mint", "signup", "remove"}, Change <- {}, MaxClock <- 0
Owners == INSTANCE AccountSpine WITH
    Operation <- {"redeem", "mint", "change"}, Leaver <- {}

ASSUME PartsAssumption ==
    /\ People!SpineAssumption /\ Leaving!SpineAssumption /\ Owners!SpineAssumption

(* The bound on the brokerages that are made and the invites in use.       *)
AtMost(brokerages, invites) ==
    /\ Cardinality({b \in Brokerage : account'[b] # "none"}) <= brokerages
    /\ Cardinality({i \in Invite : invite'[i] # Nothing \/ \E s \in Session :
                       job'[s] # Nothing /\ job'[s].invite = i}) <= invites

SumInit == part \in {"people", "leaving", "owners"} /\ Init

SumNext ==
    /\ UNCHANGED part
    /\ \/ part = "people" /\ People!Next /\ AtMost(2, 2)
       \/ part = "leaving" /\ Leaving!Next /\ AtMost(2, 2)
       \/ part = "owners" /\ Owners!Next /\ AtMost(1, 3)

SumSpec == SumInit /\ [][SumNext]_<<part, spineVars>>

SpineSymmetry ==
    Permutations(User) \cup Permutations(Brokerage) \cup Permutations(Invite) \cup Permutations(Session)
=============================================================================

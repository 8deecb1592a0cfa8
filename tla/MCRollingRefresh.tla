-------------------------- MODULE MCRollingRefresh ---------------------------
(* What the answers to a page's refresh may say.                           *)
EXTENDS RollingRefresh

(* One source that has something, has nothing, fails or is no longer asked, *)
(* with what EPA says then.                                                 *)
MCWord ==
    {[source |-> [source \in {"source"} |-> w[1]], facilities |-> w[2]] :
        w \in {<<"some", "some">>, <<"none", "none">>, <<"failed", "down">>, <<"gone", "none">>}}
=============================================================================

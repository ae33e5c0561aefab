---------------------------- MODULE MCLBManager ----------------------------
(* Values of the constants of LBManager for TLC. *)
EXTENDS LBManager, TLC

\* Everything but an unanswered update, a failed list.
MCFaults == {<<"create", "fail">>, <<"create", "lost">>, <<"update", "fail">>,
             <<"delete", "fail">>, <<"delete", "lost">>, <<"get", "fail">>}

\* The portal refuses a delete.
MCDeleteFails == {<<"delete", "fail">>}

\* The list of load balancers does not arrive.
MCListFails == {<<"list", "fail">>}
Symmetric == Permutations(Name) \cup Permutations(Config)
=============================================================================

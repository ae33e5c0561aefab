---------------------------- MODULE MCStatusSync ----------------------------
(* Values of the constants of StatusSync for TLC. *)
EXTENDS StatusSync

MCName   == {<<"ingress", k, n>> : k \in Key, n \in 0..MaxWrites}
MCNameOf == [x \in Key \X (0..MaxWrites) |-> <<"ingress", x[1], x[2]>>]

MCFaults == {<<"get", "fail">>, <<"update", "fail">>, <<"delete", "fail">>,
             <<"status", "fail">>, <<"status", "lost">>, <<"create", "lost">>}
=============================================================================

--------------------------- MODULE MCIngressSync ---------------------------
(* Values of the constants of IngressSync for TLC. *)
EXTENDS IngressSync, TLC

CONSTANTS svc, tls, host

MCName   == {<<"ingress", k, r>> : k \in Key, r \in Rev}
MCNameOf == [x \in Key \X Rev |-> <<"ingress", x[1], x[2]>>]

\* An ingress of a spec.class with the service and, perhaps, a secret.
Base == [className |-> "serverscom", annotation |-> Nil, services |-> {svc},
         tls |-> NoCerts, annotated |-> NoCerts, malformed |-> FALSE, cluster |-> NoCluster,
         resource |-> FALSE]

MCLiveSpec ==
  {Base,
   [Base EXCEPT !.className = Nil],
   [Base EXCEPT !.className = Nil, !.resource = TRUE],
   [Base EXCEPT !.className = Nil, !.annotation = "serverscom", !.tls[host] = tls]}

MCSpec == MCLiveSpec \cup {[Base EXCEPT !.malformed = TRUE]}

\* The secret is named by an annotation.
MCAnnotatedSpec == {[Base EXCEPT !.annotated[host] = tls]}

MCConfig == {Rendering(s, c, d) :
               s \in Spec, c \in [Host -> Value \cup {Nil}], d \in [Dep -> Value \cup {Nil}]}

\* Services and secrets change in place, for worse and for better.
MCDepMoves == {<<d, x, y>> : d \in Service \cup Secret, x \in Value, y \in Value}

MCFaults == {<<"cert", "fail">>, <<"create", "lost">>, <<"update", "fail">>,
             <<"delete", "fail">>, <<"watch", "lost">>}

MCDeleteFails == {<<"delete", "fail">>}

Symmetric == Permutations(Key)
=============================================================================

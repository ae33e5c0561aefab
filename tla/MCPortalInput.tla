--------------------------- MODULE MCPortalInput ---------------------------
(* Values of the constants of PortalInput for TLC. *)
EXTENDS PortalInput, TLC

CONSTANTS s1, s2, cm, h1, h2, web, api, d1, d2, ca, cb, key

MCText ==
  LET block(type, d) == <<<<"BEGIN", type>>, <<"data", d>>, <<"END", type>>>>
      note == <<<<"data", key>>>>
  IN [plain   |-> block("CERTIFICATE", d1),
      bundle  |-> <<<<"END", "CERTIFICATE">>>> \o note \o block("CERTIFICATE", d1)
                 \o note \o block("CERTIFICATE", ca),
      other   |-> block("CERTIFICATE", d2) \o block("CERTIFICATE", cb),
      noNames |-> block("CERTIFICATE", ca),
      key     |-> block("PRIVATE KEY", key) \o block("CERTIFICATE", d1),
      cut     |-> <<<<"BEGIN", "CERTIFICATE">>, <<"data", d1>>>>]

MCTexts == {MCText[t] : t \in DOMAIN MCText}

MCContents == {[crt |-> MCText[t], key |-> key] : t \in {"plain", "bundle", "other"}}

\* What the customer uploaded: the certificate of d1 without its chain.
MCUpload == [leaf |-> d1, crt |-> MCText.plain, chain |-> <<>>, key |-> key,
             name |-> cm, by |-> Nil]

MCIdOf == [n \in {cm} |-> 1]

Quiet == [n \in Note |-> Nil]

Plain ==
   [ports |-> <<[port |-> 80, nodePort |-> 30080], [port |-> 90, nodePort |-> 30090]>>,
    notes |-> [Quiet EXCEPT !["AppProtocol"] = "http2",
                            !["LBBalancingAlgorithm"] = "least_conn"]]

MCVariants ==
  {Plain,
   [ports |-> <<[port |-> 80, nodePort |-> 31080], [port |-> 90, nodePort |-> 31090]>>,
    notes |-> [Quiet EXCEPT !["AppProtocol"] = "http"]]}

\* It has no NodePort.
Closed == [ports |-> <<[port |-> 80, nodePort |-> 0]>>, notes |-> Quiet]

NoNotes == [region |-> Nil, geoip |-> Nil, minTLS |-> Nil, cluster |-> Nil]

Path(s, port, at) == [service |-> s, port |-> port, path |-> at]

RuleFor(h, paths) == [host |-> h, http |-> TRUE, paths |-> paths]

NoAnnotation == [h \in {h1, h2} |-> Nil]

\* Two hosts with one Secret.
Shared == [rules |-> <<RuleFor(h1, <<Path(web, 80, "/")>>),
                       RuleFor(h2, <<Path(web, 80, "/")>>)>>,
           tls |-> <<[secret |-> s1, hosts |-> {h1, h2}]>>,
           annotated |-> NoAnnotation, notes |-> NoNotes]

\* A host listed twice, and a host whose annotation overrides the section.
Listed == [Shared EXCEPT !.tls = <<[secret |-> s1, hosts |-> {h1, h2}],
                                   [secret |-> s2, hosts |-> {h1}]>>]

Overridden == [Listed EXCEPT !.annotated[h2] = cm]

\* Paths of two Services under one host, in two rules.
Routed == [rules |-> <<RuleFor(h1, <<Path(web, 80, "/"), Path(api, 90, "/v1")>>),
                       RuleFor(h2, <<Path(web, 90, "/")>>),
                       [host |-> h2, http |-> FALSE, paths |-> <<>>],
                       RuleFor(h1, <<Path(api, 80, "/v2")>>)>>,
           tls |-> <<>>, annotated |-> NoAnnotation,
           notes |-> [NoNotes EXCEPT !.geoip = "true"]]

Of(t) == [crt |-> MCText[t], key |-> key]

\* Two controllers of one kind of ingress.
Begin(ing, x, y, f, u) ==
  [ingress |-> [c \in Controller |-> ing], secrets |-> (s1 :> x @@ s2 :> y),
   services |-> f, upload |-> u]

AllPlain == [s \in Service |-> Plain]

\* Certificates, with Services that are fine ...
TLSStart ==
  {Begin(i, Of("bundle"), y, AllPlain, IF i = Overridden THEN MCUpload ELSE Nil) :
     i \in {Listed, Overridden},
     y \in {Of("other"), Of("key"), Of("cut"), Of("noNames"), Nil}}

\* ... and no certificates, with any Services.
RouteStart ==
  {Begin(Routed, Nil, Nil, f, Nil) : f \in [Service -> MCVariants \cup {Closed, Nil}]}

MCStart == TLSStart \cup RouteStart

Symmetric == Permutations(Controller)

\* One ingress whose Secret gets its chain later.
MCChainStart == {Begin(Shared, Of("plain"), Nil, AllPlain, Nil)}

MCFaults == {<<"list", "fail">>, <<"create", "lost">>, <<"create", "fail">>,
             <<"remove", "fail">>}
=============================================================================

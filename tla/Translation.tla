---------------------------- MODULE Translation ----------------------------
(***************************************************************************)
(* From an ingress, the Services it names, the addresses of the Nodes and  *)
(* the certificates of its hosts to the input of a load balancer:          *)
(* getIngressHostsInfo (internal/ingress/controller/store/utils.go),       *)
(* TranslateIngressToLB (internal/service/loadbalancer/manager.go) and     *)
(* internal/service/annotations.  Pure functions.                          *)
(*                                                                         *)
(* Zones that Go collects from a map come in any order: they are functions *)
(* by host and by upstream here.  The notes of a Service or an ingress are *)
(* its annotations by the name of the constant in the code; a value that   *)
(* has to be a number, a boolean or one of a list is a member of a set or  *)
(* not.                                                                    *)
(***************************************************************************)
EXTENDS Naturals, Sequences, SequencesExt

CONSTANTS
  Host,     \* hosts of rules
  NodeIp,   \* the addresses of the Nodes
  Nil,      \* an absent entry
  Number,   \* values that are numbers
  Bool,     \* values that are booleans
  RealIP    \* values that name a real IP header

\* The annotations of a Service that fill an upstream zone, those of them that
\* are numbers, and those that fill a vhost zone.
TextNote   == {"LBBalancingAlgorithm", "AppHealthcheckPath", "AppHealthcheckDomain",
               "AppHealthcheckRequestsMethod"}
NumberNote == {"AppHealthcheckCheckToFail", "AppHealthcheckChecksToPass",
               "AppHealthcheckInterval", "AppHealthcheckJitter"}
VHostNote  == {"AppProtocol", "LBIPHeader", "LBIPSubnets"}
Note       == TextNote \cup NumberNote \cup VHostNote

regionsIDs == [NL01 |-> 0, US01 |-> 1, LU01 |-> 2, MO01 |-> 3, SIN01 |-> 4, MOW2 |-> 5]

-----------------------------------------------------------------------------
(* getIngressHostsInfo: services is what GetService has found, p a path of  *)
(* a rule.  The backend of a path is a Service: with another kind of        *)
(* backend the informer never hands the ingress on (IngressSync,            *)
(* IndexerPanics).                                                          *)

\* The loop over the ports of the Service ends at the first with the number.
MatchingPort(services, p) ==
  FoldLeft(LAMBDA found, q : IF found = Nil /\ q.port = p.port THEN q ELSE found,
           Nil, services[p.service].ports)

\* There has to be one, and it needs a NodePort.
Reachable(services, p) ==
  /\ services[p.service] # Nil
  /\ MatchingPort(services, p) # Nil
  /\ MatchingPort(services, p).nodePort # 0

NodePort(services, p) == MatchingPort(services, p).nodePort

\* The paths of all rules with one host, in order.
PathsOf(ing, host) ==
  FoldLeft(LAMBDA ps, r : IF r.http /\ r.host = host THEN ps \o r.paths ELSE ps,
           <<>>, ing.rules)

Hosts(ing) == {ing.rules[i].host : i \in {j \in DOMAIN ing.rules : ing.rules[j].http}}

\* The paths of all rules, in the order they are looked at.
AllPaths(ing) ==
  FoldLeft(LAMBDA ps, r : IF r.http THEN ps \o r.paths ELSE ps, <<>>, ing.rules)

Paths(ing) == ToSet(AllPaths(ing))

-----------------------------------------------------------------------------
(* Annotations. *)

\* FillLBUpstreamZoneWithServiceAnnotations: what is no number is left out.
UpstreamSettings(notes) ==
  [n \in TextNote \cup NumberNote |->
     IF n \in NumberNote /\ notes[n] \notin Number THEN Nil ELSE notes[n]]

\* FillLBVHostZoneWithServiceAnnotations.
VHostSettings(notes) ==
  [http2  |-> notes["AppProtocol"] = "http2",
   realIP |-> IF notes["LBIPHeader"] = Nil THEN Nil
              ELSE [name     |-> IF notes["LBIPHeader"] \in RealIP
                                 THEN notes["LBIPHeader"] ELSE "",
                    networks |-> notes["LBIPSubnets"]]]

\* What the annotations of a Service say, over what others have said.
Overlay(said, notes) == [n \in Note |-> IF notes[n] # Nil THEN notes[n] ELSE said[n]]

\* Variant with a defect: the first path wins.
FirstWin(services, paths) ==
  FoldRight(LAMBDA p, said : Overlay(said, services[p.service].notes),
            paths, [n \in Note |-> Nil])

\* The annotations of the Services of a host's paths; the last path wins.
LastWin(services, paths) ==
  FoldLeft(LAMBDA said, p : Overlay(said, services[p.service].notes),
           [n \in Note |-> Nil], paths)

\* FillLBWithIngressAnnotations.
LBSettings(notes) ==
  [region    |-> IF notes.region \in DOMAIN regionsIDs THEN regionsIDs[notes.region] ELSE Nil,
   geoip     |-> notes.geoip,
   tlsPreset |-> notes.minTLS,
   cluster   |-> notes.cluster]

-----------------------------------------------------------------------------
(* TranslateIngressToLB. *)

\* Variant with a defect: the upstream zones are by Service only.
UpstreamOfService(services, p) == [service |-> p.service, nodePort |-> 0]

UpstreamId(services, p) == [service |-> p.service, nodePort |-> NodePort(services, p)]

UpstreamZones(services, ing) ==
  [id \in {UpstreamId(services, p) : p \in Paths(ing)} |->
     LET p == CHOOSE q \in Paths(ing) : UpstreamId(services, q) = id IN
     [targets  |-> {<<ip, NodePort(services, p)>> : ip \in NodeIp},
      settings |-> UpstreamSettings(services[p.service].notes)]]

VHostZone(services, ing, host, cert) ==
  LET paths == PathsOf(ing, host) IN
  [ssl       |-> cert # Nil,
   cert      |-> cert,
   ports     |-> IF cert # Nil THEN {443} ELSE {80},
   locations |-> [i \in DOMAIN paths |-> [path     |-> paths[i].path,
                                          upstream |-> UpstreamId(services, paths[i])]],
   settings  |-> VHostSettings(LastWin(services, paths))]

\* An ingress without a host or a path, one of whose paths is not reachable, or
\* whose geoip annotation is no boolean cannot be translated.
CanTranslate(services, ing) ==
  /\ Paths(ing) # {}
  /\ \A p \in Paths(ing) : Reachable(services, p)
  /\ ing.notes.geoip \in Bool \cup {Nil}

TranslateIngressToLB(services, ing, sslCerts) ==
  [vhosts    |-> [h \in Hosts(ing) |-> VHostZone(services, ing, h, sslCerts[h])],
   upstreams |-> UpstreamZones(services, ing),
   settings  |-> LBSettings(ing.notes)]
=============================================================================

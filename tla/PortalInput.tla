---------------------------- MODULE PortalInput ----------------------------
(***************************************************************************)
(* The part of SyncToPortal (internal/service/service.go) that makes the   *)
(* input of the load balancer manager: the certificates of the ingress,    *)
(* then its translation.  Controllers run it again and again while Secrets *)
(* and Services change.                                                    *)
(***************************************************************************)
EXTENDS TLSManager

CONSTANTS
  NodeIp, Number, Bool, RealIP,  \* of Translation
  Service,                       \* names of Services
  Contents,                      \* contents of Secrets
  Variants,                      \* Services a name may stand for
  Start                          \* the clusters and accounts to start from

INSTANCE Translation

Line == ({"BEGIN", "END"} \X STRING) \cup ({"data"} \X Der)

Port     == [port : Nat, nodePort : Nat]
RulePath == [service : Service, port : Nat, path : STRING]
Rule     == [host : Host, http : BOOLEAN, paths : Seq(RulePath)]
Entry    == [secret : Secret \cup Prefixed, hosts : SUBSET Host]

\* Any ingress: rules with hosts and paths, tls entries, annotations of hosts.
IngressOK(ing) ==
  /\ ing.rules \in Seq(Rule)
  /\ ing.tls \in Seq(Entry)
  /\ ing.annotated \in [Host -> Secret \cup Prefixed \cup {Nil}]

\* A certificate the customer has uploaded is one of the first id.
ASSUME InputAssumption ==
  /\ Nil \notin Port /\ Nil # "http2"
  /\ Text \subseteq Seq(Line)
  /\ Contents \subseteq Content
  /\ \A v \in Variants : v.ports \in Seq(Port)
  /\ \A start \in Start :
       /\ \A c \in Controller : IngressOK(start.ingress[c])
       /\ start.secrets \in [Secret -> Content \cup {Nil}]
       /\ DOMAIN start.services = Service
       /\ \A s \in Service :
            start.services[s] # Nil => start.services[s].ports \in Seq(Port)
       /\ start.upload # Nil => /\ start.upload.leaf \in Parsable
                                /\ start.upload.by = Nil
                                /\ 1 \in CertId

VARIABLES
  services,  \* the Services, as the store has them
  got,       \* of each controller: the Services its translation has read
  input      \* of each controller: the input it passes on, with the Services and
             \* the Secrets it was made from (history); Nil while there is none

inputVars == <<tlsVars, services, got, input>>

NoServices == [s \in Service |-> Nil]

Init ==
  /\ \E start \in Start : /\ ingress = start.ingress
                          /\ secrets = start.secrets
                          /\ services = start.services
                          /\ TLSInit(start.upload)
  /\ got = [c \in Controller |-> NoServices]
  /\ input = [c \in Controller |-> Nil]

\* The paths whose Services are still to be read, in order.
Unread(c) == SelectSeq(AllPaths(ingress[c]), LAMBDA p : got[c][p.service] = Nil)

\* The next path reads its Service, while others may change; the first that is
\* not there is an error.  A Service of two paths is read once here.
GetService(c) ==
  /\ sync[c].pc = "certs"
  /\ Unread(c) # <<>>
  /\ LET s == Head(Unread(c)).service IN
     IF services[s] = Nil
     THEN got' = [got EXCEPT ![c] = NoServices] /\ Change(c, Idle)
     ELSE got' = [got EXCEPT ![c][s] = services[s]] /\ UNCHANGED sync
  /\ UNCHANGED <<ingress, secrets, registered, certs, nextCert, writes, restarts,
                 faults, services, input>>

\* The certificates are those answered, the Services those read.
Translate(c) ==
  /\ sync[c].pc = "certs"
  /\ Unread(c) = <<>>
  /\ input' = [input EXCEPT ![c] =
       IF CanTranslate(got[c], ingress[c])
       THEN [lb   |-> TranslateIngressToLB(got[c], ingress[c], sync[c].answer),
             read |-> sync[c].read, from |-> got[c]]
       ELSE Nil]
  /\ got' = [got EXCEPT ![c] = NoServices]
  /\ Change(c, Idle)
  /\ UNCHANGED <<ingress, secrets, registered, certs, nextCert, writes, restarts,
                 faults, services>>

WriteService(s) ==
  /\ writes < MaxWrites
  /\ \E v \in Variants : services[s] # v /\ services' = [services EXCEPT ![s] = v]
  /\ writes' = writes + 1
  /\ UNCHANGED <<ingress, secrets, registered, certs, nextCert, sync, restarts, faults,
                 got, input>>

\* The next sync starts, or the process ends: the input has been used.
Certify(c) ==
  /\ StepTLS(c) \/ RestartTLS(c)
  /\ input' = [input EXCEPT ![c] = Nil]
  /\ got' = [got EXCEPT ![c] = NoServices]
  /\ UNCHANGED services

Surroundings ==
  /\ \/ \E s \in Secret, x \in Contents : WriteSecret(s, x)
     \/ \E i \in CertId : RemoveCert(i)
  /\ UNCHANGED <<services, got, input>>

Next == \/ \E c \in Controller : Certify(c) \/ GetService(c) \/ Translate(c)
        \/ \E s \in Service : WriteService(s)
        \/ Surroundings

InputSpec == Init /\ [][Next]_inputVars

-----------------------------------------------------------------------------
(* Properties. *)

\* What the ingress says of a host: an annotation, or the last entry of the tls
\* section that lists it.
NamedFor(ing, h) ==
  LET entries == {i \in DOMAIN ing.tls : h \in ing.tls[i].hosts} IN
  IF ing.annotated[h] # Nil THEN ing.annotated[h]
  ELSE IF entries = {} THEN Nil ELSE ing.tls[Max(entries)].secret

\* A host is served over TLS exactly when the ingress names a Secret or an id
\* for it, with the certificate of that Secret as it was read or with that id,
\* whichever host's turn came first, whoever uploaded the certificate and
\* whatever failed before.
HostsHaveTheirCerts ==
  \A c \in Controller : input[c] # Nil =>
    \A h \in DOMAIN input[c].lb.vhosts :
      LET zone == input[c].lb.vhosts[h]
          name == NamedFor(ingress[c], h)
      IN IF name = Nil THEN zone.cert = Nil /\ zone.ports = {80}
         ELSE /\ zone.ssl /\ zone.ports = {443}
              /\ input[c].read[h].name = name
              /\ name \in Prefixed => zone.cert = IdOf[name]
              /\ name \in Secret /\ certs[zone.cert] # Nil =>
                   LET crt == input[c].read[h].content.crt IN
                   \E i \in DOMAIN crt : /\ crt[i] = <<"data", certs[zone.cert].leaf>>
                                         /\ \A j \in 1..(i - 1) :
                                              crt[j][1] = "END" => ~InBlock(crt, j)

\* The position of path j of rule r among the paths of its host.
Position(ing, r, j) ==
  j + FoldLeft(+, 0, [i \in 1..(r - 1) |->
        IF ing.rules[i].http /\ ing.rules[i].host = ing.rules[r].host
        THEN Len(ing.rules[i].paths) ELSE 0])

\* Each path of each rule is a location of its host, in the order of the rules,
\* and leads to the NodePort its Service has for the port on every Node; the
\* upstream zone is shared with no path that leads elsewhere.
PathsLeadToTheirService ==
  \A c \in Controller : input[c] # Nil =>
    \A r \in DOMAIN ingress[c].rules : ingress[c].rules[r].http =>
      \A j \in DOMAIN ingress[c].rules[r].paths :
        LET p    == ingress[c].rules[r].paths[j]
            zone == input[c].lb.vhosts[ingress[c].rules[r].host]
            at   == zone.locations[Position(ingress[c], r, j)]
            open == {q \in DOMAIN input[c].from[p.service].ports :
                       input[c].from[p.service].ports[q].port = p.port}
        IN /\ at.path = p.path
           /\ input[c].lb.upstreams[at.upstream].targets =
                {<<ip, input[c].from[p.service].ports[Min(open)].nodePort>> : ip \in NodeIp}

\* A Service's annotations decide about its own upstream zones, and about a host
\* unless a later path of the host leads to a Service that has the annotation.
SettingsAreOwn ==
  \A c \in Controller : input[c] # Nil =>
    /\ \A u \in DOMAIN input[c].lb.upstreams, n \in TextNote :
         input[c].lb.upstreams[u].settings[n] = input[c].from[u.service].notes[n]
    /\ \A h \in DOMAIN input[c].lb.vhosts :
         LET paths  == PathsOf(ingress[c], h)
             note(i) == input[c].from[paths[i].service].notes["AppProtocol"]
             said   == {i \in DOMAIN paths : note(i) # Nil}
         IN input[c].lb.vhosts[h].settings.http2 <=>
              said # {} /\ note(Max(said)) = "http2"
=============================================================================

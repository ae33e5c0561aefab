----------------------------- MODULE TLSManager -----------------------------
(***************************************************************************)
(* SyncTLS (internal/service/sync/tls.go), the certificate manager and the *)
(* splitting of certificates (internal/service/tls), above the portal's    *)
(* certificates.                                                           *)
(*                                                                         *)
(* A Controller is a process with one worker, as one ingress class or one  *)
(* cluster has; all share the customer's account in the portal.  Secrets   *)
(* are read from the store when a host's turn comes and may change between *)
(* any two steps.  SyncCertificate makes two calls, so it is two steps.    *)
(*                                                                         *)
(* A line of tls.crt is <<"BEGIN", type>>, <<"END", type>> or <<"data", d>>*)
(* with the whole body of a block, or whatever stands outside the blocks,  *)
(* in one data line; blank lines and spaces (StripSpaces) are left out.    *)
(* A fingerprint is the certificate itself: SHA-1 is taken as injective.   *)
(***************************************************************************)
EXTENDS PortalCalls, SequencesExt, FiniteSetsExt

CONSTANTS
  Controller,    \* controllers that share the account
  Host,          \* hosts
  Secret,        \* names of Secrets
  Prefixed,      \* names that start with the certificate manager's prefix
  Text,          \* contents of tls.crt
  Der,           \* bodies of PEM blocks
  Parsable,      \* those that are certificates with DNS names
  PrivateKey,    \* contents of tls.key
  IdOf,          \* the portal id that follows the prefix in a name
  Nil,           \* a nil pointer, an absent map entry
  MaxCerts,      \* bound on the certificates of the portal
  MaxWrites,     \* bound on the changes of Secrets
  MaxRestarts    \* bound on the restarts

CertId  == 1..MaxCerts
Content == [crt: Text \cup {Nil}, key: PrivateKey \cup {Nil}]

ASSUME TLSAssumption ==
  /\ MaxFaults \in Nat /\ MaxCerts \in Nat
  /\ MaxWrites \in Nat /\ MaxRestarts \in Nat
  /\ Parsable \subseteq Der
  /\ Secret \cap Prefixed = {}
  /\ IdOf \in [Prefixed -> CertId]
  /\ Nil \notin Text /\ Nil \notin PrivateKey /\ Nil \notin Content
  /\ Nil \notin CertId /\ Nil \notin Der /\ Nil \notin Controller

VARIABLES
  ingress,     \* the ingress a controller syncs
  secrets,     \* the Secrets, as the store has them
  registered,  \* m.resources of each controller: certificate id by fingerprint
  certs,       \* the certificates of the portal, by id
  nextCert,    \* the id the portal gives next
  sync,        \* SyncTLS of each controller
  writes,      \* changes of Secrets so far
  restarts     \* restarts so far

tlsVars == <<ingress, secrets, registered, certs, nextCert, sync, writes, restarts,
             faults>>

-----------------------------------------------------------------------------
(* Certificates as text. *)

\* Variant with a defect: what stands between two blocks is taken for the chain.
AddLineAlways(st, line) ==
  LET chained == st.iter > 0 IN
  [st EXCEPT !.primary = IF chained \/ (line[1] = "data" /\ @ = <<>>) THEN @
                         ELSE Append(@, line),
             !.chain   = IF chained THEN Append(@, line) ELSE @,
             !.iter    = IF line[1] = "END" THEN @ + 1 ELSE @]

\* The loop of SplitCerts: the first block is the certificate, the others are
\* its chain, what stands outside the blocks is dropped.
AddLine(st, line) ==
  LET started == st.started \/ line[1] = "BEGIN"
      ended   == line[1] = "END"
  IN IF ~started THEN st
     ELSE [primary |-> IF st.iter = 0 THEN Append(st.primary, line) ELSE st.primary,
           chain   |-> IF st.iter = 0 THEN st.chain ELSE Append(st.chain, line),
           started |-> ~ended,
           iter    |-> IF ended THEN st.iter + 1 ELSE st.iter]

SplitCerts(crt) ==
  FoldLeft(AddLine, [primary |-> <<>>, chain |-> <<>>, started |-> FALSE, iter |-> 0],
           crt)

\* The first complete block of a text, if there is one.
Decode(crt) ==
  LET whole == {i \in DOMAIN crt :
                  /\ i + 2 \in DOMAIN crt
                  /\ crt[i][1] = "BEGIN" /\ crt[i + 1][1] = "data"
                  /\ crt[i + 2] = <<"END", crt[i][2]>>}
  IN IF whole = {} THEN Nil
     ELSE [type |-> crt[Min(whole)][2], der |-> crt[Min(whole) + 1][2]]

GetPemFingerprint(crt) ==
  LET block == Decode(crt) IN
  IF block = Nil \/ block.type # "CERTIFICATE" THEN Nil ELSE block.der

\* Variant with a defect: the DNS names are not looked for.
ValidateBlock(crt) == GetPemFingerprint(SplitCerts(crt).primary) # Nil

ValidateCertificate(crt) == GetPemFingerprint(SplitCerts(crt).primary) \in Parsable

-----------------------------------------------------------------------------
(* Which certificate for which host. *)

\* Variant with a defect: the tls section overrides the annotations.
HostSecretByTLS(ing) ==
  [h \in Host |-> FoldLeft(LAMBDA s, e : IF h \in e.hosts THEN e.secret ELSE s,
                           ing.annotated[h], ing.tls)]

\* mergeTLSWithAnnotations: of several entries with a host the last one counts,
\* and an annotation before all of them.
HostSecret(ing) ==
  [h \in Host |->
     IF ing.annotated[h] # Nil THEN ing.annotated[h]
     ELSE FoldLeft(LAMBDA s, e : IF h \in e.hosts THEN e.secret ELSE s, Nil, ing.tls)]

SecretHosts(ing) == {h \in Host : HostSecret(ing)[h] # Nil}

\* A Secret that has the two entries and a certificate that passes the checks.
Usable(content) ==
  /\ content # Nil
  /\ content.crt # Nil
  /\ content.key # Nil
  /\ ValidateCertificate(content.crt)

Fingerprint(content) == GetPemFingerprint(SplitCerts(content.crt).primary)

-----------------------------------------------------------------------------

NoAnswer == [h \in Host |-> Nil]

\* host is the host whose certificate is being created; read is history: the
\* name and the content each certificate was answered for.
Idle == [pc |-> "idle", todo |-> {}, answer |-> NoAnswer, read |-> NoAnswer,
         host |-> Nil]

NoneRegistered == [f \in Der |-> Nil]

\* What the portal stores of a certificate; by is history: who uploaded it.
Uploaded(c, name, content) ==
  LET split == SplitCerts(content.crt) IN
  [leaf |-> Fingerprint(content), crt |-> split.primary, chain |-> split.chain,
   key |-> content.key, name |-> name, by |-> c]

\* upload is a certificate the customer has in the portal, or Nil.
TLSInit(upload) ==
  /\ registered = [c \in Controller |-> NoneRegistered]
  /\ certs = [i \in CertId |-> IF i = 1 THEN upload ELSE Nil]
  /\ nextCert = IF upload = Nil THEN 1 ELSE 2
  /\ sync = [c \in Controller |-> Idle]
  /\ writes = 0
  /\ restarts = 0
  /\ faults = 0

Change(c, s) == sync' = [sync EXCEPT ![c] = s]

\* SyncTLS returns an error: what it has found so far is forgotten, what it has
\* registered and uploaded stays.
Fail(c) == Change(c, Idle)

\* What the store gives for host h.
Reading(c, h) ==
  LET name == HostSecret(ingress[c])[h] IN
  [name |-> name, content |-> IF name \in Secret THEN secrets[name] ELSE Nil]

\* Host h of controller c has certificate i, for what was read.
Answer(c, h, i, reading) ==
  Change(c, [sync[c] EXCEPT !.pc = "hosts", !.todo = @ \ {h}, !.answer[h] = i,
                            !.read[h] = reading, !.host = Nil])

RegisterCert(c, f, i) == registered' = [registered EXCEPT ![c][f] = i]

-----------------------------------------------------------------------------
(* SyncTLS, one host after another in any order. *)

StartTLS(c) ==
  /\ sync[c].pc = "idle"
  /\ Change(c, [Idle EXCEPT !.pc = "hosts", !.todo = SecretHosts(ingress[c])])
  /\ UNCHANGED <<ingress, secrets, registered, certs, nextCert, writes, restarts, faults>>

Turn(c, h, names) ==
  /\ sync[c].pc = "hosts"
  /\ h \in sync[c].todo
  /\ HostSecret(ingress[c])[h] \in names
  /\ UNCHANGED <<ingress, secrets, writes, restarts>>

\* GetByID: a name with the prefix is the id of a certificate of the portal.
AnswerById(c, h) ==
  /\ Turn(c, h, Prefixed)
  /\ LET i == IdOf[HostSecret(ingress[c])[h]] IN
     \E a \in Answers("get") :
       /\ Spend(Cost(a))
       /\ IF a = "ok" /\ certs[i] # Nil THEN Answer(c, h, i, Reading(c, h)) ELSE Fail(c)
  /\ UNCHANGED <<registered, certs, nextCert>>

RejectSecret(c, h) ==
  /\ Turn(c, h, Secret)
  /\ ~Usable(Reading(c, h).content)
  /\ Fail(c)
  /\ UNCHANGED <<registered, certs, nextCert, faults>>

\* HasRegistration and Get.
Known(c, content) == registered[c][Fingerprint(content)]

\* A registered certificate is not looked at again.
AnswerFromMemory(c, h) ==
  /\ Turn(c, h, Secret)
  /\ LET content == Reading(c, h).content IN
     /\ Usable(content)
     /\ Known(c, content) # Nil
     /\ Answer(c, h, Known(c, content), Reading(c, h))
  /\ UNCHANGED <<registered, certs, nextCert, faults>>

\* Variants with a defect: whatever the search returns is taken, and only what
\* has the name of the Secret, too.
MatchingAny(f, name) == {i \in CertId : certs[i] # Nil}

MatchingBoth(f, name) ==
  {i \in MatchingAny(f, name) : certs[i].leaf = f /\ certs[i].name = name}

\* Of the certificates the search returns those with the fingerprint count.
Matching(f, name) == {i \in CertId : certs[i] # Nil /\ certs[i].leaf = f}

\* SyncCertificate, up to the answer of the list.
ListCerts(c, h) ==
  /\ Turn(c, h, Secret)
  /\ LET name    == Reading(c, h).name
         content == Reading(c, h).content
         f       == Fingerprint(content)
     IN /\ Usable(content)
        /\ Known(c, content) = Nil
        /\ \E a \in Answers("list") :
             /\ Spend(Cost(a))
             /\ \/ /\ a # "ok"
                   /\ Fail(c)
                   /\ UNCHANGED registered
                \/ /\ a = "ok" /\ Matching(f, name) = {}
                   /\ Change(c, [sync[c] EXCEPT !.pc = "create", !.host = h,
                                                !.read[h] = Reading(c, h)])
                   /\ UNCHANGED registered
                \/ /\ a = "ok"
                   /\ \E i \in Matching(f, name) :
                        Answer(c, h, i, Reading(c, h)) /\ RegisterCert(c, f, i)
  /\ UNCHANGED <<certs, nextCert>>

\* Its end: the certificate as it was read is uploaded.
CreateCert(c) ==
  /\ sync[c].pc = "create"
  /\ LET h       == sync[c].host
         reading == sync[c].read[h]
     IN \E a \in Answers("create") :
          /\ Spend(Cost(a))
          /\ IF Performed(a)
             THEN /\ nextCert \in CertId
                  /\ certs' = [certs EXCEPT ![nextCert] =
                                 Uploaded(c, reading.name, reading.content)]
                  /\ nextCert' = nextCert + 1
             ELSE UNCHANGED <<certs, nextCert>>
          /\ IF a = "ok"
             THEN /\ Answer(c, h, nextCert, reading)
                  /\ RegisterCert(c, Fingerprint(reading.content), nextCert)
             ELSE Fail(c) /\ UNCHANGED registered
  /\ UNCHANGED <<ingress, secrets, writes, restarts>>

EndTLS(c) ==
  /\ sync[c].pc = "hosts"
  /\ sync[c].todo = {}
  /\ Change(c, [sync[c] EXCEPT !.pc = "certs"])
  /\ UNCHANGED <<ingress, secrets, registered, certs, nextCert, writes, restarts, faults>>

-----------------------------------------------------------------------------
(* The surroundings. *)

WriteSecret(s, content) ==
  /\ writes < MaxWrites
  /\ secrets[s] # content
  /\ secrets' = [secrets EXCEPT ![s] = content]
  /\ writes' = writes + 1
  /\ UNCHANGED <<ingress, registered, certs, nextCert, sync, restarts, faults>>

\* The customer removes a certificate from the portal: one of the faults.
RemoveCert(i) ==
  /\ certs[i] # Nil
  /\ <<"remove", "fail">> \in FaultKinds
  /\ Spend(1)
  /\ certs' = [certs EXCEPT ![i] = Nil]
  /\ UNCHANGED <<ingress, secrets, registered, nextCert, sync, writes, restarts>>

NewProcess(c) ==
  /\ registered' = [registered EXCEPT ![c] = NoneRegistered]
  /\ Change(c, Idle)

RestartTLS(c) ==
  /\ restarts < MaxRestarts
  /\ restarts' = restarts + 1
  /\ NewProcess(c)
  /\ UNCHANGED <<ingress, secrets, certs, nextCert, writes, faults>>

\* One step of SyncTLS.
StepTLS(c) == \/ StartTLS(c)
              \/ \E h \in Host : AnswerById(c, h) \/ RejectSecret(c, h)
                                 \/ AnswerFromMemory(c, h) \/ ListCerts(c, h)
              \/ CreateCert(c)
              \/ EndTLS(c)

-----------------------------------------------------------------------------
(* Properties. *)

\* The types of the certificate part of the state.
TLSTypeOK ==
  /\ secrets \in [Secret -> Content \cup {Nil}]
  /\ registered \in [Controller -> [Der -> CertId \cup {Nil}]]
  /\ nextCert \in 1..(MaxCerts + 1)
  /\ \A i \in CertId : certs[i] # Nil => /\ i < nextCert
                                         /\ certs[i].leaf \in Parsable
                                         /\ certs[i].by \in Controller \cup {Nil}
  /\ \A c \in Controller :
       /\ sync[c].pc \in {"idle", "hosts", "create", "certs"}
       /\ sync[c].todo \subseteq Host
       /\ sync[c].answer \in [Host -> CertId \cup {Nil}]
       /\ sync[c].pc = "create" => sync[c].host \in sync[c].todo

\* A controller uploads a certificate once: what a lost answer, a restart or an
\* error half way through SyncTLS leaves in the portal is found again.  (Two
\* controllers may each find none and both upload.)
OneUploadEach ==
  \A i, j \in CertId :
    /\ certs[i] # Nil /\ certs[j] # Nil
    /\ certs[i].leaf = certs[j].leaf
    /\ certs[i].by = certs[j].by /\ certs[i].by # Nil
    => i = j

\* What a fingerprint is registered with has that fingerprint, unless the
\* customer has removed it, in every controller.
RegisteredByFingerprint ==
  \A c \in Controller, f \in Der :
    registered[c][f] # Nil =>
      /\ registered[c][f] < nextCert
      /\ certs[registered[c][f]] # Nil => certs[registered[c][f]].leaf = f

\* What a reader of RFC 7468 expects of a bundle: whether line i is in a block.
InBlock(crt, i) ==
  \E b \in 1..i : /\ crt[b][1] = "BEGIN"
                  /\ \A e \in b..(i - 1) : crt[e][1] # "END"

\* part has the lines of crt at the indices at, in their order, and no other.
IsPart(part, crt, at) ==
  /\ Len(part) = Cardinality(at)
  /\ \A i \in at : part[Cardinality({j \in at : j <= i})] = crt[i]

\* An upload is the bundle it was read from: the lines up to the first END that
\* belong to a block are the certificate, those that follow and do are the chain,
\* and no other line is sent.
UploadsAreBundles ==
  \A s \in Secret : secrets[s] # Nil /\ secrets[s].crt # Nil =>
    LET crt     == secrets[s].crt
        inBlock == {i \in DOMAIN crt : InBlock(crt, i)}
        later   == {i \in inBlock : \E e \in inBlock : e < i /\ crt[e][1] = "END"}
    IN /\ IsPart(SplitCerts(crt).primary, crt, inBlock \ later)
       /\ IsPart(SplitCerts(crt).chain, crt, later)

\* "SyncTLS syncs ingress tls certs stored in secrets to portal": after a
\* successful sync the portal has the chain of the Secret as it was read.
ChainIsSynced ==
  \A c \in Controller, h \in Host :
    LET i == sync[c].answer[h]
        reading == sync[c].read[h]
    IN sync[c].pc = "certs" /\ reading # Nil /\ reading.content # Nil /\ certs[i] # Nil =>
         certs[i].chain = SplitCerts(reading.content.crt).chain
=============================================================================

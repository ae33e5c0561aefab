------------------------- MODULE PortalInputProofs -------------------------
(* Certificates and inputs, for every value of the constants: any number of *)
(* controllers over one account, any ingresses, Secrets and faults.         *)
EXTENDS FoldProofs

Readings == [name : Secret \cup Prefixed, content : Content \cup {Nil}]

SyncState ==
  [pc     : {"idle", "hosts", "create", "certs"},
   todo   : SUBSET Host,
   answer : [Host -> CertId \cup {Nil}],
   read   : [Host -> Readings \cup {Nil}],
   host   : Host \cup {Nil}]

\* Everything a step reads has its type.
TypeInv ==
  /\ TLSTypeOK
  /\ sync \in [Controller -> SyncState]
  /\ certs = [i \in CertId |-> certs[i]]
  /\ input = [c \in Controller |-> input[c]]
  /\ \A c \in Controller : IngressOK(ingress[c])

\* A controller that creates a certificate has uploaded none like it.
CreateInv ==
  \A c \in Controller : sync[c].pc = "create" =>
    LET reading == sync[c].read[sync[c].host] IN
    /\ reading \in Readings /\ reading.name \in Secret
    /\ reading.name = HostSecret(ingress[c])[sync[c].host]
    /\ Usable(reading.content)
    /\ \A i \in CertId : certs[i] # Nil /\ certs[i].by = c =>
         certs[i].leaf # Fingerprint(reading.content)

\* Certificate i is right for a host of which r was read.
RightCert(r, i) ==
  /\ i < nextCert
  /\ r.name \in Prefixed => i = IdOf[r.name]
  /\ r.name \in Secret =>
       /\ Usable(r.content)
       /\ certs[i] # Nil => certs[i].leaf = Fingerprint(r.content)

\* The states a controller comes to by one answer, and by a list without a match.
Answered(s, h, i, r) ==
  [s EXCEPT !.pc = "hosts", !.todo = @ \ {h}, !.answer[h] = i, !.read[h] = r, !.host = Nil]

Creating(s, h, r) == [s EXCEPT !.pc = "create", !.host = h, !.read[h] = r]

BaseInv == TypeInv /\ CreateInv /\ RegisteredByFingerprint

-----------------------------------------------------------------------------
(* The states SyncTLS goes through.                                         *)

\* An idle controller has found nothing.
LEMMA IdleState ==
  /\ Idle \in SyncState
  /\ Idle.pc = "idle" /\ Idle.todo = {}
  /\ \A h \in Host : Idle.answer[h] = Nil
BY DEF Idle, SyncState, NoAnswer

\* What Answer leaves of the state of a controller.
LEMMA AnswerState ==
  ASSUME NEW s \in SyncState, NEW h \in Host, NEW i \in CertId, NEW r \in Readings
  PROVE  /\ Answered(s, h, i, r) \in SyncState
         /\ Answered(s, h, i, r).pc = "hosts"
         /\ Answered(s, h, i, r).todo = s.todo \ {h}
         /\ \A x \in Host :
              /\ Answered(s, h, i, r).answer[x] = IF x = h THEN i ELSE s.answer[x]
              /\ Answered(s, h, i, r).read[x] = IF x = h THEN r ELSE s.read[x]
BY DEF SyncState, Answered

\* What a list without a match leaves of it.
LEMMA CreatingState ==
  ASSUME NEW s \in SyncState, NEW h \in Host, NEW r \in Readings
  PROVE  /\ Creating(s, h, r) \in SyncState
         /\ Creating(s, h, r).pc = "create" /\ Creating(s, h, r).host = h
         /\ Creating(s, h, r).todo = s.todo /\ Creating(s, h, r).answer = s.answer
         /\ \A x \in Host : Creating(s, h, r).read[x] = IF x = h THEN r ELSE s.read[x]
BY DEF SyncState, Creating

\* What StartTLS leaves of it.
LEMMA StartState ==
  ASSUME NEW todo \in SUBSET Host
  PROVE  LET new == [Idle EXCEPT !.pc = "hosts", !.todo = todo] IN
         /\ new \in SyncState
         /\ new.pc = "hosts" /\ new.todo = todo
         /\ \A h \in Host : new.answer[h] = Nil
BY DEF SyncState, Idle, NoAnswer

\* What EndTLS leaves of it.
LEMMA EndState ==
  ASSUME NEW s \in SyncState
  PROVE  LET new == [s EXCEPT !.pc = "certs"] IN
         /\ new \in SyncState
         /\ new.pc = "certs" /\ new.todo = s.todo
         /\ new.answer = s.answer /\ new.read = s.read
BY DEF SyncState

\* What is read for a host is its name with the content of the Secret.
LEMMA ReadingType ==
  ASSUME TypeInv, NEW c \in Controller, NEW h \in Host,
         HostSecret(ingress[c])[h] \in Secret \cup Prefixed
  PROVE  /\ Reading(c, h) \in Readings
         /\ Reading(c, h).name = HostSecret(ingress[c])[h]
BY DEF Reading, Readings, TypeInv, TLSTypeOK

\* A content that can be used has the fingerprint of a certificate.
LEMMA UsableType ==
  ASSUME NEW content, Usable(content)
  PROVE  Fingerprint(content) \in Parsable /\ Fingerprint(content) \in Der
BY TLSAssumption DEF Usable, ValidateCertificate, Fingerprint

-----------------------------------------------------------------------------
(* What the steps do.                                                       *)

\* A certificate of the listing with the fingerprint is registered and answered;
\* without one the controller goes on to create it.
LEMMA ListEffect ==
  ASSUME BaseInv, NEW c \in Controller, NEW h \in Host, ListCerts(c, h)
  PROVE  /\ UNCHANGED <<ingress, secrets, certs, nextCert>>
         /\ h \in sync[c].todo
         /\ \E r \in Readings :
              /\ r.name = HostSecret(ingress[c])[h] /\ r.name \in Secret
              /\ Usable(r.content)
              /\ \/ Fail(c) /\ UNCHANGED registered
                 \/ /\ sync' = [sync EXCEPT ![c] = Creating(sync[c], h, r)]
                    /\ UNCHANGED registered
                    /\ \A i \in CertId :
                         certs[i] # Nil => certs[i].leaf # Fingerprint(r.content)
                 \/ \E i \in CertId :
                      /\ certs[i] # Nil /\ certs[i].leaf = Fingerprint(r.content)
                      /\ sync' = [sync EXCEPT ![c] = Answered(sync[c], h, i, r)]
                      /\ RegisterCert(c, Fingerprint(r.content), i)
<1> DEFINE r == Reading(c, h)
<1>1. /\ UNCHANGED <<ingress, secrets, certs, nextCert>>
      /\ h \in sync[c].todo
      /\ HostSecret(ingress[c])[h] \in Secret
  BY DEF ListCerts, Turn
<1>2. r \in Readings /\ r.name = HostSecret(ingress[c])[h]
  BY <1>1, ReadingType DEF BaseInv
<1>3. /\ Usable(r.content)
      /\ \/ Fail(c) /\ UNCHANGED registered
         \/ /\ Matching(Fingerprint(r.content), r.name) = {}
            /\ Change(c, [sync[c] EXCEPT !.pc = "create", !.host = h, !.read[h] = r])
            /\ UNCHANGED registered
         \/ \E i \in Matching(Fingerprint(r.content), r.name) :
              Answer(c, h, i, r) /\ RegisterCert(c, Fingerprint(r.content), i)
  BY DEF ListCerts
<1> HIDE DEF r
<1> QED BY <1>1, <1>2, <1>3 DEF Matching, Change, Creating, Answer, Answered

\* An upload is what was read, under the next id, and is answered, or its answer
\* is lost.
LEMMA CreateEffect ==
  ASSUME BaseInv, NEW c \in Controller, CreateCert(c)
  PROVE  LET h == sync[c].host
             r == sync[c].read[h]
         IN /\ UNCHANGED <<ingress, secrets>>
            /\ sync[c].pc = "create" /\ h \in sync[c].todo
            /\ r \in Readings /\ r.name = HostSecret(ingress[c])[h] /\ r.name \in Secret
            /\ Usable(r.content)
            /\ \/ Fail(c) /\ UNCHANGED <<registered, certs, nextCert>>
               \/ /\ nextCert \in CertId
                  /\ certs' = [certs EXCEPT ![nextCert] = Uploaded(c, r.name, r.content)]
                  /\ nextCert' = nextCert + 1
                  /\ \/ Fail(c) /\ UNCHANGED registered
                     \/ /\ sync' = [sync EXCEPT ![c] = Answered(sync[c], h, nextCert, r)]
                        /\ RegisterCert(c, Fingerprint(r.content), nextCert)
<1> DEFINE h == sync[c].host
           r == sync[c].read[h]
<1>1. PICK a \in Answers("create") :
        /\ IF Performed(a)
           THEN /\ nextCert \in CertId
                /\ certs' = [certs EXCEPT ![nextCert] = Uploaded(c, r.name, r.content)]
                /\ nextCert' = nextCert + 1
           ELSE UNCHANGED <<certs, nextCert>>
        /\ IF a = "ok"
           THEN /\ Answer(c, h, nextCert, r)
                /\ RegisterCert(c, Fingerprint(r.content), nextCert)
           ELSE Fail(c) /\ UNCHANGED registered
  BY DEF CreateCert
<1>2. UNCHANGED <<ingress, secrets>> /\ sync[c].pc = "create"
  BY DEF CreateCert
<1>3. /\ h \in sync[c].todo
      /\ r \in Readings /\ r.name = HostSecret(ingress[c])[h] /\ r.name \in Secret
      /\ Usable(r.content)
  BY <1>2 DEF BaseInv, TypeInv, TLSTypeOK, CreateInv
<1> HIDE DEF h, r
<1>4. CASE Performed(a)
  BY <1>1, <1>2, <1>3, <1>4 DEF Answer, Change, Answered, h, r
<1>5. CASE ~Performed(a)
  BY <1>1, <1>2, <1>3, <1>5 DEF Performed, h, r
<1> QED BY <1>4, <1>5

\* What becomes of the certificates in a step: one is removed, or a controller
\* that creates one, and does so no longer, has uploaded it under the next id.
LEMMA CertsMove ==
  ASSUME BaseInv, [Next]_inputVars
  PROVE  /\ UNCHANGED ingress
         /\ certs' = [i \in CertId |-> certs'[i]]
         /\ \/ nextCert' = nextCert /\ \A i \in CertId : certs'[i] \in {certs[i], Nil}
            \/ /\ nextCert \in CertId /\ nextCert' = nextCert + 1
               /\ \E c \in Controller :
                    LET r == sync[c].read[sync[c].host] IN
                    /\ CreateCert(c)
                    /\ certs' = [certs EXCEPT ![nextCert] = Uploaded(c, r.name, r.content)]
<1>1. certs = [i \in CertId |-> certs[i]]
  BY DEF BaseInv, TypeInv
<1>2. ASSUME NEW c \in Controller, CreateCert(c)
      PROVE  /\ UNCHANGED ingress
             /\ \/ UNCHANGED <<certs, nextCert>>
                \/ /\ nextCert \in CertId /\ nextCert' = nextCert + 1
                   /\ LET r == sync[c].read[sync[c].host] IN
                      certs' = [certs EXCEPT ![nextCert] = Uploaded(c, r.name, r.content)]
  BY <1>2, CreateEffect
<1>3. ASSUME NEW c \in Controller, NEW h \in Host,
             \/ AnswerById(c, h) \/ RejectSecret(c, h)
             \/ AnswerFromMemory(c, h) \/ ListCerts(c, h)
      PROVE  UNCHANGED <<ingress, certs, nextCert>>
  BY <1>3 DEF AnswerById, RejectSecret, AnswerFromMemory, ListCerts, Turn
<1>4. ASSUME NEW c \in Controller,
             StartTLS(c) \/ EndTLS(c) \/ RestartTLS(c) \/ GetService(c) \/ Translate(c)
      PROVE  UNCHANGED <<ingress, certs, nextCert>>
  BY <1>4 DEF StartTLS, EndTLS, RestartTLS, GetService, Translate
<1>5. ASSUME NEW i \in CertId, RemoveCert(i)
      PROVE  UNCHANGED <<ingress, nextCert>> /\ certs' = [certs EXCEPT ![i] = Nil]
  BY <1>5 DEF RemoveCert
<1>6. ASSUME \/ \E s \in Secret, x \in Contents : WriteSecret(s, x)
             \/ \E s \in Service : WriteService(s)
             \/ UNCHANGED inputVars
      PROVE  UNCHANGED <<ingress, certs, nextCert>>
  BY <1>6 DEF WriteSecret, WriteService, inputVars, tlsVars
<1>7. \/ UNCHANGED <<ingress, certs, nextCert>>
      \/ \E i \in CertId : UNCHANGED <<ingress, nextCert>> /\ certs' = [certs EXCEPT ![i] = Nil]
      \/ \E c \in Controller : CreateCert(c)
  BY <1>3, <1>4, <1>5, <1>6 DEF Next, Certify, StepTLS, Surroundings
<1>8. CASE UNCHANGED <<ingress, certs, nextCert>>
  BY <1>1, <1>8
<1>9. ASSUME NEW i \in CertId, UNCHANGED <<ingress, nextCert>>,
             certs' = [certs EXCEPT ![i] = Nil]
      PROVE  /\ UNCHANGED ingress
             /\ certs' = [j \in CertId |-> certs'[j]]
             /\ nextCert' = nextCert /\ \A j \in CertId : certs'[j] \in {certs[j], Nil}
  BY <1>1, <1>9
<1>10. ASSUME NEW c \in Controller, CreateCert(c)
       PROVE  /\ UNCHANGED ingress
              /\ certs' = [i \in CertId |-> certs'[i]]
              /\ \/ UNCHANGED <<certs, nextCert>>
                 \/ /\ nextCert \in CertId /\ nextCert' = nextCert + 1
                    /\ LET r == sync[c].read[sync[c].host] IN
                       certs' = [certs EXCEPT ![nextCert] = Uploaded(c, r.name, r.content)]
  <2>1. certs' = [i \in CertId |-> certs'[i]]
    <3> DEFINE r == sync[c].read[sync[c].host]
    <3>1. CASE UNCHANGED certs
      BY <1>1, <3>1
    <3>2. CASE certs' = [certs EXCEPT ![nextCert] = Uploaded(c, r.name, r.content)]
      <4> HIDE DEF r
      <4> QED BY <1>1, <3>2
    <3> QED BY <1>2, <1>10, <3>1, <3>2
  <2> QED BY <1>2, <1>10, <2>1
<1> QED BY <1>1, <1>7, <1>8, <1>9, <1>10

\* What a step may do to the sync of controller c.
Moved(c) ==
  \/ sync'[c] = sync[c]
  \/ sync'[c] = Idle
  \/ sync'[c] = [Idle EXCEPT !.pc = "hosts", !.todo = SecretHosts(ingress[c])]
  \/ \E h \in sync[c].todo, i \in CertId, r \in Readings :
       /\ sync[c].pc \in {"hosts", "create"}
       /\ sync'[c] = Answered(sync[c], h, i, r)
       /\ r.name = HostSecret(ingress[c])[h]
       /\ RightCert(r, i)'
  \/ \E h \in sync[c].todo, r \in Readings :
       /\ sync[c].pc = "hosts"
       /\ sync'[c] = Creating(sync[c], h, r)
       /\ r.name = HostSecret(ingress[c])[h] /\ r.name \in Secret
       /\ Usable(r.content)
       /\ UNCHANGED certs
       /\ \A i \in CertId : certs[i] # Nil => certs[i].leaf # Fingerprint(r.content)
  \/ /\ sync[c].pc = "hosts" /\ sync[c].todo = {}
     /\ sync'[c] = [sync[c] EXCEPT !.pc = "certs"]

\* One controller moves at a time.
LEMMA OneMoves ==
  ASSUME TypeInv, NEW c \in Controller, NEW s, sync' = [sync EXCEPT ![c] = s], Moved(c)
  PROVE  /\ sync' = [x \in Controller |-> sync'[x]]
         /\ \A x \in Controller : Moved(x)
<1>1. sync = [x \in Controller |-> sync[x]]
  BY DEF TypeInv
<1>2. ASSUME NEW x \in Controller, x # c PROVE Moved(x)
  BY <1>1, <1>2 DEF Moved
<1> QED BY <1>1, <1>2

\* An answer by id is right.
LEMMA ByIdMoves ==
  ASSUME BaseInv, NEW c \in Controller, NEW h \in Host, AnswerById(c, h)
  PROVE  UNCHANGED registered /\ Moved(c) /\ \E s : sync' = [sync EXCEPT ![c] = s]
<1>0. PICK r, i : r = Reading(c, h) /\ i = IdOf[HostSecret(ingress[c])[h]]
  OBVIOUS
<1>1. /\ UNCHANGED <<ingress, registered, certs, nextCert>>
      /\ sync[c].pc = "hosts" /\ h \in sync[c].todo
      /\ HostSecret(ingress[c])[h] \in Prefixed
      /\ (certs[i] # Nil /\ Answer(c, h, i, r)) \/ Fail(c)
  BY <1>0 DEF AnswerById, Turn
<1>2. i \in CertId /\ (certs[i] # Nil => i < nextCert)
  BY <1>0, <1>1, TLSAssumption DEF BaseInv, TypeInv, TLSTypeOK
<1>3. r \in Readings /\ r.name = HostSecret(ingress[c])[h]
  BY <1>0, <1>1, ReadingType DEF BaseInv
<1>4. CASE Fail(c)
  BY <1>1, <1>4 DEF Fail, Change, Moved, BaseInv, TypeInv
<1>5. CASE certs[i] # Nil /\ Answer(c, h, i, r)
  <2>1. sync' = [sync EXCEPT ![c] = Answered(sync[c], h, i, r)]
    BY <1>5 DEF Answer, Change, Answered
  <2>2. sync'[c] = Answered(sync[c], h, i, r)
    BY <2>1 DEF BaseInv, TypeInv
  <2>3. RightCert(r, i)'
    BY <1>0, <1>1, <1>2, <1>3, <1>5, TLSAssumption DEF RightCert
  <2> QED BY <1>1, <1>2, <1>3, <2>1, <2>2, <2>3 DEF Moved
<1> QED BY <1>1, <1>4, <1>5 DEF Fail, Change

\* So is an answer from memory.
LEMMA FromMemoryMoves ==
  ASSUME BaseInv, NEW c \in Controller, NEW h \in Host, AnswerFromMemory(c, h)
  PROVE  UNCHANGED registered /\ Moved(c) /\ \E s : sync' = [sync EXCEPT ![c] = s]
<1>0. PICK r, f, i : /\ r = Reading(c, h) /\ f = Fingerprint(r.content)
                     /\ i = registered[c][f]
  OBVIOUS
<1>1. /\ UNCHANGED <<ingress, registered, certs, nextCert>>
      /\ sync[c].pc = "hosts" /\ h \in sync[c].todo
      /\ HostSecret(ingress[c])[h] \in Secret
      /\ Usable(r.content) /\ i # Nil /\ Answer(c, h, i, r)
  BY <1>0 DEF AnswerFromMemory, Turn, Known
<1>2. f \in Der
  BY <1>0, <1>1, UsableType
<1>3. r \in Readings /\ r.name = HostSecret(ingress[c])[h]
  BY <1>0, <1>1, ReadingType DEF BaseInv
<1>4. i \in CertId /\ i < nextCert /\ (certs[i] # Nil => certs[i].leaf = f)
  BY <1>0, <1>1, <1>2 DEF BaseInv, TypeInv, TLSTypeOK, RegisteredByFingerprint
<1>5. sync' = [sync EXCEPT ![c] = Answered(sync[c], h, i, r)]
  BY <1>1 DEF Answer, Change, Answered
<1>6. sync'[c] = Answered(sync[c], h, i, r)
  BY <1>5 DEF BaseInv, TypeInv
<1>7. RightCert(r, i)'
  BY <1>0, <1>1, <1>3, <1>4, TLSAssumption DEF RightCert
<1> QED BY <1>1, <1>3, <1>4, <1>5, <1>6, <1>7 DEF Moved

\* So is one from the listing; without a match none like it exists.
LEMMA ListMoves ==
  ASSUME BaseInv, NEW c \in Controller, NEW h \in Host, ListCerts(c, h)
  PROVE  Moved(c) /\ \E s : sync' = [sync EXCEPT ![c] = s]
<1>1. sync[c].pc = "hosts"
  BY DEF ListCerts, Turn
<1>2. UNCHANGED <<ingress, certs, nextCert>> /\ h \in sync[c].todo
  BY ListEffect
<1>3. PICK r \in Readings :
        /\ r.name = HostSecret(ingress[c])[h] /\ r.name \in Secret
        /\ Usable(r.content)
        /\ \/ Fail(c) /\ UNCHANGED registered
           \/ /\ sync' = [sync EXCEPT ![c] = Creating(sync[c], h, r)]
              /\ UNCHANGED registered
              /\ \A i \in CertId :
                   certs[i] # Nil => certs[i].leaf # Fingerprint(r.content)
           \/ \E i \in CertId :
                /\ certs[i] # Nil /\ certs[i].leaf = Fingerprint(r.content)
                /\ sync' = [sync EXCEPT ![c] = Answered(sync[c], h, i, r)]
                /\ RegisterCert(c, Fingerprint(r.content), i)
  BY ListEffect
<1>4. CASE Fail(c)
  BY <1>4 DEF Fail, Change, Moved, BaseInv, TypeInv
<1>5. ASSUME sync' = [sync EXCEPT ![c] = Creating(sync[c], h, r)],
             \A i \in CertId : certs[i] # Nil => certs[i].leaf # Fingerprint(r.content)
      PROVE  Moved(c)
  <2>1. sync'[c] = Creating(sync[c], h, r)
    BY <1>5 DEF BaseInv, TypeInv
  <2> QED BY <1>1, <1>2, <1>3, <1>5, <2>1 DEF Moved
<1>6. ASSUME NEW i \in CertId, certs[i] # Nil, certs[i].leaf = Fingerprint(r.content),
             sync' = [sync EXCEPT ![c] = Answered(sync[c], h, i, r)]
      PROVE  Moved(c)
  <2>1. sync'[c] = Answered(sync[c], h, i, r)
    BY <1>6 DEF BaseInv, TypeInv
  <2>2. i < nextCert
    BY <1>6 DEF BaseInv, TypeInv, TLSTypeOK
  <2>3. RightCert(r, i)'
    BY <1>2, <1>3, <1>6, <2>2, TLSAssumption DEF RightCert
  <2> QED BY <1>1, <1>2, <1>3, <1>6, <2>1, <2>3 DEF Moved
<1> QED BY <1>3, <1>4, <1>5, <1>6 DEF Fail, Change

\* So is what was uploaded.
LEMMA CreateMoves ==
  ASSUME BaseInv, NEW c \in Controller, CreateCert(c)
  PROVE  Moved(c) /\ \E s : sync' = [sync EXCEPT ![c] = s]
<1>1. CASE Fail(c)
  BY <1>1 DEF Fail, Change, Moved, BaseInv, TypeInv
<1>2. PICK h, r : h = sync[c].host /\ r = sync[c].read[h]
  OBVIOUS
<1>3. CASE /\ nextCert \in CertId
           /\ certs' = [certs EXCEPT ![nextCert] = Uploaded(c, r.name, r.content)]
           /\ nextCert' = nextCert + 1
           /\ sync' = [sync EXCEPT ![c] = Answered(sync[c], h, nextCert, r)]
  <2>1. /\ UNCHANGED ingress
        /\ sync[c].pc = "create" /\ h \in sync[c].todo
        /\ r \in Readings /\ r.name = HostSecret(ingress[c])[h] /\ r.name \in Secret
        /\ Usable(r.content)
    BY <1>2, CreateEffect
  <2>2. sync'[c] = Answered(sync[c], h, nextCert, r)
    BY <1>3 DEF BaseInv, TypeInv
  <2>3. nextCert < nextCert'
    BY <1>3, TLSAssumption DEF BaseInv, TypeInv, TLSTypeOK
  <2>4. certs'[nextCert].leaf = Fingerprint(r.content)
    BY <1>3 DEF BaseInv, TypeInv, Uploaded
  <2>5. PICK i \in CertId : i = nextCert
    BY <1>3
  <2>6. RightCert(r, i)'
    BY <2>1, <2>3, <2>4, <2>5, TLSAssumption DEF RightCert
  <2> QED BY <1>3, <2>1, <2>2, <2>5, <2>6 DEF Moved
<1> QED BY <1>1, <1>2, <1>3, CreateEffect DEF Fail, Change

\* Hence every controller moves as SyncTLS does.
LEMMA AllMove ==
  ASSUME BaseInv, [Next]_inputVars
  PROVE  /\ sync' = [c \in Controller |-> sync'[c]]
         /\ \A c \in Controller : Moved(c)
<1>1. sync = [c \in Controller |-> sync[c]] /\ TypeInv
  BY DEF BaseInv, TypeInv
<1>2. ASSUME NEW c \in Controller, Moved(c), \E s : sync' = [sync EXCEPT ![c] = s]
      PROVE  /\ sync' = [x \in Controller |-> sync'[x]]
             /\ \A x \in Controller : Moved(x)
  BY <1>1, <1>2, OneMoves
<1>3. ASSUME NEW c \in Controller, Change(c, Idle)
      PROVE  Moved(c) /\ \E s : sync' = [sync EXCEPT ![c] = s]
  BY <1>1, <1>3 DEF Change, Moved
<1>4. ASSUME NEW c \in Controller, StartTLS(c) \/ EndTLS(c)
      PROVE  Moved(c) /\ \E s : sync' = [sync EXCEPT ![c] = s]
  BY <1>1, <1>4 DEF StartTLS, EndTLS, Change, Moved
<1>5. ASSUME NEW c \in Controller, NEW h \in Host,
             \/ AnswerById(c, h) \/ RejectSecret(c, h)
             \/ AnswerFromMemory(c, h) \/ ListCerts(c, h)
      PROVE  Moved(c) /\ \E s : sync' = [sync EXCEPT ![c] = s]
  BY <1>3, <1>5, ByIdMoves, FromMemoryMoves, ListMoves DEF RejectSecret, Fail
<1>6. ASSUME NEW c \in Controller,
             CreateCert(c) \/ RestartTLS(c) \/ Translate(c)
      PROVE  Moved(c) /\ \E s : sync' = [sync EXCEPT ![c] = s]
  BY <1>3, <1>6, CreateMoves DEF RestartTLS, Translate, NewProcess
<1>7. ASSUME \/ \E s \in Secret, x \in Contents : WriteSecret(s, x)
             \/ \E s \in Service : WriteService(s)
             \/ \E i \in CertId : RemoveCert(i)
             \/ UNCHANGED inputVars
             \/ UNCHANGED sync
      PROVE  /\ sync' = [c \in Controller |-> sync'[c]]
             /\ \A c \in Controller : Moved(c)
  BY <1>1, <1>7 DEF WriteSecret, WriteService, RemoveCert, inputVars, tlsVars, Moved
<1>8. ASSUME NEW c \in Controller, GetService(c)
      PROVE  Change(c, Idle) \/ UNCHANGED sync
  BY <1>8 DEF GetService
<1> QED BY <1>2, <1>3, <1>4, <1>5, <1>6, <1>7, <1>8 DEF Next, Certify, StepTLS, Surroundings

\* A fingerprint is registered with a certificate that has it, or forgotten.
LEMMA RegisteredMove ==
  ASSUME BaseInv, [Next]_inputVars
  PROVE  /\ registered' \in [Controller -> [Der -> CertId \cup {Nil}]]
         /\ \A c \in Controller, f \in Der :
              \/ registered'[c][f] \in {registered[c][f], Nil}
              \/ /\ registered'[c][f] \in CertId
                 /\ registered'[c][f] < nextCert'
                 /\ certs'[registered'[c][f]] # Nil => certs'[registered'[c][f]].leaf = f
<1> DEFINE Goal ==
      /\ registered' \in [Controller -> [Der -> CertId \cup {Nil}]]
      /\ \A c \in Controller, f \in Der :
           \/ registered'[c][f] \in {registered[c][f], Nil}
           \/ /\ registered'[c][f] \in CertId
              /\ registered'[c][f] < nextCert'
              /\ certs'[registered'[c][f]] # Nil => certs'[registered'[c][f]].leaf = f
<1>1. registered \in [Controller -> [Der -> CertId \cup {Nil}]]
  BY DEF BaseInv, TypeInv, TLSTypeOK
<1>2. ASSUME UNCHANGED registered
      PROVE  Goal
  BY <1>1, <1>2
<1>3. ASSUME NEW c \in Controller, registered' = [registered EXCEPT ![c] = NoneRegistered]
      PROVE  Goal
  BY <1>1, <1>3 DEF NoneRegistered
<1>4. ASSUME NEW c \in Controller, NEW f \in Der, NEW i \in CertId, RegisterCert(c, f, i),
             i < nextCert', certs'[i] # Nil => certs'[i].leaf = f
      PROVE  Goal
  <2>1. registered' \in [Controller -> [Der -> CertId \cup {Nil}]]
    BY <1>1, <1>4 DEF RegisterCert
  <2>2. \A x \in Controller, g \in Der :
          registered'[x][g] = IF x = c /\ g = f THEN i ELSE registered[x][g]
    BY <1>1, <1>4 DEF RegisterCert
  <2> QED BY <1>4, <2>1, <2>2
<1> HIDE DEF Goal
<1>5. ASSUME NEW c \in Controller, NEW h \in Host, ListCerts(c, h)
      PROVE  Goal
  <2>1. UNCHANGED <<certs, nextCert>>
    BY <1>5, ListEffect
  <2>2. PICK r \in Readings :
          /\ Usable(r.content)
          /\ \/ UNCHANGED registered
             \/ \E i \in CertId :
                  /\ certs[i] # Nil /\ certs[i].leaf = Fingerprint(r.content)
                  /\ RegisterCert(c, Fingerprint(r.content), i)
    BY <1>5, ListEffect
  <2>3. Fingerprint(r.content) \in Der
    BY <2>2, UsableType
  <2>4. \A i \in CertId : certs[i] # Nil => i < nextCert
    BY DEF BaseInv, TypeInv, TLSTypeOK
  <2> QED BY <1>2, <1>4, <2>1, <2>2, <2>3, <2>4
<1>6. ASSUME NEW c \in Controller, CreateCert(c)
      PROVE  Goal
  <2>1. PICK r : r = sync[c].read[sync[c].host]
    OBVIOUS
  <2>2. /\ Usable(r.content)
        /\ \/ UNCHANGED registered
           \/ /\ nextCert \in CertId
              /\ certs' = [certs EXCEPT ![nextCert] = Uploaded(c, r.name, r.content)]
              /\ nextCert' = nextCert + 1
              /\ RegisterCert(c, Fingerprint(r.content), nextCert)
    BY <1>6, <2>1, CreateEffect
  <2>3. Fingerprint(r.content) \in Der
    BY <2>2, UsableType
  <2>4. certs' = [certs EXCEPT ![nextCert] = Uploaded(c, r.name, r.content)] =>
          (nextCert \in CertId => certs'[nextCert].leaf = Fingerprint(r.content))
    BY DEF BaseInv, TypeInv, Uploaded
  <2>5. nextCert < nextCert + 1
    BY TLSAssumption DEF BaseInv, TypeInv, TLSTypeOK
  <2> QED BY <1>2, <1>4, <2>2, <2>3, <2>4, <2>5
<1>7. ASSUME NEW c \in Controller, RestartTLS(c)
      PROVE  Goal
  BY <1>3, <1>7 DEF RestartTLS, NewProcess
<1>8. ASSUME NEW c \in Controller, NEW h \in Host,
             AnswerById(c, h) \/ RejectSecret(c, h) \/ AnswerFromMemory(c, h)
      PROVE  UNCHANGED registered
  BY <1>8 DEF AnswerById, RejectSecret, AnswerFromMemory
<1>9. ASSUME NEW c \in Controller, StartTLS(c) \/ EndTLS(c) \/ GetService(c) \/ Translate(c)
      PROVE  UNCHANGED registered
  BY <1>9 DEF StartTLS, EndTLS, GetService, Translate
<1>10. ASSUME \/ \E s \in Secret, x \in Contents : WriteSecret(s, x)
              \/ \E s \in Service : WriteService(s)
              \/ \E i \in CertId : RemoveCert(i)
              \/ UNCHANGED inputVars
       PROVE  UNCHANGED registered
  BY <1>10 DEF WriteSecret, WriteService, RemoveCert, inputVars, tlsVars
<1>11. Goal
  BY <1>2, <1>5, <1>6, <1>7, <1>8, <1>9, <1>10 DEF Next, Certify, StepTLS, Surroundings
<1> QED BY <1>11 DEF Goal

-----------------------------------------------------------------------------
(* The invariant.                                                           *)

\* A controller's state stays one that SyncTLS has.
LEMMA SyncTypeStep ==
  ASSUME BaseInv, [Next]_inputVars
  PROVE  /\ sync' \in [Controller -> SyncState]
         /\ \A c \in Controller :
              sync'[c].pc = "create" => sync'[c].host \in sync'[c].todo
<1>1. /\ sync \in [Controller -> SyncState]
      /\ \A c \in Controller : sync[c].pc = "create" => sync[c].host \in sync[c].todo
  BY DEF BaseInv, TypeInv, TLSTypeOK
<1>2. ASSUME NEW c \in Controller
      PROVE  /\ sync'[c] \in SyncState
             /\ sync'[c].pc = "create" => sync'[c].host \in sync'[c].todo
  <2>1. Moved(c) /\ sync[c] \in SyncState /\ sync[c].todo \subseteq Host
    BY <1>1, AllMove DEF SyncState
  <2>2. CASE sync'[c] = sync[c]
    BY <1>1, <2>2
  <2>3. CASE sync'[c] = Idle
    BY <2>3, IdleState
  <2>4. CASE sync'[c] = [Idle EXCEPT !.pc = "hosts", !.todo = SecretHosts(ingress[c])]
    <3>1. SecretHosts(ingress[c]) \in SUBSET Host
      BY DEF SecretHosts
    <3> QED BY <2>4, <3>1, StartState
  <2>5. ASSUME NEW h \in sync[c].todo, NEW i \in CertId, NEW r \in Readings,
               sync'[c] = Answered(sync[c], h, i, r)
        PROVE  /\ sync'[c] \in SyncState
               /\ sync'[c].pc = "create" => sync'[c].host \in sync'[c].todo
    BY <2>1, <2>5, AnswerState
  <2>6. ASSUME NEW h \in sync[c].todo, NEW r \in Readings,
               sync'[c] = Creating(sync[c], h, r)
        PROVE  /\ sync'[c] \in SyncState
               /\ sync'[c].pc = "create" => sync'[c].host \in sync'[c].todo
    BY <2>1, <2>6, CreatingState
  <2>7. CASE sync'[c] = [sync[c] EXCEPT !.pc = "certs"]
    BY <2>1, <2>7, EndState
  <2> QED BY <2>1, <2>2, <2>3, <2>4, <2>5, <2>6, <2>7 DEF Moved
<1> QED BY <1>2, AllMove

\* What the portal has stays typed.
LEMMA CertsTypeStep ==
  ASSUME BaseInv, [Next]_inputVars
  PROVE  /\ nextCert' \in 1..(MaxCerts + 1)
         /\ \A i \in CertId : certs'[i] # Nil =>
              /\ i < nextCert'
              /\ certs'[i].leaf \in Parsable
              /\ certs'[i].by \in Controller \cup {Nil}
<1>1. /\ nextCert \in 1..(MaxCerts + 1)
      /\ certs = [i \in CertId |-> certs[i]]
      /\ \A i \in CertId : certs[i] # Nil => /\ i < nextCert
                                             /\ certs[i].leaf \in Parsable
                                             /\ certs[i].by \in Controller \cup {Nil}
  BY DEF BaseInv, TypeInv, TLSTypeOK
<1>2. CASE nextCert' = nextCert /\ \A i \in CertId : certs'[i] \in {certs[i], Nil}
  BY <1>1, <1>2
<1>3. ASSUME NEW c \in Controller, CreateCert(c), nextCert \in CertId,
             nextCert' = nextCert + 1,
             certs' = [certs EXCEPT ![nextCert] =
               Uploaded(c, sync[c].read[sync[c].host].name,
                           sync[c].read[sync[c].host].content)]
      PROVE  /\ nextCert' \in 1..(MaxCerts + 1)
             /\ \A i \in CertId : certs'[i] # Nil =>
                  /\ i < nextCert'
                  /\ certs'[i].leaf \in Parsable
                  /\ certs'[i].by \in Controller \cup {Nil}
  <2>1. PICK u : u = Uploaded(c, sync[c].read[sync[c].host].name,
                                 sync[c].read[sync[c].host].content)
    OBVIOUS
  <2>2. u.leaf \in Parsable /\ u.by = c
    BY <1>3, <2>1, CreateEffect, UsableType DEF Uploaded
  <2>3. \A i \in CertId : certs'[i] = IF i = nextCert THEN u ELSE certs[i]
    BY <1>1, <1>3, <2>1
  <2>4. MaxCerts \in Nat
    BY TLSAssumption
  <2>5. nextCert' \in 1..(MaxCerts + 1)
    BY <1>3, <2>4 DEF CertId
  <2>6. ASSUME NEW i \in CertId, certs'[i] # Nil
        PROVE  /\ i < nextCert'
               /\ certs'[i].leaf \in Parsable
               /\ certs'[i].by \in Controller \cup {Nil}
    <3>1. CASE i = nextCert
      BY <1>3, <2>2, <2>3, <3>1 DEF CertId
    <3>2. CASE i # nextCert
      <4>1. certs'[i] = certs[i]
        BY <2>3, <3>2
      <4>2. i < nextCert /\ nextCert < nextCert'
        BY <1>1, <1>3, <2>6, <4>1 DEF CertId
      <4>3. i < nextCert'
        BY <1>3, <4>2 DEF CertId
      <4> QED BY <1>1, <2>6, <4>1, <4>3
    <3> QED BY <3>1, <3>2
  <2> QED BY <2>5, <2>6
<1> QED BY <1>2, <1>3, CertsMove

\* Secrets take contents; the inputs and the ingresses stay what they are.
LEMMA SecretsStep ==
  ASSUME TypeInv, [Next]_inputVars
  PROVE  /\ secrets' \in [Secret -> Content \cup {Nil}]
         /\ input' = [c \in Controller |-> input'[c]]
<1>1. /\ secrets \in [Secret -> Content \cup {Nil}]
      /\ input = [c \in Controller |-> input[c]]
  BY DEF TypeInv, TLSTypeOK
<1>2. secrets' \in [Secret -> Content \cup {Nil}]
  <2>1. CASE \E s \in Secret, x \in Contents : WriteSecret(s, x)
    BY <1>1, <2>1, InputAssumption DEF WriteSecret
  <2>2. ASSUME NEW c \in Controller, StepTLS(c)
        PROVE  UNCHANGED secrets
    BY <2>2 DEF StepTLS, StartTLS, AnswerById, RejectSecret, AnswerFromMemory, ListCerts,
                Turn, CreateCert, EndTLS
  <2>3. ASSUME NEW c \in Controller, RestartTLS(c) \/ GetService(c) \/ Translate(c)
        PROVE  UNCHANGED secrets
    BY <2>3 DEF RestartTLS, GetService, Translate
  <2>4. ASSUME \/ \E s \in Service : WriteService(s)
               \/ \E i \in CertId : RemoveCert(i)
               \/ UNCHANGED inputVars
        PROVE  UNCHANGED secrets
    BY <2>4 DEF WriteService, RemoveCert, inputVars, tlsVars
  <2> QED BY <1>1, <2>1, <2>2, <2>3, <2>4 DEF Next, Certify, Surroundings
<1>3. input' = [c \in Controller |-> input'[c]]
  <2>1. ASSUME NEW c \in Controller, NEW x, input' = [input EXCEPT ![c] = x]
        PROVE  input' = [d \in Controller |-> input'[d]]
    BY <1>1, <2>1
  <2>2. CASE \E c \in Controller : Certify(c) \/ Translate(c)
    <3> QED BY <2>1, <2>2, Zenon DEF Certify, Translate
  <2>3. CASE UNCHANGED input
    BY <1>1, <2>3
  <2>4. CASE \/ \E c \in Controller : GetService(c)
             \/ \E s \in Service : WriteService(s)
             \/ Surroundings
             \/ UNCHANGED inputVars
    BY <2>3, <2>4 DEF GetService, WriteService, Surroundings, inputVars
  <2> QED BY <2>2, <2>4 DEF Next
<1> QED BY <1>2, <1>3

\* Types are kept.
LEMMA TypeStep ==
  ASSUME BaseInv, [Next]_inputVars
  PROVE  TypeInv'
<1>1. registered' \in [Controller -> [Der -> CertId \cup {Nil}]]
  BY RegisteredMove
<1>2. UNCHANGED ingress /\ certs' = [i \in CertId |-> certs'[i]]
  BY CertsMove
<1>3. \A c \in Controller :
        /\ sync'[c].pc \in {"idle", "hosts", "create", "certs"}
        /\ sync'[c].todo \subseteq Host
        /\ sync'[c].answer \in [Host -> CertId \cup {Nil}]
        /\ sync'[c].pc = "create" => sync'[c].host \in sync'[c].todo
  BY SyncTypeStep DEF SyncState
<1>4. TLSTypeOK'
  BY <1>1, <1>3, CertsTypeStep, SecretsStep DEF TLSTypeOK, BaseInv
<1> QED BY <1>2, <1>4, SyncTypeStep, SecretsStep DEF TypeInv, BaseInv

\* While a controller creates a certificate only others upload: when it does, it
\* creates no longer.
LEMMA CreateStep ==
  ASSUME BaseInv, [Next]_inputVars
  PROVE  CreateInv'
<1> SUFFICES ASSUME NEW c \in Controller, sync'[c].pc = "create"
             PROVE  LET r == sync'[c].read[sync'[c].host] IN
                    /\ r \in Readings /\ r.name \in Secret
                    /\ r.name = HostSecret(ingress'[c])[sync'[c].host]
                    /\ Usable(r.content)
                    /\ \A i \in CertId : certs'[i] # Nil /\ certs'[i].by = c =>
                         certs'[i].leaf # Fingerprint(r.content)
  BY DEF CreateInv
<1>1. UNCHANGED ingress
  BY CertsMove
<1>2. Moved(c) /\ sync[c] \in SyncState /\ sync[c].todo \subseteq Host
  BY AllMove DEF BaseInv, TypeInv, SyncState
<1>3. CASE sync'[c] = sync[c]
  <2>1. PICK r : r = sync[c].read[sync[c].host]
    OBVIOUS
  <2>2. /\ sync[c].pc = "create"
        /\ r \in Readings /\ r.name \in Secret
        /\ r.name = HostSecret(ingress[c])[sync[c].host]
        /\ Usable(r.content)
        /\ \A i \in CertId : certs[i] # Nil /\ certs[i].by = c =>
             certs[i].leaf # Fingerprint(r.content)
    BY <1>3, <2>1 DEF BaseInv, CreateInv
  <2>3. ~CreateCert(c)
    BY <1>2, <1>3, <2>2, CreateEffect, IdleState, AnswerState
       DEF Fail, Change, BaseInv, TypeInv
  <2>4. \A i \in CertId : certs'[i] # Nil /\ certs'[i].by = c =>
          certs[i] # Nil /\ certs'[i] = certs[i]
    <3>1. ASSUME NEW x \in Controller, CreateCert(x), NEW u, u.by = x,
                 certs' = [certs EXCEPT ![nextCert] = u]
          PROVE  \A i \in CertId : certs'[i] # Nil /\ certs'[i].by = c =>
                   certs[i] # Nil /\ certs'[i] = certs[i]
      BY <2>3, <3>1 DEF BaseInv, TypeInv
    <3> QED BY <3>1, CertsMove DEF Uploaded
  <2> QED BY <1>1, <1>3, <2>1, <2>2, <2>4
<1>4. ASSUME NEW h \in sync[c].todo, NEW r \in Readings,
             sync'[c] = Creating(sync[c], h, r),
             r.name = HostSecret(ingress[c])[h], r.name \in Secret,
             Usable(r.content), UNCHANGED certs,
             \A i \in CertId : certs[i] # Nil => certs[i].leaf # Fingerprint(r.content)
      PROVE  LET q == sync'[c].read[sync'[c].host] IN
             /\ q \in Readings /\ q.name \in Secret
             /\ q.name = HostSecret(ingress'[c])[sync'[c].host]
             /\ Usable(q.content)
             /\ \A i \in CertId : certs'[i] # Nil /\ certs'[i].by = c =>
                  certs'[i].leaf # Fingerprint(q.content)
  <2>1. sync'[c].host = h /\ sync'[c].read[h] = r
    BY <1>2, <1>4, CreatingState
  <2> QED BY <1>1, <1>4, <2>1
<1>5. sync'[c] # Idle
  BY IdleState
<1>6. sync'[c] # [Idle EXCEPT !.pc = "hosts", !.todo = SecretHosts(ingress[c])]
  <2>1. SecretHosts(ingress[c]) \in SUBSET Host
    BY DEF SecretHosts
  <2> QED BY <2>1, StartState
<1>7. ASSUME NEW h \in sync[c].todo, NEW i \in CertId, NEW r \in Readings
      PROVE  sync'[c] # Answered(sync[c], h, i, r)
  BY <1>2, <1>7, AnswerState
<1>8. sync'[c] # [sync[c] EXCEPT !.pc = "certs"]
  BY <1>2, EndState
<1> QED BY <1>2, <1>3, <1>4, <1>5, <1>6, <1>7, <1>8 DEF Moved

\* A removed certificate has no fingerprint, an upload takes an id nobody knows.
LEMMA RegisteredStep ==
  ASSUME BaseInv, [Next]_inputVars
  PROVE  RegisteredByFingerprint'
<1> SUFFICES ASSUME NEW c \in Controller, NEW f \in Der, registered'[c][f] # Nil
             PROVE  /\ registered'[c][f] < nextCert'
                    /\ certs'[registered'[c][f]] # Nil =>
                         certs'[registered'[c][f]].leaf = f
  BY DEF RegisteredByFingerprint
<1>1. CASE registered'[c][f] = registered[c][f]
  <2>1. PICK i \in CertId : i = registered[c][f]
    BY <1>1 DEF BaseInv, TypeInv, TLSTypeOK
  <2>2. i < nextCert /\ (certs[i] # Nil => certs[i].leaf = f)
    BY <1>1, <2>1 DEF BaseInv, RegisteredByFingerprint
  <2>3. nextCert \in Nat
    BY TLSAssumption DEF BaseInv, TypeInv, TLSTypeOK
  <2>4. i < nextCert' /\ certs'[i] \in {certs[i], Nil}
    BY <2>2, <2>3, CertsMove DEF BaseInv, TypeInv, CertId
  <2> QED BY <1>1, <2>1, <2>2, <2>4
<1> QED BY <1>1, RegisteredMove

\* A new upload differs from all its controller made before.
LEMMA UploadStep ==
  ASSUME BaseInv, OneUploadEach, [Next]_inputVars
  PROVE  OneUploadEach'
<1> SUFFICES ASSUME NEW i \in CertId, NEW j \in CertId,
                    certs'[i] # Nil, certs'[j] # Nil,
                    certs'[i].leaf = certs'[j].leaf,
                    certs'[i].by = certs'[j].by, certs'[i].by # Nil
             PROVE  i = j
  BY DEF OneUploadEach
<1>1. CASE \A k \in CertId : certs'[k] \in {certs[k], Nil}
  BY <1>1 DEF OneUploadEach
<1>2. ASSUME NEW c \in Controller, CreateCert(c), nextCert \in CertId,
             certs' = [certs EXCEPT ![nextCert] =
               Uploaded(c, sync[c].read[sync[c].host].name,
                           sync[c].read[sync[c].host].content)]
      PROVE  i = j
  <2>1. PICK u, f : /\ u = Uploaded(c, sync[c].read[sync[c].host].name,
                                       sync[c].read[sync[c].host].content)
                    /\ f = Fingerprint(sync[c].read[sync[c].host].content)
    OBVIOUS
  <2>2. u.leaf = f /\ u.by = c
    BY <2>1 DEF Uploaded
  <2>3. \A k \in CertId : certs'[k] = IF k = nextCert THEN u ELSE certs[k]
    BY <1>2, <2>1 DEF BaseInv, TypeInv
  <2>4. \A k \in CertId : certs[k] # Nil /\ certs[k].by = c => certs[k].leaf # f
    BY <1>2, <2>1, CreateEffect DEF BaseInv, CreateInv
  <2> QED BY <2>2, <2>3, <2>4 DEF OneUploadEach
<1> QED BY <1>1, <1>2, CertsMove

\* At first nothing is registered, and what is in the portal is nobody's upload.
LEMMA BaseStarts ==
  ASSUME Init
  PROVE  BaseInv /\ OneUploadEach
<1>1. PICK start \in Start : /\ ingress = start.ingress
                             /\ secrets = start.secrets
                             /\ services = start.services
                             /\ TLSInit(start.upload)
  BY DEF Init
<1>2. /\ start.secrets \in [Secret -> Content \cup {Nil}]
      /\ \A c \in Controller : IngressOK(start.ingress[c])
      /\ start.upload # Nil => /\ start.upload.leaf \in Parsable
                               /\ start.upload.by = Nil
                               /\ 1 \in CertId
  BY InputAssumption
<1>3. /\ sync \in [Controller -> SyncState]
      /\ \A c \in Controller : sync[c].pc = "idle"
  BY <1>1, IdleState DEF TLSInit
<1>4. /\ registered \in [Controller -> [Der -> CertId \cup {Nil}]]
      /\ \A c \in Controller, f \in Der : registered[c][f] = Nil
  BY <1>1 DEF TLSInit, NoneRegistered
<1>5. /\ certs = [i \in CertId |-> certs[i]]
      /\ \A i \in CertId : certs[i] = IF i = 1 THEN start.upload ELSE Nil
      /\ nextCert = IF start.upload = Nil THEN 1 ELSE 2
  BY <1>1 DEF TLSInit
<1>6. nextCert \in 1..(MaxCerts + 1)
  BY <1>2, <1>5, TLSAssumption DEF CertId
<1>7. TLSTypeOK
  BY <1>1, <1>2, <1>3, <1>4, <1>5, <1>6 DEF TLSTypeOK, SyncState
<1>8. input = [c \in Controller |-> input[c]]
  BY DEF Init
<1>9. TypeInv
  BY <1>1, <1>2, <1>3, <1>5, <1>7, <1>8 DEF TypeInv
<1>10. CreateInv
  BY <1>3 DEF CreateInv
<1>11. RegisteredByFingerprint
  BY <1>4 DEF RegisteredByFingerprint
<1>12. OneUploadEach
  BY <1>2, <1>5 DEF OneUploadEach
<1> QED BY <1>9, <1>10, <1>11, <1>12 DEF BaseInv

\* So it is at first, and so it stays.
LEMMA BaseInvariant == InputSpec => [](BaseInv /\ OneUploadEach)
<1>1. Init => BaseInv /\ OneUploadEach
  BY BaseStarts
<1>2. BaseInv /\ OneUploadEach /\ [Next]_inputVars => (BaseInv /\ OneUploadEach)'
  BY TypeStep, CreateStep, RegisteredStep, UploadStep DEF BaseInv
<1> QED BY <1>1, <1>2, PTL DEF InputSpec

\* The certificate part of the state keeps its types.
THEOREM CertificatesTyped == InputSpec => []TLSTypeOK
<1>1. BaseInv => TLSTypeOK
  BY DEF BaseInv, TypeInv
<1> QED BY <1>1, BaseInvariant, PTL

\* The map of SyncTLS never gives a fingerprint another certificate.
THEOREM RegisteredStaysRight == InputSpec => []RegisteredByFingerprint
<1>1. BaseInv => RegisteredByFingerprint
  BY DEF BaseInv
<1> QED BY <1>1, BaseInvariant, PTL

\* SyncCertificate uploads no certificate twice, whatever is lost or restarted.
THEOREM UploadsStayUnique == InputSpec => []OneUploadEach
BY BaseInvariant, PTL

\* What is sent of a bundle, for every Secret there may be.
THEOREM BundlesStayWhole == InputSpec => []UploadsAreBundles
<1>1. ASSUME TypeInv, NEW s \in Secret, secrets[s] # Nil, secrets[s].crt # Nil
      PROVE  secrets[s].crt \in Seq(Line)
  <2>1. secrets[s] \in Content
    BY <1>1 DEF TypeInv, TLSTypeOK
  <2>2. secrets[s].crt \in Text
    BY <1>1, <2>1 DEF Content
  <2> QED BY <2>2, InputAssumption
<1>2. BaseInv => UploadsAreBundles
  BY <1>1, SplitIsRight DEF BaseInv, UploadsAreBundles
<1> QED BY <1>2, BaseInvariant, PTL

-----------------------------------------------------------------------------
(* What the hosts are answered.                                             *)

\* The hosts still to do have no answer, the others with a name have the right
\* one, for what was read of that name.
AnswersOK(s, ing) ==
  /\ s.todo \subseteq SecretHosts(ing)
  /\ s.pc = "certs" => s.todo = {}
  /\ \A h \in Host :
       /\ s.pc # "idle" /\ h \in SecretHosts(ing) \ s.todo => s.answer[h] # Nil
       /\ s.answer[h] # Nil =>
            /\ h \in SecretHosts(ing) /\ h \notin s.todo
            /\ s.read[h] \in Readings /\ s.read[h].name = HostSecret(ing)[h]
            /\ RightCert(s.read[h], s.answer[h])

AnswersInv == \A c \in Controller : AnswersOK(sync[c], ingress[c])

\* So have the hosts of the input that is made of the answers.
InputOK(in, ing) ==
  /\ DOMAIN in.lb.vhosts = Hosts(ing)
  /\ \A h \in Hosts(ing) :
       LET i == in.lb.vhosts[h].cert
           r == in.read[h]
       IN /\ in.lb.vhosts[h].ssl = (i # Nil)
          /\ in.lb.vhosts[h].ports = IF i # Nil THEN {443} ELSE {80}
          /\ i # Nil <=> h \in SecretHosts(ing)
          /\ i # Nil => /\ i \in CertId
                        /\ r \in Readings /\ r.name = HostSecret(ing)[h]
                        /\ RightCert(r, i)

InputsInv == \A c \in Controller : input[c] # Nil => InputOK(input[c], ingress[c])

\* What was right stays right: the portal gives no id twice and changes nothing.
LEMMA RightKept ==
  ASSUME BaseInv, [Next]_inputVars, NEW r, NEW i \in CertId, RightCert(r, i)
  PROVE  RightCert(r, i)'
<1>1. i < nextCert /\ nextCert \in Nat /\ i \in Nat
  BY TLSAssumption DEF RightCert, BaseInv, TypeInv, TLSTypeOK, CertId
<1>2. i < nextCert' /\ certs'[i] \in {certs[i], Nil}
  BY <1>1, CertsMove DEF BaseInv, TypeInv
<1> QED BY <1>2 DEF RightCert

\* The answers stay right.
LEMMA AnswersStep ==
  ASSUME BaseInv, AnswersInv, [Next]_inputVars
  PROVE  AnswersInv'
<1> SUFFICES ASSUME NEW c \in Controller
             PROVE  AnswersOK(sync[c], ingress[c])'
  BY DEF AnswersInv
<1>0. PICK s, new, ing : s = sync[c] /\ new = sync'[c] /\ ing = ingress[c]
  OBVIOUS
<1>1. ing = ingress'[c]
  BY <1>0, CertsMove
<1> SUFFICES AnswersOK(new, ing)'
  BY <1>0, <1>1 DEF AnswersOK, RightCert
<1>2. Moved(c) /\ s \in SyncState /\ s.todo \subseteq Host
  BY <1>0, AllMove DEF BaseInv, TypeInv, SyncState
<1>3. AnswersOK(s, ing)
  BY <1>0 DEF AnswersInv
<1>4. ASSUME NEW h \in Host, s.answer[h] # Nil, NEW r, NEW i, r = s.read[h],
             i = s.answer[h]
      PROVE  RightCert(r, i)'
  <2>1. i \in CertId /\ RightCert(r, i)
    BY <1>2, <1>3, <1>4 DEF AnswersOK, SyncState
  <2> QED BY <2>1, RightKept
<1>5. AnswersOK(s, ing)'
  BY <1>3, <1>4 DEF AnswersOK, RightCert
<1>6. ASSUME NEW x \in SyncState, x.todo \subseteq SecretHosts(ing), x.pc # "certs",
             x.pc = "idle" \/ x.todo = SecretHosts(ing),
             \A h \in Host : x.answer[h] = Nil
      PROVE  AnswersOK(x, ing)'
  BY <1>6 DEF AnswersOK
<1>7. CASE new = s
  BY <1>5, <1>7
<1>8. CASE new = Idle
  BY <1>6, <1>8, IdleState
<1>9. CASE new = [Idle EXCEPT !.pc = "hosts", !.todo = SecretHosts(ing)]
  <2>1. SecretHosts(ing) \in SUBSET Host
    BY DEF SecretHosts
  <2> QED BY <1>6, <1>9, <2>1, StartState
<1>10. ASSUME NEW h \in s.todo, NEW i \in CertId, NEW r \in Readings,
              s.pc \in {"hosts", "create"}, new = Answered(s, h, i, r),
              r.name = HostSecret(ing)[h], RightCert(r, i)'
       PROVE  AnswersOK(new, ing)'
  <2>1. h \in Host /\ h \in SecretHosts(ing)
    BY <1>2, <1>3 DEF AnswersOK
  <2>2. /\ new.pc = "hosts" /\ new.todo = s.todo \ {h}
        /\ \A x \in Host : /\ new.answer[x] = IF x = h THEN i ELSE s.answer[x]
                           /\ new.read[x] = IF x = h THEN r ELSE s.read[x]
    BY <1>2, <1>10, <2>1, AnswerState
  <2>3. i # Nil
    BY TLSAssumption
  <2>4. ASSUME NEW x \in Host
        PROVE  (/\ x \in SecretHosts(ing) \ new.todo => new.answer[x] # Nil
                /\ new.answer[x] # Nil =>
                     /\ x \in SecretHosts(ing) /\ x \notin new.todo
                     /\ new.read[x] \in Readings
                     /\ new.read[x].name = HostSecret(ing)[x]
                     /\ RightCert(new.read[x], new.answer[x]))'
    <3>1. CASE x = h
      BY <1>10, <2>1, <2>2, <2>3, <3>1 DEF RightCert
    <3>2. CASE x # h
      BY <1>5, <1>10, <2>2, <3>2 DEF AnswersOK, RightCert
    <3> QED BY <3>1, <3>2
  <2>5. new.todo \subseteq SecretHosts(ing)
    BY <1>3, <2>2 DEF AnswersOK
  <2> QED BY <2>2, <2>4, <2>5 DEF AnswersOK
<1>11. ASSUME NEW h \in s.todo, NEW r \in Readings, s.pc = "hosts",
              new = Creating(s, h, r)
       PROVE  AnswersOK(new, ing)'
  <2>1. h \in Host /\ s.answer[h] = Nil
    BY <1>2, <1>3 DEF AnswersOK
  <2>2. /\ new.pc = "create" /\ new.todo = s.todo /\ new.answer = s.answer
        /\ \A x \in Host : x # h => new.read[x] = s.read[x]
    BY <1>2, <1>11, <2>1, CreatingState
  <2> QED BY <1>5, <1>11, <2>1, <2>2 DEF AnswersOK, RightCert
<1>12. CASE s.pc = "hosts" /\ s.todo = {} /\ new = [s EXCEPT !.pc = "certs"]
  <2>1. new.pc = "certs" /\ new.todo = s.todo /\ new.answer = s.answer /\ new.read = s.read
    BY <1>2, <1>12, EndState
  <2> QED BY <1>5, <1>12, <2>1 DEF AnswersOK, RightCert
<1> QED BY <1>0, <1>2, <1>7, <1>8, <1>9, <1>10, <1>11, <1>12 DEF Moved

\* What a controller passes on, when its certificates are there.
Translated(c) ==
  [lb   |-> TranslateIngressToLB(got[c], ingress[c], sync[c].answer),
   read |-> sync[c].read, from |-> got[c]]

\* An input is made by Translate, and forgotten.
LEMMA InputMoves ==
  ASSUME BaseInv, [Next]_inputVars, NEW c \in Controller, input'[c] # Nil
  PROVE  \/ input'[c] = input[c]
         \/ /\ sync[c].pc = "certs" /\ CanTranslate(got[c], ingress[c])
            /\ input'[c] = Translated(c)
<1>1. input = [x \in Controller |-> input[x]]
  BY DEF BaseInv, TypeInv
<1>2. ASSUME NEW x \in Controller, input' = [input EXCEPT ![x] = Nil]
      PROVE  input'[c] = input[c]
  BY <1>1, <1>2
<1>3. ASSUME NEW x \in Controller, Translate(x)
      PROVE  \/ input'[c] = input[c]
             \/ /\ sync[c].pc = "certs" /\ CanTranslate(got[c], ingress[c])
                /\ input'[c] = Translated(c)
  BY <1>1, <1>3 DEF Translate, Translated
<1>4. ASSUME NEW x \in Controller, Certify(x)
      PROVE  input'[c] = input[c]
  BY <1>2, <1>4 DEF Certify
<1>5. CASE \/ \E x \in Controller : GetService(x)
           \/ \E s \in Service : WriteService(s)
           \/ Surroundings
           \/ UNCHANGED inputVars
  BY <1>5 DEF GetService, WriteService, Surroundings, inputVars
<1> QED BY <1>3, <1>4, <1>5 DEF Next

\* The input is made of the right answers, and they stay right.
LEMMA InputsStep ==
  ASSUME BaseInv, AnswersInv, InputsInv, [Next]_inputVars
  PROVE  InputsInv'
<1> SUFFICES ASSUME NEW c \in Controller, input'[c] # Nil
             PROVE  InputOK(input[c], ingress[c])'
  BY DEF InputsInv
<1>0. PICK new, ing : new = input'[c] /\ ing = ingress[c]
  OBVIOUS
<1>1. ing = ingress'[c]
  BY <1>0, CertsMove
<1> SUFFICES InputOK(new, ing)'
  BY <1>0, <1>1, SMTT(30) DEF InputOK, RightCert
<1>2. ASSUME InputOK(new, ing)
      PROVE  InputOK(new, ing)'
  <2>1. ASSUME NEW h \in Hosts(ing), NEW i, NEW r,
               i = new.lb.vhosts[h].cert, r = new.read[h], i # Nil
        PROVE  RightCert(r, i)'
    <3>1. i \in CertId /\ RightCert(r, i)
      BY <1>2, <2>1 DEF InputOK
    <3> QED BY <3>1, RightKept
  <2> QED BY <1>2, <2>1 DEF InputOK, RightCert
<1>3. CASE new = input[c]
  <2>1. InputOK(new, ing)
    BY <1>0, <1>3 DEF InputsInv
  <2> QED BY <1>2, <2>1
<1>4. CASE sync[c].pc = "certs" /\ new = Translated(c)
  <2>1. PICK s : s = sync[c]
    OBVIOUS
  <2>2. AnswersOK(s, ing) /\ s.answer \in [Host -> CertId \cup {Nil}]
        /\ s.pc = "certs"
    BY <1>0, <1>4, <2>1 DEF AnswersInv, BaseInv, TypeInv, TLSTypeOK
  <2>3. /\ DOMAIN new.lb.vhosts = Hosts(ing)
        /\ new.read = s.read
        /\ \A h \in Hosts(ing) :
             /\ new.lb.vhosts[h].cert = s.answer[h]
             /\ new.lb.vhosts[h].ssl = (s.answer[h] # Nil)
             /\ new.lb.vhosts[h].ports = IF s.answer[h] # Nil THEN {443} ELSE {80}
    <3>1. /\ new.lb.vhosts = [h \in Hosts(ing) |-> VHostZone(got[c], ing, h, s.answer[h])]
          /\ new.read = s.read
      BY <1>0, <1>4, <2>1 DEF Translated, TranslateIngressToLB
    <3>2. \A h, i : LET zone == VHostZone(got[c], ing, h, i) IN
                    /\ zone.cert = i /\ zone.ssl = (i # Nil)
                    /\ zone.ports = IF i # Nil THEN {443} ELSE {80}
      BY DEF VHostZone
    <3> QED BY <3>1, <3>2
  <2>4. Hosts(ing) \subseteq Host
    BY <1>0, HostsTyped DEF BaseInv, TypeInv
  <2>5. ASSUME NEW h \in Hosts(ing)
        PROVE  /\ s.answer[h] \in CertId \cup {Nil}
               /\ s.answer[h] # Nil <=> h \in SecretHosts(ing)
               /\ s.answer[h] # Nil =>
                    /\ s.read[h] \in Readings /\ s.read[h].name = HostSecret(ing)[h]
                    /\ RightCert(s.read[h], s.answer[h])
    BY <2>2, <2>4 DEF AnswersOK
  <2>6. InputOK(new, ing)
    BY <2>3, <2>5 DEF InputOK
  <2> QED BY <1>2, <2>6
<1> QED BY <1>0, <1>3, <1>4, InputMoves

\* Nothing is answered and no input made at first.
LEMMA AnswersStart ==
  ASSUME Init
  PROVE  AnswersInv /\ InputsInv
<1>1. \A c \in Controller : sync[c] = Idle /\ input[c] = Nil
  BY DEF Init, TLSInit
<1>2. ASSUME NEW ing
      PROVE  AnswersOK(Idle, ing)
  BY IdleState DEF AnswersOK
<1> QED BY <1>1, <1>2 DEF AnswersInv, InputsInv

\* With what the names and the fingerprints are, every host has its certificate.
LEMMA CertsFollow ==
  ASSUME BaseInv, InputsInv
  PROVE  HostsHaveTheirCerts
<1> SUFFICES ASSUME NEW c \in Controller, input[c] # Nil,
                    NEW h \in DOMAIN input[c].lb.vhosts
             PROVE  LET zone == input[c].lb.vhosts[h]
                        name == NamedFor(ingress[c], h)
                    IN IF name = Nil THEN zone.cert = Nil /\ zone.ports = {80}
                       ELSE /\ zone.ssl /\ zone.ports = {443}
                            /\ input[c].read[h].name = name
                            /\ name \in Prefixed => zone.cert = IdOf[name]
                            /\ name \in Secret /\ certs[zone.cert] # Nil =>
                                 IsFirst(input[c].read[h].content.crt, certs[zone.cert].leaf)
  BY DEF HostsHaveTheirCerts, IsFirst
<1>0. PICK zone, name, r : /\ zone = input[c].lb.vhosts[h]
                           /\ name = NamedFor(ingress[c], h)
                           /\ r = input[c].read[h]
  OBVIOUS
<1>1. /\ h \in Hosts(ingress[c])
      /\ zone.ssl = (zone.cert # Nil)
      /\ zone.ports = IF zone.cert # Nil THEN {443} ELSE {80}
      /\ zone.cert # Nil <=> h \in SecretHosts(ingress[c])
      /\ zone.cert # Nil => /\ zone.cert \in CertId
                            /\ r \in Readings /\ r.name = HostSecret(ingress[c])[h]
                            /\ RightCert(r, zone.cert)
  BY <1>0 DEF InputsInv, InputOK
<1>2. IngressOK(ingress[c]) /\ h \in Host
  BY <1>1, HostsTyped DEF BaseInv, TypeInv
<1>3. HostSecret(ingress[c])[h] = name
  BY <1>0, <1>2, NamesAreRight
<1>4. zone.cert # Nil <=> name # Nil
  BY <1>1, <1>2, <1>3 DEF SecretHosts
<1>5. ASSUME name \in Secret, zone.cert # Nil, certs[zone.cert] # Nil
      PROVE  IsFirst(r.content.crt, certs[zone.cert].leaf)
  <2>1. /\ Usable(r.content)
        /\ certs[zone.cert].leaf = Fingerprint(r.content)
    BY <1>1, <1>3, <1>5 DEF RightCert
  <2>2. r.content.crt \in Seq(Line)
    <3>1. r.content \in Content
      BY <1>1, <1>5, <2>1 DEF Readings, Usable
    <3>2. r.content.crt \in Text
      BY <2>1, <3>1 DEF Content, Usable
    <3> QED BY <3>2, InputAssumption
  <2>3. Fingerprint(r.content) # Nil
    BY <2>1, UsableType, TLSAssumption
  <2> QED BY <2>1, <2>2, <2>3, FingerprintIsFirst DEF Fingerprint
<1>6. CASE name = Nil
  BY <1>0, <1>1, <1>4, <1>6
<1>7. CASE name # Nil
  <2>1. zone.ssl /\ zone.ports = {443} /\ r.name = name
    BY <1>1, <1>3, <1>4, <1>7
  <2>2. name \in Prefixed => zone.cert = IdOf[name]
    BY <1>1, <1>3, <1>4, <1>7 DEF RightCert
  <2> QED BY <1>0, <1>4, <1>5, <1>7, <2>1, <2>2
<1> QED BY <1>6, <1>7

\* Every host an input is about is served with its certificate, whatever the
\* controllers, the customer and the faults do.
THEOREM HostsKeepTheirCerts == InputSpec => []HostsHaveTheirCerts
<1>1. Init => AnswersInv /\ InputsInv
  BY AnswersStart
<1>2. /\ BaseInv /\ AnswersInv /\ InputsInv /\ [Next]_inputVars
      => AnswersInv' /\ InputsInv'
  BY AnswersStep, InputsStep
<1>3. BaseInv /\ InputsInv => HostsHaveTheirCerts
  BY CertsFollow
<1> QED BY <1>1, <1>2, <1>3, BaseInvariant, PTL DEF InputSpec

-----------------------------------------------------------------------------
(* Where the paths lead.                                                    *)

\* The Services are typed, those that have been read too, and an input is a
\* translation of some of them.
ServicesOK(from) ==
  /\ DOMAIN from = Service
  /\ \A s \in Service : from[s] # Nil => from[s].ports \in Seq(Port)

MadeOK(in, ing) ==
  /\ ServicesOK(in.from)
  /\ CanTranslate(in.from, ing)
  /\ \E answer : in.lb = TranslateIngressToLB(in.from, ing, answer)

MadeInv ==
  /\ ServicesOK(services)
  /\ got = [c \in Controller |-> got[c]]
  /\ \A c \in Controller : ServicesOK(got[c])
  /\ \A c \in Controller : input[c] # Nil => MadeOK(input[c], ingress[c])

\* So it is at first.
LEMMA MadeStarts ==
  ASSUME Init
  PROVE  MadeInv
<1>1. PICK start \in Start : services = start.services
  BY DEF Init
<1>2. ServicesOK(start.services)
  BY InputAssumption DEF ServicesOK
<1>3. \A c \in Controller : input[c] = Nil
  BY DEF Init
<1>4. /\ got = [c \in Controller |-> got[c]]
      /\ \A c \in Controller : ServicesOK(got[c])
  BY DEF Init, NoServices, ServicesOK
<1> QED BY <1>1, <1>2, <1>3, <1>4 DEF MadeInv

\* A Service that is written is one of the variants.
LEMMA ServicesStep ==
  ASSUME ServicesOK(services), [Next]_inputVars
  PROVE  ServicesOK(services')
<1>1. ASSUME NEW c \in Controller, Certify(c) \/ GetService(c) \/ Translate(c)
      PROVE  UNCHANGED services
  BY <1>1 DEF Certify, GetService, Translate
<1>2. ASSUME NEW s \in Service, WriteService(s)
      PROVE  ServicesOK(services')
  <2>1. PICK v \in Variants : services' = [services EXCEPT ![s] = v]
    BY <1>2 DEF WriteService
  <2>2. v.ports \in Seq(Port)
    BY InputAssumption
  <2> QED BY <2>1, <2>2 DEF ServicesOK
<1>3. CASE Surroundings \/ UNCHANGED inputVars
  BY <1>3 DEF Surroundings, inputVars
<1> QED BY <1>1, <1>2, <1>3 DEF Next

\* What a translation reads is a Service as it is; the next has read none.
LEMMA GotStep ==
  ASSUME MadeInv, [Next]_inputVars
  PROVE  /\ got' = [c \in Controller |-> got'[c]]
         /\ \A c \in Controller : ServicesOK(got'[c])
<1>1. /\ ServicesOK(services)
      /\ got = [c \in Controller |-> got[c]]
      /\ \A c \in Controller : ServicesOK(got[c])
  BY DEF MadeInv
<1>2. ASSUME NEW c \in Controller, NEW f, ServicesOK(f), got' = [got EXCEPT ![c] = f]
      PROVE  /\ got' = [x \in Controller |-> got'[x]]
             /\ \A x \in Controller : ServicesOK(got'[x])
  BY <1>1, <1>2
<1>3. ServicesOK(NoServices)
  BY DEF NoServices, ServicesOK
<1>4. ASSUME NEW c \in Controller, got' = [got EXCEPT ![c] = NoServices]
      PROVE  \E f : ServicesOK(f) /\ got' = [got EXCEPT ![c] = f]
  BY <1>3, <1>4
<1>5. ASSUME NEW c \in Controller, GetService(c)
      PROVE  \E f : ServicesOK(f) /\ got' = [got EXCEPT ![c] = f]
  <2>1. PICK s : \/ got' = [got EXCEPT ![c] = NoServices]
                 \/ services[s] # Nil /\ got' = [got EXCEPT ![c][s] = services[s]]
    BY <1>5 DEF GetService
  <2>2. CASE services[s] # Nil /\ got' = [got EXCEPT ![c][s] = services[s]]
    <3> DEFINE f == [got[c] EXCEPT ![s] = services[s]]
    <3>1. ServicesOK(f)
      BY <1>1, <2>2 DEF ServicesOK
    <3> HIDE DEF f
    <3>2. got' = [got EXCEPT ![c] = f]
      BY <2>2 DEF f
    <3> QED BY <3>1, <3>2
  <2> QED BY <1>4, <2>1, <2>2
<1>6. CASE UNCHANGED got
  BY <1>1, <1>6
<1>7. ASSUME NEW c \in Controller, Certify(c) \/ Translate(c)
      PROVE  got' = [got EXCEPT ![c] = NoServices]
  BY <1>7 DEF Certify, Translate
<1>8. CASE \/ \E s \in Service : WriteService(s)
           \/ Surroundings
           \/ UNCHANGED inputVars
  BY <1>6, <1>8 DEF WriteService, Surroundings, inputVars
<1> QED BY <1>2, <1>4, <1>5, <1>7, <1>8 DEF Next

\* Translate makes an input of the Services read, and only where it can.
LEMMA MadeStep ==
  ASSUME BaseInv, MadeInv, [Next]_inputVars
  PROVE  MadeInv'
<1>1. ServicesOK(services')
  BY ServicesStep DEF MadeInv
<1>2. ASSUME NEW c \in Controller, input'[c] # Nil
      PROVE  MadeOK(input'[c], ingress[c])
  <2>1. PICK new, ing, answer :
          new = input'[c] /\ ing = ingress[c] /\ answer = sync[c].answer
    OBVIOUS
  <2>2. CASE new = input[c]
    BY <1>2, <2>1, <2>2 DEF MadeInv
  <2>3. CASE CanTranslate(got[c], ing) /\ new = Translated(c)
    <3>1. /\ new.from = got[c]
          /\ new.lb = TranslateIngressToLB(got[c], ing, answer)
      BY <2>1, <2>3 DEF Translated
    <3> QED BY <2>1, <2>3, <3>1 DEF MadeInv, MadeOK
  <2> QED BY <1>2, <2>1, <2>2, <2>3, InputMoves
<1>3. UNCHANGED ingress
  BY CertsMove
<1> QED BY <1>1, <1>2, <1>3, GotStep DEF MadeInv, MadeOK, ServicesOK, CanTranslate

\* It is an invariant.
LEMMA MadeInvariant == InputSpec => [](BaseInv /\ MadeInv)
<1>1. BaseInv /\ MadeInv /\ [Next]_inputVars => MadeInv'
  BY MadeStep
<1> QED BY <1>1, MadeStarts, BaseInvariant, PTL DEF InputSpec

\* The upstream zone of a path, and whose annotations are in it.
LEMMA ZoneOfPath ==
  ASSUME NEW from, NEW ing, NEW p \in Paths(ing)
  PROVE  LET zone == UpstreamZones(from, ing)[UpstreamId(from, p)] IN
         /\ zone.targets = {<<ip, NodePort(from, p)>> : ip \in NodeIp}
         /\ zone.settings = UpstreamSettings(from[p.service].notes)
<1> DEFINE id == UpstreamId(from, p)
           q == CHOOSE x \in Paths(ing) : UpstreamId(from, x) = id
<1>1. q \in Paths(ing) /\ UpstreamId(from, q) = id
  OBVIOUS
<1>2. q.service = p.service /\ NodePort(from, q) = NodePort(from, p)
  <2> HIDE DEF q
  <2> QED BY <1>1 DEF UpstreamId
<1>3. UpstreamZones(from, ing)[id] =
        [targets  |-> {<<ip, NodePort(from, q)>> : ip \in NodeIp},
         settings |-> UpstreamSettings(from[q.service].notes)]
  BY DEF UpstreamZones
<1> HIDE DEF q
<1> QED BY <1>2, <1>3

\* A path's Service has its port and the port is the one to look for.
LEMMA PortOfPath ==
  ASSUME NEW from, ServicesOK(from), NEW p \in RulePath, Reachable(from, p)
  PROVE  LET open == {i \in DOMAIN from[p.service].ports :
                        from[p.service].ports[i].port = p.port}
         IN NodePort(from, p) = from[p.service].ports[Min(open)].nodePort
<1>1. p.service \in Service /\ from[p.service] # Nil
  BY DEF Reachable, RulePath
<1>2. PICK ports \in Seq(Port) : ports = from[p.service].ports
  BY <1>1 DEF ServicesOK
<1> DEFINE open == Open(ports, p, Len(ports))
<1>3. MatchingPort(from, p) = IF open = {} THEN Nil ELSE ports[Min(open)]
  BY <1>2, FirstPort, InputAssumption
<1>4. MatchingPort(from, p) # Nil
  BY DEF Reachable
<1>5. open = {i \in DOMAIN ports : ports[i].port = p.port}
  BY DEF Open
<1> HIDE DEF open
<1> QED BY <1>2, <1>3, <1>4, <1>5 DEF NodePort

\* Path j of rule r is a location of its host in lb, with the upstream of the path.
IsLocation(lb, from, ing, r, j) ==
  LET p  == ing.rules[r].paths[j]
      at == lb.vhosts[ing.rules[r].host].locations[Position(ing, r, j)]
  IN at.path = p.path /\ at.upstream = UpstreamId(from, p)

\* Each path is a location of its host, with the upstream of the path.
LEMMA LocationOfPath ==
  ASSUME NEW from, NEW ing, IngressOK(ing), NEW answer,
         NEW r \in DOMAIN ing.rules, ing.rules[r].http,
         NEW j \in DOMAIN ing.rules[r].paths
  PROVE  IsLocation(TranslateIngressToLB(from, ing, answer), from, ing, r, j)
<1>1. PICK h, p, place :
        h = ing.rules[r].host /\ p = ing.rules[r].paths[j] /\ place = Position(ing, r, j)
  OBVIOUS
<1>2. place \in DOMAIN PathsOf(ing, h) /\ PathsOf(ing, h)[place] = p
  BY <1>1, PositionRight
<1>3. h \in Hosts(ing)
  BY <1>1 DEF Hosts
<1>4. TranslateIngressToLB(from, ing, answer).vhosts[h] = VHostZone(from, ing, h, answer[h])
  BY <1>3 DEF TranslateIngressToLB
<1>5. VHostZone(from, ing, h, answer[h]).locations =
        [i \in DOMAIN PathsOf(ing, h) |->
           [path     |-> PathsOf(ing, h)[i].path,
            upstream |-> UpstreamId(from, PathsOf(ing, h)[i])]]
  BY DEF VHostZone
<1>6. VHostZone(from, ing, h, answer[h]).locations[place] =
        [path |-> p.path, upstream |-> UpstreamId(from, p)]
  BY <1>2, <1>5
<1> QED BY <1>1, <1>4, <1>6 DEF IsLocation

\* What PathsLeadToTheirService says of path j of rule r of one input.
Leads(in, ing, r, j) ==
  LET p    == ing.rules[r].paths[j]
      zone == in.lb.vhosts[ing.rules[r].host]
      at   == zone.locations[Position(ing, r, j)]
      open == {q \in DOMAIN in.from[p.service].ports :
                 in.from[p.service].ports[q].port = p.port}
  IN /\ at.path = p.path
     /\ in.lb.upstreams[at.upstream].targets =
          {<<ip, in.from[p.service].ports[Min(open)].nodePort>> : ip \in NodeIp}

\* With what an input is made of, a path of it leads where it should.
LEMMA PathLeads ==
  ASSUME NEW in, NEW ing, IngressOK(ing), MadeOK(in, ing),
         NEW r \in DOMAIN ing.rules, ing.rules[r].http,
         NEW j \in DOMAIN ing.rules[r].paths
  PROVE  Leads(in, ing, r, j)
<1> DEFINE p  == ing.rules[r].paths[j]
           at == in.lb.vhosts[ing.rules[r].host].locations[Position(ing, r, j)]
           port(x) == LET open == {q \in DOMAIN in.from[x.service].ports :
                                     in.from[x.service].ports[q].port = x.port}
                      IN in.from[x.service].ports[Min(open)].nodePort
<1>1. PICK answer : in.lb = TranslateIngressToLB(in.from, ing, answer)
  BY DEF MadeOK
<1>2. at.path = p.path /\ at.upstream = UpstreamId(in.from, p)
  <2>1. IsLocation(TranslateIngressToLB(in.from, ing, answer), in.from, ing, r, j)
    BY LocationOfPath
  <2>2. IsLocation(in.lb, in.from, ing, r, j)
    BY <1>1, <2>1
  <2> QED BY <2>2 DEF IsLocation
<1>3. p \in Paths(ing)
  BY PathsHaveAll
<1>4. p \in RulePath
  <2>1. PICK rules \in Seq(Rule) : rules = ing.rules
    BY DEF IngressOK
  <2>2. PICK rule \in Rule : rule = rules[r]
    BY <2>1
  <2>3. rule.paths \in Seq(RulePath)
    BY DEF Rule
  <2>4. j \in DOMAIN rule.paths /\ p = rule.paths[j]
    BY <2>1, <2>2
  <2> HIDE DEF p
  <2> QED BY <2>3, <2>4
<1> HIDE DEF p, at
<1>5. in.lb.upstreams[at.upstream].targets = {<<ip, NodePort(in.from, p)>> : ip \in NodeIp}
  <2>1. in.lb.upstreams = UpstreamZones(in.from, ing)
    BY <1>1 DEF TranslateIngressToLB
  <2> QED BY <1>2, <1>3, <2>1, ZoneOfPath
<1>6. ServicesOK(in.from) /\ Reachable(in.from, p)
  BY <1>3 DEF MadeOK, CanTranslate
<1>7. NodePort(in.from, p) = port(p)
  BY <1>4, <1>6, PortOfPath
<1> HIDE DEF port
<1>8. in.lb.upstreams[at.upstream].targets = {<<ip, port(p)>> : ip \in NodeIp}
  BY <1>5, <1>7
<1> QED BY <1>2, <1>8 DEF p, at, port, Leads

\* So do all.
LEMMA PathsFollow ==
  ASSUME BaseInv, MadeInv
  PROVE  PathsLeadToTheirService
<1>1. ASSUME NEW c \in Controller, input[c] # Nil,
             NEW r \in DOMAIN ingress[c].rules, ingress[c].rules[r].http,
             NEW j \in DOMAIN ingress[c].rules[r].paths
      PROVE  Leads(input[c], ingress[c], r, j)
  <2>1. IngressOK(ingress[c]) /\ MadeOK(input[c], ingress[c])
    BY <1>1 DEF BaseInv, TypeInv, MadeInv
  <2> QED BY <1>1, <2>1, PathLeads
<1> QED BY <1>1 DEF PathsLeadToTheirService, Leads

\* Every path of every input is a location of its host, in the order of the rules,
\* and leads to the NodePort of its Service on every Node, however the Services
\* and the Secrets change.
THEOREM PathsKeepLeading == InputSpec => []PathsLeadToTheirService
<1>1. BaseInv /\ MadeInv => PathsLeadToTheirService
  BY PathsFollow
<1> QED BY <1>1, MadeInvariant, PTL

\* What SettingsAreOwn says of one host of an input.
SpeaksAsSaid(in, ing, h) ==
  LET paths == PathsOf(ing, h)
      note(i) == in.from[paths[i].service].notes["AppProtocol"]
      said == {i \in DOMAIN paths : note(i) # Nil}
  IN in.lb.vhosts[h].settings.http2 <=> said # {} /\ note(Max(said)) = "http2"

\* A host speaks HTTP/2 if the last of its annotated Services says so.
LEMMA ProtocolOfHost ==
  ASSUME NEW in, NEW ing, IngressOK(ing), MadeOK(in, ing), NEW h \in DOMAIN in.lb.vhosts
  PROVE  SpeaksAsSaid(in, ing, h)
<1> DEFINE paths == PathsOf(ing, h)
           said == {i \in DOMAIN paths : in.from[paths[i].service].notes["AppProtocol"] # Nil}
<1>1. PICK answer : in.lb = TranslateIngressToLB(in.from, ing, answer)
  BY DEF MadeOK
<1>2. paths \in Seq(RulePath)
  <2>1. PICK at : /\ at \in [0..Len(ing.rules) -> Seq(RulePath)]
                  /\ PathsOf(ing, h) = at[Len(ing.rules)]
    BY PathsLoop DEF GathersOf
  <2>2. Len(ing.rules) \in 0..Len(ing.rules)
    BY DEF IngressOK
  <2> QED BY <2>1, <2>2
<1>3. PICK notes : notes = LastWin(in.from, paths)
  OBVIOUS
<1>4. in.lb.vhosts[h].settings.http2 = (notes["AppProtocol"] = "http2")
  <2>1. in.lb.vhosts = [x \in Hosts(ing) |-> VHostZone(in.from, ing, x, answer[x])]
    BY <1>1 DEF TranslateIngressToLB
  <2>2. in.lb.vhosts[h] = VHostZone(in.from, ing, h, answer[h])
    BY <2>1
  <2>3. in.lb.vhosts[h].settings = VHostSettings(notes)
    BY <1>3, <2>2 DEF VHostZone
  <2>4. VHostSettings(notes).http2 = (notes["AppProtocol"] = "http2")
    BY DEF VHostSettings
  <2> QED BY <2>3, <2>4
<1> HIDE DEF paths
<1>5. notes["AppProtocol"] =
        LET all == Saying(in.from, paths, "AppProtocol", Len(paths)) IN
        IF all = {} THEN Nil ELSE in.from[paths[Max(all)].service].notes["AppProtocol"]
  <2>1. "AppProtocol" \in Note
    BY DEF Note, VHostNote
  <2> QED BY <1>2, <1>3, <2>1, LastSays
<1>6. Saying(in.from, paths, "AppProtocol", Len(paths)) = said
  BY <1>2 DEF Saying
<1> HIDE DEF said
<1>7. notes["AppProtocol"] =
        IF said = {} THEN Nil ELSE in.from[paths[Max(said)].service].notes["AppProtocol"]
  BY <1>5, <1>6
<1>8. in.lb.vhosts[h].settings.http2 <=>
        /\ said # {}
        /\ in.from[paths[Max(said)].service].notes["AppProtocol"] = "http2"
  BY <1>4, <1>7, InputAssumption
<1> QED BY <1>8 DEF paths, said, SpeaksAsSaid

\* The annotations in an upstream zone are those of its Service.
LEMMA NotesOfUpstream ==
  ASSUME NEW in, NEW ing, MadeOK(in, ing),
         NEW u \in DOMAIN in.lb.upstreams, NEW n \in TextNote
  PROVE  in.lb.upstreams[u].settings[n] = in.from[u.service].notes[n]
<1>1. in.lb.upstreams = UpstreamZones(in.from, ing)
  BY DEF MadeOK, TranslateIngressToLB
<1>2. PICK p \in Paths(ing) : u = UpstreamId(in.from, p)
  BY <1>1 DEF UpstreamZones
<1>3. in.lb.upstreams[u].settings = UpstreamSettings(in.from[p.service].notes)
  BY <1>1, <1>2, ZoneOfPath
<1>4. n \notin NumberNote
  BY DEF TextNote, NumberNote
<1>5. UpstreamSettings(in.from[p.service].notes)[n] = in.from[p.service].notes[n]
  BY <1>4 DEF UpstreamSettings
<1>6. u.service = p.service
  BY <1>2 DEF UpstreamId
<1> QED BY <1>3, <1>5, <1>6

\* The annotations in an input are those of the Services it was made from.
LEMMA SettingsFollow ==
  ASSUME BaseInv, MadeInv
  PROVE  SettingsAreOwn
<1>1. \A c \in Controller : input[c] # Nil =>
        IngressOK(ingress[c]) /\ MadeOK(input[c], ingress[c])
  BY DEF BaseInv, TypeInv, MadeInv
<1>2. ASSUME NEW c \in Controller, input[c] # Nil, NEW h \in DOMAIN input[c].lb.vhosts
      PROVE  SpeaksAsSaid(input[c], ingress[c], h)
  BY <1>1, <1>2, ProtocolOfHost
<1>3. ASSUME NEW c \in Controller, input[c] # Nil,
             NEW u \in DOMAIN input[c].lb.upstreams, NEW n \in TextNote
      PROVE  input[c].lb.upstreams[u].settings[n] = input[c].from[u.service].notes[n]
  BY <1>1, <1>3, NotesOfUpstream
<1> QED BY <1>2, <1>3 DEF SettingsAreOwn, SpeaksAsSaid

\* A Service's annotations decide about its own upstream zones, and about a host
\* unless a later path of it leads to a Service that has the annotation.
THEOREM SettingsStayOwn == InputSpec => []SettingsAreOwn
<1>1. BaseInv /\ MadeInv => SettingsAreOwn
  BY SettingsFollow
<1> QED BY <1>1, MadeInvariant, PTL
=============================================================================

------------------------- MODULE IngressSyncProofs -------------------------
(* The invariants on which the theorems about IngressSync rest, for every   *)
(* value of the constants: the types of the state, and the invariants of    *)
(* the queue and the registry below it, which hold in the whole system, too. *)
EXTENDS IngressSync, LBManagerProofs, WorkQueueProofs

WorkerState ==
  [pc    : {"idle", "list", "cleanup", "tls", "translate", "lb", "finish"},
   key   : Key \cup {Nil},
   ing   : Ingress \cup {Nil},
   todo  : SUBSET (Host \cup Service \cup Name),
   certs : [Host -> Value \cup {Nil}],
   got   : [Dep -> Value \cup {Nil}],
   input : Input \cup {Nil},
   err   : BOOLEAN,
   bad   : BOOLEAN]

\* A sync in progress has what its next step needs.
WorkerOK ==
  /\ worker \in WorkerState
  /\ worker.pc = "idle" => worker = Idle
  /\ worker.pc # "idle" => worker.key \in Key
  /\ worker.pc = "tls" => IsSc(worker.ing) /\ worker.todo \subseteq SecretHosts(worker.ing.spec)
  /\ worker.pc = "translate" =>
       IsSc(worker.ing) /\ worker.todo \subseteq worker.ing.spec.services
  /\ worker.pc = "lb" => /\ IsSc(worker.ing)
                         /\ worker.input \in Input
                         /\ worker.input.name = worker.ing.name
  /\ worker.pc \in {"list", "cleanup"} => ~IsSc(worker.ing)
  /\ worker.pc = "cleanup" => worker.todo \subseteq Name

\* Everything a step reads has its type.
TypeInv == SyncTypeOK /\ WorkerOK /\ depWrites \in Nat /\ restarts \in Nat

-----------------------------------------------------------------------------
(* The records the worker goes through. *)

\* An idle worker holds nothing.
LEMMA IdleState == /\ Idle \in WorkerState
                   /\ Idle.pc = "idle" /\ Idle.ing = Nil /\ Idle.input = Nil
BY DEF Idle, WorkerState, NoCerts, NoDeps

\* The end of a sync keeps the key, the ingress and the error.
LEMMA FinishingState ==
  ASSUME NEW w \in WorkerState, NEW e \in BOOLEAN
  PROVE  /\ Finishing(w, e) \in WorkerState
         /\ Finishing(w, e).pc = "finish"
         /\ Finishing(w, e).key = w.key
         /\ Finishing(w, e).ing = w.ing
         /\ Finishing(w, e).err = e
BY DEF Finishing, Idle, WorkerState, NoCerts, NoDeps

\* So does the end of a sync that failed on what the cluster holds.
LEMMA BadDataState ==
  ASSUME NEW w \in WorkerState
  PROVE  /\ BadData(w) \in WorkerState
         /\ BadData(w).pc = "finish"
         /\ BadData(w).key = w.key
         /\ BadData(w).ing = w.ing
         /\ BadData(w).err = TRUE
<1>1. Finishing(w, TRUE) \in WorkerState
  BY FinishingState
<1> QED BY <1>1, FinishingState DEF BadData, WorkerState

\* The end of a sync is a proper state of the worker.
LEMMA FinishedOK ==
  ASSUME TypeInv, worker.pc # "idle", NEW e \in BOOLEAN,
         worker' = Finishing(worker, e) \/ worker' = BadData(worker),
         UNCHANGED processing
  PROVE  /\ WorkerOK'
         /\ worker'.pc = "finish" /\ worker'.key = worker.key /\ worker'.ing = worker.ing
         /\ processing' = IF worker'.pc = "idle" THEN {} ELSE {worker'.key}
<1>1. worker \in WorkerState /\ worker.key \in Key /\ processing = {worker.key}
  BY DEF TypeInv, WorkerOK, SyncTypeOK
<1>2. /\ worker' \in WorkerState
      /\ worker'.pc = "finish" /\ worker'.key = worker.key /\ worker'.ing = worker.ing
  <2>1. CASE worker' = Finishing(worker, e)
    BY <1>1, <2>1, FinishingState
  <2>2. CASE worker' = BadData(worker)
    BY <1>1, <2>2, BadDataState
  <2> QED BY <2>1, <2>2
<1> QED BY <1>1, <1>2 DEF WorkerOK

\* The certificate of a host is looked for in a Secret.
LEMMA SecretOfHost ==
  ASSUME NEW s \in Spec, NEW h \in SecretHosts(s)
  PROVE  h \in Host /\ HostSecret(s)[h] \in Secret
BY SpecAssumption DEF SecretHosts, HostSecret

-----------------------------------------------------------------------------
(* Every step keeps the types. *)

\* A process starts with the types.
LEMMA InitTyped == Init => TypeInv
<1> SUFFICES ASSUME Init PROVE TypeInv
  OBVIOUS
<1>1. SyncTypeOK
  BY SyncAssumption, IdleState DEF Init, WQInit, SyncTypeOK, Rev
<1>2. WorkerOK
  BY IdleState DEF Init, WorkerOK
<1> QED BY <1>1, <1>2 DEF Init, TypeInv

\* What users write has its type.
LEMMA UsersKeepTypes ==
  ASSUME TypeInv, Users
  PROVE  TypeInv'
<1> USE DEF TypeInv
<1>1. ASSUME NEW k \in Key, NEW ing \in Ingress \cup {Nil}, Write(k, ing),
             steady' \subseteq classed', classed' \subseteq Name
      PROVE  TypeInv'
  <2>1. rev' \in Rev
    BY <1>1, SyncAssumption DEF Write, SyncTypeOK, Rev
  <2>2. api' \in [Key -> Ingress \cup {Nil}]
    BY <1>1 DEF Write, SyncTypeOK
  <2>3. UNCHANGED <<dep, depWrites, storeVars, worker, restarts, tallies, processing>>
    BY <1>1 DEF Write, wqVars
  <2> QED BY <1>1, <2>1, <2>2, <2>3 DEF SyncTypeOK, WorkerOK, storeVars, tallies
<1>2. ASSUME NEW k \in Key, CreateIngress(k)
      PROVE  TypeInv'
  <2>1. PICK s \in Spec :
          LET ing == [name |-> NameOf[<<k, rev>>], rev |-> rev, spec |-> s] IN
          /\ Write(k, ing)
          /\ steady' = IF IsSc(ing) THEN steady \cup {ing.name} ELSE steady
          /\ classed' = IF IsSc(ing) THEN classed \cup {ing.name} ELSE classed
    BY <1>2 DEF CreateIngress
  <2> DEFINE ing == [name |-> NameOf[<<k, rev>>], rev |-> rev, spec |-> s]
  <2>2. ing \in Ingress /\ ing.name \in Name
    BY SyncAssumption DEF SyncTypeOK, Ingress
  <2> HIDE DEF ing
  <2>3. steady' \subseteq classed' /\ classed' \subseteq Name
    BY <2>1, <2>2 DEF SyncTypeOK, ing
  <2> QED BY <1>1, <2>1, <2>2, <2>3 DEF ing
<1>3. ASSUME NEW k \in Key, EditIngress(k)
      PROVE  TypeInv'
  <2>1. PICK s \in Spec :
          LET ing == [api[k] EXCEPT !.rev = rev, !.spec = s] IN
          /\ Write(k, ing)
          /\ steady' = IF IsSc(ing) THEN steady ELSE steady \ {ing.name}
          /\ classed' = IF IsSc(ing) THEN classed \cup {ing.name} ELSE classed
    BY <1>3 DEF EditIngress
  <2> DEFINE ing == [api[k] EXCEPT !.rev = rev, !.spec = s]
  <2>2. ing \in Ingress /\ ing.name \in Name
    BY <1>3 DEF EditIngress, SyncTypeOK, Ingress
  <2> HIDE DEF ing
  <2>3. steady' \subseteq classed' /\ classed' \subseteq Name
    BY <2>1, <2>2 DEF SyncTypeOK, ing
  <2> QED BY <1>1, <2>1, <2>2, <2>3 DEF ing
<1>4. ASSUME NEW k \in Key, DeleteIngress(k)
      PROVE  TypeInv'
  BY <1>1, <1>4 DEF DeleteIngress, SyncTypeOK
<1>5. ASSUME NEW d \in Dep, NEW v \in Value \cup {Nil}, WriteDep(d, v)
      PROVE  TypeInv'
  <2>1. dep' \in [Dep -> Value \cup {Nil}] /\ depWrites' \in Nat
    BY <1>5 DEF WriteDep, SyncTypeOK
  <2>2. UNCHANGED <<api, rev, storeVars, worker, restarts, tallies, classes, processing>>
    BY <1>5 DEF WriteDep, wqVars
  <2> QED BY <2>1, <2>2 DEF SyncTypeOK, WorkerOK, storeVars, tallies, classes
<1> QED BY <1>2, <1>3, <1>4, <1>5 DEF Users

\* A new process has the types of the first one.
LEMMA NewProcessTyped ==
  ASSUME TypeInv, NewProcess, restarts' \in Nat
  PROVE  TypeInv'
<1> USE DEF TypeInv
<1>1. /\ UNCHANGED <<api, rev, dep, depWrites, steady, classed>>
      /\ cache' = [k \in Key |-> Nil] /\ depCache' = dep
      /\ notifs' = <<>> /\ depNotifs' = {} /\ toAdd' = {}
      /\ worker' = Idle /\ processing' = {} /\ dropped' = {} /\ spoiled' = {}
  BY DEF NewProcess, StoreStart, clusterVars, classes
<1>2. SyncTypeOK'
  BY <1>1, IdleState DEF SyncTypeOK
<1>3. WorkerOK'
  BY <1>1, IdleState DEF WorkerOK
<1> QED BY <1>1, <1>2, <1>3

\* What informers and handlers pass on has its type.
LEMMA InformersKeepTypes ==
  ASSUME TypeInv, Informers
  PROVE  TypeInv'
<1> USE DEF TypeInv
<1>1. ASSUME UNCHANGED <<clusterVars, worker, restarts, tallies, classes, processing>>,
             cache' \in [Key -> Ingress \cup {Nil}],
             depCache' \in [Dep -> Value \cup {Nil}],
             notifs' \in Seq(Key \cup {Nil}),
             depNotifs' \subseteq Service \cup Secret,
             toAdd' \subseteq Key
      PROVE  TypeInv'
  BY <1>1 DEF SyncTypeOK, WorkerOK, clusterVars, tallies, classes
<1>2. ASSUME NEW k \in Key, ObserveIngress(k) \/ MissDelete(k)
      PROVE  TypeInv'
  <2>1. cache' \in [Key -> Ingress \cup {Nil}]
    BY <1>2 DEF ObserveIngress, MissDelete, SyncTypeOK
  <2>2. notifs' \in Seq(Key \cup {Nil})
    <3>1. notifs \in Seq(Key \cup {Nil})
      BY DEF SyncTypeOK
    <3>2. Append(notifs, k) \in Seq(Key \cup {Nil}) /\ Append(notifs, Nil) \in Seq(Key \cup {Nil})
      BY <3>1
    <3> QED BY <1>2, <3>1, <3>2 DEF ObserveIngress, MissDelete
  <2> QED BY <1>1, <1>2, <2>1, <2>2 DEF ObserveIngress, MissDelete, SyncTypeOK, wqVars
<1>3. CASE HandleIngressEvent
  <2>1. Tail(notifs) \in Seq(Key \cup {Nil})
    BY <1>3 DEF HandleIngressEvent, SyncTypeOK
  <2> QED BY <1>1, <1>3, <2>1 DEF HandleIngressEvent, Add, SyncTypeOK
<1>4. CASE HandleTombstone \/ \E k \in Key : IndexerPanics(k)
  BY <1>4, NewProcessTyped DEF HandleTombstone, IndexerPanics
<1>5. ASSUME NEW d \in Dep, ObserveDep(d)
      PROVE  TypeInv'
  <2>1. depCache' \in [Dep -> Value \cup {Nil}]
    BY <1>5 DEF ObserveDep, SyncTypeOK
  <2>2. depNotifs' \subseteq Service \cup Secret
    BY <1>5 DEF ObserveDep, SyncTypeOK, Dep
  <2> QED BY <1>1, <1>5, <2>1, <2>2 DEF ObserveDep, SyncTypeOK, wqVars
<1>6. ASSUME NEW d \in Dep, HandleDepEvent(d)
      PROVE  TypeInv'
  BY <1>1, <1>6 DEF HandleDepEvent, SyncTypeOK, wqVars
<1>7. ASSUME NEW k \in Key, AddDependent(k)
      PROVE  TypeInv'
  BY <1>1, <1>7 DEF AddDependent, Add, SyncTypeOK
<1>8. ASSUME NEW k \in Key, DelayPassed(k)
      PROVE  TypeInv'
  BY <1>1, <1>8 DEF DelayPassed, AddWaiting, SyncTypeOK, storeVars
<1> QED BY <1>2, <1>3, <1>4, <1>5, <1>6, <1>7, <1>8 DEF Informers

\* The ingress that is read from the store starts a sync of its kind.
LEMMA StartTyped ==
  ASSUME TypeInv, StartItem
  PROVE  /\ TypeInv'
         /\ \E k \in Key : /\ Get(k)
                           /\ worker'.key = k /\ worker'.ing = cache[k]
                           /\ worker'.pc = IF IsSc(cache[k]) THEN "tls" ELSE "list"
                           /\ worker'.todo = IF IsSc(cache[k])
                                             THEN SecretHosts(cache[k].spec) ELSE {}
                           /\ worker'.certs = NoCerts
<1> USE DEF TypeInv
<1>1. PICK k \in Key :
       /\ Get(k)
       /\ worker' = [Idle EXCEPT !.pc  = IF IsSc(cache[k]) THEN "tls" ELSE "list",
                                 !.key = k,
                                 !.ing = cache[k],
                                 !.todo = IF IsSc(cache[k])
                                          THEN SecretHosts(cache[k].spec) ELSE {}]
  BY DEF StartItem
<1>2. cache[k] \in Ingress \cup {Nil}
  BY DEF SyncTypeOK
<1>3. SecretHosts(cache[k].spec) \subseteq Host
  BY DEF SecretHosts
<1>4. /\ worker' \in WorkerState
      /\ worker'.key = k /\ worker'.ing = cache[k]
      /\ worker'.pc = IF IsSc(cache[k]) THEN "tls" ELSE "list"
      /\ worker'.todo = IF IsSc(cache[k]) THEN SecretHosts(cache[k].spec) ELSE {}
      /\ worker'.certs = NoCerts
  BY <1>1, <1>2, <1>3 DEF Idle, WorkerState, NoCerts, NoDeps
<1>5. WorkerOK'
  BY <1>4, <1>2 DEF WorkerOK, IsSc
<1>6. processing' = {k}
  BY <1>1 DEF Get, StartItem, SyncTypeOK
<1>7. UNCHANGED <<clusterVars, storeVars, restarts, tallies, classes>>
  BY DEF StartItem
<1>8. SyncTypeOK'
  BY <1>4, <1>6, <1>7 DEF SyncTypeOK, WorkerState, clusterVars, storeVars, tallies, classes
<1> QED BY <1>1, <1>4, <1>5, <1>7, <1>8 DEF clusterVars

\* A step that changes the worker only, to a proper state, keeps the types.
LEMMA WorkerOnlyTyped ==
  ASSUME TypeInv, WorkerOnly, WorkerOK', worker.pc # "idle", worker'.pc # "idle",
         worker'.key = worker.key
  PROVE  TypeInv'
<1>1. UNCHANGED <<clusterVars, storeVars, restarts, tallies, classes, processing>>
  BY DEF WorkerOnly, wqVars
<1>2. SyncTypeOK'
  BY <1>1 DEF TypeInv, WorkerOK, WorkerState, SyncTypeOK, clusterVars, storeVars, tallies,
              classes
<1> QED BY <1>1, <1>2 DEF TypeInv, clusterVars

\* So does the end of a sync.
LEMMA FinishingTyped ==
  ASSUME TypeInv, WorkerOnly, worker.pc # "idle", NEW e \in BOOLEAN,
         worker' = Finishing(worker, e) \/ worker' = BadData(worker)
  PROVE  TypeInv'
<1>1. UNCHANGED processing
  BY DEF WorkerOnly, wqVars
<1> QED BY <1>1, FinishedOK, WorkerOnlyTyped

\* The other steps of the worker keep the types, too.
LEMMA WorkerKeepsTypes ==
  ASSUME TypeInv, Worker
  PROVE  TypeInv'
<1> USE DEF TypeInv
<1>1. CASE StartItem
  BY <1>1, StartTyped
<1>2. CASE ListForCleanup
  <2>1. GetIds \ ValidLBs \subseteq Name
    BY DEF GetIds
  <2>2. WorkerOK' /\ worker'.pc = "cleanup" /\ worker'.key = worker.key
    BY <1>2, <2>1 DEF ListForCleanup, WorkerOK, WorkerState
  <2> QED BY <1>2, <2>2, WorkerOnlyTyped DEF ListForCleanup
<1>3. ASSUME NEW n \in Name, NEW err \in BOOLEAN, CleanupDelete(n, err)
      PROVE  TypeInv'
  <2>1. CASE err
    BY <1>3, <2>1, FinishingTyped DEF CleanupDelete
  <2>2. CASE ~err
    <3>1. worker' = [worker EXCEPT !.todo = worker.todo \ {n}]
      BY <1>3, <2>2 DEF CleanupDelete
    <3>2. WorkerOK' /\ worker'.pc = "cleanup" /\ worker'.key = worker.key
      BY <1>3, <3>1 DEF CleanupDelete, WorkerOK, WorkerState
    <3> QED BY <1>3, <3>2, WorkerOnlyTyped DEF CleanupDelete
  <2> QED BY <2>1, <2>2
<1>4. CASE CleanupDone
  BY <1>4, FinishingTyped DEF CleanupDone
<1>5. ASSUME NEW h \in Host, SyncHost(h)
      PROVE  TypeInv'
  <2> DEFINE content == depCache[HostSecret(worker.ing.spec)[h]]
  <2>1. worker.pc = "tls" /\ h \in worker.todo /\ WorkerOnly
    BY <1>5 DEF SyncHost
  <2>2. worker.ing.spec \in Spec
    BY <2>1 DEF WorkerOK, WorkerState, IsSc, Ingress
  <2>3. content \in Value \cup {Nil}
    <3>1. HostSecret(worker.ing.spec)[h] \in Dep
      BY <2>1, <2>2, SecretOfHost DEF WorkerOK, Dep
    <3> QED BY <3>1 DEF SyncTypeOK
  <2>4. \/ worker' = BadData(worker)
        \/ worker' = Finishing(worker, TRUE)
        \/ worker' = [worker EXCEPT !.todo = worker.todo \ {h}, !.certs[h] = content]
    BY <1>5 DEF SyncHost
  <2>5. ASSUME worker' = [worker EXCEPT !.todo = worker.todo \ {h}, !.certs[h] = content]
        PROVE  TypeInv'
    <3>1. WorkerOK' /\ worker'.pc = "tls" /\ worker'.key = worker.key
      BY <2>1, <2>3, <2>5 DEF WorkerOK, WorkerState
    <3> QED BY <2>1, <3>1, WorkerOnlyTyped
  <2> QED BY <2>1, <2>4, <2>5, FinishingTyped
<1>6. CASE Translate
  <2> DEFINE s  == worker.ing.spec
             in == [name    |-> worker.ing.name,
                    cfg     |-> Rendering(s, worker.certs, worker.got),
                    cluster |-> s.cluster]
  <2>1. worker.pc = "translate" /\ worker.todo = {} /\ WorkerOnly
    BY <1>6 DEF Translate
  <2>2. worker.ing \in Ingress /\ worker.ing # Nil /\ IsSc(worker.ing)
    BY <2>1 DEF WorkerOK, WorkerState, IsSc
  <2>3. in \in Input /\ in.name = worker.ing.name
    BY <2>2, SpecAssumption DEF WorkerOK, WorkerState, SyncTypeOK, Ingress, Input
  <2>4. \/ worker' = BadData(worker)
        \/ worker' = [worker EXCEPT !.pc = "lb", !.certs = NoCerts, !.got = NoDeps,
                                    !.input = in]
    BY <1>6 DEF Translate
  <2> HIDE DEF in
  <2>5. ASSUME worker' = [worker EXCEPT !.pc = "lb", !.certs = NoCerts, !.got = NoDeps,
                                        !.input = in]
        PROVE  TypeInv'
    <3>1. WorkerOK' /\ worker'.pc = "lb" /\ worker'.key = worker.key
      BY <2>1, <2>2, <2>3, <2>5 DEF WorkerOK, WorkerState, NoCerts, NoDeps
    <3> QED BY <2>1, <3>1, WorkerOnlyTyped
  <2> QED BY <2>1, <2>4, <2>5, FinishingTyped
<1>7. ASSUME NEW err \in BOOLEAN, SyncLB(err)
      PROVE  TypeInv'
  BY <1>7, FinishingTyped DEF SyncLB
<1>8. CASE Finish
  <2>1. worker' = Idle /\ processing' = {}
    BY <1>8 DEF Finish, FinishItem, Done, SyncTypeOK
  <2>2. dropped' \subseteq Key /\ spoiled' \subseteq Key
    BY <1>8 DEF Finish, SyncTypeOK, WorkerOK
  <2>3. WorkerOK'
    BY <2>1, IdleState DEF WorkerOK
  <2>4. UNCHANGED <<clusterVars, storeVars, restarts, classes>>
    BY <1>8 DEF Finish
  <2>5. SyncTypeOK'
    BY <2>1, <2>2, <2>4, IdleState DEF SyncTypeOK, clusterVars, storeVars, classes
  <2> QED BY <2>3, <2>4, <2>5 DEF clusterVars
<1>9. CASE Panic
  BY <1>9, NewProcessTyped DEF Panic
<1>10. CASE GetNodes
  <2>1. worker.pc = "tls" /\ worker.todo = {} /\ WorkerOnly
    BY <1>10 DEF GetNodes
  <2>2. IsSc(worker.ing) /\ worker.ing.spec.services \subseteq Service
    BY <2>1, SpecAssumption DEF WorkerOK, WorkerState, IsSc, Ingress
  <2>3. depCache[Nodes] \in Value \cup {Nil}
    BY DEF SyncTypeOK, Dep
  <2>4. worker' = [worker EXCEPT !.pc = "translate", !.todo = worker.ing.spec.services,
                                 !.got[Nodes] = depCache[Nodes]]
    BY <1>10 DEF GetNodes
  <2>5. WorkerOK' /\ worker'.pc = "translate" /\ worker'.key = worker.key
    BY <2>1, <2>2, <2>3, <2>4 DEF WorkerOK, WorkerState
  <2> QED BY <2>1, <2>5, WorkerOnlyTyped
<1>11. ASSUME NEW s \in Service, GetService(s)
       PROVE  TypeInv'
  <2>1. worker.pc = "translate" /\ s \in worker.todo /\ WorkerOnly
    BY <1>11 DEF GetService
  <2>2. depCache[s] \in Value \cup {Nil}
    BY DEF SyncTypeOK, Dep
  <2>3. \/ worker' = BadData(worker)
        \/ worker' = [worker EXCEPT !.todo = worker.todo \ {s}, !.got[s] = depCache[s]]
    BY <1>11 DEF GetService
  <2>4. ASSUME worker' = [worker EXCEPT !.todo = worker.todo \ {s}, !.got[s] = depCache[s]]
        PROVE  TypeInv'
    <3>1. WorkerOK' /\ worker'.pc = "translate" /\ worker'.key = worker.key
      BY <2>1, <2>2, <2>4 DEF WorkerOK, WorkerState
    <3> QED BY <2>1, <3>1, WorkerOnlyTyped
  <2> QED BY <2>1, <2>3, <2>4, FinishingTyped
<1> QED BY <1>1, <1>2, <1>3, <1>4, <1>5, <1>6, <1>7, <1>8, <1>9, <1>10, <1>11 DEF Worker

\* Every step keeps the types.
LEMMA StepTyped ==
  ASSUME TypeInv, [Next]_vars
  PROVE  TypeInv'
<1>1. CASE Restart
  BY <1>1, NewProcessTyped DEF Restart, TypeInv
<1>2. CASE UNCHANGED vars
  BY <1>2 DEF vars, clusterVars, storeVars, tallies, classes, wqVars, TypeInv, SyncTypeOK,
              WorkerOK
<1> QED BY <1>1, <1>2, UsersKeepTypes, InformersKeepTypes, WorkerKeepsTypes DEF Next

\* The state above the manager and the queue has its types, and a key is in the
\* queue's hands exactly while the worker has it.
THEOREM SyncTyped == SyncSpec => []SyncTypeOK
<1>1. SyncSpec => []TypeInv
  BY InitTyped, StepTyped, PTL DEF SyncSpec
<1> QED BY <1>1, PTL DEF TypeInv

-----------------------------------------------------------------------------
(* The queue and the manager below: every step is a step of theirs, or a    *)
(* new process.                                                             *)

\* The queue is used through its methods only, by one worker.
LEMMA StepOfQueue ==
  ASSUME TypeInv, [Next]_vars
  PROVE  \/ [WQNext]_wqVars
         \/ NewProcess
<1> USE DEF TypeInv
<1>1. CASE Users
  BY <1>1 DEF Users, CreateIngress, EditIngress, DeleteIngress, Write, WriteDep
<1>2. CASE Informers
  <2>1. ASSUME NEW k \in Key, ObserveIngress(k) \/ MissDelete(k)
        PROVE  UNCHANGED wqVars
    BY <2>1 DEF ObserveIngress, MissDelete
  <2>2. ASSUME HandleIngressEvent
        PROVE  WQNext
    <3>1. Head(notifs) \in Key /\ Add(Head(notifs))
      BY <2>2 DEF HandleIngressEvent, SyncTypeOK
    <3> QED BY <3>1 DEF WQNext
  <2>3. ASSUME NEW d \in Dep, ObserveDep(d) \/ HandleDepEvent(d)
        PROVE  UNCHANGED wqVars
    BY <2>3 DEF ObserveDep, HandleDepEvent
  <2>4. ASSUME NEW k \in Key, AddDependent(k) \/ DelayPassed(k)
        PROVE  WQNext
    BY <2>4 DEF AddDependent, DelayPassed, WQNext
  <2> QED BY <1>2, <2>1, <2>2, <2>3, <2>4 DEF Informers, HandleTombstone, IndexerPanics
<1>3. CASE Worker
  <2>1. ASSUME StartItem
        PROVE  WQNext
    BY <2>1 DEF StartItem, WQNext
  <2>2. ASSUME Finish
        PROVE  WQNext
    <3>1. worker.key \in Key /\ worker.err \in BOOLEAN
      BY <2>2 DEF Finish, WorkerOK, WorkerState
    <3> QED BY <2>2, <3>1 DEF Finish, WQNext
  <2>3. ASSUME NEW n \in Name, NEW err \in BOOLEAN, CleanupDelete(n, err)
        PROVE  UNCHANGED wqVars
    BY <2>3 DEF CleanupDelete, WorkerOnly
  <2>4. ASSUME NEW h \in Host, SyncHost(h)
        PROVE  UNCHANGED wqVars
    BY <2>4 DEF SyncHost, WorkerOnly
  <2>5. ASSUME NEW err \in BOOLEAN, SyncLB(err)
        PROVE  UNCHANGED wqVars
    BY <2>5 DEF SyncLB, WorkerOnly
  <2>6. ASSUME \/ ListForCleanup \/ CleanupDone \/ GetNodes \/ Translate
               \/ \E s \in Service : GetService(s)
        PROVE  UNCHANGED wqVars
    BY <2>6 DEF ListForCleanup, CleanupDone, GetNodes, GetService, Translate, WorkerOnly
  <2> QED BY <1>3, <2>1, <2>2, <2>3, <2>4, <2>5, <2>6 DEF Worker, Panic
<1> QED BY <1>1, <1>2, <1>3 DEF Next, Restart, vars

\* A call that only costs a fault leaves the tables alone.
OnlyFaults == faults' \in 0..MaxFaults /\ UNCHANGED <<resources, portal, nextId, acked>>

\* The faults of a call stay within the bound.
LEMMA SpendOnly ==
  ASSUME RegistryInv, NEW a, Spend(Cost(a))
  PROVE  faults' \in 0..MaxFaults
BY CostType, SpendType DEF RegistryInv

\* The manager is called by the worker only, for one key at a time.
LEMMA StepOfManager ==
  ASSUME RegistryInv, [Next]_vars
  PROVE  \/ OnlyFaults
         \/ NewProcess
         \/ \E err \in BOOLEAN : SyncLB(err)
         \/ \E n \in Name, err \in BOOLEAN : CleanupDelete(n, err)
<1>1. UNCHANGED lbVars => OnlyFaults
  BY DEF lbVars, OnlyFaults, RegistryInv, LBTypeOK
<1>2. CASE Users
  BY <1>1, <1>2 DEF Users, CreateIngress, EditIngress, DeleteIngress, Write, WriteDep
<1>3. CASE Informers
  <2>1. ASSUME NEW k \in Key, MissDelete(k)
        PROVE  OnlyFaults
    <3>1. Spend(Cost("lost")) /\ UNCHANGED <<resources, portal, nextId, acked>>
      BY <2>1 DEF MissDelete, Cost
    <3> QED BY <3>1, SpendOnly DEF OnlyFaults
  <2>2. ASSUME HandleIngressEvent
        PROVE  UNCHANGED lbVars
    BY <2>2 DEF HandleIngressEvent
  <2>3. ASSUME NEW d \in Dep, ObserveDep(d) \/ HandleDepEvent(d)
        PROVE  UNCHANGED lbVars
    BY <2>3 DEF ObserveDep, HandleDepEvent
  <2>4. ASSUME NEW k \in Key, ObserveIngress(k) \/ AddDependent(k) \/ DelayPassed(k)
        PROVE  UNCHANGED lbVars
    BY <2>4 DEF ObserveIngress, AddDependent, DelayPassed
  <2> QED BY <1>1, <1>3, <2>1, <2>2, <2>3, <2>4 DEF Informers, HandleTombstone, IndexerPanics
<1>4. CASE Worker
  <2>1. ASSUME NEW h \in Host, SyncHost(h)
        PROVE  OnlyFaults
    <3>1. PICK a \in Answers("cert") : Spend(Cost(a))
      BY <2>1 DEF SyncHost
    <3>2. UNCHANGED <<resources, portal, nextId, acked>>
      BY <2>1 DEF SyncHost
    <3> QED BY <3>1, <3>2, SpendOnly DEF OnlyFaults
  <2>2. ASSUME \/ StartItem \/ ListForCleanup \/ CleanupDone \/ GetNodes \/ Translate
               \/ Finish
               \/ \E s \in Service : GetService(s)
        PROVE  UNCHANGED lbVars
    BY <2>2 DEF StartItem, ListForCleanup, CleanupDone, GetNodes, GetService, Translate,
                Finish
  <2> QED BY <1>1, <1>4, <2>1, <2>2 DEF Worker, Panic
<1> QED BY <1>1, <1>2, <1>3, <1>4 DEF Next, Restart, vars

\* Its steps are steps of the manager.
LEMMA CallsOfManager ==
  ASSUME TypeInv, NewProcess \/ (\E err \in BOOLEAN : SyncLB(err))
                  \/ (\E n \in Name, err \in BOOLEAN : CleanupDelete(n, err))
  PROVE  LBNext
<1>1. NewProcess => LBNext
  BY DEF NewProcess, LBNext
<1>2. ASSUME NEW err \in BOOLEAN, SyncLB(err)
      PROVE  LBNext
  <2>1. worker.input \in Input
    BY <1>2 DEF SyncLB, TypeInv, WorkerOK
  <2> QED BY <1>2, <2>1 DEF SyncLB, LBNext
<1>3. ASSUME NEW n \in Name, NEW err \in BOOLEAN, CleanupDelete(n, err)
      PROVE  LBNext
  BY <1>3 DEF CleanupDelete, LBNext
<1> QED BY <1>1, <1>2, <1>3

\* Types, queue and registry.
BaseInv == TypeInv /\ QueueInv /\ RegistryInv

\* They hold at the start ...
LEMMA BaseStarts == Init => BaseInv
BY InitTyped, QueueStarts, InitRegistry DEF Init, BaseInv

\* ... and every step keeps them.
LEMMA BaseStep ==
  ASSUME BaseInv, [Next]_vars
  PROVE  BaseInv'
<1> USE DEF BaseInv
<1>1. QueueInv'
  <2>1. CASE NewProcess
    <3>1. WQInit'
      BY <2>1 DEF NewProcess, WQInit
    <3> QED BY <3>1, QueueAssumption DEF WQInit, QueueInv, WQTypeOK, QueueSound
  <2> QED BY <2>1, StepOfQueue, QueueStep
<1>2. RegistryInv'
  <2>1. CASE OnlyFaults
    BY <2>1 DEF OnlyFaults, RegistryInv, LBTypeOK, IdsAreOld, RegistrySound, SoundAt, GetIds
  <2> QED BY <2>1, StepOfManager, CallsOfManager, RegistryStep
<1> QED BY <1>1, <1>2, StepTyped

\* The invariant of the parts.
LEMMA BaseInvariant == SyncSpec => []BaseInv
BY BaseStarts, BaseStep, PTL DEF SyncSpec

\* In the whole system, too, no added key is lost and none is handed out twice:
\* the worker's retries, a restart and a panic do not disturb the queue.
THEOREM SyncQueueSound == SyncSpec => []QueueSound
BY BaseInvariant, PTL DEF BaseInv, QueueInv

\* A registered object always points at a load balancer of its own name.
THEOREM SyncRegistrySound == SyncSpec => []RegistrySound
BY BaseInvariant, PTL DEF BaseInv, RegistryInv

\* A retry the worker has counted is still to come.
THEOREM SyncRetriesScheduled == SyncSpec => []RetriesScheduled
<1>1. Init => RetriesScheduled
  BY DEF Init, WQInit, RetriesScheduled
<1>2. BaseInv /\ RetriesScheduled /\ [Next]_vars => RetriesScheduled'
  <2>1. NewProcess => RetriesScheduled'
    BY DEF NewProcess, RetriesScheduled
  <2> QED BY <2>1, StepOfQueue, RetriesStep DEF BaseInv
<1> QED BY <1>1, <1>2, BaseInvariant, PTL DEF SyncSpec

\* The controller uses its queue as PendingKeys promises it: with any restarts,
\* every step of the system is a step of the promise.
THEOREM SyncRefinesPendingKeys == SyncSpec => RefinesPendingKeys
<1>1. Init => Pending!PKInit
  BY DEF Init, WQInit, Pending!PKInit
<1>2. BaseInv /\ [Next]_vars => [Pending!PKNext]_Pending!pkVars
  <2>1. NewProcess => Pending!Forsake
    BY DEF NewProcess, Pending!Forsake
  <2>2. Pending!Forsake => Pending!PKNext
    BY DEF Pending!PKNext
  <2> QED BY <2>1, <2>2, StepOfQueue, QueueStepRefines DEF BaseInv
<1> QED BY <1>1, <1>2, BaseInvariant, PTL
        DEF SyncSpec, RefinesPendingKeys, Pending!PKSpec
=============================================================================

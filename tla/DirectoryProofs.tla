---------------------------- MODULE DirectoryProofs ----------------------------
(* What the owner of the portal's account can rely on, for every value of   *)
(* the constants: whose name is whose, which load balancers a cleanup may   *)
(* delete, and the refinement of LBDirectory.                               *)
EXTENDS IngressSyncProofs

\* Before the write v, name n has been given to an ingress of key k.
GivenBefore(v, k, n) == \E r \in Rev : r < v /\ n = NameOf[<<k, r>>]

NameOfKey(k, n) == GivenBefore(rev, k, n)

\* Copies of an ingress keep its name, and no other key has had it.
NamesInv ==
  /\ \A k \in Key : api[k] # Nil => NameOfKey(k, api[k].name)
  /\ \A k \in Key : cache[k] # Nil => NameOfKey(k, cache[k].name)
  /\ worker.ing # Nil => NameOfKey(worker.key, worker.ing.name)
  /\ \A n \in classed : \E k \in Key : NameOfKey(k, n)

\* What is registered, what exists and what is to be cleaned up belongs to an
\* ingress that has been of the class, and so does what looks like one.
ClassInv ==
  /\ \A k \in Key : IsSc(api[k]) => api[k].name \in classed
  /\ \A k \in Key : IsSc(cache[k]) => cache[k].name \in classed
  /\ IsSc(worker.ing) => worker.ing.name \in classed
  /\ GetIds \subseteq classed
  /\ \A i \in Id : portal[i] # Nil => portal[i].name \in classed
  /\ worker.pc = "cleanup" => worker.todo \subseteq classed

\* The store holds a version of the ingress of name n.
Stored(n) == \E k \in Key : cache[k] # Nil /\ cache[k].name = n

\* An ingress that has kept the class exists and every copy of it is of the
\* class; what is registered for it is in the store; no cleanup is about to
\* delete it.
SteadyInv ==
  /\ \A n \in steady : \E k \in Key : IsSc(api[k]) /\ api[k].name = n
  /\ \A k \in Key : cache[k] # Nil /\ cache[k].name \in steady => IsSc(cache[k])
  /\ \A n \in GetIds \cap steady : Stored(n)
  /\ worker.ing # Nil /\ worker.ing.name \in steady => Stored(worker.ing.name)
  /\ worker.pc = "cleanup" => worker.todo \cap steady = {}

-----------------------------------------------------------------------------
(* Names. *)

\* A name is given once.
LEMMA NamesApart ==
  ASSUME NEW k \in Key, NEW m \in Key, NEW n, NameOfKey(k, n), NameOfKey(m, n)
  PROVE  k = m
<1>1. PICK r \in Rev : n = NameOf[<<k, r>>]
  BY DEF NameOfKey, GivenBefore
<1>2. PICK q \in Rev : n = NameOf[<<m, q>>]
  BY DEF NameOfKey, GivenBefore
<1>3. <<k, r>> = <<m, q>>
  BY <1>1, <1>2, SyncAssumption
<1> QED BY <1>3

\* The name of an ingress that is created now is new.
LEMMA NameIsFresh ==
  ASSUME TypeInv, NEW k \in Key, NEW m \in Key
  PROVE  ~NameOfKey(m, NameOf[<<k, rev>>])
<1> SUFFICES ASSUME NEW r \in Rev, r < rev, NameOf[<<k, rev>>] = NameOf[<<m, r>>]
             PROVE  FALSE
  BY DEF NameOfKey, GivenBefore
<1>1. rev \in Rev
  BY DEF TypeInv, SyncTypeOK
<1>2. <<k, rev>> = <<m, r>>
  BY <1>1, SyncAssumption
<1> QED BY <1>1, <1>2, SyncAssumption DEF Rev

\* A name stays given.
LEMMA NamesStayGiven ==
  ASSUME rev \in Rev, rev' \in Rev, rev <= rev', NEW k, NEW n, NameOfKey(k, n)
  PROVE  GivenBefore(rev', k, n)
BY SyncAssumption DEF NameOfKey, GivenBefore, Rev

-----------------------------------------------------------------------------
(* Who copies an ingress, who registers and who deletes a load balancer.    *)

\* The copies of ingresses stay as they are, or the sync ends; what a cleanup has
\* to delete was listed, or is less than before.
CopiesStay ==
  /\ UNCHANGED <<api, rev, cache, classes>>
  /\ worker'.ing # Nil => worker'.ing = worker.ing /\ worker'.key = worker.key
  /\ worker'.pc = "cleanup" => \/ ListForCleanup
                               \/ worker.pc = "cleanup" /\ worker'.todo \subseteq worker.todo

\* Only users, the informer and the start of a sync touch copies of ingresses.
LEMMA StepOfCopies ==
  ASSUME TypeInv, [Next]_vars
  PROVE  \/ Users
         \/ NewProcess
         \/ \E k \in Key : ObserveIngress(k) \/ MissDelete(k)
         \/ StartItem
         \/ CopiesStay
<1>1. CASE Informers
  <2>1. ASSUME UNCHANGED <<api, rev, cache, classes, worker>>
        PROVE  CopiesStay
    BY <2>1 DEF CopiesStay
  <2>2. ASSUME HandleIngressEvent
        PROVE  CopiesStay
    BY <2>1, <2>2 DEF HandleIngressEvent, clusterVars
  <2>3. ASSUME NEW d \in Dep, ObserveDep(d) \/ HandleDepEvent(d)
        PROVE  CopiesStay
    BY <2>1, <2>3 DEF ObserveDep, HandleDepEvent, clusterVars
  <2>4. ASSUME NEW k \in Key, AddDependent(k) \/ DelayPassed(k)
        PROVE  CopiesStay
    BY <2>1, <2>4 DEF AddDependent, DelayPassed, clusterVars, storeVars
  <2> QED BY <1>1, <2>2, <2>3, <2>4 DEF Informers, HandleTombstone, IndexerPanics
<1>2. CASE Worker
  <2> USE DEF TypeInv, WorkerOK, WorkerState
  <2>1. ASSUME WorkerOnly, NEW e \in BOOLEAN,
               worker' = Finishing(worker, e) \/ worker' = BadData(worker)
        PROVE  CopiesStay
    <3>1. worker'.pc = "finish" /\ worker'.ing = worker.ing /\ worker'.key = worker.key
      <4> HIDE DEF WorkerState
      <4>1. worker \in WorkerState
        OBVIOUS
      <4>2. CASE worker' = Finishing(worker, e)
        BY <2>1, <4>1, <4>2, FinishingState
      <4>3. CASE worker' = BadData(worker)
        BY <4>1, <4>3, BadDataState
      <4> QED BY <2>1, <4>2, <4>3
    <3> QED BY <2>1, <3>1 DEF CopiesStay, WorkerOnly, clusterVars, storeVars
  <2>2. CASE ListForCleanup
    BY <2>2 DEF ListForCleanup, WorkerOnly, CopiesStay, clusterVars, storeVars
  <2>3. ASSUME NEW n \in Name, NEW err \in BOOLEAN, CleanupDelete(n, err)
        PROVE  CopiesStay
    <3>1. CASE err
      BY <2>1, <2>3, <3>1 DEF CleanupDelete
    <3>2. CASE ~err
      BY <2>3, <3>2 DEF CleanupDelete, WorkerOnly, CopiesStay, clusterVars, storeVars
    <3> QED BY <3>1, <3>2
  <2>4. CASE CleanupDone
    BY <2>1, <2>4 DEF CleanupDone
  <2>5. ASSUME NEW h \in Host, SyncHost(h)
        PROVE  CopiesStay
    <3> DEFINE content == depCache[HostSecret(worker.ing.spec)[h]]
    <3>1. \/ worker' = BadData(worker)
          \/ worker' = Finishing(worker, TRUE)
          \/ worker' = [worker EXCEPT !.todo = worker.todo \ {h}, !.certs[h] = content]
      BY <2>5 DEF SyncHost
    <3>2. ASSUME worker' = [worker EXCEPT !.todo = worker.todo \ {h}, !.certs[h] = content]
          PROVE  CopiesStay
      BY <2>5, <3>2 DEF SyncHost, WorkerOnly, CopiesStay, clusterVars, storeVars
    <3> QED BY <2>1, <2>5, <3>1, <3>2 DEF SyncHost
  <2>6. CASE Translate
    <3> DEFINE s  == worker.ing.spec
               in == [name    |-> worker.ing.name,
                      cfg     |-> Rendering(s, worker.certs, worker.got),
                      cluster |-> s.cluster]
    <3>1. \/ worker' = BadData(worker)
          \/ worker' = [worker EXCEPT !.pc = "lb", !.certs = NoCerts, !.got = NoDeps,
                                      !.input = in]
      BY <2>6 DEF Translate
    <3> HIDE DEF in
    <3>2. ASSUME worker' = [worker EXCEPT !.pc = "lb", !.certs = NoCerts, !.got = NoDeps,
                                          !.input = in]
          PROVE  CopiesStay
      BY <2>6, <3>2 DEF Translate, WorkerOnly, CopiesStay, clusterVars, storeVars
    <3> QED BY <2>1, <2>6, <3>1, <3>2 DEF Translate
  <2>7. ASSUME NEW err \in BOOLEAN, SyncLB(err)
        PROVE  CopiesStay
    BY <2>1, <2>7 DEF SyncLB
  <2>8. CASE Finish
    BY <2>8, IdleState DEF Finish, CopiesStay, clusterVars, storeVars
  <2>9. CASE GetNodes
    BY <2>9 DEF GetNodes, WorkerOnly, CopiesStay, clusterVars, storeVars
  <2>10. ASSUME NEW s \in Service, GetService(s)
         PROVE  CopiesStay
    <3>1. CASE worker' = BadData(worker)
      BY <2>1, <2>10, <3>1 DEF GetService
    <3>2. CASE worker' = [worker EXCEPT !.todo = worker.todo \ {s}, !.got[s] = depCache[s]]
      BY <2>10, <3>2 DEF GetService, WorkerOnly, CopiesStay, clusterVars, storeVars
    <3> QED BY <2>10, <3>1, <3>2 DEF GetService
  <2> QED BY <1>2, <2>2, <2>3, <2>4, <2>5, <2>6, <2>7, <2>8, <2>9, <2>10 DEF Worker, Panic
<1>3. CASE UNCHANGED vars
  BY <1>3 DEF vars, CopiesStay, clusterVars, storeVars
<1> QED BY <1>1, <1>2, <1>3 DEF Next, Restart

\* A name is registered, and gets a load balancer, only by the sync of its
\* ingress; a load balancer goes away only by a cleanup that listed its name.
LEMMA StepOfRegistry ==
  ASSUME BaseInv, [Next]_vars
  PROVE  /\ \A n \in GetIds' : n \in GetIds \/ (worker.pc = "lb" /\ n = worker.ing.name)
         /\ \A i \in Id : portal'[i] # Nil =>
              \/ portal[i] # Nil /\ portal'[i].name = portal[i].name
              \/ worker.pc = "lb" /\ portal'[i].name = worker.ing.name
         /\ \A i \in Id : portal[i] # Nil /\ portal'[i] = Nil =>
              worker.pc = "cleanup" /\ portal[i].name \in worker.todo
<1> USE DEF BaseInv
<1>1. CASE OnlyFaults
  BY <1>1 DEF OnlyFaults, GetIds
<1>2. CASE NewProcess
  BY <1>2 DEF NewProcess, RestartManager, GetIds
<1>3. ASSUME NEW err \in BOOLEAN, SyncLB(err)
      PROVE  /\ \A n \in GetIds' : n \in GetIds \/ n = worker.ing.name
             /\ \A i \in Id : portal'[i] # Nil =>
                  \/ portal[i] # Nil /\ portal'[i].name = portal[i].name
                  \/ portal'[i].name = worker.ing.name
             /\ \A i \in Id : portal[i] # Nil => portal'[i] # Nil
  <2> DEFINE in == worker.input
  <2>1. in \in Input /\ in.name = worker.ing.name /\ SyncL7LB(in, err)
    BY <1>3 DEF SyncLB, TypeInv, WorkerOK
  <2> HIDE DEF in
  <2>2. /\ \A n \in Name : n # in.name => resources'[n] = resources[n]
        /\ \/ \A i \in Id : \/ portal'[i] = portal[i]
                            \/ /\ portal[i] # Nil /\ portal'[i] # Nil
                               /\ portal'[i].name = in.name
           \/ nextId \in Id /\ portal' = [portal EXCEPT ![nextId] = Created(in)]
    BY <2>1, SyncEffect
  <2>3. Created(in) # Nil /\ Created(in).name = in.name
    BY <2>1, CreatedType, LBAssumption DEF Created
  <2> QED BY <2>1, <2>2, <2>3 DEF GetIds, RegistryInv, LBTypeOK
<1>4. ASSUME NEW n \in Name, NEW err \in BOOLEAN, CleanupDelete(n, err)
      PROVE  /\ GetIds' \subseteq GetIds
             /\ \A i \in Id : portal'[i] = portal[i] \/ (portal'[i] = Nil /\ portal[i].name = n)
  BY <1>4, DeleteEffect DEF BaseInv, CleanupDelete, GetIds
<1>5. \A err \in BOOLEAN : SyncLB(err) => worker.pc = "lb"
  BY DEF SyncLB
<1>6. \A n \in Name, err \in BOOLEAN :
        CleanupDelete(n, err) => worker.pc = "cleanup" /\ n \in worker.todo
  BY DEF CleanupDelete
<1> QED BY <1>1, <1>2, <1>3, <1>4, <1>5, <1>6, StepOfManager

\* A user writes ing to the ingress of key k: what that does to the history of
\* names.
Wrote(k, ing) ==
  /\ api' = [api EXCEPT ![k] = ing]
  /\ rev' = rev + 1
  /\ \/ /\ api[k] = Nil /\ ing # Nil /\ ing.name = NameOf[<<k, rev>>]
        /\ steady' = IF IsSc(ing) THEN steady \cup {ing.name} ELSE steady
        /\ classed' = IF IsSc(ing) THEN classed \cup {ing.name} ELSE classed
     \/ /\ api[k] # Nil /\ ing # Nil /\ ing.name = api[k].name
        /\ steady' = IF IsSc(ing) THEN steady ELSE steady \ {ing.name}
        /\ classed' = IF IsSc(ing) THEN classed \cup {ing.name} ELSE classed
     \/ /\ api[k] # Nil /\ ing = Nil
        /\ steady' = steady \ {api[k].name}
        /\ classed' = classed

\* Users write ingresses, or something else.
LEMMA UsersDo ==
  ASSUME TypeInv, Users
  PROVE  /\ UNCHANGED <<cache, worker, resources, portal, nextId>>
         /\ \/ UNCHANGED <<api, rev, classes>>
            \/ \E k \in Key, ing \in Ingress \cup {Nil} : Wrote(k, ing)
<1> USE DEF TypeInv, SyncTypeOK
<1> DEFINE Rest == UNCHANGED <<cache, worker, resources, portal, nextId>>
<1>1. ASSUME NEW k \in Key, CreateIngress(k)
      PROVE  Rest /\ \E ing \in Ingress \cup {Nil} : Wrote(k, ing)
  <2>1. PICK s \in Spec :
          LET ing == [name |-> NameOf[<<k, rev>>], rev |-> rev, spec |-> s] IN
          /\ Write(k, ing)
          /\ steady' = IF IsSc(ing) THEN steady \cup {ing.name} ELSE steady
          /\ classed' = IF IsSc(ing) THEN classed \cup {ing.name} ELSE classed
    BY <1>1 DEF CreateIngress
  <2> DEFINE ing == [name |-> NameOf[<<k, rev>>], rev |-> rev, spec |-> s]
  <2>2. ing \in Ingress /\ ing.name = NameOf[<<k, rev>>]
    BY SyncAssumption DEF Ingress
  <2>3. /\ Write(k, ing)
        /\ steady' = IF IsSc(ing) THEN steady \cup {ing.name} ELSE steady
        /\ classed' = IF IsSc(ing) THEN classed \cup {ing.name} ELSE classed
    BY <2>1
  <2>4. api[k] = Nil
    BY <1>1 DEF CreateIngress
  <2> HIDE DEF ing
  <2> QED BY <2>2, <2>3, <2>4, SyncAssumption DEF Wrote, Write, storeVars, lbVars
<1>2. ASSUME NEW k \in Key, EditIngress(k)
      PROVE  Rest /\ \E ing \in Ingress \cup {Nil} : Wrote(k, ing)
  <2>1. PICK s \in Spec :
          LET ing == [api[k] EXCEPT !.rev = rev, !.spec = s] IN
          /\ Write(k, ing)
          /\ steady' = IF IsSc(ing) THEN steady ELSE steady \ {ing.name}
          /\ classed' = IF IsSc(ing) THEN classed \cup {ing.name} ELSE classed
    BY <1>2 DEF EditIngress
  <2> DEFINE ing == [api[k] EXCEPT !.rev = rev, !.spec = s]
  <2>2. api[k] \in Ingress
    BY <1>2 DEF EditIngress
  <2>3. ing \in Ingress /\ ing.name = api[k].name
    BY <2>2 DEF Ingress
  <2>4. /\ Write(k, ing)
        /\ steady' = IF IsSc(ing) THEN steady ELSE steady \ {ing.name}
        /\ classed' = IF IsSc(ing) THEN classed \cup {ing.name} ELSE classed
    BY <2>1
  <2>5. api[k] # Nil
    BY <1>2 DEF EditIngress
  <2> HIDE DEF ing
  <2> QED BY <2>3, <2>4, <2>5, SyncAssumption DEF Wrote, Write, storeVars, lbVars
<1>3. ASSUME NEW k \in Key, DeleteIngress(k)
      PROVE  Rest /\ Wrote(k, Nil)
  BY <1>3 DEF DeleteIngress, Wrote, Write, storeVars, lbVars
<1>4. ASSUME NEW d \in Dep, NEW v \in Value \cup {Nil}, WriteDep(d, v)
      PROVE  Rest /\ UNCHANGED <<api, rev, classes>>
  BY <1>4 DEF WriteDep, storeVars, lbVars
<1>5. (\E k \in Key, ing \in Ingress \cup {Nil} : Wrote(k, ing)) \/ UNCHANGED <<api, rev, classes>>
  BY <1>1, <1>2, <1>3, <1>4 DEF Users
<1>6. Rest
  BY <1>1, <1>2, <1>3, <1>4 DEF Users
<1> QED BY <1>5, <1>6

\* What the informer does to its copies.
LEMMA InformerDoes ==
  ASSUME NEW k \in Key, ObserveIngress(k) \/ MissDelete(k)
  PROVE  /\ cache' = [cache EXCEPT ![k] = api[k]]
         /\ UNCHANGED <<api, rev, classes, worker, resources, portal, nextId>>
BY DEF ObserveIngress, MissDelete, clusterVars, lbVars

\* A new process has no copy and nothing registered.
LEMMA NewProcessForgets ==
  ASSUME NewProcess
  PROVE  /\ cache' = [k \in Key |-> Nil] /\ worker' = Idle
         /\ worker'.ing = Nil /\ worker'.pc = "idle"
         /\ UNCHANGED <<api, rev, classes, portal, nextId>>
         /\ GetIds' = {}
BY IdleState DEF NewProcess, StoreStart, RestartManager, GetIds, clusterVars

-----------------------------------------------------------------------------
(* The invariants. *)

\* A copy keeps the name it was made from.
LEMMA NamesStep ==
  ASSUME BaseInv, NamesInv, [Next]_vars
  PROVE  NamesInv'
<1> USE DEF BaseInv
<1>1. TypeInv' /\ rev \in Rev /\ rev' \in Rev
  BY StepTyped DEF TypeInv, SyncTypeOK
<1>2. ASSUME rev <= rev'
      PROVE  \A k, n : NameOfKey(k, n) => GivenBefore(rev', k, n)
  BY <1>1, <1>2, NamesStayGiven
<1>3. CASE Users
  <2>1. UNCHANGED <<cache, worker>>
    BY <1>3, UsersDo
  <2>2. CASE UNCHANGED <<api, rev, classes>>
    BY <2>1, <2>2 DEF NamesInv, NameOfKey, classes
  <2>3. ASSUME NEW k \in Key, NEW ing \in Ingress \cup {Nil},
               api' = [api EXCEPT ![k] = ing], rev' = rev + 1,
               ing # Nil => \/ ing.name = NameOf[<<k, rev>>]
                            \/ api[k] # Nil /\ ing.name = api[k].name,
               classed' \subseteq classed \cup (IF ing = Nil THEN {} ELSE {ing.name})
        PROVE  NamesInv'
    <3>1. \A m, n : NameOfKey(m, n) => GivenBefore(rev', m, n)
      BY <1>1, <1>2, <2>3 DEF Rev
    <3>2. GivenBefore(rev', k, NameOf[<<k, rev>>])
      BY <1>1, <2>3, SyncAssumption DEF GivenBefore, Rev
    <3>3. ing # Nil => GivenBefore(rev', k, ing.name)
      BY <2>3, <3>1, <3>2 DEF NamesInv
    <3>4. \A m \in Key : api'[m] # Nil => GivenBefore(rev', m, api'[m].name)
      BY <2>3, <3>1, <3>3 DEF NamesInv, TypeInv, SyncTypeOK
    <3>5. \A n \in classed' : \E m \in Key : GivenBefore(rev', m, n)
      BY <2>3, <3>1, <3>3 DEF NamesInv
    <3> QED BY <2>1, <3>1, <3>4, <3>5 DEF NamesInv, NameOfKey
  <2> QED BY <1>3, <2>2, <2>3, UsersDo DEF Wrote
<1>4. CASE NewProcess
  BY <1>4, NewProcessForgets DEF NamesInv, NameOfKey, classes
<1>5. ASSUME NEW k \in Key, ObserveIngress(k) \/ MissDelete(k)
      PROVE  NamesInv'
  <2>1. /\ cache' = [cache EXCEPT ![k] = api[k]]
        /\ UNCHANGED <<api, rev, classes, worker>>
    BY <1>5, InformerDoes
  <2> QED BY <2>1 DEF NamesInv, NameOfKey, classes, TypeInv, SyncTypeOK
<1>6. CASE StartItem
  <2>1. UNCHANGED <<api, rev, cache, classes>>
    BY <1>6 DEF StartItem, clusterVars, storeVars
  <2>2. \E k \in Key : worker'.key = k /\ worker'.ing = cache[k]
    BY <1>6, StartTyped
  <2> QED BY <2>1, <2>2 DEF NamesInv, NameOfKey, classes
<1>7. CASE CopiesStay
  BY <1>7 DEF CopiesStay, NamesInv, NameOfKey, classes
<1> QED BY <1>3, <1>4, <1>5, <1>6, <1>7, StepOfCopies

\* Only ingresses that have been of the class are synced, registered and deleted.
LEMMA ClassStep ==
  ASSUME BaseInv, ClassInv, [Next]_vars
  PROVE  ClassInv'
<1> USE DEF BaseInv
<1>1. ASSUME NEW K, classed \subseteq K
      PROVE  /\ GetIds' \subseteq K
             /\ \A i \in Id : portal'[i] # Nil => portal'[i].name \in K
  <2>1. worker.pc = "lb" => worker.ing.name \in classed
    BY DEF ClassInv, TypeInv, WorkerOK
  <2> QED BY <1>1, <2>1, StepOfRegistry DEF ClassInv
<1>2. CASE Users
  <2>1. UNCHANGED <<cache, worker>>
    BY <1>2, UsersDo
  <2>2. CASE UNCHANGED <<api, rev, classes>>
    BY <1>1, <2>1, <2>2 DEF ClassInv, classes
  <2>3. ASSUME NEW k \in Key, NEW ing \in Ingress \cup {Nil},
               api' = [api EXCEPT ![k] = ing],
               classed' = classed \cup (IF IsSc(ing) THEN {ing.name} ELSE {})
        PROVE  ClassInv'
    <3>1. \A m \in Key : IsSc(api'[m]) => api'[m].name \in classed'
      BY <2>3 DEF ClassInv, TypeInv, SyncTypeOK
    <3> QED BY <1>1, <2>1, <2>3, <3>1 DEF ClassInv
  <2> QED BY <1>2, <2>2, <2>3, UsersDo DEF Wrote, IsSc
<1>3. CASE NewProcess
  BY <1>1, <1>3, NewProcessForgets DEF ClassInv, classes, IsSc
<1>4. ASSUME NEW k \in Key, ObserveIngress(k) \/ MissDelete(k)
      PROVE  ClassInv'
  <2>1. /\ cache' = [cache EXCEPT ![k] = api[k]]
        /\ UNCHANGED <<api, classes, worker>>
    BY <1>4, InformerDoes
  <2> QED BY <1>1, <2>1 DEF ClassInv, classes, TypeInv, SyncTypeOK
<1>5. CASE StartItem
  <2>1. UNCHANGED <<api, rev, cache, classes>>
    BY <1>5 DEF StartItem, clusterVars, storeVars
  <2>2. \E k \in Key : worker'.ing = cache[k] /\ worker'.pc \in {"tls", "list"}
    BY <1>5, StartTyped
  <2> QED BY <1>1, <2>1, <2>2 DEF ClassInv, classes
<1>6. CASE CopiesStay
  <2>1. worker'.pc = "cleanup" => worker'.todo \subseteq classed
    <3>1. CASE ListForCleanup
      BY <3>1 DEF ListForCleanup, ClassInv, TypeInv, WorkerOK, WorkerState
    <3> QED BY <1>6, <3>1 DEF CopiesStay, ClassInv
  <2> QED BY <1>1, <1>6, <2>1 DEF CopiesStay, ClassInv, classes, IsSc
<1> QED BY <1>2, <1>3, <1>4, <1>5, <1>6, StepOfCopies

\* An ingress that keeps the class stays in the store of a process that has
\* registered it: what replaces its copy is an ingress of the class, too, and a
\* cleanup that lists the registry finds its copy.
LEMMA SteadyStep ==
  ASSUME BaseInv, NamesInv, ClassInv, SteadyInv, [Next]_vars
  PROVE  SteadyInv'
<1> USE DEF BaseInv
<1>0. steady \subseteq classed
  BY DEF TypeInv, SyncTypeOK
<1>2. worker.pc = "lb" => worker.ing # Nil
  BY DEF TypeInv, WorkerOK, IsSc
<1>3. CASE Users
  <2>1. UNCHANGED <<cache, worker, resources>>
    BY <1>3, UsersDo
  <2>2. CASE UNCHANGED <<api, rev, classes>>
    BY <2>1, <2>2 DEF SteadyInv, Stored, GetIds, classes
  \* A name that becomes steady is new: there is no copy of it yet.
  <2>3. ASSUME NEW k \in Key, NEW ing \in Ingress \cup {Nil},
               api' = [api EXCEPT ![k] = ing],
               api[k] = Nil, ing.name = NameOf[<<k, rev>>], IsSc(ing),
               steady' = steady \cup {ing.name}
        PROVE  SteadyInv'
    <3>1. /\ \A m \in Key : cache[m] # Nil => cache[m].name # ing.name
          /\ worker.ing # Nil => worker.ing.name # ing.name
          /\ ing.name \notin classed
      BY <2>3, NameIsFresh, IdleState DEF NamesInv, TypeInv, WorkerOK
    <3>2. /\ ing.name \notin GetIds
          /\ worker.pc = "cleanup" => ing.name \notin worker.todo
      BY <3>1 DEF ClassInv
    <3>3. \A n \in steady' : \E m \in Key : IsSc(api'[m]) /\ api'[m].name = n
      <4>1. IsSc(api'[k]) /\ api'[k].name = ing.name
        BY <2>3 DEF TypeInv, SyncTypeOK
      <4>2. \A m \in Key : IsSc(api[m]) => api'[m] = api[m]
        BY <2>3 DEF IsSc, TypeInv, SyncTypeOK
      <4> QED BY <2>3, <4>1, <4>2 DEF SteadyInv
    <3> QED BY <2>1, <2>3, <3>1, <3>2, <3>3 DEF SteadyInv, Stored, GetIds
  \* Otherwise names only lose their steadiness.
  <2>4. ASSUME NEW k \in Key, NEW ing \in Ingress \cup {Nil},
               api' = [api EXCEPT ![k] = ing],
               steady' \subseteq steady,
               \/ api[k] = Nil
               \/ ing # Nil /\ ing.name = api[k].name /\ IsSc(ing)
               \/ api[k] # Nil /\ api[k].name \notin steady'
        PROVE  SteadyInv'
    <3>1. \A n \in steady' : \E m \in Key : IsSc(api'[m]) /\ api'[m].name = n
      <4> SUFFICES ASSUME NEW n \in steady'
                   PROVE  \E m \in Key : IsSc(api'[m]) /\ api'[m].name = n
        OBVIOUS
      <4>1. PICK m \in Key : IsSc(api[m]) /\ api[m].name = n
        BY <2>4 DEF SteadyInv
      <4>2. CASE m = k
        BY <2>4, <4>1, <4>2 DEF IsSc, TypeInv, SyncTypeOK
      <4>3. CASE m # k
        BY <2>4, <4>1, <4>3 DEF TypeInv, SyncTypeOK
      <4> QED BY <4>2, <4>3
    <3> QED BY <2>1, <2>4, <3>1 DEF SteadyInv, Stored, GetIds
  <2>5. ASSUME NEW k \in Key, NEW ing \in Ingress \cup {Nil}, Wrote(k, ing)
        PROVE  SteadyInv'
    BY <2>3, <2>4, <2>5 DEF Wrote
  <2> QED BY <1>3, <2>2, <2>5, UsersDo
<1>4. CASE NewProcess
  BY <1>4, NewProcessForgets DEF SteadyInv, Stored, classes
<1>5. ASSUME NEW k \in Key, ObserveIngress(k) \/ MissDelete(k)
      PROVE  SteadyInv'
  <2>1. /\ cache' = [cache EXCEPT ![k] = api[k]]
        /\ UNCHANGED <<api, classes, worker, resources>>
    BY <1>5, InformerDoes
  <2>2. cache'[k] = api[k] /\ \A m \in Key \ {k} : cache'[m] = cache[m]
    BY <2>1 DEF TypeInv, SyncTypeOK
  \* The ingress that has kept a name is where its copy is.
  <2>3. \A n \in steady : NameOfKey(k, n) => IsSc(api[k]) /\ api[k].name = n
    <3> SUFFICES ASSUME NEW n \in steady, NameOfKey(k, n)
                 PROVE  IsSc(api[k]) /\ api[k].name = n
      OBVIOUS
    <3>1. PICK m \in Key : IsSc(api[m]) /\ api[m].name = n
      BY DEF SteadyInv
    <3>2. NameOfKey(m, n)
      BY <3>1 DEF NamesInv, IsSc
    <3> QED BY <3>1, <3>2, NamesApart
  <2>4. \A n \in steady : Stored(n) => Stored(n)'
    <3> SUFFICES ASSUME NEW n \in steady, NEW m \in Key, cache[m] # Nil, cache[m].name = n
                 PROVE  \E q \in Key : cache'[q] # Nil /\ cache'[q].name = n
      BY DEF Stored
    <3>1. CASE m = k
      <4>1. NameOfKey(k, n)
        BY <3>1 DEF NamesInv
      <4> QED BY <2>2, <2>3, <4>1 DEF IsSc
    <3> QED BY <2>2, <3>1
  <2>5. cache'[k] # Nil /\ cache'[k].name \in steady => IsSc(cache'[k])
    BY <2>2, <2>3 DEF NamesInv
  <2> QED BY <2>1, <2>2, <2>4, <2>5 DEF SteadyInv, GetIds, classes
<1>6. CASE StartItem
  <2>1. UNCHANGED <<api, rev, cache, classes, resources>>
    BY <1>6 DEF StartItem, clusterVars, storeVars, lbVars
  <2>2. \E k \in Key : worker'.ing = cache[k] /\ worker'.pc \in {"tls", "list"}
    BY <1>6, StartTyped
  <2> QED BY <2>1, <2>2 DEF SteadyInv, Stored, GetIds, classes
<1>7. CASE CopiesStay
  <2>1. worker'.pc = "cleanup" => worker'.todo \cap steady = {}
    <3>1. CASE ListForCleanup
      <4>1. worker'.todo = GetIds \ ValidLBs
        BY <3>1 DEF ListForCleanup, TypeInv, WorkerOK, WorkerState
      <4>2. \A n \in GetIds \cap steady : n \in ValidLBs
        BY DEF SteadyInv, Stored, ValidLBs
      <4> QED BY <4>1, <4>2
    <3> QED BY <1>7, <3>1 DEF CopiesStay, SteadyInv
  <2>2. \A n : Stored(n)' <=> Stored(n)
    BY <1>7 DEF CopiesStay, Stored
  <2>3. \A n \in GetIds' \cap steady : Stored(n)
    BY <1>2, StepOfRegistry DEF SteadyInv
  <2> QED BY <1>7, <2>1, <2>2, <2>3 DEF CopiesStay, SteadyInv, classes
<1> QED BY <1>3, <1>4, <1>5, <1>6, <1>7, StepOfCopies

NamingInv == BaseInv /\ NamesInv /\ ClassInv /\ SteadyInv

\* They hold at the start, when there is no ingress and no load balancer ...
LEMMA NamingStarts == Init => NamingInv
<1> SUFFICES ASSUME Init PROVE NamingInv
  OBVIOUS
<1>1. GetIds = {} /\ \A i \in Id : portal[i] = Nil
  BY DEF Init, LBInit, GetIds
<1>2. worker.ing = Nil /\ worker.pc = "idle"
  BY IdleState DEF Init
<1>3. NamesInv /\ ClassInv /\ SteadyInv
  BY <1>1, <1>2 DEF Init, NamesInv, ClassInv, SteadyInv, IsSc
<1> QED BY <1>3, BaseStarts DEF NamingInv

\* ... and in every state.
LEMMA NamingInvariant == SyncSpec => []NamingInv
<1>1. NamingInv /\ [Next]_vars => NamingInv'
  BY BaseStep, NamesStep, ClassStep, SteadyStep DEF NamingInv
<1> QED BY <1>1, NamingStarts, PTL DEF SyncSpec

\* An ingress that has been of the class for its whole life keeps its load
\* balancer, for any number of keys, writes, restarts and missed deletes.
THEOREM SteadyKept == SyncSpec => SteadyIsKept
<1>1. NamingInv /\ [Next]_vars =>
        [\A i \in Id : portal[i] # Nil /\ portal[i].name \in steady => portal'[i] # Nil]_vars
  <2> SUFFICES ASSUME NamingInv, [Next]_vars, NEW i \in Id,
                      portal[i] # Nil, portal[i].name \in steady, portal'[i] = Nil
               PROVE  FALSE
    OBVIOUS
  <2>1. worker.pc = "cleanup" /\ portal[i].name \in worker.todo
    BY StepOfRegistry DEF NamingInv
  <2> QED BY <2>1 DEF NamingInv, SteadyInv
<1> QED BY <1>1, NamingInvariant, PTL DEF SyncSpec, SteadyIsKept

-----------------------------------------------------------------------------
(* The refinement of LBDirectory. *)

\* The name each load balancer has.
Owner == [i \in Id |-> IF portal[i] = Nil THEN Nil ELSE portal[i].name]

\* A sync gives the name of its ingress a load balancer when it has none, or
\* changes nothing the owner sees.
LEMMA SyncAppears ==
  ASSUME ListsArrive, NamingInv, NEW err \in BOOLEAN, SyncLB(err)
  PROVE  Directory!DirNext \/ UNCHANGED Directory!dirVars
<1> DEFINE in == worker.input
<1>1. /\ in \in Input /\ in.name = worker.ing.name /\ in.name \in classed
      /\ SyncL7LB(in, err) /\ UNCHANGED classes
  BY DEF SyncLB, WorkerOnly, NamingInv, BaseInv, TypeInv, WorkerOK, ClassInv
<1> HIDE DEF in
<1>2. in.name \in Name /\ in.name # Nil
  BY <1>1, SyncAssumption DEF Input
<1>3. \/ /\ \A i \in Id : \/ portal'[i] = portal[i]
                          \/ /\ portal[i] # Nil /\ portal'[i] # Nil
                             /\ portal'[i].name = portal[i].name
         /\ nextId' = nextId
      \/ /\ CreateLB(in, err)
         /\ nextId \in Id
         /\ portal' = [portal EXCEPT ![nextId] = Created(in)]
         /\ nextId' = nextId + 1
  BY <1>1, SyncEffect DEF NamingInv, BaseInv
<1>4. ASSUME nextId' = nextId,
             \A i \in Id : \/ portal'[i] = portal[i]
                           \/ /\ portal[i] # Nil /\ portal'[i] # Nil
                              /\ portal'[i].name = portal[i].name
      PROVE  UNCHANGED Directory!dirVars
  <2>1. Owner' = Owner
    BY <1>4 DEF Owner
  <2> QED BY <1>1, <1>4, <2>1 DEF Directory!dirVars, Owner, classes
<1>5. ASSUME CreateLB(in, err), nextId \in Id, nextId' = nextId + 1,
             portal' = [portal EXCEPT ![nextId] = Created(in)],
             NEW n \in Name, n = in.name, NEW d \in Id, d = nextId
      PROVE  Directory!Appear(n, d)
  <2>1. \A i \in Id : Owner[i] # in.name
    BY <1>1, <1>2, <1>5, CreateFindsNone DEF Owner
  <2>2. Created(in) # Nil /\ Created(in).name = in.name
    BY <1>1, CreatedType, LBAssumption DEF Created
  <2>3. Owner' = [Owner EXCEPT ![nextId] = in.name]
    BY <1>5, <2>2 DEF Owner, NamingInv, BaseInv, RegistryInv, LBTypeOK
  <2>4. nextId \notin 1..(nextId - 1) /\ 1..(nextId' - 1) = 1..(nextId - 1) \cup {nextId}
    BY <1>5, LBAssumption DEF Id
  <2> QED BY <1>1, <1>5, <2>1, <2>3, <2>4 DEF Directory!Appear, Owner, classes
<1> QED BY <1>2, <1>3, <1>4, <1>5 DEF Directory!DirNext

\* A cleanup takes a load balancer from an ingress that has not kept the class.
LEMMA CleanupDisappears ==
  ASSUME NamingInv, NEW n \in Name, NEW err \in BOOLEAN, CleanupDelete(n, err)
  PROVE  Directory!DirNext \/ UNCHANGED Directory!dirVars
<1>1. /\ DeleteLoadBalancer(n, err) /\ UNCHANGED classes
      /\ n \in classed \ steady
  BY DEF CleanupDelete, WorkerOnly, NamingInv, ClassInv, SteadyInv
<1>2. PICK d \in Id :
      /\ \A i \in Id : \/ portal'[i] = portal[i]
                       \/ /\ i = d /\ portal'[i] = Nil
                          /\ portal[i] # Nil /\ portal[i].name = n
      /\ nextId' = nextId
  BY <1>1, DeleteEffect DEF NamingInv, BaseInv
<1>3. CASE portal'[d] = portal[d]
  <2>1. Owner' = Owner
    BY <1>2, <1>3 DEF Owner
  <2> QED BY <1>1, <1>2, <2>1 DEF Directory!dirVars, Owner, classes
<1>4. CASE portal'[d] # portal[d]
  <2>1. Owner[d] = n
    BY <1>2, <1>4 DEF Owner
  <2>2. Owner' = [Owner EXCEPT ![d] = Nil]
    BY <1>2, <1>4 DEF Owner
  <2>3. Directory!Disappear(d)
    BY <1>1, <1>2, <2>1, <2>2 DEF Directory!Disappear, Owner, classes
  <2> QED BY <2>3 DEF Directory!DirNext
<1> QED BY <1>3, <1>4

\* Users create and reclassify.
LEMMA UsersReclassify ==
  ASSUME NamingInv, Users
  PROVE  Directory!DirNext \/ UNCHANGED Directory!dirVars
<1>1. UNCHANGED <<portal, nextId>>
  BY UsersDo DEF NamingInv, BaseInv
<1>2. CASE UNCHANGED classes
  BY <1>1, <1>2 DEF Directory!dirVars, classes
<1>3. ASSUME NEW k \in Key, NEW ing \in Ingress \cup {Nil}, Wrote(k, ing)
      PROVE  Directory!Reclassify
  <2>1. TypeInv' /\ steady \subseteq classed
    BY StepTyped DEF NamingInv, BaseInv, TypeInv, SyncTypeOK, Next
  <2>2. steady' \subseteq classed' /\ classed' \subseteq Name
    BY <2>1 DEF TypeInv, SyncTypeOK
  <2>3. classed \subseteq classed'
    BY <1>3 DEF Wrote
  \* The name of a new ingress has not been of the class.
  <2>4. steady' \subseteq steady \cup (classed' \ classed)
    <3>1. NameOf[<<k, rev>>] \notin classed
      BY NameIsFresh DEF NamingInv, NamesInv, BaseInv
    <3> QED BY <1>3, <2>1, <3>1 DEF Wrote
  <2> QED BY <1>1, <2>2, <2>3, <2>4 DEF Directory!Reclassify
<1> QED BY <1>2, <1>3, UsersDo DEF Directory!DirNext, NamingInv, BaseInv

\* With every listing answered, the controller implements LBDirectory: load
\* balancers appear only for ingresses that were of the class and have none, and
\* disappear only when an ingress has not kept the class, across restarts,
\* panics, lost answers and stale stores.
THEOREM SyncRefinesDirectory ==
  ASSUME ListsArrive
  PROVE  SyncSpec => RefinesDirectory
<1>1. Init => Directory!DirInit
  <2> SUFFICES ASSUME Init PROVE Directory!DirInit
    OBVIOUS
  <2>1. 1..(nextId - 1) = {}
    BY DEF Init, LBInit
  <2>2. Owner = [i \in Id |-> Nil]
    BY DEF Init, LBInit, Owner
  <2> QED BY <2>1, <2>2 DEF Init, Directory!DirInit, Owner
<1>2. NamingInv /\ [Next]_vars => [Directory!DirNext]_Directory!dirVars
  <2> SUFFICES ASSUME NamingInv, [Next]_vars
               PROVE  Directory!DirNext \/ UNCHANGED Directory!dirVars
    OBVIOUS
  <2>1. CASE Users
    BY <2>1, UsersReclassify
  <2>2. ~Users => UNCHANGED classes
    <3>1. ASSUME ~Users
          PROVE  UNCHANGED classes
      BY <3>1, StepOfCopies, NewProcessForgets, InformerDoes
         DEF NamingInv, BaseInv, StartItem, CopiesStay
    <3> QED BY <3>1
  <2>3. ASSUME UNCHANGED classes, UNCHANGED <<portal, nextId>>
        PROVE  UNCHANGED Directory!dirVars
    BY <2>3 DEF Directory!dirVars, classes
  <2> QED BY <2>1, <2>2, <2>3, StepOfManager, SyncAppears, CleanupDisappears,
             NewProcessForgets DEF OnlyFaults, NamingInv, BaseInv
<1> QED BY <1>1, <1>2, NamingInvariant, PTL
        DEF SyncSpec, RefinesDirectory, Directory!DirSpec
=============================================================================

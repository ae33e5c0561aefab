------------------------------ MODULE ServedProofs ------------------------------
(* No update is lost between the API server and the portal, and nothing is  *)
(* left behind, for every value of the constants: whatever is not as it     *)
(* should be is on its way to the worker, in its hands, or was given up on. *)
EXTENDS DirectoryProofs

Elements(s) == {s[i] : i \in DOMAIN s}

\* The worker has key k in its hands.
Busy(k) == worker.pc # "idle" /\ worker.key = k

\* Key k is on its way to the worker.
Pend(k) == \/ {k, Nil} \cap Elements(notifs) # {}
           \/ k \in toAdd \cup dirty \cup waiting

\* ... or will be, when the handler of a dependency has run.
Sched(k) == \/ Pend(k)
            \/ \E d \in depNotifs : cache[k] # Nil /\ d \in Indexed(cache[k].spec)

-----------------------------------------------------------------------------
(* Nothing is left behind. *)

\* The names of key k that are registered.
Registered(k) == {n \in GetIds : \E r \in Rev : n = NameOf[<<k, r>>]}

\* The worker is about to clean up for key k, or has failed to.
Cleaning(k) ==
  /\ Busy(k)
  /\ \/ worker.pc = "list"
     \/ worker.pc = "cleanup" /\ Registered(k) \subseteq worker.todo
     \/ worker.pc = "finish" /\ worker.err

\* A name registered for a key that has no ingress of the class in the store
\* will be looked at, or is being looked at, or was given up on; and a key whose
\* load balancer is being made is of the class, or will be looked at again.
LeftInv ==
  /\ \A k \in Key : Registered(k) # {} =>
       \/ IsSc(cache[k])
       \/ Pend(k)
       \/ ~Busy(k) /\ k \in dropped
       \/ Cleaning(k)
  /\ \A k \in Key : Busy(k) /\ worker.pc \in {"tls", "translate", "lb"} =>
       IsSc(cache[k]) \/ Pend(k)

-----------------------------------------------------------------------------
(* Nothing is lost. *)

\* The certificates the hosts of key k should have, as the stores say.
HostCerts(k) ==
  [h \in Host |-> IF h \in SecretHosts(cache[k].spec)
                 THEN depCache[HostSecret(cache[k].spec)[h]] ELSE Nil]

\* The load balancer of key k, as the stores say.
Asked(k) == Rendering(cache[k].spec, HostCerts(k), depCache)

\* The portal has what the stores ask for, unless the object is marked deleted.
ServedAsStored(k) ==
  LET lb == resources[cache[k].name] IN
  /\ lb # Nil
  /\ ~lb.deleted => portal[lb.id].cfg = Asked(k)

\* The sync of key k works on what the stores hold now.
Underway(k) ==
  \/ /\ worker.pc = "tls"
     /\ worker.ing = cache[k]
     /\ \A h \in Host \ worker.todo : worker.certs[h] = HostCerts(k)[h]
  \/ /\ worker.pc = "translate"
     /\ worker.ing = cache[k]
     /\ worker.certs = HostCerts(k)
     /\ worker.got[Nodes] = depCache[Nodes]
     /\ \A s \in cache[k].spec.services \ worker.todo : worker.got[s] = depCache[s]
  \/ /\ worker.pc = "lb"
     /\ worker.ing = cache[k]
     /\ worker.input.cfg = Asked(k)
  \/ /\ worker.pc = "finish"
     /\ worker.err \/ ServedAsStored(k)

\* An ingress of the class in the store is served as the stores ask, or its key
\* will be synced, or is being synced, or was dropped; a cleanup deletes the load
\* balancer of such an ingress only when its key comes to the worker afterwards.
ServedInv ==
  /\ \A k \in Key : IsSc(cache[k]) /\ ~Busy(k) =>
       Sched(k) \/ ServedAsStored(k) \/ k \in dropped
  /\ \A k \in Key : IsSc(cache[k]) /\ Busy(k) => Sched(k) \/ Underway(k)
  /\ worker.pc = "cleanup" =>
       \A k \in Key : IsSc(cache[k]) /\ cache[k].name \in worker.todo => Sched(k)

\* Dependencies exist, and of the Nodes the stores miss nothing.
DepsInv == /\ dep \in [Dep -> Value] /\ depCache \in [Dep -> Value]
           /\ depCache[Nodes] = dep[Nodes]

\* Only changes that a handler reports happen: of a Service or a Secret that
\* was there and stays there.
DepsReported ==
  \A m \in DepMoves : m[1] # Nodes /\ m[2] # Nil /\ m[3] # Nil

\* Ingresses name the secrets of their hosts where the index looks for them.
SecretsIndexed ==
  \A s \in Spec, h \in Host : HostSecret(s)[h] \in Indexed(s) \cup {Nil}

-----------------------------------------------------------------------------
(* Keys on their way. *)

\* What is in a sequence after one more.
LEMMA ElementsOfAppend ==
  ASSUME NEW S, NEW s \in Seq(S), NEW x \in S
  PROVE  Elements(Append(s, x)) = Elements(s) \cup {x}
<1> DEFINE t == Append(s, x)
<1>1. /\ DOMAIN s = 1..Len(s) /\ Len(s) \in Nat
      /\ DOMAIN t = 1..(Len(s) + 1)
      /\ \A i \in 1..Len(s) : t[i] = s[i]
      /\ t[Len(s) + 1] = x
  OBVIOUS
<1>2. \A i \in DOMAIN t : i \in DOMAIN s \/ i = Len(s) + 1
  BY <1>1
<1>3. \A i \in DOMAIN s : i \in DOMAIN t
  BY <1>1
<1>4. Len(s) + 1 \in DOMAIN t
  BY <1>1
<1> HIDE DEF t
<1> QED BY <1>1, <1>2, <1>3, <1>4 DEF Elements, t

\* What is in a sequence is its head or comes after it.
LEMMA ElementsOfTail ==
  ASSUME NEW S, NEW s \in Seq(S), s # <<>>
  PROVE  Elements(s) = {Head(s)} \cup Elements(Tail(s))
<1> DEFINE t == Tail(s)
<1>1. /\ DOMAIN s = 1..Len(s) /\ Len(s) \in Nat /\ Len(s) >= 1
      /\ DOMAIN t = 1..(Len(s) - 1)
      /\ \A i \in 1..(Len(s) - 1) : t[i] = s[i + 1]
      /\ Head(s) = s[1]
  OBVIOUS
<1>2. \A i \in DOMAIN s : i = 1 \/ (i - 1 \in DOMAIN t /\ s[i] = t[i - 1])
  BY <1>1
<1>3. \A i \in DOMAIN t : i + 1 \in DOMAIN s /\ s[i + 1] = t[i]
  BY <1>1
<1>4. 1 \in DOMAIN s
  BY <1>1
<1>5. Elements(s) = {Head(s)} \cup Elements(t)
  <2> HIDE DEF t
  <2> QED BY <1>1, <1>2, <1>3, <1>4 DEF Elements
<1> QED BY <1>5

\* A step of the worker begins a sync, ends one, or is within one.
LEMMA WorkerSplits == Worker => StartItem \/ Finish \/ NewProcess \/ WorkerOnly
BY DEF Worker, ListForCleanup, CleanupDelete, CleanupDone, SyncHost, GetNodes, GetService,
       Translate, SyncLB, Panic

\* A key on its way stays on it until the worker takes it.
LEMMA PendStays ==
  ASSUME BaseInv, [Next]_vars, NEW k \in Key, Pend(k)
  PROVE  \/ Pend(k)'
         \/ NewProcess
         \/ StartItem /\ worker'.key = k
<1> USE DEF BaseInv
<1>1. notifs \in Seq(Key \cup {Nil})
  BY DEF TypeInv, SyncTypeOK
<1>2. ASSUME {k, Nil} \cap Elements(notifs) \subseteq Elements(notifs') \cup dirty' ,
             toAdd \cup dirty \cup waiting \subseteq toAdd' \cup dirty' \cup waiting',
             Nil \in Elements(notifs) => Nil \in Elements(notifs')
      PROVE  Pend(k)'
  BY <1>2 DEF Pend
<1>3. CASE Users
  <2>1. UNCHANGED <<notifs, toAdd, dirty, waiting>>
    BY <1>3 DEF Users, CreateIngress, EditIngress, DeleteIngress, Write, WriteDep, wqVars, storeVars
  <2> QED BY <1>2, <2>1
<1>4. CASE Informers
  <2>1. ASSUME NEW m \in Key, ObserveIngress(m) \/ MissDelete(m)
        PROVE  Pend(k)'
    <3>1. UNCHANGED <<toAdd, dirty, waiting>>
      BY <2>1 DEF ObserveIngress, MissDelete, wqVars
    <3>2. Elements(notifs) \subseteq Elements(notifs')
      <4>1. notifs' \in {notifs, Append(notifs, m), Append(notifs, Nil)}
        BY <2>1 DEF ObserveIngress, MissDelete
      <4>2. /\ Elements(Append(notifs, m)) = Elements(notifs) \cup {m}
            /\ Elements(Append(notifs, Nil)) = Elements(notifs) \cup {Nil}
        BY <1>1, ElementsOfAppend
      <4> QED BY <4>1, <4>2
    <3> QED BY <1>2, <3>1, <3>2
  <2>2. ASSUME HandleIngressEvent
        PROVE  Pend(k)'
    <3>1. /\ notifs # <<>> /\ Head(notifs) # Nil /\ notifs' = Tail(notifs)
          /\ dirty' = dirty \cup {Head(notifs)} /\ UNCHANGED <<toAdd, waiting>>
      BY <2>2 DEF HandleIngressEvent, Add, AddDirty
    <3>2. Elements(notifs) = {Head(notifs)} \cup Elements(notifs')
      BY <1>1, <3>1, ElementsOfTail
    <3> QED BY <1>2, <3>1, <3>2
  <2>3. ASSUME NEW d \in Dep, ObserveDep(d) \/ HandleDepEvent(d)
        PROVE  Pend(k)'
    <3>1. UNCHANGED <<notifs, dirty, waiting>> /\ toAdd \subseteq toAdd'
      BY <2>3 DEF ObserveDep, HandleDepEvent, wqVars
    <3> QED BY <1>2, <3>1
  <2>4. ASSUME NEW m \in Key, AddDependent(m) \/ DelayPassed(m)
        PROVE  Pend(k)'
    <3>1. /\ notifs' = notifs
          /\ toAdd \cup dirty \cup waiting \subseteq toAdd' \cup dirty' \cup waiting'
      BY <2>4 DEF AddDependent, DelayPassed, Add, AddWaiting, AddDirty, storeVars
    <3> QED BY <1>2, <3>1
  <2> QED BY <1>4, <2>1, <2>2, <2>3, <2>4 DEF Informers, HandleTombstone, IndexerPanics
<1>5. CASE StartItem
  <2>1. PICK m \in Key : Get(m) /\ worker'.key = m
    BY <1>5, StartTyped
  <2>2. UNCHANGED <<notifs, toAdd, waiting>> /\ dirty' = dirty \ {m}
    BY <1>5, <2>1 DEF StartItem, Get, storeVars
  <2> QED BY <1>5, <2>1, <2>2 DEF Pend
<1>6. CASE Finish
  <2>1. UNCHANGED <<notifs, toAdd, dirty>> /\ waiting \subseteq waiting'
    BY <1>6 DEF Finish, FinishItem, AddRateLimited, Forget, Done, storeVars
  <2> QED BY <1>2, <2>1
<1>7. ASSUME WorkerOnly \/ UNCHANGED vars
      PROVE  Pend(k)'
  <2>1. UNCHANGED <<notifs, toAdd, dirty, waiting>>
    BY <1>7 DEF WorkerOnly, vars, wqVars, storeVars
  <2> QED BY <1>2, <2>1
<1> QED BY <1>3, <1>4, <1>5, <1>6, <1>7, WorkerSplits DEF Next, Restart

-----------------------------------------------------------------------------
(* What the worker does between the start and the end of a sync. *)

\* The steps within a sync, with what they do to the worker.
ListStep   == /\ ListForCleanup
              /\ worker'.pc = "cleanup" /\ worker'.todo = GetIds \ ValidLBs
DeleteStep == \E n \in Name :
                /\ CleanupDelete(n, FALSE)
                /\ worker'.pc = "cleanup" /\ worker'.todo = worker.todo \ {n}
HostStep   == /\ worker.pc = "tls" /\ worker'.pc = "tls"
              /\ \E h \in worker.todo :
                   /\ worker'.todo = worker.todo \ {h}
                   /\ worker'.certs = [worker.certs EXCEPT
                                        ![h] = depCache[HostSecret(worker.ing.spec)[h]]]
NodesStep  == /\ worker.pc = "tls" /\ worker.todo = {} /\ worker'.pc = "translate"
              /\ worker'.todo = worker.ing.spec.services
              /\ worker'.certs = worker.certs
              /\ worker'.got[Nodes] = depCache[Nodes]
ServiceStep == /\ worker.pc = "translate" /\ worker'.pc = "translate"
               /\ worker'.certs = worker.certs
               /\ \E s \in worker.todo :
                    /\ worker'.todo = worker.todo \ {s}
                    /\ worker'.got = [worker.got EXCEPT ![s] = depCache[s]]
InputStep  == /\ worker.pc = "translate" /\ worker.todo = {} /\ worker'.pc = "lb"
              /\ worker'.input.cfg = Rendering(worker.ing.spec, worker.certs, worker.got)
FailStep   == worker'.pc = "finish" /\ worker'.err
CleanStep  == worker.pc = "cleanup" /\ worker.todo = {} /\ worker'.pc = "finish"
PushStep   == SyncLB(FALSE) /\ worker'.pc = "finish"

\* Every step within a sync is one of these, and keeps the key and the ingress.
LEMMA SyncMoves ==
  ASSUME TypeInv, Worker
  PROVE  \/ StartItem \/ Finish \/ NewProcess
         \/ /\ WorkerOnly
            /\ worker.pc # "idle" /\ worker'.key = worker.key /\ worker'.ing = worker.ing
            /\ \/ ListStep \/ DeleteStep \/ HostStep \/ NodesStep \/ ServiceStep
               \/ InputStep \/ FailStep \/ CleanStep \/ PushStep
<1>0. worker \in WorkerState
  BY DEF TypeInv, WorkerOK
<1> DEFINE Same == worker'.key = worker.key /\ worker'.ing = worker.ing
<1>1. \A e \in BOOLEAN : worker' = Finishing(worker, e) =>
        Same /\ worker'.pc = "finish" /\ worker'.err = e
  BY <1>0, FinishingState
<1>2. worker' = BadData(worker) => Same /\ worker'.pc = "finish" /\ worker'.err
  BY <1>0, BadDataState
<1>3. CASE ListForCleanup
  BY <1>0, <1>3 DEF ListForCleanup, ListStep, WorkerState
<1>4. ASSUME NEW n \in Name, NEW err \in BOOLEAN, CleanupDelete(n, err)
      PROVE  WorkerOnly /\ worker.pc # "idle" /\ Same /\ (DeleteStep \/ FailStep)
  <2>1. CASE err
    BY <1>1, <1>4, <2>1 DEF CleanupDelete, FailStep
  <2>2. CASE ~err
    <3>1. worker' = [worker EXCEPT !.todo = worker.todo \ {n}] /\ worker.pc = "cleanup"
      BY <1>4, <2>2 DEF CleanupDelete
    <3>2. Same /\ worker'.pc = "cleanup" /\ worker'.todo = worker.todo \ {n}
      BY <1>0, <3>1 DEF WorkerState
    <3>3. CleanupDelete(n, FALSE)
      BY <1>4, <2>2
    <3> QED BY <3>1, <3>2, <3>3 DEF DeleteStep, CleanupDelete
  <2> QED BY <2>1, <2>2
<1>5. CASE CleanupDone
  BY <1>1, <1>5 DEF CleanupDone, CleanStep
<1>6. ASSUME NEW h \in Host, SyncHost(h)
      PROVE  WorkerOnly /\ worker.pc # "idle" /\ Same /\ (HostStep \/ FailStep)
  <2> DEFINE content == depCache[HostSecret(worker.ing.spec)[h]]
  <2>1. /\ worker.pc = "tls" /\ h \in worker.todo /\ WorkerOnly
        /\ \/ worker' = BadData(worker)
           \/ worker' = Finishing(worker, TRUE)
           \/ worker' = [worker EXCEPT !.todo = worker.todo \ {h}, !.certs[h] = content]
    BY <1>6 DEF SyncHost
  <2>2. ASSUME worker' = [worker EXCEPT !.todo = worker.todo \ {h}, !.certs[h] = content]
        PROVE  Same /\ HostStep
    BY <1>0, <2>1, <2>2 DEF HostStep, WorkerState
  <2> QED BY <1>1, <1>2, <2>1, <2>2 DEF FailStep
<1>7. CASE Translate
  <2> DEFINE s  == worker.ing.spec
             in == [name    |-> worker.ing.name,
                    cfg     |-> Rendering(s, worker.certs, worker.got),
                    cluster |-> s.cluster]
  <2>1. /\ worker.pc = "translate" /\ worker.todo = {} /\ WorkerOnly
        /\ \/ worker' = BadData(worker)
           \/ worker' = [worker EXCEPT !.pc = "lb", !.certs = NoCerts, !.got = NoDeps,
                                       !.input = in]
    BY <1>7 DEF Translate
  <2>2. in.cfg = Rendering(s, worker.certs, worker.got)
    OBVIOUS
  <2> HIDE DEF in
  <2>3. ASSUME worker' = [worker EXCEPT !.pc = "lb", !.certs = NoCerts, !.got = NoDeps,
                                        !.input = in]
        PROVE  Same /\ InputStep
    BY <1>0, <2>1, <2>2, <2>3 DEF InputStep, WorkerState
  <2> QED BY <1>2, <2>1, <2>3 DEF FailStep
<1>8. ASSUME NEW err \in BOOLEAN, SyncLB(err)
      PROVE  WorkerOnly /\ worker.pc # "idle" /\ Same /\ (PushStep \/ FailStep)
  <2>1. Same /\ worker'.pc = "finish" /\ worker'.err = err
    BY <1>1, <1>8 DEF SyncLB
  <2>2. err \/ SyncLB(FALSE)
    BY <1>8
  <2> QED BY <1>8, <2>1, <2>2 DEF SyncLB, PushStep, FailStep
<1>9. ListForCleanup \/ CleanupDone => WorkerOnly /\ worker.pc # "idle"
  BY DEF ListForCleanup, CleanupDone
<1>10. CASE GetNodes
  <2>1. /\ worker.pc = "tls" /\ worker.todo = {} /\ WorkerOnly
        /\ worker' = [worker EXCEPT !.pc = "translate", !.todo = worker.ing.spec.services,
                                    !.got[Nodes] = depCache[Nodes]]
    BY <1>10 DEF GetNodes
  <2>2. Same /\ NodesStep
    BY <1>0, <2>1 DEF NodesStep, WorkerState, Dep
  <2> QED BY <2>1, <2>2
<1>11. ASSUME NEW s \in Service, GetService(s)
       PROVE  WorkerOnly /\ worker.pc # "idle" /\ Same /\ (ServiceStep \/ FailStep)
  <2>1. /\ worker.pc = "translate" /\ s \in worker.todo /\ WorkerOnly
        /\ \/ worker' = BadData(worker)
           \/ worker' = [worker EXCEPT !.todo = worker.todo \ {s}, !.got[s] = depCache[s]]
    BY <1>11 DEF GetService
  <2>2. ASSUME worker' = [worker EXCEPT !.todo = worker.todo \ {s}, !.got[s] = depCache[s]]
        PROVE  Same /\ ServiceStep
    BY <1>0, <2>1, <2>2 DEF ServiceStep, WorkerState
  <2> QED BY <1>2, <2>1, <2>2 DEF FailStep
<1> QED BY <1>1, <1>3, <1>4, <1>5, <1>6, <1>7, <1>8, <1>9, <1>10, <1>11 DEF Worker, Panic

-----------------------------------------------------------------------------
(* Nothing is left behind: the step. *)

\* A name that has been given to a key is not a name of another key.
LEMMA NameShows ==
  ASSUME NEW k \in Key, NEW m \in Key, NEW r \in Rev, NameOfKey(m, NameOf[<<k, r>>])
  PROVE  k = m
<1>1. PICK q \in Rev : NameOf[<<k, r>>] = NameOf[<<m, q>>]
  BY DEF NameOfKey, GivenBefore
<1>2. <<k, r>> = <<m, q>>
  BY <1>1, SyncAssumption
<1> QED BY <1>2

\* Names of a key are registered by a sync of this key only.
LEMMA RegisteredStep ==
  ASSUME NamingInv, [Next]_vars, NEW k \in Key
  PROVE  Registered(k)' \subseteq Registered(k) \/ (worker.pc = "lb" /\ worker.key = k)
<1> SUFFICES ASSUME NEW n \in GetIds', NEW r \in Rev, n = NameOf[<<k, r>>], n \notin GetIds
             PROVE  worker.pc = "lb" /\ worker.key = k
  BY DEF Registered
<1>1. worker.pc = "lb" /\ n = worker.ing.name
  BY StepOfRegistry DEF NamingInv
<1>2. worker.key \in Key /\ NameOfKey(worker.key, n)
  BY <1>1 DEF NamingInv, NamesInv, BaseInv, TypeInv, WorkerOK, IsSc
<1> QED BY <1>1, <1>2, NameShows

\* What is of the class and no longer is, is reported.
LEMMA LossIsReported ==
  ASSUME BaseInv, [Next]_vars, NEW k \in Key, IsSc(cache[k]) \/ IsSc(cache'[k]),
         cache'[k] # cache[k]
  PROVE  Pend(k)' \/ NewProcess
<1> USE DEF BaseInv
<1>1. Users => cache' = cache
  BY UsersDo
<1>2. StartItem \/ CopiesStay => cache' = cache
  BY DEF StartItem, CopiesStay, storeVars
<1>3. ASSUME NEW m \in Key, ObserveIngress(m) \/ MissDelete(m)
      PROVE  Pend(k)'
  <2>1. cache' = [cache EXCEPT ![m] = api[m]]
    BY <1>3, InformerDoes
  <2>2. m = k
    BY <2>1 DEF TypeInv, SyncTypeOK
  <2>3. notifs' \in {Append(notifs, k), Append(notifs, Nil)}
    <3>1. CASE MissDelete(k)
      BY <3>1 DEF MissDelete
    <3>2. CASE ObserveIngress(k)
      <4>1. cache'[k] = api[k]
        BY <2>1, <2>2 DEF TypeInv, SyncTypeOK
      <4>2. Concerns(cache[k], api[k])
        BY <4>1 DEF Concerns
      <4> QED BY <3>2, <4>2 DEF ObserveIngress
    <3> QED BY <1>3, <2>2, <3>1, <3>2
  <2>4. notifs \in Seq(Key \cup {Nil})
    BY DEF TypeInv, SyncTypeOK
  <2>5. /\ Elements(Append(notifs, k)) = Elements(notifs) \cup {k}
        /\ Elements(Append(notifs, Nil)) = Elements(notifs) \cup {Nil}
    BY <2>4, ElementsOfAppend
  <2>6. {k, Nil} \cap Elements(notifs') # {}
    BY <2>3, <2>5
  <2> QED BY <2>6 DEF Pend
<1> QED BY <1>1, <1>2, <1>3, StepOfCopies

\* A step leaves a name registered only where it is looked after.
LEMMA LeftStep ==
  ASSUME NamingInv, LeftInv, [Next]_vars
  PROVE  LeftInv'
<1> USE DEF NamingInv, BaseInv
<1>1. TypeInv'
  BY StepTyped
<1>2. CASE NewProcess
  <2>1. GetIds' = {} /\ worker'.pc = "idle"
    BY <1>2, NewProcessForgets
  <2> QED BY <2>1 DEF LeftInv, Registered
<1>3. ASSUME ~NewProcess, NEW k \in Key, IsSc(cache[k]) \/ Pend(k)
      PROVE  \/ IsSc(cache'[k]) \/ Pend(k)'
             \/ StartItem /\ worker'.key = k
  BY <1>3, PendStays, LossIsReported
<1>4. \A k \in Key : Registered(k)' \subseteq Registered(k) \/ (worker.pc = "lb" /\ worker.key = k)
  BY RegisteredStep
\* Steps that leave the worker alone.
<1>5. ASSUME ~NewProcess, worker' = worker, dropped' = dropped
      PROVE  LeftInv'
  <2>1. ~StartItem
    BY <1>5, StartTyped DEF StartItem
  <2>2. \A k \in Key : Busy(k)' <=> Busy(k)
    BY <1>5 DEF Busy
  <2>3. ASSUME NEW k \in Key, Busy(k), worker.pc \in {"tls", "translate", "lb"}
        PROVE  IsSc(cache'[k]) \/ Pend(k)'
    BY <1>3, <1>5, <2>1, <2>3 DEF LeftInv
  <2>4. ASSUME NEW k \in Key, Registered(k)' # {}
        PROVE  IsSc(cache'[k]) \/ Pend(k)' \/ (~Busy(k) /\ k \in dropped) \/ Cleaning(k)'
    <3>1. CASE worker.pc = "lb" /\ worker.key = k
      BY <2>3, <3>1 DEF Busy
    <3>2. CASE Registered(k)' \subseteq Registered(k)
      <4>1. Cleaning(k) => Cleaning(k)'
        BY <1>5, <3>2, <2>2 DEF Cleaning
      <4> QED BY <1>3, <1>5, <2>1, <2>4, <3>2, <4>1 DEF LeftInv
    <3> QED BY <1>4, <3>1, <3>2
  <2> QED BY <1>5, <2>2, <2>3, <2>4 DEF LeftInv
\* The start of a sync.
<1>6. CASE StartItem
  <2>1. PICK m \in Key : worker'.key = m /\ worker'.pc = IF IsSc(cache[m]) THEN "tls" ELSE "list"
    BY <1>6, StartTyped
  <2>2. /\ worker.pc = "idle" /\ UNCHANGED <<resources, cache, dropped>>
    BY <1>6 DEF StartItem, lbVars, storeVars, tallies
  <2>3. \A k \in Key : Registered(k)' = Registered(k)
    BY <2>2 DEF Registered, GetIds
  <2>4. \A k \in Key : (Busy(k)' <=> k = m) /\ ~Busy(k)
    BY <2>1, <2>2 DEF Busy
  <2>5. ~NewProcess
    BY <2>1, NewProcessForgets
  <2>6. ASSUME NEW k \in Key, Registered(k) # {}
        PROVE  IsSc(cache[k]) \/ Pend(k)' \/ (k # m /\ k \in dropped) \/ Cleaning(k)'
    <3>1. CASE k = m
      BY <2>1, <2>4, <3>1 DEF Cleaning
    <3>2. CASE k # m
      BY <1>3, <2>1, <2>2, <2>4, <2>5, <2>6, <3>2 DEF LeftInv, Cleaning
    <3> QED BY <3>1, <3>2
  <2>7. ASSUME NEW k \in Key, Busy(k)', worker'.pc \in {"tls", "translate", "lb"}
        PROVE  IsSc(cache[k])
    BY <2>1, <2>4, <2>7
  <2> QED BY <2>2, <2>3, <2>4, <2>6, <2>7 DEF LeftInv
\* The end of a sync: it is retried, or the key is dropped, or all went well.
<1>7. CASE Finish
  <2> DEFINE m == worker.key
  <2>1. /\ worker.pc = "finish" /\ m \in Key /\ worker'.pc = "idle"
        /\ UNCHANGED <<resources, cache>>
    BY <1>7, IdleState DEF Finish, TypeInv, WorkerOK, lbVars, storeVars
  <2>2. \A k \in Key : k # m /\ k \in dropped => k \in dropped'
    BY <1>7 DEF Finish
  <2>3. worker.err => m \in waiting' \/ m \in dropped'
    BY <1>7, <2>1 DEF Finish, FinishItem, AddRateLimited, Retries
  <2>4. \A k \in Key : Registered(k)' = Registered(k) /\ ~Busy(k)' /\ (Busy(k) <=> k = m)
    BY <2>1 DEF Registered, GetIds, Busy
  <2>5. ~StartItem
    BY <2>1 DEF StartItem
  <2>6. ASSUME NEW k \in Key, Registered(k) # {}, ~NewProcess
        PROVE  IsSc(cache[k]) \/ Pend(k)' \/ k \in dropped'
    <3>1. IsSc(cache[k]) \/ Pend(k) => IsSc(cache[k]) \/ Pend(k)'
      BY <1>3, <2>1, <2>5, <2>6
    <3>2. CASE k = m
      <4>1. worker.err => Pend(k)' \/ k \in dropped'
        BY <2>3, <3>2 DEF Pend
      <4> QED BY <2>1, <2>4, <2>6, <3>1, <3>2, <4>1 DEF LeftInv, Cleaning
    <3>3. CASE k # m
      BY <2>2, <2>4, <2>6, <3>1, <3>3 DEF LeftInv, Cleaning
    <3> QED BY <3>2, <3>3
  <2> QED BY <1>2, <2>1, <2>4, <2>6 DEF LeftInv
\* Within a sync.
<1>8. ASSUME ~NewProcess, WorkerOnly, worker.pc # "idle", worker'.key = worker.key,
             \/ ListStep \/ DeleteStep \/ HostStep \/ NodesStep \/ ServiceStep \/ InputStep
             \/ FailStep \/ CleanStep \/ PushStep
      PROVE  LeftInv'
  <2> DEFINE m == worker.key
  <2>1. m \in Key /\ ~StartItem /\ UNCHANGED <<cache, dropped>>
    BY <1>8 DEF TypeInv, WorkerOK, StartItem, WorkerOnly, storeVars, tallies
  <2>2. worker'.pc # "idle"
    BY <1>8 DEF ListStep, DeleteStep, HostStep, NodesStep, ServiceStep, InputStep,
           FailStep, CleanStep, PushStep
  <2>3. \A k \in Key : (Busy(k)' <=> k = m) /\ (Busy(k) <=> k = m)
    BY <1>8, <2>2 DEF Busy
  <2>4. \A k \in Key : IsSc(cache[k]) \/ Pend(k) => IsSc(cache'[k]) \/ Pend(k)'
    BY <1>3, <1>8, <2>1
  <2>5. ASSUME NEW k \in Key, Busy(k)', worker'.pc \in {"tls", "translate", "lb"}
        PROVE  IsSc(cache'[k]) \/ Pend(k)'
    <3>1. worker.pc \in {"tls", "translate", "lb"} /\ Busy(k)
      BY <1>8, <2>3, <2>5
         DEF ListStep, DeleteStep, HostStep, NodesStep, ServiceStep, InputStep,
           FailStep, CleanStep, PushStep
    <3> QED BY <2>4, <3>1 DEF LeftInv
  <2>6. ASSUME NEW k \in Key, k # m, Registered(k)' # {}
        PROVE  IsSc(cache'[k]) \/ Pend(k)' \/ (~Busy(k)' /\ k \in dropped')
    BY <1>4, <2>1, <2>3, <2>4, <2>6 DEF LeftInv, Cleaning
  <2>7. ASSUME NEW k \in Key, k = m, Registered(k)' # {}, ~IsSc(cache'[k]), ~Pend(k)'
        PROVE  Cleaning(k)'
    <3>1. ~IsSc(cache[k]) /\ ~Pend(k) /\ Busy(k) /\ Busy(k)'
      BY <2>3, <2>4, <2>7
    <3>2. worker.pc \notin {"tls", "translate", "lb"} /\ Registered(k)' \subseteq Registered(k)
      BY <1>4, <3>1 DEF LeftInv
    <3>3. Cleaning(k)
      BY <2>7, <3>1, <3>2 DEF LeftInv
    <3>4. CASE ListStep
      \* What is listed for the key is not the name of a valid ingress.
      <4>1. Registered(k) \cap ValidLBs = {}
        <5> SUFFICES ASSUME NEW q \in Key, IsSc(cache[q]), NEW r \in Rev,
                            cache[q].name = NameOf[<<k, r>>]
                     PROVE  FALSE
          BY DEF Registered, ValidLBs
        <5>1. NameOfKey(q, NameOf[<<k, r>>])
          BY DEF NamesInv, IsSc
        <5> QED BY <3>1, <5>1, NameShows
      <4>2. Registered(k)' \subseteq worker'.todo
        BY <3>2, <3>4, <4>1 DEF ListStep, Registered
      <4> QED BY <3>1, <3>4, <4>2 DEF Cleaning, ListStep
    <3>5. ASSUME NEW n \in Name, CleanupDelete(n, FALSE), worker'.pc = "cleanup",
                 worker'.todo = worker.todo \ {n}
          PROVE  Cleaning(k)'
      <4>1. n \notin GetIds'
        BY <3>5, DeleteEffect DEF CleanupDelete, GetIds
      <4>2. Registered(k)' \subseteq worker'.todo
        BY <3>2, <3>3, <3>5, <4>1 DEF Registered, Cleaning, CleanupDelete
      <4> QED BY <3>1, <3>5, <4>2 DEF Cleaning
    <3>6. CASE FailStep
      BY <3>1, <3>6 DEF FailStep, Cleaning
    <3>7. CASE CleanStep
      BY <2>7, <3>2, <3>3, <3>7 DEF CleanStep, Cleaning
    <3>8. ~HostStep /\ ~NodesStep /\ ~ServiceStep /\ ~InputStep /\ ~PushStep
      BY <3>2 DEF HostStep, NodesStep, ServiceStep, InputStep, PushStep, SyncLB
    <3> QED BY <1>8, <3>4, <3>5, <3>6, <3>7, <3>8 DEF DeleteStep
  <2> QED BY <2>5, <2>6, <2>7 DEF LeftInv
<1>9. Users \/ Informers \/ UNCHANGED vars => NewProcess \/ (worker' = worker /\ dropped' = dropped)
  BY DEF Users, CreateIngress, EditIngress, DeleteIngress, Write, WriteDep, Informers,
         ObserveIngress, MissDelete, HandleIngressEvent, HandleTombstone, IndexerPanics,
         ObserveDep, HandleDepEvent, AddDependent, DelayPassed, vars, tallies
<1> QED BY <1>2, <1>5, <1>6, <1>7, <1>8, <1>9, SyncMoves DEF Next, Restart

\* At the start nothing is registered.
LEMMA LeftStarts == Init => LeftInv
<1> SUFFICES ASSUME Init PROVE LeftInv
  OBVIOUS
<1>1. worker.pc = "idle" /\ GetIds = {}
  BY IdleState DEF Init, LBInit, GetIds
<1> QED BY <1>1 DEF LeftInv, Registered

\* The process leaves nothing behind it knows of: when all is settled, what is
\* registered belongs to a key with an ingress of this class, or was given up on.
THEOREM NothingIsLeft == SyncSpec => []NothingLeftRegistered
<1>1. NamingInv /\ LeftInv /\ [Next]_vars => LeftInv'
  BY LeftStep
<1>2. NamingInv /\ LeftInv => NothingLeftRegistered
  <2> SUFFICES ASSUME NamingInv, LeftInv, \A k \in Key : Settled(k), dropped = {},
                      NEW k \in Key, NEW r \in Rev, resources[NameOf[<<k, r>>]] # Nil
               PROVE  IsSc(api[k])
    BY DEF NothingLeftRegistered
  <2>1. Registered(k) # {}
    BY SyncAssumption DEF Registered, GetIds
  <2>2. ~Pend(k) /\ ~Busy(k) /\ cache[k] = api[k]
    BY DEF Settled, Pend, Elements, Busy, NamingInv, BaseInv, TypeInv, SyncTypeOK
  <2> QED BY <2>1, <2>2 DEF LeftInv, Cleaning
<1> QED BY <1>1, <1>2, LeftStarts, NamingInvariant, PTL DEF SyncSpec

-----------------------------------------------------------------------------
(* Nothing is lost: the step. *)

\* Of the dependencies, users change one, an informer copies one, and a new
\* process copies all.
LEMMA StepOfDeps ==
  ASSUME [Next]_vars
  PROVE  \/ NewProcess
         \/ \E d \in Dep, v \in Value \cup {Nil} : WriteDep(d, v) /\ UNCHANGED storeVars
         \/ \E d \in Dep : ObserveDep(d)
         \/ UNCHANGED <<dep, depCache>>
<1>1. CASE Users
  BY <1>1 DEF Users, CreateIngress, EditIngress, DeleteIngress, Write, WriteDep, storeVars
<1>2. CASE Informers
  BY <1>2 DEF Informers, ObserveIngress, MissDelete, HandleIngressEvent, HandleTombstone,
              IndexerPanics, HandleDepEvent, AddDependent, DelayPassed, clusterVars, storeVars
<1>3. CASE Worker
  <2>1. StartItem \/ Finish \/ WorkerOnly => UNCHANGED <<dep, depCache>>
    BY DEF StartItem, Finish, WorkerOnly, clusterVars, storeVars
  <2> QED BY <1>3, <2>1, WorkerSplits
<1> QED BY <1>1, <1>2, <1>3 DEF Next, Restart, vars, clusterVars, storeVars

\* No dependency goes away, and the Nodes stay as they are.
LEMMA DepsStep ==
  ASSUME DepsReported, DepsInv, [Next]_vars
  PROVE  DepsInv'
<1>1. NewProcess => DepsInv'
  BY DEF NewProcess, StoreStart, DepsInv, clusterVars
<1>2. ASSUME NEW d \in Dep, NEW v \in Value \cup {Nil}, WriteDep(d, v), UNCHANGED storeVars
      PROVE  DepsInv'
  BY <1>2 DEF WriteDep, DepsReported, DepsInv, storeVars, Dep
<1>3. ASSUME NEW d \in Dep, ObserveDep(d)
      PROVE  DepsInv'
  BY <1>3 DEF ObserveDep, DepsInv, clusterVars, Dep
<1>4. UNCHANGED <<dep, depCache>> => DepsInv'
  BY DEF DepsInv
<1> QED BY <1>1, <1>2, <1>3, <1>4, StepOfDeps

\* A key that will be on its way stays so, too.
LEMMA SchedStays ==
  ASSUME BaseInv, [Next]_vars, NEW k \in Key, Sched(k), IsSc(cache'[k])
  PROVE  \/ Sched(k)'
         \/ NewProcess
         \/ StartItem /\ worker'.key = k
<1> USE DEF BaseInv
<1>1. CASE Pend(k)
  BY <1>1, PendStays DEF Sched
<1>2. CASE cache'[k] # cache[k]
  BY <1>2, LossIsReported DEF Sched
<1>3. ASSUME cache'[k] = cache[k], NEW d \in depNotifs, d \in Indexed(cache[k].spec),
             ~NewProcess
      PROVE  Sched(k)'
  <2>1. cache[k] # Nil
    BY <1>3 DEF IsSc
  <2>2. CASE d \in depNotifs'
    BY <1>3, <2>1, <2>2 DEF Sched
  <2>3. CASE HandleDepEvent(d)
    BY <1>3, <2>1, <2>3 DEF HandleDepEvent, Sched, Pend
  <2>4. CASE Users
    BY <2>2, <2>4 DEF Users, CreateIngress, EditIngress, DeleteIngress, Write, WriteDep, storeVars
  <2>5. CASE Informers
    BY <1>3, <2>2, <2>3, <2>5
       DEF Informers, ObserveIngress, MissDelete, HandleIngressEvent, HandleTombstone,
           IndexerPanics, ObserveDep, HandleDepEvent, AddDependent, DelayPassed, storeVars
  <2>6. CASE StartItem \/ Finish \/ WorkerOnly \/ UNCHANGED vars
    BY <2>2, <2>6 DEF StartItem, Finish, WorkerOnly, vars, storeVars
  <2> QED BY <1>3, <2>4, <2>5, <2>6, WorkerSplits DEF Next, Restart
<1> QED BY <1>1, <1>2, <1>3 DEF Sched

\* What the translation for key k reads is as before.
ReadsStay(k) == \A x \in cache[k].spec.services \cup {Nodes} : depCache'[x] = depCache[x]

\* What a dependency has no part in does not change with it.
LEMMA AskedStays ==
  ASSUME DepsReported, SecretsIndexed, BaseInv, DepsInv, [Next]_vars, ~NewProcess,
         NEW k \in Key, IsSc(cache[k]), cache'[k] = cache[k]
  PROVE  \/ Sched(k)'
         \/ HostCerts(k)' = HostCerts(k) /\ Asked(k)' = Asked(k) /\ ReadsStay(k)
<1>1. CASE depCache' = depCache
  BY <1>1 DEF HostCerts, Asked, ReadsStay
<1>2. ASSUME NEW d \in Dep, ObserveDep(d)
      PROVE  \/ Sched(k)'
             \/ HostCerts(k)' = HostCerts(k) /\ Asked(k)' = Asked(k) /\ ReadsStay(k)
  <2>1. /\ d # Nodes
        /\ depCache' = [depCache EXCEPT ![d] = dep[d]]
        /\ d \in depNotifs'
    BY <1>2, SyncAssumption DEF ObserveDep, DepsInv
  <2>2. CASE d \in Indexed(cache[k].spec)
    BY <2>1, <2>2 DEF Sched, IsSc
  <2>3. CASE d \notin Indexed(cache[k].spec)
    <3> DEFINE s == cache[k].spec
    <3>1. s \in Spec
      BY DEF BaseInv, TypeInv, SyncTypeOK, IsSc, Ingress
    <3>2. \A h \in SecretHosts(s) : depCache'[HostSecret(s)[h]] = depCache[HostSecret(s)[h]]
      <4> SUFFICES ASSUME NEW h \in SecretHosts(s)
                   PROVE  depCache'[HostSecret(s)[h]] = depCache[HostSecret(s)[h]]
        OBVIOUS
      <4>1. HostSecret(s)[h] # d
        BY <2>3, <3>1 DEF SecretsIndexed, SecretHosts
      <4> QED BY <2>1, <4>1 DEF DepsInv
    <3>3. HostCerts(k)' = HostCerts(k)
      BY <3>2 DEF HostCerts
    <3>4. /\ \A x \in s.services : depCache'[x] = depCache[x]
          /\ depCache'[Nodes] = depCache[Nodes]
      BY <2>1, <2>3 DEF Indexed, DepsInv
    <3>5. Asked(k)' = Asked(k)
      BY <3>3, <3>4 DEF Asked, Rendering
    <3> QED BY <3>3, <3>4, <3>5 DEF ReadsStay
  <2> QED BY <2>2, <2>3
<1> QED BY <1>1, <1>2, StepOfDeps DEF storeVars

\* A call for one name leaves the others served.
LEMMA OthersStayServed ==
  ASSUME RegistryInv, NEW c \in Name, NEW n \in Name, n # c,
         \/ DeleteLoadBalancer(c, FALSE) \/ DeleteLoadBalancer(c, TRUE)
         \/ \E in \in Input, err \in BOOLEAN : in.name = c /\ SyncL7LB(in, err)
  PROVE  /\ resources'[n] = resources[n]
         /\ resources[n] # Nil /\ ~resources[n].deleted =>
              portal'[resources[n].id] = portal[resources[n].id]
<1> DEFINE d == resources[n].id
<1>1. resources[n] # Nil => d \in Id /\ n \in GetIds
  BY DEF RegistryInv, LBTypeOK, LoadBalancer, GetIds
<1>2. resources[n] # Nil =>
        /\ d < nextId
        /\ portal[d] # Nil => portal[d].name = n
        /\ ~resources[n].deleted => portal[d] # Nil
  BY <1>1 DEF RegistryInv, RegistrySound, SoundAt
<1>3. ASSUME NEW err \in BOOLEAN, DeleteLoadBalancer(c, err)
      PROVE  /\ resources'[n] = resources[n]
             /\ \A i \in Id : portal'[i] = portal[i] \/ (portal[i] # Nil /\ portal[i].name = c)
  BY <1>3, DeleteEffect
<1>4. ASSUME NEW in \in Input, NEW err \in BOOLEAN, in.name = c, SyncL7LB(in, err)
      PROVE  /\ resources'[n] = resources[n]
             /\ \A i \in Id : \/ portal'[i] = portal[i]
                              \/ portal[i] # Nil /\ portal[i].name = c
                              \/ i = nextId
  <2>1. /\ \A x \in Name : x # in.name => resources'[x] = resources[x]
        /\ \/ \A i \in Id : \/ portal'[i] = portal[i]
                            \/ portal[i] # Nil /\ portal[i].name = in.name
           \/ nextId \in Id /\ portal' = [portal EXCEPT ![nextId] = Created(in)]
    BY <1>4, SyncEffect
  <2> QED BY <1>4, <2>1 DEF RegistryInv, LBTypeOK
<1>5. resources[n] # Nil => d # nextId
  BY <1>1, <1>2, LBAssumption DEF Id, RegistryInv, LBTypeOK
<1>6. /\ resources'[n] = resources[n]
      /\ \A i \in Id : \/ portal'[i] = portal[i]
                       \/ portal[i] # Nil /\ portal[i].name = c
                       \/ i = nextId
  BY <1>3, <1>4
<1> HIDE DEF d
<1>7. resources[n] # Nil /\ ~resources[n].deleted => portal'[d] = portal[d]
  BY <1>1, <1>2, <1>5, <1>6
<1> QED BY <1>6, <1>7 DEF d

\* Within a sync, an ingress that is served stays so, unless its key is on its way
\* or its own load balancer is updated.
LEMMA ServedWithin ==
  ASSUME NamingInv, ServedInv, [Next]_vars, ~NewProcess, WorkerOnly,
         NEW k \in Key, IsSc(cache[k]), ServedAsStored(k)
  PROVE  Sched(k) \/ ServedAsStored(k)' \/ (worker.pc = "lb" /\ worker.key = k)
<1> USE DEF NamingInv, BaseInv
<1> DEFINE n == cache[k].name
<1>1. n \in Name /\ NameOfKey(k, n) /\ n \in GetIds
  BY DEF TypeInv, SyncTypeOK, Ingress, NamesInv, ServedAsStored, IsSc, GetIds
<1>2. cache' = cache /\ Asked(k)' = Asked(k)
  BY DEF WorkerOnly, storeVars, Asked, HostCerts
<1>3. ASSUME resources'[n] = resources[n],
             ~resources[n].deleted => portal'[resources[n].id] = portal[resources[n].id]
      PROVE  ServedAsStored(k)'
  BY <1>2, <1>3 DEF ServedAsStored
<1>4. OnlyFaults => ServedAsStored(k)'
  BY <1>3 DEF OnlyFaults
<1>5. ASSUME NEW err \in BOOLEAN, SyncLB(err), worker.key # k
      PROVE  ServedAsStored(k)'
  <2>1. /\ worker.pc = "lb" /\ SyncL7LB(worker.input, err)
        /\ worker.input \in Input /\ worker.input.name = worker.ing.name
        /\ worker.key \in Key /\ NameOfKey(worker.key, worker.ing.name)
    BY <1>5 DEF SyncLB, TypeInv, WorkerOK, IsSc, NamesInv
  <2>2. worker.input.name \in Name /\ worker.input.name # n
    BY <1>1, <1>5, <2>1, NamesApart DEF Input
  <2> DEFINE c == worker.input.name
  <2>3. \E in \in Input, e \in BOOLEAN : in.name = c /\ SyncL7LB(in, e)
    BY <2>1
  <2> HIDE DEF n, c
  <2>4. /\ resources'[n] = resources[n]
        /\ resources[n] # Nil /\ ~resources[n].deleted =>
             portal'[resources[n].id] = portal[resources[n].id]
    <3>1. PICK x \in Name : x = n
      BY <1>1
    <3>2. PICK y \in Name : y = c
      BY <2>2 DEF c
    <3> QED BY <2>2, <2>3, <3>1, <3>2, OthersStayServed DEF c
  <2> QED BY <1>1, <1>3, <2>4 DEF GetIds
<1>6. ASSUME NEW c \in Name, NEW err \in BOOLEAN, CleanupDelete(c, err), ~Sched(k)
      PROVE  ServedAsStored(k)'
  <2>1. c # n /\ DeleteLoadBalancer(c, err)
    BY <1>6 DEF CleanupDelete, ServedInv
  <2> HIDE DEF n
  <2>2. PICK x \in Name : x = n
    BY <1>1
  <2>3. DeleteLoadBalancer(c, FALSE) \/ DeleteLoadBalancer(c, TRUE)
    BY <2>1
  <2>4. /\ resources'[n] = resources[n]
        /\ resources[n] # Nil /\ ~resources[n].deleted =>
             portal'[resources[n].id] = portal[resources[n].id]
    BY <2>1, <2>2, <2>3, OthersStayServed
  <2> QED BY <1>1, <1>3, <2>4 DEF GetIds
<1>7. \A err \in BOOLEAN : SyncLB(err) => worker.pc = "lb"
  BY DEF SyncLB
<1> QED BY <1>4, <1>5, <1>6, <1>7, StepOfManager

\* A sync that succeeds serves what it was asked to.
LEMMA PushServesKey ==
  ASSUME NamingInv, AckInv', SyncLB(FALSE),
         NEW k \in Key, IsSc(cache[k]), worker.ing = cache[k],
         worker.input.cfg = Asked(k)
  PROVE  ServedAsStored(k)'
<1> USE DEF NamingInv, BaseInv
<1> DEFINE in == worker.input
           n  == cache[k].name
<1>1. /\ in \in Input /\ in.name = n /\ in.cfg = Asked(k)
      /\ SyncL7LB(in, FALSE) /\ UNCHANGED <<cache, depCache>>
  BY DEF SyncLB, WorkerOnly, storeVars, TypeInv, WorkerOK
<1>2. in # Nil /\ n \in Name
  BY <1>1, LBAssumption DEF Input
<1> HIDE DEF in
<1>3. resources'[n] # Nil
  BY <1>1, SyncEffect
<1>4. acked'[n] = in
  BY <1>1, <1>2 DEF SyncL7LB, RegistryInv, LBTypeOK
<1>5. ~resources'[n].deleted => portal'[resources'[n].id].cfg = in.cfg
  BY <1>2, <1>3, <1>4 DEF AckInv, ServedAt
<1>6. Asked(k)' = Asked(k)
  BY <1>1 DEF Asked, HostCerts
<1> QED BY <1>1, <1>3, <1>5, <1>6 DEF ServedAsStored

\* A step leaves an ingress unserved only where it is looked after.
LEMMA ServedStep ==
  ASSUME DepsReported, SecretsIndexed, NamingInv, AckInv', DepsInv, ServedInv, [Next]_vars
  PROVE  ServedInv'
<1> USE DEF NamingInv, BaseInv
<1>1. CASE NewProcess
  <2>1. (\A k \in Key : ~IsSc(cache'[k])) /\ worker'.pc = "idle"
    BY <1>1, NewProcessForgets DEF IsSc
  <2> QED BY <2>1 DEF ServedInv
\* Steps that leave the worker and the manager alone.
<1>2. ASSUME ~NewProcess, UNCHANGED <<worker, dropped, resources, portal>>
      PROVE  ServedInv'
  <2>1. ~StartItem
    BY <1>2, StartTyped DEF StartItem
  <2>2. \A k \in Key : Busy(k)' <=> Busy(k)
    BY <1>2 DEF Busy
  <2>3. ASSUME NEW k \in Key, IsSc(cache'[k])
        PROVE  \/ Sched(k)'
               \/ /\ cache'[k] = cache[k] /\ ~Sched(k)
                  /\ HostCerts(k)' = HostCerts(k) /\ Asked(k)' = Asked(k)
                  /\ ReadsStay(k)
    <3>1. CASE cache'[k] # cache[k]
      BY <1>2, <2>3, <3>1, LossIsReported DEF Sched
    <3>2. CASE Sched(k)
      BY <1>2, <2>1, <2>3, <3>2, SchedStays
    <3>3. CASE cache'[k] = cache[k] /\ ~Sched(k)
      BY <1>2, <2>3, <3>3, AskedStays
    <3> QED BY <3>1, <3>2, <3>3
  <2>4. ASSUME NEW k \in Key, cache'[k] = cache[k],
               HostCerts(k)' = HostCerts(k), Asked(k)' = Asked(k), ReadsStay(k)
        PROVE  /\ ServedAsStored(k) => ServedAsStored(k)'
               /\ Underway(k) => Underway(k)'
    <3>1. ServedAsStored(k) => ServedAsStored(k)'
      BY <1>2, <2>4 DEF ServedAsStored
    <3>2. Underway(k) => Underway(k)'
      BY <1>2, <2>4, <3>1 DEF Underway, ReadsStay
    <3> QED BY <3>1, <3>2
  <2>5. ASSUME NEW k \in Key, IsSc(cache'[k])
        PROVE  /\ ~Busy(k) => Sched(k)' \/ ServedAsStored(k)' \/ k \in dropped
               /\ Busy(k) => Sched(k)' \/ Underway(k)'
               /\ worker.pc = "cleanup" /\ cache'[k].name \in worker.todo => Sched(k)'
    BY <2>3, <2>4, <2>5 DEF ServedInv
  <2> QED BY <1>2, <2>2, <2>5 DEF ServedInv
\* The start of a sync reads what the stores hold.
<1>3. CASE StartItem
  <2>1. PICK m \in Key : /\ worker'.key = m /\ worker'.ing = cache[m]
                         /\ worker'.pc = IF IsSc(cache[m]) THEN "tls" ELSE "list"
                         /\ worker'.todo = IF IsSc(cache[m])
                                           THEN SecretHosts(cache[m].spec) ELSE {}
                         /\ worker'.certs = NoCerts
    BY <1>3, StartTyped
  <2>2. /\ worker.pc = "idle"
        /\ UNCHANGED <<resources, portal, cache, depCache, depNotifs, dropped>>
    BY <1>3 DEF StartItem, lbVars, storeVars, tallies
  <2>3. ~NewProcess
    BY <2>1, NewProcessForgets
  <2>4. ASSUME NEW k \in Key
        PROVE  /\ (Busy(k)' <=> k = m) /\ ~Busy(k)
               /\ HostCerts(k)' = HostCerts(k)
               /\ ServedAsStored(k) => ServedAsStored(k)'
    BY <2>1, <2>2 DEF Busy, HostCerts, Asked, ServedAsStored
  <2>5. ASSUME NEW k \in Key, IsSc(cache[k]), k # m
        PROVE  Sched(k)' \/ ServedAsStored(k)' \/ k \in dropped
    BY <2>1, <2>2, <2>3, <2>4, <2>5, SchedStays DEF ServedInv
  <2>6. IsSc(cache[m]) => Underway(m)'
    <3>1. \A h \in Host \ SecretHosts(cache[m].spec) : NoCerts[h] = HostCerts(m)[h]
      BY DEF NoCerts, HostCerts
    <3> QED BY <2>1, <2>2, <2>4, <3>1 DEF Underway
  <2>7. worker'.pc # "cleanup"
    BY <2>1
  <2> QED BY <2>2, <2>4, <2>5, <2>6, <2>7 DEF ServedInv
\* The end of a sync: it is retried, or the key is dropped, or it is served.
<1>4. ASSUME Finish, ~NewProcess
      PROVE  ServedInv'
  <2> DEFINE m == worker.key
  <2>1. /\ worker.pc = "finish" /\ m \in Key /\ worker'.pc = "idle"
        /\ UNCHANGED <<resources, portal, cache, depCache, depNotifs>>
    BY <1>4, IdleState DEF Finish, TypeInv, WorkerOK, lbVars, storeVars
  <2>2. \A k \in Key : k # m /\ k \in dropped => k \in dropped'
    BY <1>4 DEF Finish
  <2>3. worker.err => m \in waiting' \/ m \in dropped'
    BY <1>4, <2>1 DEF Finish, FinishItem, AddRateLimited, Retries
  <2>4. ASSUME NEW k \in Key
        PROVE  /\ ~Busy(k)' /\ (Busy(k) <=> k = m)
               /\ ServedAsStored(k) => ServedAsStored(k)'
    BY <2>1 DEF Busy, HostCerts, Asked, ServedAsStored
  <2>5. ASSUME NEW k \in Key, IsSc(cache[k])
        PROVE  Sched(k)' \/ ServedAsStored(k)' \/ k \in dropped'
    <3>1. Sched(k) => Sched(k)'
      BY <1>4, <2>1, <2>5, SchedStays DEF StartItem
    <3>2. CASE k = m
      <4>1. worker.err => Sched(k)' \/ k \in dropped'
        BY <2>3, <3>2 DEF Sched, Pend
      <4> QED BY <2>1, <2>4, <2>5, <3>1, <3>2, <4>1 DEF ServedInv, Underway
    <3>3. CASE k # m
      BY <2>2, <2>4, <2>5, <3>1, <3>3 DEF ServedInv
    <3> QED BY <3>2, <3>3
  <2> QED BY <2>1, <2>4, <2>5 DEF ServedInv
\* Within a sync.
<1>5. ASSUME ~NewProcess, WorkerOnly, worker.pc # "idle", worker'.key = worker.key,
             worker'.ing = worker.ing,
             \/ ListStep \/ DeleteStep \/ HostStep \/ NodesStep \/ ServiceStep \/ InputStep
             \/ FailStep \/ CleanStep \/ PushStep
      PROVE  ServedInv'
  <2> DEFINE m == worker.key
  <2>1. m \in Key /\ UNCHANGED <<cache, depCache, dropped>>
    BY <1>5 DEF TypeInv, WorkerOK, WorkerOnly, storeVars, tallies
  <2>2. worker'.pc # "idle"
    BY <1>5 DEF ListStep, DeleteStep, HostStep, NodesStep, ServiceStep, InputStep,
           FailStep, CleanStep, PushStep
  <2>3. ASSUME NEW k \in Key
        PROVE  /\ (Busy(k)' <=> k = m) /\ (Busy(k) <=> k = m)
               /\ Sched(k)' <=> Sched(k)
               /\ HostCerts(k)' = HostCerts(k) /\ Asked(k)' = Asked(k)
    <3>1. (Busy(k)' <=> k = m) /\ (Busy(k) <=> k = m)
      BY <1>5, <2>2 DEF Busy
    <3>2. Sched(k)' <=> Sched(k)
      BY <1>5 DEF Sched, Pend, WorkerOnly, wqVars, storeVars
    <3>3. HostCerts(k)' = HostCerts(k) /\ Asked(k)' = Asked(k)
      BY <2>1 DEF HostCerts, Asked
    <3> QED BY <3>1, <3>2, <3>3
  <2>4. ASSUME NEW k \in Key, k # m, IsSc(cache[k])
        PROVE  Sched(k) \/ ServedAsStored(k)' \/ k \in dropped
    BY <1>5, <2>3, <2>4, ServedWithin DEF ServedInv
  <2>5. ASSUME NEW k \in Key, k = m, IsSc(cache[k]), ~Sched(k)
        PROVE  Underway(k)'
    <3>1. Underway(k) /\ cache'[k] = cache[k] /\ HostCerts(k)' = HostCerts(k)
          /\ Asked(k)' = Asked(k)
      BY <2>1, <2>3, <2>5 DEF ServedInv
    <3>2. ~ListStep /\ ~DeleteStep /\ ~CleanStep
      BY <3>1 DEF Underway, ListStep, ListForCleanup, DeleteStep, CleanupDelete, CleanStep
    <3>3. CASE HostStep
      <4>1. PICK h \in worker.todo :
              /\ worker'.todo = worker.todo \ {h}
              /\ worker'.certs = [worker.certs EXCEPT
                                  ![h] = depCache[HostSecret(worker.ing.spec)[h]]]
        BY <3>3 DEF HostStep
      <4>2. /\ worker.ing = cache[k]
            /\ \A x \in Host \ worker.todo : worker.certs[x] = HostCerts(k)[x]
            /\ h \in SecretHosts(cache[k].spec) /\ h \in Host
            /\ worker.certs \in [Host -> Value \cup {Nil}]
        BY <3>1, <3>3 DEF Underway, HostStep, TypeInv, WorkerOK, WorkerState, SecretHosts
      <4>3. HostCerts(k)[h] = depCache[HostSecret(worker.ing.spec)[h]]
        BY <4>2 DEF HostCerts
      <4>4. \A x \in Host \ worker'.todo : worker'.certs[x] = HostCerts(k)[x]
        BY <4>1, <4>2, <4>3
      <4> QED BY <1>5, <3>1, <3>3, <4>2, <4>4 DEF Underway, HostStep
    <3>4. CASE InputStep
      <4>1. /\ worker.ing = cache[k] /\ worker.certs = HostCerts(k)
            /\ worker.got[Nodes] = depCache[Nodes]
            /\ \A s \in cache[k].spec.services : worker.got[s] = depCache[s]
        BY <3>1, <3>4 DEF Underway, InputStep
      <4>2. Rendering(cache[k].spec, worker.certs, worker.got) = Asked(k)
        BY <4>1 DEF Rendering, Asked
      <4>3. worker'.input.cfg = Asked(k)
        BY <3>4, <4>1, <4>2 DEF InputStep
      <4> QED BY <1>5, <3>1, <3>4, <4>1, <4>3 DEF Underway, InputStep
    <3>7. CASE NodesStep
      <4>1. /\ worker.ing = cache[k]
            /\ \A x \in Host : worker.certs[x] = HostCerts(k)[x]
            /\ worker.certs \in [Host -> Value \cup {Nil}]
        BY <3>1, <3>7 DEF Underway, NodesStep, TypeInv, WorkerOK, WorkerState
      <4>2. worker'.certs = HostCerts(k)
        BY <3>7, <4>1 DEF NodesStep, HostCerts
      <4> QED BY <1>5, <2>1, <3>1, <3>7, <4>1, <4>2 DEF Underway, NodesStep
    <3>8. CASE ServiceStep
      <4>1. PICK s \in worker.todo :
              /\ worker'.todo = worker.todo \ {s}
              /\ worker'.got = [worker.got EXCEPT ![s] = depCache[s]]
        BY <3>8 DEF ServiceStep
      <4>2. /\ worker.ing = cache[k] /\ worker.certs = HostCerts(k)
            /\ worker.got[Nodes] = depCache[Nodes]
            /\ \A x \in cache[k].spec.services \ worker.todo : worker.got[x] = depCache[x]
            /\ cache[k].spec.services \subseteq Dep
            /\ worker.got \in [Dep -> Value \cup {Nil}]
        BY <3>1, <3>8, SpecAssumption
           DEF Underway, ServiceStep, TypeInv, WorkerOK, WorkerState, SyncTypeOK, IsSc,
               Ingress, Dep
      <4>3. /\ worker'.got[Nodes] = depCache[Nodes]
            /\ \A x \in cache[k].spec.services \ worker'.todo : worker'.got[x] = depCache[x]
        BY <4>1, <4>2 DEF Dep
      <4> QED BY <1>5, <2>1, <3>1, <3>8, <4>2, <4>3 DEF Underway, ServiceStep
    <3>5. CASE FailStep
      BY <3>5 DEF FailStep, Underway
    <3>6. CASE PushStep
      <4>1. worker.ing = cache[k] /\ worker.input.cfg = Asked(k)
        BY <3>1, <3>6 DEF Underway, PushStep, SyncLB
      <4>2. ServedAsStored(k)'
        BY <2>5, <3>6, <4>1, PushServesKey DEF PushStep
      <4> QED BY <3>6, <4>2 DEF Underway, PushStep
    <3> QED BY <1>5, <3>2, <3>3, <3>4, <3>5, <3>6, <3>7, <3>8
  <2>6. ASSUME worker'.pc = "cleanup", NEW k \in Key, IsSc(cache[k]),
               cache[k].name \in worker'.todo
        PROVE  Sched(k)
    <3>1. CASE ListStep
      BY <2>6, <3>1 DEF ListStep, ValidLBs
    <3>2. CASE DeleteStep
      BY <2>6, <3>2 DEF DeleteStep, CleanupDelete, ServedInv
    <3> QED BY <1>5, <2>6, <3>1, <3>2
        DEF HostStep, NodesStep, ServiceStep, InputStep, FailStep, CleanStep, PushStep
  <2> QED BY <2>1, <2>3, <2>4, <2>5, <2>6 DEF ServedInv
<1>6. Users \/ Informers \/ UNCHANGED vars =>
        NewProcess \/ UNCHANGED <<worker, dropped, resources, portal>>
  BY DEF Users, CreateIngress, EditIngress, DeleteIngress, Write, WriteDep, Informers,
         ObserveIngress, MissDelete, HandleIngressEvent, HandleTombstone, IndexerPanics,
         ObserveDep, HandleDepEvent, AddDependent, DelayPassed, vars, tallies, lbVars
<1> QED BY <1>1, <1>2, <1>3, <1>4, <1>5, <1>6, SyncMoves DEF Next, Restart

\* What was acknowledged stays served in the whole system, too.
LEMMA AckKept ==
  ASSUME UpdatesAnswered, BaseInv, AckInv, [Next]_vars
  PROVE  AckInv'
<1>1. OnlyFaults => AckInv'
  BY DEF OnlyFaults, AckInv, ServedAt
<1> QED BY <1>1, StepOfManager, CallsOfManager, AckStep DEF BaseInv

\* Where ServedInv and the others hold, nothing is lost.
LEMMA ServedSuffices ==
  ASSUME NamingInv, ServedInv
  PROVE  ServedOrScheduled
<1> USE DEF NamingInv, BaseInv
<1> SUFFICES ASSUME NEW k \in Key, IsSc(api[k]), Settled(k), k \notin dropped
             PROVE  Served(k) \/ MarkedDeleted(k)
  BY DEF ServedOrScheduled
<1>1. cache[k] = api[k] /\ depCache = dep /\ depNotifs = {}
  BY DEF Settled
<1>2. ~Pend(k) /\ ~Sched(k) /\ ~Busy(k)
  BY <1>1 DEF Settled, Pend, Sched, Elements, Busy, TypeInv, SyncTypeOK
<1>3. ServedAsStored(k)
  BY <1>1, <1>2 DEF ServedInv
<1>4. Asked(k) = Wanted(k)
  BY <1>1 DEF Asked, HostCerts, Wanted
<1> DEFINE n  == api[k].name
           lb == resources[n]
<1>5. n \in Name /\ lb # Nil
  BY <1>1, <1>3 DEF ServedAsStored, IsSc, TypeInv, SyncTypeOK, Ingress
<1>6. /\ portal[lb.id] # Nil => portal[lb.id].name = n
      /\ ~lb.deleted => portal[lb.id] # Nil
  BY <1>5 DEF RegistryInv, RegistrySound, SoundAt, GetIds
<1>7. lb \in LoadBalancer
  BY <1>5 DEF RegistryInv, LBTypeOK
<1>8. CASE lb.deleted
  BY <1>5, <1>8 DEF MarkedDeleted
<1>9. CASE ~lb.deleted
  BY <1>1, <1>3, <1>4, <1>5, <1>6, <1>9 DEF ServedAsStored, Served
<1> QED BY <1>8, <1>9

\* No update is lost between the API server and the portal, however edits,
\* events, retries, restarts and a sync in progress interleave, when the portal
\* answers the updates it applies, the handlers report the changes that happen,
\* and the index knows the secrets of the hosts.
THEOREM NoUpdateIsLost ==
  ASSUME UpdatesAnswered, DepsReported, SecretsIndexed
  PROVE  SyncSpec => []ServedOrScheduled
<1> DEFINE Inv == NamingInv /\ AckInv /\ DepsInv /\ ServedInv
<1>1. Init => Inv
  <2> SUFFICES ASSUME Init PROVE Inv
    OBVIOUS
  <2>1. worker.pc = "idle" /\ \A k \in Key : ~IsSc(cache[k])
    BY IdleState DEF Init, IsSc
  <2>2. ServedInv
    BY <2>1 DEF ServedInv
  <2>3. DepsInv
    BY DEF Init, DepsInv
  <2> QED BY <2>2, <2>3, NamingStarts, AckStarts DEF Init
<1>2. Inv /\ [Next]_vars => Inv'
  <2> SUFFICES ASSUME Inv, [Next]_vars
               PROVE  Inv'
    OBVIOUS
  <2>1. AckInv'
    BY AckKept DEF NamingInv
  <2>2. DepsInv'
    BY DepsStep
  <2>3. ServedInv'
    BY <2>1, ServedStep
  <2>4. NamingInv'
    BY BaseStep, NamesStep, ClassStep, SteadyStep DEF NamingInv
  <2> QED BY <2>1, <2>2, <2>3, <2>4
<1>3. Inv => ServedOrScheduled
  BY ServedSuffices
<1> QED BY <1>1, <1>2, <1>3, PTL DEF SyncSpec
=============================================================================

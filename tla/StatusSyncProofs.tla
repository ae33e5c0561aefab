---------------------------- MODULE StatusSyncProofs ----------------------------
(* What ingresses show of their load balancers, for every value of the      *)
(* constants and any number of goroutines that report.                      *)
EXTENDS StatusSync, LBManagerProofs

WorkerState ==
  [key : Key \cup {Nil}, ing : Ingress \cup {Nil}, pc : {"idle", "sync", "list", "cleanup"},
   todo : SUBSET Name, err : BOOLEAN]

\* The worker has its types, holds at most its key, and syncs what is to be synced
\* and cleans up for the rest.
WorkerInv ==
  /\ worker \in WorkerState
  /\ worker # Idle => worker.key \in Key
  /\ held = IF worker = Idle THEN {} ELSE {worker.key}
  /\ worker.pc = "idle" => worker = Idle
  /\ worker.pc = "sync" => Synced(worker.ing)
  /\ worker.pc \in {"list", "cleanup"} => ~Synced(worker.ing)
  /\ worker.pc # "cleanup" => worker.todo = {}

\* Everything a step reads has its type, and the registry is sound.
BaseInv == StatusTypeOK /\ WorkerInv /\ RegistryInv /\ writes \in 0..MaxWrites

\* Copy ing of the ingress of key k is older than the next write; it is what the
\* store has, if it is that version; and what the store has is current, if the
\* copy is.
CopyOK(k, ing) ==
  /\ ing.rev < rev
  /\ cache[k] # Nil /\ cache[k].rev = ing.rev => cache[k] = ing
  /\ api[k] # Nil /\ api[k].rev = ing.rev => cache[k] = api[k]

\* A version tells what an ingress was.
CopiesInv ==
  /\ \A k \in Key : api[k] # Nil => api[k].rev < rev
  /\ \A k \in Key : cache[k] # Nil =>
       /\ cache[k].rev < rev
       /\ api[k] # Nil /\ api[k].rev = cache[k].rev => cache[k] = api[k]
  /\ worker.ing # Nil => CopyOK(worker.key, worker.ing)
  /\ \A p \in pollers : CopyOK(p.key, p.ing)

\* A goroutine reports a load balancer of its own ingress.
PollersInv ==
  \A p \in pollers : portal[p.id] # Nil => portal[p.id].name = p.ing.name

\* Goroutine p reports for what the store has of key k.
Reports(p, k) == p.key = k /\ cache[k] # Nil /\ p.ing.rev = cache[k].rev

\* While it does, the object it has polled stays registered; a cleanup deletes
\* the load balancer of an ingress of the class only when no goroutine reports
\* for it and its key comes to the worker afterwards; and the worker holds what
\* the store has, unless its key comes again.
RaceInv ==
  /\ \A p \in pollers, k \in Key : Reports(p, k) =>
       resources[p.ing.name] # Nil /\ resources[p.ing.name].id = p.id
  /\ \A k \in Key : IsSc(cache[k]) /\ cache[k].name \in worker.todo =>
       k \in due /\ \A p \in pollers : ~Reports(p, k)
  /\ \A k \in held \ due : worker.ing = cache[k] \/ (~IsSc(worker.ing) /\ ~IsSc(cache[k]))

\* The ingress of key k as stored shows the load balancer registered for it, or
\* will, or could not, or is no longer what the API server has.
Followed(k) ==
  \/ cache[k].rev \in missed
  \/ api[k] = Nil
  \/ api[k] # cache[k]
  \/ api[k].status = resources[cache[k].name].id
  \/ \E p \in pollers : Reports(p, k)

\* What is of the class, not on its way to the worker and not dropped is followed
\* up.
FollowedInv ==
  \A k \in Key : IsSc(cache[k]) /\ k \notin due \cup held \cup later \cup dropped =>
    resources[cache[k].name] # Nil /\ Followed(k)

-----------------------------------------------------------------------------
(* What the steps do.                                                       *)

\* A user writes an ingress of the next version, which shows what the one it
\* replaces showed, if it has its name, or nothing.
LEMMA UsersWrite ==
  ASSUME BaseInv, NEW k \in Key, NEW sc \in BOOLEAN,
         CreateIngress(k, sc) \/ EditIngress(k, sc) \/ DeleteIngress(k)
  PROVE  \E ing \in Ingress \cup {Nil} :
           /\ Write(k, ing)
           /\ ing # Nil =>
                /\ ing.rev = rev
                /\ \/ ing.status = Nil
                   \/ /\ api[k] # Nil
                      /\ ing.status = api[k].status
                      /\ ing.name = api[k].name
<1> USE DEF BaseInv, StatusTypeOK
<1>1. CASE CreateIngress(k, sc)
  <2> DEFINE new == [name |-> NameOf[<<k, writes>>], rev |-> rev, sc |-> sc, status |-> Nil]
  <2>1. new \in Ingress
    BY StatusAssumption DEF Ingress
  <2>2. Write(k, new) /\ new.rev = rev /\ new.status = Nil
    BY <1>1 DEF CreateIngress
  <2> QED BY <2>1, <2>2
<1>2. CASE EditIngress(k, sc)
  <2> DEFINE new == [api[k] EXCEPT !.rev = rev, !.sc = sc]
  <2>1. api[k] \in Ingress
    BY <1>2 DEF EditIngress
  <2>2. /\ new \in Ingress
        /\ new.rev = rev /\ new.status = api[k].status /\ new.name = api[k].name
    BY <2>1 DEF Ingress
  <2>3. Write(k, new) /\ api[k] # Nil
    BY <1>2 DEF EditIngress
  <2> QED BY <2>2, <2>3
<1>3. CASE DeleteIngress(k)
  BY <1>3 DEF DeleteIngress
<1> QED BY <1>1, <1>2, <1>3

\* A report writes the status of the version it is for, or nothing: then it has
\* failed, or that version is gone or shows the address already.
LEMMA ReportEffect ==
  ASSUME BaseInv, NEW p \in pollers, Report(p)
  PROVE  /\ p.pc = "report"
         /\ p.key \in Key
         /\ faults' \in 0..MaxFaults
         /\ pollers' = pollers \ {p}
         /\ missed' = missed \/ missed' = missed \cup {p.ing.rev}
         /\ \/ /\ UNCHANGED <<api, rev>>
               /\ \/ p.ing.rev \in missed'
                  \/ api[p.key] = Nil
                  \/ api[p.key].rev # p.ing.rev
                  \/ api[p.key].status = p.id
            \/ /\ api[p.key] # Nil
               /\ api[p.key].rev = p.ing.rev
               /\ rev' = rev + 1 /\ rev < MaxRev
               /\ \E new \in Ingress :
                    /\ new.name = api[p.key].name /\ new.sc = api[p.key].sc
                    /\ new.rev = rev /\ new.status = p.id
                    /\ api' = [api EXCEPT ![p.key] = new]
<1> USE DEF BaseInv, StatusTypeOK
<1>1. PICK a \in Answers("status") :
        /\ Spend(Cost(a))
        /\ IF /\ Performed(a)
              /\ Object(p) # Nil /\ api[p.key] # Nil
              /\ api[p.key].rev = Object(p).rev
              /\ api[p.key].status # p.id
           THEN /\ rev < MaxRev
                /\ api' = [api EXCEPT ![p.key].status = p.id, ![p.key].rev = rev]
                /\ rev' = rev + 1
           ELSE UNCHANGED <<api, rev>>
        /\ missed' = IF a = "fail" THEN missed \cup {p.ing.rev} ELSE missed
  BY DEF Report
<1>2. p \in Poller /\ p.key \in Key /\ p.ing \in Ingress /\ p.ing # Nil /\ p.id \in Id
  BY NilAssumption DEF Poller
<1>3. faults' \in 0..MaxFaults
  BY <1>1, CostType, SpendType DEF RegistryInv
<1>4. p.pc = "report" /\ pollers' = pollers \ {p}
  BY DEF Report
<1>5. CASE ~Performed(a)
  BY <1>1, <1>2, <1>3, <1>4, <1>5 DEF Performed
<1>6. CASE Performed(a) /\ api[p.key] # Nil /\ api[p.key].rev = p.ing.rev
           /\ api[p.key].status # p.id
  <2> DEFINE new == [api[p.key] EXCEPT !.status = p.id, !.rev = rev]
  <2>1. api[p.key] \in Ingress
    BY <1>2, <1>6
  <2>2. /\ new \in Ingress
        /\ new.name = api[p.key].name /\ new.sc = api[p.key].sc
        /\ new.rev = rev /\ new.status = p.id
    BY <1>2, <2>1 DEF Ingress
  <2>3. rev < MaxRev /\ api' = [api EXCEPT ![p.key].status = p.id, ![p.key].rev = rev]
        /\ rev' = rev + 1
    BY <1>1, <1>2, <1>6 DEF Object
  <2>4. api' = [api EXCEPT ![p.key] = new]
    BY <1>2, <2>1, <2>3 DEF Ingress
  <2> HIDE DEF new
  <2> QED BY <1>1, <1>2, <1>3, <1>4, <1>6, <2>2, <2>3, <2>4
<1>7. CASE Performed(a)
           /\ (api[p.key] = Nil \/ api[p.key].rev # p.ing.rev \/ api[p.key].status = p.id)
  BY <1>1, <1>2, <1>3, <1>4, <1>7 DEF Object
<1> QED BY <1>5, <1>6, <1>7

\* A poll leaves the identity of every registered object, and reports the object
\* registered for its name.
LEMMA PollEffect ==
  ASSUME BaseInv, NEW p \in pollers, Poll(p) \/ PollError(p)
  PROVE  /\ RegistryInv'
         /\ UNCHANGED <<portal, nextId, pkVars, retryVars, api, rev, writes, cache,
                        worker, missed>>
         /\ \A n \in Name :
              /\ resources'[n] = Nil <=> resources[n] = Nil
              /\ resources[n] # Nil => /\ resources'[n].id = resources[n].id
                                       /\ resources'[n].deleted = resources[n].deleted
         /\ \/ pollers' = pollers
            \/ /\ resources[p.ing.name] # Nil
               /\ \E q \in Poller :
                    /\ q.key = p.key /\ q.ing = p.ing
                    /\ q.id = resources[p.ing.name].id
                    /\ pollers' = (pollers \ {p}) \cup {q}
<1> USE DEF BaseInv, StatusTypeOK
<1>1. /\ p \in Poller /\ p.ing \in Ingress /\ p.ing.name \in Name
  BY DEF Poller, Ingress
<1>2. ASSUME NEW err \in BOOLEAN, GetLoadBalancer(p.ing.name, err)
      PROVE  /\ RegistryInv'
             /\ resources[p.ing.name] # Nil /\ UNCHANGED <<portal, nextId>>
             /\ \A n \in Name :
                  /\ resources'[n] = Nil <=> resources[n] = Nil
                  /\ resources[n] # Nil => /\ resources'[n].id = resources[n].id
                                           /\ resources'[n].deleted = resources[n].deleted
  <2> DEFINE lb  == resources[p.ing.name]
             new == [lb EXCEPT !.state = portal[lb.id].status]
  <2>1. RegistryInv'
    BY <1>1, <1>2, GetKeeps
  <2>2. /\ lb # Nil /\ UNCHANGED <<portal, nextId>>
        /\ resources' = resources \/ resources' = [resources EXCEPT ![p.ing.name] = new]
    BY <1>2 DEF GetLoadBalancer, Register
  <2>3. resources' = [resources EXCEPT ![p.ing.name] = new] =>
          resources'[p.ing.name] = new
    <3>1. DOMAIN resources = Name
      BY DEF RegistryInv, LBTypeOK
    <3> QED BY <1>1, <3>1
  <2>4. lb \in LoadBalancer
    BY <1>1, <2>2 DEF RegistryInv, LBTypeOK
  <2>5. new.id = lb.id /\ new.deleted = lb.deleted
    BY <2>4 DEF LoadBalancer
  <2>6. resources' = [resources EXCEPT ![p.ing.name] = new] => new # Nil
    <3>1. portal[lb.id].status \in Status => new \in LoadBalancer
      BY <2>4 DEF LoadBalancer
    <3>2. new \in LoadBalancer \/ resources' = resources
      <4>1. CASE err
        BY <1>2, <4>1 DEF GetLoadBalancer
      <4>2. CASE ~err
        <5>1. portal[lb.id] # Nil
          BY <1>2, <4>2 DEF GetLoadBalancer
        <5>2. portal[lb.id] \in PortalLB
          BY <2>4, <5>1 DEF RegistryInv, LBTypeOK, LoadBalancer
        <5> QED BY <3>1, <5>2 DEF PortalLB
      <4> QED BY <4>1, <4>2
    <3>3. CASE resources' = resources
      BY <2>2, <2>3, <3>3
    <3> QED BY <3>2, <3>3, LBAssumption
  <2> QED BY <1>1, <2>1, <2>2, <2>3, <2>5, <2>6 DEF RegistryInv, LBTypeOK
<1>3. CASE Poll(p)
  <2>1. GetLoadBalancer(p.ing.name, FALSE)
    BY <1>3 DEF Poll
  <2> DEFINE q == [p EXCEPT !.pc = "report", !.id = resources'[p.ing.name].id]
  <2>2. resources'[p.ing.name].id = resources[p.ing.name].id
    BY <1>1, <1>2, <2>1
  <2>3. resources[p.ing.name] \in LoadBalancer
    <3>1. resources[p.ing.name] # Nil
      BY <1>2, <2>1
    <3>2. resources \in [Name -> LoadBalancer \cup {Nil}]
      BY DEF RegistryInv, LBTypeOK
    <3> QED BY <1>1, <3>1, <3>2
  <2>4. /\ q \in Poller
        /\ q.key = p.key /\ q.ing = p.ing /\ q.id = resources[p.ing.name].id
    BY <1>1, <2>2, <2>3 DEF Poller, LoadBalancer
  <2>5. pollers' = pollers \/ pollers' = (pollers \ {p}) \cup {q}
    BY <1>3 DEF Poll
  <2>6. UNCHANGED <<pkVars, retryVars, api, rev, writes, cache, worker, missed>>
    BY <1>3 DEF Poll
  <2> HIDE DEF q
  <2> QED BY <1>2, <2>1, <2>4, <2>5, <2>6
<1>4. CASE PollError(p)
  <2>1. /\ pollers' = pollers
        /\ UNCHANGED <<pkVars, retryVars, api, rev, writes, cache, worker, missed>>
        /\ UNCHANGED lbVars \/ GetLoadBalancer(p.ing.name, TRUE)
    BY <1>4 DEF PollError, AfterError
  <2>2. UNCHANGED lbVars => RegistryInv' /\ UNCHANGED <<resources, portal, nextId>>
    BY StutterKeeps DEF lbVars
  <2> QED BY <1>2, <2>1, <2>2
<1> QED BY <1>3, <1>4

\* The key is given back; after an error it comes back later, or is dropped.
LEMMA EndStep ==
  ASSUME BaseInv, NEW err \in BOOLEAN, EndItem(err)
  PROVE  /\ worker.key \in Key
         /\ worker' = Idle /\ held' = {} /\ due' = due
         /\ later \subseteq later' /\ dropped \subseteq dropped' \cup {worker.key}
         /\ err => worker.key \in later' \cup dropped'
         /\ requeues' \in [Key -> 0..QueueRetries] /\ dropped' \subseteq Key
<1> USE DEF BaseInv, StatusTypeOK
<1>1. /\ worker.key \in held /\ held' = held \ {worker.key} /\ due' = due
      /\ worker' = Idle
  BY DEF EndItem, Release
<1>2. worker.key \in Key /\ held' = {}
  BY <1>1 DEF WorkerInv
<1> DEFINE k       == worker.key
           retried == err /\ requeues[k] < QueueRetries
<1>3. /\ later'    = IF retried THEN later \cup {k} ELSE later
      /\ requeues' = [requeues EXCEPT ![k] = IF retried THEN @ + 1 ELSE 0]
      /\ dropped'  = IF err /\ ~retried THEN dropped \cup {k} ELSE dropped \ {k}
  BY DEF EndItem
<1>4. requeues' \in [Key -> 0..QueueRetries]
  <2>1. requeues[k] \in 0..QueueRetries
    BY <1>2
  <2>2. (IF retried THEN requeues[k] + 1 ELSE 0) \in 0..QueueRetries
    BY <2>1, StatusAssumption
  <2> HIDE DEF k, retried
  <2> QED BY <1>3, <2>2
<1> QED BY <1>1, <1>2, <1>3, <1>4

\* A sync keeps what is registered under its identity, and ends with a goroutine
\* for the object registered, or with an error and none.
LEMMA SyncStep ==
  ASSUME BaseInv, NEW err \in BOOLEAN, SyncLB(err)
  PROVE  /\ worker.key \in Key /\ worker.ing \in Ingress /\ worker.ing.sc
         /\ worker.ing.name \in Name
         /\ RegistryInv'
         /\ EndItem(err)
         /\ worker' = Idle /\ held' = {} /\ due' = due
         /\ UNCHANGED <<api, rev, writes, cache, missed>>
         /\ \A n \in Name :
              /\ n # worker.ing.name => resources'[n] = resources[n]
              /\ resources[n] # Nil => /\ resources'[n] # Nil
                                       /\ resources'[n].id = resources[n].id
                                       /\ resources'[n].deleted = resources[n].deleted
         /\ \/ err /\ pollers' = pollers
            \/ /\ ~err
               /\ resources'[worker.ing.name] # Nil
               /\ \E q \in Poller :
                    /\ q.key = worker.key /\ q.ing = worker.ing
                    /\ q.id = resources'[worker.ing.name].id
                    /\ pollers' = pollers \cup {q}
<1> USE DEF BaseInv, StatusTypeOK
<1> DEFINE in == [name |-> worker.ing.name, cfg |-> TheConfig, cluster |-> NoCluster]
<1>1. /\ worker # Idle /\ worker.key \in Key
      /\ worker.ing \in Ingress /\ worker.ing.sc /\ worker.ing.name \in Name
  BY DEF SyncLB, Synced, IsSc, WorkerInv, WorkerState, Idle, Ingress
<1>2. in \in Input /\ in.name = worker.ing.name
  BY <1>1, StatusAssumption DEF Input, ClusterId
<1>3. SyncL7LB(in, err)
  BY DEF SyncLB
<1> HIDE DEF in
<1>4. RegistryInv'
  BY <1>2, <1>3, SyncKeeps
<1>5. /\ \A n \in Name : n # in.name => resources'[n] = resources[n]
      /\ err => resources' = resources
      /\ ~err => resources'[in.name] # Nil
  BY <1>2, <1>3, SyncEffect
<1>6. resources[in.name] # Nil => /\ resources'[in.name] # Nil
                                  /\ resources'[in.name].id = resources[in.name].id
                                  /\ resources'[in.name].deleted = resources[in.name].deleted
  <2> SUFFICES ASSUME resources[in.name] # Nil
               PROVE  /\ resources'[in.name] # Nil
                      /\ resources'[in.name].id = resources[in.name].id
                      /\ resources'[in.name].deleted = resources[in.name].deleted
    OBVIOUS
  <2> DEFINE up == UpdateFrom(in)
  <2>1. up \in UpdateInput /\ up.name = in.name /\ UpdateLoadBalancer(up, err)
    BY <1>2, <1>3, InputTypes DEF SyncL7LB, UpdateFrom
  <2>2. CASE UNCHANGED resources
    BY <2>2
  <2>3. CASE PushUpdate(up, err)
    BY <2>1, <2>3, <1>2, PushKeepsId
  <2> QED BY <2>1, <2>2, <2>3 DEF UpdateLoadBalancer
<1>7. /\ pollers' = IF err THEN pollers ELSE pollers \cup {Started(resources'[in.name])}
      /\ EndItem(err)
      /\ UNCHANGED <<api, rev, writes, cache, missed>>
  BY <1>2 DEF SyncLB
<1>8. worker' = Idle /\ held' = {} /\ due' = due
  BY <1>7, EndStep
<1>9. ASSUME ~err
      PROVE  LET q == Started(resources'[in.name]) IN
             /\ q \in Poller /\ q.key = worker.key /\ q.ing = worker.ing
             /\ q.id = resources'[in.name].id
  <2>1. resources'[in.name] \in LoadBalancer
    BY <1>2, <1>4, <1>5, <1>9, <1>1 DEF RegistryInv, LBTypeOK
  <2> QED BY <1>1, <2>1 DEF Started, Poller, LoadBalancer
<1> QED BY <1>1, <1>2, <1>4, <1>5, <1>6, <1>7, <1>8, <1>9

\* A cleanup deletes, or fails to delete, a load balancer on its list, and goes
\* on with the rest of the list or ends.
LEMMA CleanupStep ==
  ASSUME BaseInv, NEW n \in Name, NEW err \in BOOLEAN, CleanupDelete(n, err)
  PROVE  /\ n \in worker.todo /\ ~Synced(worker.ing) /\ worker.key \in Key
         /\ RegistryInv'
         /\ DeleteLoadBalancer(n, err)
         /\ WorkerInv'
         /\ worker'.key = worker.key /\ worker'.ing = worker.ing
         /\ worker'.todo \subseteq worker.todo /\ n \notin worker'.todo
         /\ UNCHANGED <<pkVars, retryVars, api, rev, writes, cache, pollers, missed>>
<1> USE DEF BaseInv, StatusTypeOK
<1>1. n \in worker.todo /\ worker.pc = "cleanup" /\ DeleteLoadBalancer(n, err)
      /\ UNCHANGED <<pkVars, retryVars, api, rev, writes, cache, pollers, missed>>
  BY DEF CleanupDelete
<1>2. worker \in WorkerState /\ worker # Idle /\ worker.key \in Key
      /\ ~Synced(worker.ing)
  BY <1>1 DEF WorkerInv, Idle
<1> DEFINE new == [worker EXCEPT !.todo = IF err THEN {} ELSE worker.todo \ {n}, !.err = err]
<1>3. worker' = new
  BY DEF CleanupDelete
<1>4. /\ new \in WorkerState
      /\ new.key = worker.key /\ new.ing = worker.ing
      /\ new.pc = worker.pc
      /\ new.todo \subseteq worker.todo /\ n \notin new.todo
  BY <1>2 DEF WorkerState
<1>5. WorkerInv'
  <2>1. new # Idle
    BY <1>2, <1>4, NilAssumption DEF Idle
  <2> HIDE DEF new
  <2> QED BY <1>1, <1>2, <1>3, <1>4, <2>1 DEF WorkerInv, pkVars, Synced, IsSc
<1>6. RegistryInv'
  BY <1>1, DeleteKeeps
<1> QED BY <1>1, <1>2, <1>3, <1>4, <1>5, <1>6

\* A key that is taken is held with the store's copy.
LEMMA StartStep ==
  ASSUME BaseInv, NEW k \in Key, StartItem(k)
  PROVE  /\ worker = Idle /\ k \in due
         /\ due' = due \ {k} /\ held' = {k} /\ later' = later
         /\ WorkerInv'
         /\ worker'.key = k /\ worker'.ing = cache[k] /\ worker'.todo = {}
         /\ UNCHANGED <<lbVars, retryVars, api, rev, writes, cache, pollers, missed>>
<1> USE DEF BaseInv, StatusTypeOK
<1> DEFINE pc  == IF Synced(cache[k]) THEN "sync" ELSE "list"
           new == [key |-> k, ing |-> cache[k], pc |-> pc, todo |-> {}, err |-> FALSE]
<1>1. /\ worker = Idle /\ Take(k)
      /\ worker' = [Idle EXCEPT !.key = k, !.ing = cache[k], !.pc = pc]
      /\ UNCHANGED <<lbVars, retryVars, api, rev, writes, cache, pollers, missed>>
  BY DEF StartItem
<1>2. worker' = new
  BY <1>1 DEF Idle
<1>3. new \in WorkerState /\ new # Idle
  BY NilAssumption DEF WorkerState, Idle
<1>4. k \in due /\ due' = due \ {k} /\ held' = {k} /\ later' = later
  BY <1>1 DEF Take, WorkerInv
<1>5. WorkerInv'
  BY <1>2, <1>3, <1>4 DEF WorkerInv, Synced, IsSc
<1>6. worker'.key = k /\ worker'.ing = cache[k] /\ worker'.todo = {}
  BY <1>2
<1> HIDE DEF BaseInv, StatusTypeOK
<1> QED BY <1>1, <1>4, <1>5, <1>6

\* The list of a cleanup has the registered names of no ingress of the class.
LEMMA ListStep ==
  ASSUME BaseInv, ListForCleanup
  PROVE  /\ WorkerInv'
         /\ worker'.key = worker.key /\ worker'.ing = worker.ing
         /\ \A x \in Key : IsSc(cache[x]) => cache[x].name \notin worker'.todo
         /\ UNCHANGED <<lbVars, pkVars, retryVars, api, rev, writes, cache, pollers, missed>>
<1> USE DEF BaseInv, StatusTypeOK
<1> DEFINE todo == GetIds \ {cache[x].name : x \in {y \in Key : IsSc(cache[y])}}
           new  == [worker EXCEPT !.pc = "cleanup", !.todo = todo]
<1>1. /\ worker' = new
      /\ UNCHANGED <<lbVars, pkVars, retryVars, api, rev, writes, cache, pollers, missed>>
  BY DEF ListForCleanup
<1>2. todo \subseteq Name /\ \A x \in Key : IsSc(cache[x]) => cache[x].name \notin todo
  BY DEF GetIds
<1>3. worker \in WorkerState /\ worker # Idle /\ worker.key \in Key /\ ~Synced(worker.ing)
  BY DEF ListForCleanup, WorkerInv, Idle
<1> HIDE DEF todo
<1>4. /\ new \in WorkerState /\ new # Idle
      /\ new.key = worker.key /\ new.ing = worker.ing
      /\ new.pc = "cleanup" /\ new.todo = todo
  BY <1>2, <1>3 DEF WorkerState, Idle
<1> HIDE DEF new
<1>5. WorkerInv'
  BY <1>1, <1>3, <1>4 DEF WorkerInv, pkVars, Synced, IsSc
<1> QED BY <1>1, <1>2, <1>4, <1>5

\* The end of a cleanup gives the key back.
LEMMA DoneStep ==
  ASSUME BaseInv, CleanupDone
  PROVE  /\ ~Synced(worker.ing)
         /\ worker.err \in BOOLEAN /\ EndItem(worker.err)
         /\ worker' = Idle /\ held' = {} /\ due' = due
         /\ UNCHANGED <<lbVars, api, rev, writes, cache, pollers, missed>>
<1>1. /\ ~Synced(worker.ing) /\ worker.err \in BOOLEAN /\ EndItem(worker.err)
      /\ UNCHANGED <<lbVars, api, rev, writes, cache, pollers, missed>>
  BY DEF CleanupDone, BaseInv, WorkerInv, WorkerState
<1> QED BY <1>1, EndStep

-----------------------------------------------------------------------------
(* The types and the registry.                                              *)

\* A process starts with them.
LEMMA BaseStarts == Init => BaseInv
<1> SUFFICES ASSUME Init PROVE BaseInv
  OBVIOUS
<1>1. RegistryInv
  BY InitRegistry DEF Init
<1>2. StatusTypeOK
  BY StatusAssumption DEF Init, StatusTypeOK, Rev, Idle
<1>3. WorkerInv
  BY NilAssumption DEF Init, PKInit, WorkerInv, WorkerState, Idle, Synced, IsSc
<1> QED BY <1>1, <1>2, <1>3, StatusAssumption DEF Init, BaseInv

\* A new process, too.
LEMMA BaseRestarts == BaseInv /\ NewProcess => BaseInv'
<1> SUFFICES ASSUME BaseInv, NewProcess PROVE BaseInv'
  OBVIOUS
<1> USE DEF BaseInv
<1>1. RegistryInv'
  BY RestartKeeps DEF NewProcess
<1>2. StatusTypeOK'
  BY StatusAssumption DEF NewProcess, StatusTypeOK, Idle
<1>3. WorkerInv'
  BY NilAssumption DEF NewProcess, Forsake, WorkerInv, WorkerState, Idle, Synced, IsSc
<1> QED BY <1>1, <1>2, <1>3 DEF NewProcess

\* Ids are given out in order.
LEMMA IdsGrow ==
  ASSUME RegistryInv, NEW in \in Input, NEW err \in BOOLEAN, SyncL7LB(in, err)
  PROVE  nextId \in Nat /\ nextId' \in Nat /\ nextId <= nextId'
BY SyncEffect, LBAssumption DEF RegistryInv, LBTypeOK

\* Every step keeps the types and a sound registry.
LEMMA BaseStep == BaseInv /\ [Next]_statusVars => BaseInv'
<1> SUFFICES ASSUME BaseInv, [Next]_statusVars PROVE BaseInv'
  OBVIOUS
<1> USE DEF BaseInv
<1>1. ASSUME NEW k \in Key, NEW sc \in BOOLEAN,
             CreateIngress(k, sc) \/ EditIngress(k, sc) \/ DeleteIngress(k)
      PROVE  BaseInv'
  <2>1. PICK ing \in Ingress \cup {Nil} :
          /\ Write(k, ing)
          /\ ing # Nil =>
               /\ ing.rev = rev
               /\ \/ ing.status = Nil
                  \/ /\ api[k] # Nil
                     /\ ing.status = api[k].status
                     /\ ing.name = api[k].name
    BY <1>1, UsersWrite
  <2>2. RegistryInv'
    BY <2>1, StutterKeeps DEF Write, lbVars
  <2>3. api' \in [Key -> Ingress \cup {Nil}] /\ rev' \in Rev /\ writes' \in 0..MaxWrites
    BY <2>1, StatusAssumption DEF Write, StatusTypeOK, Rev
  <2> QED BY <2>1, <2>2, <2>3 DEF Write, StatusTypeOK, WorkerInv, pkVars, retryVars, lbVars
<1>2. ASSUME NEW k \in Key, Observe(k)
      PROVE  BaseInv'
  <2>1. RegistryInv'
    BY <1>2, StutterKeeps DEF Observe, lbVars
  <2>2. cache' \in [Key -> Ingress \cup {Nil}]
    BY <1>2 DEF Observe, StatusTypeOK
  <2>3. held' = held
    BY <1>2 DEF Observe, Request, pkVars
  <2> QED BY <1>2, <2>1, <2>2, <2>3 DEF Observe, StatusTypeOK, WorkerInv, retryVars, lbVars
<1>3. ASSUME NEW k \in Key, RetryDue(k)
      PROVE  BaseInv'
  <2>1. RegistryInv'
    BY <1>3, StutterKeeps DEF RetryDue, lbVars
  <2> QED BY <1>3, <2>1 DEF RetryDue, Ripen, StatusTypeOK, WorkerInv, retryVars, lbVars
<1>4. ASSUME NEW k \in Key, StartItem(k)
      PROVE  BaseInv'
  <2>1. /\ WorkerInv'
        /\ UNCHANGED <<lbVars, retryVars, api, rev, writes, cache, pollers, missed>>
    BY <1>4, StartStep
  <2>2. RegistryInv'
    BY <2>1, StutterKeeps DEF lbVars
  <2> QED BY <2>1, <2>2 DEF StatusTypeOK, WorkerInv, WorkerState, retryVars, lbVars
<1>5. ASSUME NEW err \in BOOLEAN, SyncLB(err)
      PROVE  BaseInv'
  <2>1. /\ worker.ing.sc /\ worker.ing.name \in Name
        /\ RegistryInv'
        /\ EndItem(err) /\ worker' = Idle /\ held' = {}
        /\ UNCHANGED <<api, rev, writes, cache, missed>>
        /\ \/ err /\ pollers' = pollers
           \/ /\ ~err
              /\ resources'[worker.ing.name] # Nil
              /\ \E q \in Poller :
                   /\ q.key = worker.key /\ q.ing = worker.ing
                   /\ q.id = resources'[worker.ing.name].id
                   /\ pollers' = pollers \cup {q}
    BY <1>5, SyncStep
  <2>2. WorkerInv'
    BY <2>1 DEF WorkerInv, WorkerState, Idle, Synced, IsSc
  <2>3. nextId \in Nat /\ nextId' \in Nat /\ nextId <= nextId'
    <3>1. [name |-> worker.ing.name, cfg |-> TheConfig, cluster |-> NoCluster] \in Input
      BY <2>1, StatusAssumption DEF Input, ClusterId
    <3> QED BY <1>5, <3>1, IdsGrow DEF SyncLB
  <2>4. resources'[worker.ing.name] # Nil => resources'[worker.ing.name].id < nextId'
    BY <2>1 DEF RegistryInv, RegistrySound, SoundAt, GetIds
  <2>5. pollers' \subseteq Poller /\ \A p \in pollers' : p.ing.sc /\ p.id < nextId'
    BY <2>1, <2>3, <2>4, LBAssumption DEF StatusTypeOK, Poller, Id
  <2>6. requeues' \in [Key -> 0..QueueRetries] /\ dropped' \subseteq Key
    BY <2>1, EndStep
  <2> QED BY <2>1, <2>2, <2>5, <2>6 DEF StatusTypeOK, Idle
<1>6. ASSUME NEW n \in Name, NEW err \in BOOLEAN, CleanupDelete(n, err)
      PROVE  BaseInv'
  <2>1. /\ RegistryInv' /\ WorkerInv'
        /\ DeleteLoadBalancer(n, err)
        /\ UNCHANGED <<pkVars, retryVars, api, rev, writes, cache, pollers, missed>>
    BY <1>6, CleanupStep
  <2>2. nextId' = nextId
    BY <2>1 DEF DeleteLoadBalancer
  <2> QED BY <2>1, <2>2 DEF StatusTypeOK, WorkerInv, WorkerState, retryVars
<1>7. CASE CleanupDone
  <2>1. /\ worker.err \in BOOLEAN /\ EndItem(worker.err)
        /\ worker' = Idle /\ held' = {}
        /\ UNCHANGED <<lbVars, api, rev, writes, cache, pollers, missed>>
    BY <1>7, DoneStep
  <2>2. RegistryInv'
    BY <2>1, StutterKeeps DEF lbVars
  <2>3. requeues' \in [Key -> 0..QueueRetries] /\ dropped' \subseteq Key
    BY <2>1, EndStep
  <2>4. WorkerInv'
    BY <2>1 DEF WorkerInv, WorkerState, Idle, Synced, IsSc
  <2> QED BY <2>1, <2>2, <2>3, <2>4 DEF StatusTypeOK, Idle, lbVars
<1>8. ASSUME NEW p \in pollers, Poll(p) \/ PollError(p)
      PROVE  BaseInv'
  <2>1. /\ RegistryInv'
        /\ UNCHANGED <<portal, nextId, pkVars, retryVars, api, rev, writes, cache,
                       worker, missed>>
        /\ \/ pollers' = pollers
           \/ /\ resources[p.ing.name] # Nil
              /\ \E q \in Poller :
                   /\ q.key = p.key /\ q.ing = p.ing
                   /\ q.id = resources[p.ing.name].id
                   /\ pollers' = (pollers \ {p}) \cup {q}
    BY <1>8, PollEffect
  <2>2. p.ing.name \in Name /\ p.ing.sc
    BY DEF StatusTypeOK, Poller, Ingress
  <2>3. resources[p.ing.name] # Nil => resources[p.ing.name].id < nextId
    BY <2>2 DEF RegistryInv, RegistrySound, SoundAt, GetIds
  <2>4. pollers' \subseteq Poller /\ \A q \in pollers' : q.ing.sc /\ q.id < nextId'
    BY <2>1, <2>2, <2>3 DEF StatusTypeOK
  <2> QED BY <2>1, <2>4 DEF StatusTypeOK, WorkerInv, pkVars, retryVars
<1>9. ASSUME NEW p \in pollers, PollTimeout(p)
      PROVE  BaseInv'
  <2>1. RegistryInv'
    BY <1>9, StutterKeeps DEF PollTimeout, lbVars
  <2>2. p.ing.rev \in Rev
    BY DEF StatusTypeOK, Poller, Ingress
  <2> QED BY <1>9, <2>1, <2>2
      DEF PollTimeout, StatusTypeOK, WorkerInv, lbVars, pkVars, retryVars
<1>10. ASSUME NEW p \in pollers, Report(p)
       PROVE  BaseInv'
  <2>1. /\ faults' \in 0..MaxFaults
        /\ pollers' = pollers \ {p}
        /\ missed' = missed \/ missed' = missed \cup {p.ing.rev}
        /\ \/ UNCHANGED <<api, rev>>
           \/ /\ rev' = rev + 1 /\ rev < MaxRev
              /\ \E new \in Ingress : api' = [api EXCEPT ![p.key] = new]
    BY <1>10, ReportEffect
  <2>2. UNCHANGED <<resources, portal, nextId, acked, pkVars, retryVars, writes, cache, worker>>
    BY <1>10 DEF Report
  <2>3. RegistryInv'
    BY <2>1, <2>2
    DEF RegistryInv, LBTypeOK, IdsAreOld, RegistrySound, SoundAt, GetIds
  <2>4. p.ing.rev \in Rev
    BY DEF StatusTypeOK, Poller, Ingress
  <2>5. rev' \in Rev /\ api' \in [Key -> Ingress \cup {Nil}]
    BY <2>1, StatusAssumption DEF StatusTypeOK, Rev
  <2> QED BY <2>1, <2>2, <2>3, <2>4, <2>5 DEF StatusTypeOK, WorkerInv, pkVars, retryVars
<1>11. ASSUME NEW i \in Id, ActivateLB(i)
       PROVE  BaseInv'
  <2>1. RegistryInv' /\ nextId' = nextId
    BY <1>11, ActivateKeeps DEF ActivateLB, Activate
  <2> QED BY <1>11, <2>1 DEF ActivateLB, StatusTypeOK, WorkerInv, pkVars, retryVars
<1>12. CASE NewProcess
  BY <1>12, BaseRestarts
<1>13. CASE UNCHANGED statusVars
  <2>1. RegistryInv'
    BY <1>13, StutterKeeps DEF statusVars, lbVars
  <2> QED BY <1>13, <2>1 DEF statusVars, StatusTypeOK, WorkerInv, lbVars, pkVars, retryVars
<1>14. CASE ListForCleanup
  <2>1. /\ WorkerInv'
        /\ UNCHANGED <<lbVars, retryVars, api, rev, writes, cache, pollers, missed>>
    BY <1>14, ListStep
  <2>2. RegistryInv'
    BY <2>1, StutterKeeps DEF lbVars
  <2> QED BY <2>1, <2>2 DEF StatusTypeOK, WorkerInv, WorkerState, retryVars, lbVars
<1> QED BY <1>1, <1>2, <1>3, <1>4, <1>5, <1>6, <1>7, <1>8, <1>9, <1>10, <1>11, <1>12, <1>13,
           <1>14
        DEF Next, Worker, Goroutine, Restart, Panic

\* Every state has its types, and the registry is sound.
LEMMA BaseInvariant == StatusSpec => []BaseInv
BY BaseStarts, BaseStep, PTL DEF StatusSpec

\* The stores, the worker and the goroutines keep their types; a goroutine only
\* ever reports for a version of the class, and a load balancer that was created.
THEOREM StatusTyped == StatusSpec => []StatusTypeOK
<1>1. BaseInv => StatusTypeOK
  BY DEF BaseInv
<1> QED BY <1>1, BaseInvariant, PTL

-----------------------------------------------------------------------------
(* A late report hits no other ingress.                                     *)

\* A new version is newer than any copy, so it changes no copy's standing.
LEMMA NewVersion ==
  ASSUME BaseInv, CopiesInv, NEW k \in Key, NEW ing \in Ingress \cup {Nil},
         ing # Nil => ing.rev = rev, api' = [api EXCEPT ![k] = ing], rev' = rev + 1,
         UNCHANGED <<cache, worker>>, pollers' \subseteq pollers
  PROVE  CopiesInv'
<1> USE DEF BaseInv, StatusTypeOK
<1>1. rev \in Nat /\ rev < rev'
  BY StatusAssumption DEF Rev
<1>2. /\ \A x \in Key : /\ api[x] # Nil => api[x].rev \in Nat
                        /\ cache[x] # Nil => cache[x].rev \in Nat
      /\ worker.ing # Nil => worker.ing.rev \in Nat /\ worker.key \in Key
      /\ \A p \in pollers : p.ing.rev \in Nat /\ p.key \in Key
  <2>1. \A x \in Ingress : x.rev \in Nat
    BY StatusAssumption DEF Ingress, Rev
  <2>2. worker.ing # Nil => worker.key \in Key
    BY DEF WorkerInv, Idle
  <2> QED BY <2>1, <2>2 DEF Poller
<1>3. \A x \in Key : api'[x] = IF x = k THEN ing ELSE api[x]
  OBVIOUS
<1>4. ASSUME NEW x \in Key, NEW c, c.rev \in Nat, CopyOK(x, c)
      PROVE  CopyOK(x, c)'
  BY <1>1, <1>3, <1>4 DEF CopyOK
<1>5. \A x \in Key : api'[x] # Nil => api'[x].rev < rev'
  BY <1>1, <1>2, <1>3 DEF CopiesInv
<1>6. \A x \in Key : cache[x] # Nil =>
        /\ cache[x].rev < rev'
        /\ api'[x] # Nil /\ api'[x].rev = cache[x].rev => cache[x] = api'[x]
  BY <1>1, <1>2, <1>3 DEF CopiesInv
<1>7. worker.ing # Nil => CopyOK(worker.key, worker.ing)'
  <2> SUFFICES ASSUME worker.ing # Nil PROVE CopyOK(worker.key, worker.ing)'
    OBVIOUS
  <2>1. PICK x, c : x = worker.key /\ c = worker.ing
    OBVIOUS
  <2>2. CopyOK(x, c)'
    BY <1>2, <1>4, <2>1 DEF CopiesInv
  <2> QED BY <2>1, <2>2
<1>8. \A p \in pollers' : CopyOK(p.key, p.ing)'
  BY <1>2, <1>4 DEF CopiesInv
<1> QED BY <1>5, <1>6, <1>7, <1>8 DEF CopiesInv

\* Goroutines that keep what they report for keep their copies.
LEMMA CopiesKept ==
  ASSUME CopiesInv, UNCHANGED <<api, rev, cache>>,
         worker'.ing # Nil => CopyOK(worker'.key, worker'.ing),
         \A q \in pollers' : CopyOK(q.key, q.ing)
  PROVE  CopiesInv'
BY DEF CopiesInv, CopyOK

\* Every step keeps the standing of the copies.
LEMMA CopiesStep == BaseInv /\ CopiesInv /\ [Next]_statusVars => CopiesInv'
<1> SUFFICES ASSUME BaseInv, CopiesInv, [Next]_statusVars PROVE CopiesInv'
  OBVIOUS
<1>1. ASSUME NEW k \in Key, NEW sc \in BOOLEAN,
             CreateIngress(k, sc) \/ EditIngress(k, sc) \/ DeleteIngress(k)
      PROVE  CopiesInv'
  <2>1. PICK ing \in Ingress \cup {Nil} :
          /\ Write(k, ing)
          /\ ing # Nil =>
               /\ ing.rev = rev
               /\ \/ ing.status = Nil
                  \/ /\ api[k] # Nil
                     /\ ing.status = api[k].status
                     /\ ing.name = api[k].name
    BY <1>1, UsersWrite
  <2> QED BY <2>1, NewVersion DEF Write
<1>2. ASSUME NEW k \in Key, Observe(k)
      PROVE  CopiesInv'
  <2>1. /\ UNCHANGED <<api, rev, worker, pollers>>
        /\ \A x \in Key : cache'[x] = IF x = k THEN api[k] ELSE cache[x]
    BY <1>2 DEF Observe, BaseInv, StatusTypeOK
  <2>2. ASSUME NEW x, NEW c, x \in Key, CopyOK(x, c)
        PROVE  CopyOK(x, c)'
    BY <2>1, <2>2 DEF CopyOK
  <2>3. \A x \in Key : cache'[x] # Nil =>
          /\ cache'[x].rev < rev
          /\ api[x] # Nil /\ api[x].rev = cache'[x].rev => cache'[x] = api[x]
    BY <2>1 DEF CopiesInv
  <2>4. worker.ing # Nil => CopyOK(worker.key, worker.ing)'
    <3> SUFFICES ASSUME worker.ing # Nil PROVE CopyOK(worker.key, worker.ing)'
      OBVIOUS
    <3>1. PICK x, c : x = worker.key /\ c = worker.ing
      OBVIOUS
    <3>2. x \in Key
      BY <3>1 DEF BaseInv, WorkerInv, Idle
    <3>3. CopyOK(x, c)'
      BY <2>2, <3>1, <3>2 DEF CopiesInv
    <3> QED BY <2>1, <3>1, <3>3
  <2>5. \A p \in pollers : CopyOK(p.key, p.ing)'
    BY <2>2 DEF CopiesInv, BaseInv, StatusTypeOK, Poller
  <2> QED BY <2>1, <2>3, <2>4, <2>5 DEF CopiesInv
<1>3. ASSUME NEW k \in Key, RetryDue(k)
      PROVE  CopiesInv'
  BY <1>3, CopiesKept DEF RetryDue, CopiesInv
<1>4. ASSUME NEW k \in Key, StartItem(k)
      PROVE  CopiesInv'
  <2>1. /\ worker'.key = k /\ worker'.ing = cache[k]
        /\ UNCHANGED <<api, rev, cache, pollers>>
    BY <1>4, StartStep
  <2>2. worker'.ing # Nil => CopyOK(worker'.key, worker'.ing)
    BY <2>1 DEF CopiesInv, CopyOK
  <2> QED BY <2>1, <2>2, CopiesKept DEF CopiesInv
<1>5. ASSUME NEW err \in BOOLEAN, SyncLB(err)
      PROVE  CopiesInv'
  <2>1. /\ worker.ing \in Ingress /\ worker' = Idle
        /\ UNCHANGED <<api, rev, cache>>
        /\ \/ err /\ pollers' = pollers
           \/ /\ ~err
              /\ resources'[worker.ing.name] # Nil
              /\ \E q \in Poller :
                   /\ q.key = worker.key /\ q.ing = worker.ing
                   /\ q.id = resources'[worker.ing.name].id
                   /\ pollers' = pollers \cup {q}
    BY <1>5, SyncStep
  <2>2. CopyOK(worker.key, worker.ing)
    BY <2>1, NilAssumption DEF CopiesInv
  <2>3. \A q \in pollers' : CopyOK(q.key, q.ing)
    BY <2>1, <2>2 DEF CopiesInv
  <2>4. worker'.ing = Nil
    BY <2>1 DEF Idle
  <2> QED BY <2>1, <2>3, <2>4, CopiesKept
<1>6. ASSUME NEW n \in Name, NEW err \in BOOLEAN, CleanupDelete(n, err)
      PROVE  CopiesInv'
  <2>1. /\ worker'.key = worker.key /\ worker'.ing = worker.ing
        /\ UNCHANGED <<api, rev, cache, pollers>>
    BY <1>6, CleanupStep
  <2> QED BY <2>1, CopiesKept DEF CopiesInv
<1>7. CASE CleanupDone
  <2>1. worker' = Idle /\ UNCHANGED <<api, rev, cache, pollers>>
    BY <1>7, DoneStep
  <2>2. worker'.ing = Nil
    BY <2>1 DEF Idle
  <2> QED BY <2>1, <2>2, CopiesKept DEF CopiesInv
<1>8. ASSUME NEW p \in pollers, Poll(p) \/ PollError(p)
      PROVE  CopiesInv'
  <2>1. /\ UNCHANGED <<api, rev, cache, worker>>
        /\ \/ pollers' = pollers
           \/ /\ resources[p.ing.name] # Nil
              /\ \E q \in Poller :
                   /\ q.key = p.key /\ q.ing = p.ing
                   /\ q.id = resources[p.ing.name].id
                   /\ pollers' = (pollers \ {p}) \cup {q}
    BY <1>8, PollEffect
  <2>2. \A q \in pollers' : CopyOK(q.key, q.ing)
    BY <2>1 DEF CopiesInv
  <2> QED BY <2>1, <2>2, CopiesKept DEF CopiesInv
<1>9. ASSUME NEW p \in pollers, PollTimeout(p)
      PROVE  CopiesInv'
  BY <1>9, CopiesKept DEF PollTimeout, CopiesInv
<1>10. ASSUME NEW p \in pollers, Report(p)
       PROVE  CopiesInv'
  <2>1. /\ p.key \in Key
        /\ pollers' = pollers \ {p}
        /\ \/ UNCHANGED <<api, rev>>
           \/ /\ rev' = rev + 1
              /\ \E new \in Ingress :
                   new.rev = rev /\ api' = [api EXCEPT ![p.key] = new]
    BY <1>10, ReportEffect
  <2>2. UNCHANGED <<cache, worker>>
    BY <1>10 DEF Report
  <2>3. CASE UNCHANGED <<api, rev>>
    BY <2>1, <2>2, <2>3, CopiesKept DEF CopiesInv
  <2>4. ASSUME rev' = rev + 1, NEW new \in Ingress, new.rev = rev,
               api' = [api EXCEPT ![p.key] = new]
        PROVE  CopiesInv'
    BY <2>1, <2>2, <2>4, NewVersion
  <2> QED BY <2>1, <2>3, <2>4
<1>11. ASSUME NEW i \in Id, ActivateLB(i)
       PROVE  CopiesInv'
  BY <1>11, CopiesKept DEF ActivateLB, CopiesInv
<1>12. CASE NewProcess
  BY <1>12 DEF NewProcess, Idle, CopiesInv
<1>13. CASE UNCHANGED statusVars
  BY <1>13, CopiesKept DEF statusVars, CopiesInv
<1>14. CASE ListForCleanup
  <2>1. /\ worker'.key = worker.key /\ worker'.ing = worker.ing
        /\ UNCHANGED <<api, rev, cache, pollers>>
    BY <1>14, ListStep
  <2> QED BY <2>1, CopiesKept DEF CopiesInv
<1> QED BY <1>1, <1>2, <1>3, <1>4, <1>5, <1>6, <1>7, <1>8, <1>9, <1>10, <1>11, <1>12, <1>13,
           <1>14
        DEF Next, Worker, Goroutine, Restart, Panic

\* A load balancer the portal has given out keeps its name while it exists, and
\* its id is never given to another.
LEMMA NamesKept ==
  ASSUME BaseInv, [Next]_statusVars
  PROVE  /\ nextId \in Nat /\ nextId' \in Nat /\ nextId <= nextId'
         /\ \A i \in Id : i < nextId /\ portal'[i] # Nil =>
              portal[i] # Nil /\ portal'[i].name = portal[i].name
<1> USE DEF BaseInv, RegistryInv
<1>1. nextId \in Nat
  BY LBAssumption DEF LBTypeOK
<1> DEFINE Kept == /\ nextId' \in Nat /\ nextId <= nextId'
                   /\ \A i \in Id : i < nextId /\ portal'[i] # Nil =>
                        portal[i] # Nil /\ portal'[i].name = portal[i].name
<1>2. ASSUME UNCHANGED <<portal, nextId>>
      PROVE  Kept
  BY <1>1, <1>2
<1>3. ASSUME NEW err \in BOOLEAN, SyncLB(err)
      PROVE  Kept
  <2> DEFINE in == [name |-> worker.ing.name, cfg |-> TheConfig, cluster |-> NoCluster]
  <2>1. in \in Input
    BY <1>3, SyncStep, StatusAssumption DEF Input, ClusterId
  <2>2. SyncL7LB(in, err)
    BY <1>3 DEF SyncLB
  <2> HIDE DEF in
  <2>3. nextId' \in Nat /\ nextId <= nextId'
    BY <2>1, <2>2, IdsGrow
  <2>4. \/ \A i \in Id : \/ portal'[i] = portal[i]
                         \/ /\ portal[i] # Nil /\ portal'[i] # Nil
                            /\ portal[i].name = in.name
                            /\ portal'[i].name = in.name
        \/ portal' = [portal EXCEPT ![nextId] = Created(in)]
    BY <2>1, <2>2, SyncEffect
  <2>5. CASE portal' = [portal EXCEPT ![nextId] = Created(in)]
    <3>1. \A i \in Id : i < nextId => portal'[i] = portal[i]
      BY <2>5, <1>1 DEF LBTypeOK
    <3> QED BY <2>3, <3>1
  <2> QED BY <2>3, <2>4, <2>5
<1>4. ASSUME NEW n \in Name, NEW err \in BOOLEAN, CleanupDelete(n, err)
      PROVE  Kept
  <2>1. DeleteLoadBalancer(n, err)
    BY <1>4, CleanupStep
  <2> QED BY <1>1, <2>1, DeleteEffect
<1>5. ASSUME NEW i \in Id, ActivateLB(i)
      PROVE  Kept
  <2>1. portal[i] \in PortalLB /\ portal' = [portal EXCEPT ![i].status = "active"]
    BY <1>5 DEF ActivateLB, Activate, LBTypeOK
  <2>2. UNCHANGED nextId /\ \A j \in Id : portal'[j] # Nil =>
          portal[j] # Nil /\ portal'[j].name = portal[j].name
    BY <1>5, <2>1 DEF ActivateLB, Activate, LBTypeOK, PortalLB
  <2> QED BY <1>1, <2>2
<1>6. ASSUME NEW p \in pollers, Poll(p) \/ PollError(p)
      PROVE  UNCHANGED <<portal, nextId>>
  BY <1>6, PollEffect
<1>7. \/ UNCHANGED <<portal, nextId>>
      \/ \E err \in BOOLEAN : SyncLB(err)
      \/ \E n \in Name, err \in BOOLEAN : CleanupDelete(n, err)
      \/ \E i \in Id : ActivateLB(i)
      \/ \E p \in pollers : Poll(p) \/ PollError(p)
  <2>1. ASSUME NEW k \in Key, NEW sc \in BOOLEAN,
               \/ CreateIngress(k, sc) \/ EditIngress(k, sc) \/ DeleteIngress(k)
               \/ Observe(k) \/ RetryDue(k) \/ StartItem(k)
        PROVE  UNCHANGED <<portal, nextId>>
    BY <2>1 DEF CreateIngress, EditIngress, DeleteIngress, Write, Observe, RetryDue,
                StartItem, lbVars
  <2>2. CASE ListForCleanup \/ CleanupDone \/ NewProcess \/ UNCHANGED statusVars
    BY <2>2 DEF ListForCleanup, CleanupDone, NewProcess, RestartManager, statusVars, lbVars
  <2>3. ASSUME NEW p \in pollers, PollTimeout(p) \/ Report(p)
        PROVE  UNCHANGED <<portal, nextId>>
    BY <2>3 DEF PollTimeout, Report, lbVars
  <2> QED BY <2>1, <2>2, <2>3 DEF Next, Worker, Goroutine, Restart, Panic
<1>8. Kept
  <2> HIDE DEF Kept
  <2> QED BY <1>2, <1>3, <1>4, <1>5, <1>6, <1>7
<1> QED BY <1>1, <1>8

\* A goroutine is one that was there, reports the object registered for its
\* ingress, or both: it has polled it.
LEMMA GoroutinesFrom ==
  ASSUME BaseInv, [Next]_statusVars, NEW q \in pollers'
  PROVE  \/ q \in pollers
         \/ /\ resources'[q.ing.name] # Nil
            /\ q.id = resources'[q.ing.name].id
<1>1. ASSUME NEW p \in pollers, Poll(p) \/ PollError(p)
      PROVE  q \in pollers \/ (resources'[q.ing.name] # Nil /\ q.id = resources'[q.ing.name].id)
  <2>1. p.ing.name \in Name
    BY DEF BaseInv, StatusTypeOK, Poller, Ingress
  <2> QED BY <1>1, <2>1, PollEffect
<1>2. ASSUME NEW err \in BOOLEAN, SyncLB(err)
      PROVE  q \in pollers \/ (resources'[q.ing.name] # Nil /\ q.id = resources'[q.ing.name].id)
  BY <1>2, SyncStep
<1> QED BY <1>1, <1>2
        DEF Next, Worker, Goroutine, Restart, Panic, CreateIngress, EditIngress,
            DeleteIngress, Write, Observe, RetryDue, StartItem, ListForCleanup,
            CleanupDelete, CleanupDone, NewProcess, PollTimeout, Report, ActivateLB, statusVars

\* Every step keeps the goroutines to their own load balancers.
LEMMA PollersStep == BaseInv /\ PollersInv /\ [Next]_statusVars => PollersInv'
<1> SUFFICES ASSUME BaseInv, PollersInv, [Next]_statusVars,
                    NEW q \in pollers', portal'[q.id] # Nil
             PROVE  portal'[q.id].name = q.ing.name
  BY DEF PollersInv
<1>1. BaseInv'
  BY BaseStep
<1>2. q.id \in Id /\ q.ing.name \in Name
  BY <1>1 DEF BaseInv, StatusTypeOK, Poller, Ingress
<1>3. CASE q \in pollers
  <2>1. q.id < nextId
    BY <1>3 DEF BaseInv, StatusTypeOK
  <2> QED BY <1>2, <1>3, <2>1, NamesKept DEF PollersInv
<1>4. CASE resources'[q.ing.name] # Nil /\ q.id = resources'[q.ing.name].id
  <2>1. SoundAt(q.ing.name)'
    BY <1>1, <1>2, <1>4 DEF BaseInv, RegistryInv, RegistrySound, GetIds
  <2> QED BY <1>4, <2>1 DEF SoundAt
<1> QED BY <1>3, <1>4, GoroutinesFrom

\* The status of an ingress is of its own load balancer, or changes to what a
\* goroutine of its version reports.
LEMMA ShownStep ==
  ASSUME BaseInv, CopiesInv, PollersInv, ShownIsOwn, [Next]_statusVars
  PROVE  ShownIsOwn'
<1> USE DEF BaseInv, StatusTypeOK
<1>1. \A i \in Id : i < nextId =>
        /\ i < nextId'
        /\ portal'[i] # Nil => portal[i] # Nil /\ portal'[i].name = portal[i].name
  BY NamesKept, LBAssumption DEF Id
<1>2. ASSUME NEW k \in Key, NEW ing \in Ingress, ing.status # Nil, ing.status < nextId,
             portal[ing.status] # Nil => portal[ing.status].name = ing.name
      PROVE  /\ ing.status < nextId'
             /\ portal'[ing.status] # Nil => portal'[ing.status].name = ing.name
  BY <1>1, <1>2 DEF Ingress
<1>3. CASE UNCHANGED api
  BY <1>2, <1>3 DEF ShownIsOwn
<1>4. ASSUME NEW k \in Key, NEW sc \in BOOLEAN,
             CreateIngress(k, sc) \/ EditIngress(k, sc) \/ DeleteIngress(k)
      PROVE  ShownIsOwn'
  <2>1. PICK ing \in Ingress \cup {Nil} :
          /\ Write(k, ing)
          /\ ing # Nil =>
               /\ ing.rev = rev
               /\ \/ ing.status = Nil
                  \/ /\ api[k] # Nil
                     /\ ing.status = api[k].status
                     /\ ing.name = api[k].name
    BY <1>4, UsersWrite
  <2>2. \A x \in Key : api'[x] = IF x = k THEN ing ELSE api[x]
    BY <2>1 DEF Write
  <2>3. \A x \in Key : api[x] # Nil /\ api[x].status # Nil =>
          /\ api[x].status < nextId'
          /\ portal'[api[x].status] # Nil => portal'[api[x].status].name = api[x].name
    BY <1>2 DEF ShownIsOwn
  <2> QED BY <2>1, <2>2, <2>3 DEF ShownIsOwn
<1>5. ASSUME NEW p \in pollers, Report(p)
      PROVE  ShownIsOwn'
  <2>1. \/ UNCHANGED api
        \/ /\ api[p.key] # Nil
           /\ api[p.key].rev = p.ing.rev
           /\ \E new \in Ingress :
                /\ new.name = api[p.key].name /\ new.status = p.id
                /\ api' = [api EXCEPT ![p.key] = new]
    BY <1>5, ReportEffect
  <2>2. ASSUME api[p.key] # Nil, api[p.key].rev = p.ing.rev,
               NEW new \in Ingress, new.name = api[p.key].name, new.status = p.id,
               api' = [api EXCEPT ![p.key] = new]
        PROVE  ShownIsOwn'
    <3>1. p.key \in Key /\ p.ing \in Ingress /\ p.id \in Id /\ p.id < nextId
      BY DEF Poller
    <3>2. CopyOK(p.key, p.ing)
      BY DEF CopiesInv
    <3>3. api[p.key] = p.ing
      BY <2>2, <3>2 DEF CopyOK
    <3>4. portal[p.id] # Nil => portal[p.id].name = new.name
      BY <2>2, <3>3 DEF PollersInv
    <3>5. \A x \in Key : api'[x] = IF x = p.key THEN new ELSE api[x]
      BY <2>2, <3>1
    <3>6. /\ p.id < nextId'
          /\ portal'[p.id] # Nil => portal'[p.id].name = new.name
      BY <1>1, <3>1, <3>4
    <3>7. \A x \in Key : api[x] # Nil /\ api[x].status # Nil =>
            /\ api[x].status < nextId'
            /\ portal'[api[x].status] # Nil => portal'[api[x].status].name = api[x].name
      BY <1>2 DEF ShownIsOwn
    <3> QED BY <2>2, <3>5, <3>6, <3>7 DEF ShownIsOwn
  <2> QED BY <1>3, <2>1, <2>2
<1>6. ASSUME NEW p \in pollers, Poll(p) \/ PollError(p)
      PROVE  UNCHANGED api
  BY <1>6, PollEffect
<1> QED BY <1>3, <1>4, <1>5, <1>6
        DEF Next, Worker, Goroutine, Restart, Panic, Observe, RetryDue, StartItem, SyncLB,
            ListForCleanup, CleanupDelete, CleanupDone, NewProcess, PollTimeout,
            ActivateLB, statusVars

\* The copies, the goroutines and what is shown hold together.
LEMMA ShownInvariant == StatusSpec => [](BaseInv /\ CopiesInv /\ PollersInv /\ ShownIsOwn)
<1>1. Init => CopiesInv /\ PollersInv /\ ShownIsOwn
  BY DEF Init, CopiesInv, PollersInv, ShownIsOwn, Idle
<1> QED BY <1>1, BaseStarts, BaseStep, CopiesStep, PollersStep, ShownStep, PTL DEF StatusSpec

\* An ingress never shows the addresses of a load balancer of another name,
\* however many syncs, cleanups, restarts and users come between the sync that
\* started a goroutine and the status it writes: the version it writes for is one
\* it has read, and the object it has polled is of the name of that version.
THEOREM ShownStaysOwn == StatusSpec => []ShownIsOwn
BY ShownInvariant, PTL

-----------------------------------------------------------------------------
(* What is at rest is reported.                                             *)

\* A goroutine that reports for what the store has holds that very version.
LEMMA ReportsTheCopy ==
  ASSUME BaseInv, CopiesInv, NEW p \in pollers, NEW k \in Key, Reports(p, k)
  PROVE  /\ cache[k] = p.ing /\ IsSc(cache[k])
         /\ p.ing.name \in Name
BY DEF Reports, CopiesInv, CopyOK, BaseInv, StatusTypeOK, IsSc, Poller, Ingress

\* What no cleanup touches stays registered under its identity.
LEMMA IdsStay ==
  ASSUME BaseInv, [Next]_statusVars, ~NewProcess, NEW n \in Name, resources[n] # Nil,
         \A err \in BOOLEAN : ~CleanupDelete(n, err)
  PROVE  resources'[n] # Nil /\ resources'[n].id = resources[n].id
<1>1. CASE UNCHANGED resources
  BY <1>1
<1>2. ASSUME NEW err \in BOOLEAN, SyncLB(err)
      PROVE  resources'[n] # Nil /\ resources'[n].id = resources[n].id
  BY <1>2, SyncStep
<1>3. ASSUME NEW m \in Name, NEW err \in BOOLEAN, CleanupDelete(m, err), m # n
      PROVE  resources'[n] # Nil /\ resources'[n].id = resources[n].id
  <2>1. RegistryInv /\ DeleteLoadBalancer(m, err)
    BY <1>3, CleanupStep DEF BaseInv
  <2> QED BY <1>3, <2>1, DeleteEffect
<1>4. ASSUME NEW p \in pollers, Poll(p) \/ PollError(p)
      PROVE  resources'[n] # Nil /\ resources'[n].id = resources[n].id
  BY <1>4, PollEffect
<1>5. ASSUME NEW k \in Key, NEW sc \in BOOLEAN,
             \/ CreateIngress(k, sc) \/ EditIngress(k, sc) \/ DeleteIngress(k)
             \/ Observe(k) \/ RetryDue(k) \/ StartItem(k)
      PROVE  UNCHANGED resources
  BY <1>5 DEF CreateIngress, EditIngress, DeleteIngress, Write, Observe, RetryDue,
              StartItem, lbVars
<1>6. CASE ListForCleanup \/ CleanupDone \/ UNCHANGED statusVars
  BY <1>6 DEF ListForCleanup, CleanupDone, statusVars, lbVars
<1>7. ASSUME NEW p \in pollers, PollTimeout(p) \/ Report(p)
      PROVE  UNCHANGED resources
  BY <1>7 DEF PollTimeout, Report, lbVars
<1>8. ASSUME NEW i \in Id, ActivateLB(i)
      PROVE  UNCHANGED resources
  BY <1>8 DEF ActivateLB, Activate
<1> QED BY <1>1, <1>2, <1>3, <1>4, <1>5, <1>6, <1>7, <1>8
        DEF Next, Worker, Goroutine, Restart, Panic

\* A step that gives no goroutine a new load balancer, adds nothing to a list of
\* cleanups, and takes no key away from the queue but with the worker's copy.
LEMMA RaceKept ==
  ASSUME BaseInv, CopiesInv, RaceInv, [Next]_statusVars, ~NewProcess,
         UNCHANGED cache,
         \A q \in pollers' : \E p \in pollers : q.key = p.key /\ q.ing = p.ing /\ q.id = p.id,
         worker'.todo \subseteq worker.todo,
         due \subseteq due',
         held' \subseteq held, held' # {} => worker'.ing = worker.ing
  PROVE  RaceInv'
<1>1. ASSUME NEW q \in pollers', NEW k \in Key, Reports(q, k)'
      PROVE  resources'[q.ing.name] # Nil /\ resources'[q.ing.name].id = q.id
  <2>1. PICK p \in pollers : q.key = p.key /\ q.ing = p.ing /\ q.id = p.id
    OBVIOUS
  <2>2. Reports(p, k)
    BY <1>1, <2>1 DEF Reports
  <2>3. resources[p.ing.name] # Nil /\ resources[p.ing.name].id = p.id
    BY <2>2 DEF RaceInv
  <2>4. cache[k] = p.ing /\ IsSc(cache[k]) /\ p.ing.name \in Name
    BY <2>2, ReportsTheCopy
  <2>5. \A err \in BOOLEAN : ~CleanupDelete(p.ing.name, err)
    BY <2>2, <2>4 DEF CleanupDelete, RaceInv
  <2> QED BY <2>1, <2>3, <2>4, <2>5, IdsStay
<1>2. ASSUME NEW k \in Key, IsSc(cache[k])', cache'[k].name \in worker'.todo
      PROVE  k \in due' /\ \A q \in pollers' : ~Reports(q, k)'
  <2>1. k \in due /\ \A p \in pollers : ~Reports(p, k)
    BY <1>2 DEF RaceInv, IsSc
  <2> QED BY <2>1 DEF Reports
<1>3. \A k \in held' \ due' :
        worker'.ing = cache'[k] \/ (~IsSc(worker'.ing) /\ ~IsSc(cache'[k]))
  BY DEF RaceInv
<1> QED BY <1>1, <1>2, <1>3 DEF RaceInv, IsSc

\* Every step keeps goroutines and cleanups apart.
LEMMA RaceStep ==
  ASSUME BaseInv, CopiesInv, RaceInv, [Next]_statusVars
  PROVE  RaceInv'
<1>1. CASE NewProcess
  BY <1>1 DEF NewProcess, Forsake, Idle, RaceInv
<1> SUFFICES ASSUME ~NewProcess PROVE RaceInv'
  BY <1>1
<1>2. ASSUME NEW k \in Key, NEW sc \in BOOLEAN,
             \/ CreateIngress(k, sc) \/ EditIngress(k, sc) \/ DeleteIngress(k)
             \/ RetryDue(k)
      PROVE  RaceInv'
  <2>1. UNCHANGED <<cache, pollers, worker, held>> /\ due \subseteq due'
    BY <1>2 DEF CreateIngress, EditIngress, DeleteIngress, Write, RetryDue, Ripen, pkVars
  <2> QED BY <2>1, RaceKept
<1>3. ASSUME NEW k \in Key, Observe(k)
      PROVE  RaceInv'
  <2>1. /\ cache[k] # api[k]
        /\ \A x \in Key : cache'[x] = IF x = k THEN api[k] ELSE cache[x]
        /\ UNCHANGED <<resources, api, worker, pollers, held>>
        /\ due \subseteq due'
        /\ IsSc(cache[k]) \/ IsSc(api[k]) => k \in due'
    BY <1>3 DEF Observe, Request, pkVars, lbVars, BaseInv, StatusTypeOK
  <2>2. \A p \in pollers : ~Reports(p, k)'
    <3> SUFFICES ASSUME NEW p \in pollers, Reports(p, k)' PROVE FALSE
      OBVIOUS
    <3>1. p.key = k /\ api[k] # Nil /\ p.ing.rev = api[k].rev
      BY <2>1 DEF Reports
    <3>2. CopyOK(k, p.ing)
      BY <3>1 DEF CopiesInv
    <3> QED BY <2>1, <3>1, <3>2 DEF CopyOK
  <2>3. \A p \in pollers, x \in Key : x # k => (Reports(p, x)' <=> Reports(p, x))
    BY <2>1 DEF Reports
  <2>4. \A p \in pollers', x \in Key : Reports(p, x)' =>
          resources'[p.ing.name] # Nil /\ resources'[p.ing.name].id = p.id
    BY <2>1, <2>2, <2>3 DEF RaceInv
  <2>5. \A x \in Key : IsSc(cache'[x]) /\ cache'[x].name \in worker'.todo =>
          x \in due' /\ \A p \in pollers' : ~Reports(p, x)'
    BY <2>1, <2>2, <2>3 DEF RaceInv
  <2>6. \A x \in held' \ due' :
          worker'.ing = cache'[x] \/ (~IsSc(worker'.ing) /\ ~IsSc(cache'[x]))
    <3>1. held \subseteq Key
      BY DEF BaseInv, WorkerInv
    <3> QED BY <2>1, <3>1 DEF RaceInv
  <2> QED BY <2>4, <2>5, <2>6 DEF RaceInv, IsSc
<1>4. ASSUME NEW k \in Key, StartItem(k)
      PROVE  RaceInv'
  <2>1. /\ held' = {k} /\ worker'.ing = cache[k] /\ worker'.todo = {}
        /\ UNCHANGED <<resources, cache, pollers>>
    BY <1>4, StartStep DEF lbVars
  <2> QED BY <2>1 DEF RaceInv, Reports, IsSc
<1>5. ASSUME NEW err \in BOOLEAN, SyncLB(err)
      PROVE  RaceInv'
  <2>1. /\ worker.key \in Key /\ worker.ing \in Ingress
        /\ worker' = Idle /\ held' = {} /\ UNCHANGED cache
        /\ \A n \in Name :
             resources[n] # Nil => /\ resources'[n] # Nil
                                   /\ resources'[n].id = resources[n].id
        /\ \/ err /\ pollers' = pollers
           \/ /\ ~err
              /\ resources'[worker.ing.name] # Nil
              /\ \E q \in Poller :
                   /\ q.key = worker.key /\ q.ing = worker.ing
                   /\ q.id = resources'[worker.ing.name].id
                   /\ pollers' = pollers \cup {q}
    BY <1>5, SyncStep
  <2>2. ASSUME NEW p \in pollers, NEW k \in Key, Reports(p, k)'
        PROVE  resources'[p.ing.name] # Nil /\ resources'[p.ing.name].id = p.id
    <3>1. Reports(p, k)
      BY <2>1, <2>2 DEF Reports
    <3>2. p.ing.name \in Name /\ resources[p.ing.name] # Nil
          /\ resources[p.ing.name].id = p.id
      BY <3>1, ReportsTheCopy DEF RaceInv
    <3> QED BY <2>1, <3>2
  <2>3. \A p \in pollers', k \in Key : Reports(p, k)' =>
          resources'[p.ing.name] # Nil /\ resources'[p.ing.name].id = p.id
    BY <2>1, <2>2
  <2>4. worker'.todo = {}
    BY <2>1 DEF Idle
  <2> QED BY <2>1, <2>3, <2>4 DEF RaceInv
<1>6. ASSUME NEW n \in Name, NEW err \in BOOLEAN, CleanupDelete(n, err)
      PROVE  RaceInv'
  <2>1. /\ worker'.ing = worker.ing /\ worker'.todo \subseteq worker.todo
        /\ UNCHANGED <<due, held, cache, pollers>>
    BY <1>6, CleanupStep DEF pkVars
  <2> QED BY <2>1, RaceKept
<1>7. CASE CleanupDone
  <2>1. /\ worker' = Idle /\ held' = {} /\ due' = due
        /\ UNCHANGED <<cache, pollers>>
    BY <1>7, DoneStep
  <2>2. worker'.todo = {}
    BY <2>1 DEF Idle
  <2> QED BY <2>1, <2>2, RaceKept
<1>8. ASSUME NEW p \in pollers, Poll(p) \/ PollError(p)
      PROVE  RaceInv'
  <2>1. /\ UNCHANGED <<cache, worker, due, held>>
        /\ \A n \in Name :
             resources[n] # Nil => /\ resources'[n] # Nil
                                   /\ resources'[n].id = resources[n].id
        /\ \/ pollers' = pollers
           \/ /\ resources[p.ing.name] # Nil
              /\ \E q \in Poller :
                   /\ q.key = p.key /\ q.ing = p.ing
                   /\ q.id = resources[p.ing.name].id
                   /\ pollers' = (pollers \ {p}) \cup {q}
    BY <1>8, PollEffect DEF pkVars
  <2>2. p.ing.name \in Name
    BY DEF BaseInv, StatusTypeOK, Poller, Ingress
  <2>3. ASSUME NEW q \in pollers, NEW k \in Key, Reports(q, k)'
        PROVE  resources'[q.ing.name] # Nil /\ resources'[q.ing.name].id = q.id
    <3>1. Reports(q, k)
      BY <2>1, <2>3 DEF Reports
    <3>2. q.ing.name \in Name /\ resources[q.ing.name] # Nil
          /\ resources[q.ing.name].id = q.id
      BY <3>1, ReportsTheCopy DEF RaceInv
    <3> QED BY <2>1, <3>2
  <2>4. \A q \in pollers', k \in Key : Reports(q, k)' =>
          resources'[q.ing.name] # Nil /\ resources'[q.ing.name].id = q.id
    BY <2>1, <2>2, <2>3
  <2>5. \A q \in pollers', k \in Key : Reports(q, k)' =>
          \E r \in pollers : Reports(r, k)
    BY <2>1 DEF Reports
  <2>6. \A k \in Key : IsSc(cache[k]) /\ cache[k].name \in worker.todo =>
          k \in due /\ \A q \in pollers' : ~Reports(q, k)'
    BY <2>5 DEF RaceInv
  <2> QED BY <2>1, <2>4, <2>6 DEF RaceInv, IsSc
<1>9. ASSUME NEW p \in pollers, PollTimeout(p) \/ Report(p)
      PROVE  RaceInv'
  <2>1. pollers' = pollers \ {p} /\ UNCHANGED <<cache, worker, due, held>>
    BY <1>9 DEF PollTimeout, Report, pkVars
  <2> QED BY <2>1, RaceKept
<1>10. ASSUME NEW i \in Id, ActivateLB(i)
       PROVE  RaceInv'
  <2>1. UNCHANGED <<cache, worker, due, held, pollers>>
    BY <1>10 DEF ActivateLB, pkVars
  <2> QED BY <2>1, RaceKept
<1>11. CASE UNCHANGED statusVars
  <2>1. UNCHANGED <<cache, worker, due, held, pollers>>
    BY <1>11 DEF statusVars, pkVars
  <2> QED BY <2>1, RaceKept
<1>12. CASE ListForCleanup
  <2>1. /\ worker'.ing = worker.ing
        /\ \A x \in Key : IsSc(cache[x]) => cache[x].name \notin worker'.todo
        /\ UNCHANGED <<resources, cache, pollers, due, held>>
    BY <1>12, ListStep DEF lbVars, pkVars
  <2> QED BY <2>1 DEF RaceInv, Reports, IsSc
<1> QED BY <1>2, <1>3, <1>4, <1>5, <1>6, <1>7, <1>8, <1>9, <1>10, <1>11, <1>12
        DEF Next, Worker, Goroutine, Restart, Panic

\* A key that is followed stays so in a step that keeps the store and the
\* registered object, brings the API server at most to a later version, and takes
\* goroutines away only with a record of what they missed.
LEMMA FollowedKept ==
  ASSUME NEW k \in Key, Followed(k),
         UNCHANGED cache,
         resources'[cache[k].name].id = resources[cache[k].name].id,
         missed \subseteq missed',
         api'[k] = api[k] \/ api'[k] = Nil \/ api'[k] # cache[k],
         (\E p \in pollers : Reports(p, k)) =>
           \/ \E p \in pollers' : Reports(p, k)
           \/ cache[k].rev \in missed'
           \/ api'[k] = Nil
           \/ api'[k] # cache[k]
           \/ api'[k].status = resources'[cache[k].name].id
  PROVE  Followed(k)'
BY DEF Followed, Reports

\* Every step keeps what is not on its way to the worker followed.
LEMMA FollowedStep ==
  ASSUME BaseInv, CopiesInv, RaceInv, FollowedInv, [Next]_statusVars
  PROVE  FollowedInv'
<1>1. CASE NewProcess
  BY <1>1 DEF NewProcess, FollowedInv, IsSc
<1> SUFFICES ASSUME ~NewProcess, NEW k \in Key,
                    IsSc(cache'[k]), k \notin due' \cup held' \cup later' \cup dropped'
             PROVE  resources'[cache'[k].name] # Nil /\ Followed(k)'
  BY <1>1 DEF FollowedInv, IsSc
<1>2. ASSUME cache'[k] = cache[k]
      PROVE  /\ cache[k] # Nil /\ cache[k].name \in Name /\ cache[k].rev < rev
             /\ \A err \in BOOLEAN : CleanupDelete(cache[k].name, err) => k \in due'
  <2>1. cache[k] \in Ingress /\ cache[k].rev < rev
    BY <1>2 DEF IsSc, BaseInv, StatusTypeOK, CopiesInv
  <2>2. ASSUME NEW err \in BOOLEAN, CleanupDelete(cache[k].name, err)
        PROVE  k \in due'
    <3>1. k \in due
      BY <1>2, <2>2 DEF CleanupDelete, RaceInv
    <3>2. due' = due
      BY <2>2 DEF CleanupDelete, pkVars, retryVars
    <3> QED BY <3>1, <3>2
  <2> QED BY <2>1, <2>2, NilAssumption DEF Ingress
<1>3. ASSUME cache'[k] = cache[k], resources[cache[k].name] # Nil
      PROVE  /\ resources'[cache[k].name] # Nil
             /\ resources'[cache[k].name].id = resources[cache[k].name].id
  BY <1>2, <1>3, IdsStay
<1>4. ASSUME UNCHANGED cache, k \notin due \cup held \cup later \cup dropped,
             missed \subseteq missed',
             api'[k] = api[k] \/ api'[k] = Nil \/ api'[k] # cache[k],
             (\E p \in pollers : Reports(p, k)) =>
               \/ \E p \in pollers' : Reports(p, k)
               \/ cache[k].rev \in missed'
               \/ api'[k] = Nil
               \/ api'[k] # cache[k]
               \/ api'[k].status = resources'[cache[k].name].id
      PROVE  resources'[cache'[k].name] # Nil /\ Followed(k)'
  <2>1. resources[cache[k].name] # Nil /\ Followed(k)
    BY <1>4 DEF FollowedInv
  <2> QED BY <1>3, <1>4, <2>1, FollowedKept
<1>5. ASSUME NEW x \in Key, NEW sc \in BOOLEAN,
             CreateIngress(x, sc) \/ EditIngress(x, sc) \/ DeleteIngress(x)
      PROVE  resources'[cache'[k].name] # Nil /\ Followed(k)'
  <2>1. PICK ing \in Ingress \cup {Nil} :
          /\ Write(x, ing)
          /\ ing # Nil =>
               /\ ing.rev = rev
               /\ \/ ing.status = Nil
                  \/ /\ api[x] # Nil
                     /\ ing.status = api[x].status
                     /\ ing.name = api[x].name
    BY <1>5, UsersWrite
  <2>2. UNCHANGED <<cache, pollers, missed, due, held, later, dropped>>
    BY <2>1 DEF Write, pkVars, retryVars
  <2>3. api'[k] = IF k = x THEN ing ELSE api[k]
    BY <2>1 DEF Write, BaseInv, StatusTypeOK
  <2>4. cache[k].rev < rev /\ rev \in Nat
    BY <1>2, <2>2, StatusAssumption DEF BaseInv, StatusTypeOK, Rev
  <2>5. api'[k] = api[k] \/ api'[k] = Nil \/ api'[k] # cache[k]
    BY <2>1, <2>3, <2>4
  <2> QED BY <1>4, <2>2, <2>5
<1>6. ASSUME NEW x \in Key, Observe(x)
      PROVE  resources'[cache'[k].name] # Nil /\ Followed(k)'
  <2>1. /\ \A y \in Key : cache'[y] = IF y = x THEN api[x] ELSE cache[y]
        /\ UNCHANGED <<resources, api, pollers, missed, held, later, dropped>>
        /\ due \subseteq due'
        /\ IsSc(cache[x]) \/ IsSc(api[x]) => x \in due'
    BY <1>6 DEF Observe, Request, pkVars, retryVars, lbVars, BaseInv, StatusTypeOK
  <2>2. k # x /\ cache'[k] = cache[k] /\ k \notin due \cup held \cup later \cup dropped
    BY <2>1
  <2>3. resources[cache[k].name] # Nil /\ Followed(k)
    BY <2>2 DEF FollowedInv
  <2> QED BY <2>1, <2>2, <2>3 DEF Followed, Reports
<1>7. ASSUME NEW x \in Key, RetryDue(x)
      PROVE  resources'[cache'[k].name] # Nil /\ Followed(k)'
  <2>1. /\ UNCHANGED <<cache, api, pollers, missed>>
        /\ k \notin due \cup held \cup later \cup dropped
    BY <1>7 DEF RetryDue, Ripen, retryVars
  <2> QED BY <1>4, <2>1
<1>8. ASSUME NEW x \in Key, StartItem(x)
      PROVE  resources'[cache'[k].name] # Nil /\ Followed(k)'
  <2>1. /\ due' = due \ {x} /\ held' = {x} /\ later' = later /\ worker = Idle
        /\ UNCHANGED <<cache, api, pollers, missed, dropped>>
    BY <1>8, StartStep DEF retryVars
  <2>2. k \notin due \cup held \cup later \cup dropped
    BY <2>1 DEF BaseInv, WorkerInv
  <2> QED BY <1>4, <2>1, <2>2
<1>9. ASSUME NEW err \in BOOLEAN, SyncLB(err)
      PROVE  resources'[cache'[k].name] # Nil /\ Followed(k)'
  <2>1. /\ worker.ing \in Ingress /\ worker.ing.sc
        /\ due' = due
        /\ later \subseteq later' /\ dropped \subseteq dropped' \cup {worker.key}
        /\ err => worker.key \in later' \cup dropped'
        /\ UNCHANGED <<api, cache, missed>>
        /\ \/ err /\ pollers' = pollers
           \/ /\ ~err
              /\ resources'[worker.ing.name] # Nil
              /\ \E q \in Poller :
                   /\ q.key = worker.key /\ q.ing = worker.ing
                   /\ q.id = resources'[worker.ing.name].id
                   /\ pollers' = pollers \cup {q}
    BY <1>9, SyncStep, EndStep
  <2>2. held = {worker.key}
    BY <2>1, NilAssumption DEF BaseInv, WorkerInv, Idle
  <2>3. CASE k # worker.key
    <3>1. k \notin due \cup held \cup later \cup dropped
      BY <2>1, <2>2, <2>3
    <3> QED BY <1>4, <2>1, <3>1
  <2>4. CASE k = worker.key
    <3>1. ~err /\ k \in held \ due
      BY <2>1, <2>2, <2>4
    <3>2. IsSc(worker.ing)
      BY <2>1, NilAssumption DEF IsSc
    <3>3. worker.ing = cache[k]
      BY <3>1, <3>2 DEF RaceInv
    <3>4. PICK q \in Poller : /\ q.key = worker.key /\ q.ing = worker.ing
                              /\ pollers' = pollers \cup {q}
      BY <2>1, <3>1
    <3>5. Reports(q, k)'
      BY <1>2, <2>1, <2>4, <3>3, <3>4 DEF Reports
    <3> QED BY <2>1, <3>1, <3>3, <3>4, <3>5 DEF Followed
  <2> QED BY <2>3, <2>4
<1>10. ASSUME NEW n \in Name, NEW err \in BOOLEAN, CleanupDelete(n, err)
       PROVE  resources'[cache'[k].name] # Nil /\ Followed(k)'
  <2>1. UNCHANGED <<due, held, later, dropped, api, cache, pollers, missed>>
    BY <1>10, CleanupStep DEF pkVars, retryVars
  <2> QED BY <1>4, <2>1
<1>11. CASE CleanupDone
  <2>1. /\ worker.key \in Key /\ ~Synced(worker.ing) /\ due' = due
        /\ later \subseteq later' /\ dropped \subseteq dropped' \cup {worker.key}
        /\ UNCHANGED <<api, cache, pollers, missed>>
    BY <1>11, DoneStep, EndStep
  <2>2. held = {worker.key}
    BY <1>11 DEF CleanupDone, BaseInv, WorkerInv, Idle
  <2>3. k # worker.key
    <3> SUFFICES ASSUME k = worker.key PROVE FALSE
      OBVIOUS
    <3>1. k \in held \ due
      BY <2>1, <2>2
    <3> QED BY <2>1, <3>1 DEF RaceInv, Synced
  <2>4. k \notin due \cup held \cup later \cup dropped
    BY <2>1, <2>2, <2>3
  <2> QED BY <1>4, <2>1, <2>4
<1>12. ASSUME NEW p \in pollers, Poll(p) \/ PollError(p)
       PROVE  resources'[cache'[k].name] # Nil /\ Followed(k)'
  <2>1. /\ UNCHANGED <<api, cache, missed, due, held, later, dropped>>
        /\ \/ pollers' = pollers
           \/ /\ resources[p.ing.name] # Nil
              /\ \E q \in Poller :
                   /\ q.key = p.key /\ q.ing = p.ing
                   /\ q.id = resources[p.ing.name].id
                   /\ pollers' = (pollers \ {p}) \cup {q}
    BY <1>12, PollEffect DEF pkVars, retryVars
  <2>2. \A r \in pollers : \E q \in pollers' : q.key = r.key /\ q.ing = r.ing
    BY <2>1
  <2>3. (\E r \in pollers : Reports(r, k)) => \E q \in pollers' : Reports(q, k)
    BY <2>2 DEF Reports
  <2> QED BY <1>4, <2>1, <2>3
<1>13. ASSUME NEW p \in pollers, PollTimeout(p)
       PROVE  resources'[cache'[k].name] # Nil /\ Followed(k)'
  <2>1. /\ UNCHANGED <<api, cache, due, held, later, dropped>>
        /\ pollers' = pollers \ {p} /\ missed' = missed \cup {p.ing.rev}
    BY <1>13 DEF PollTimeout, pkVars, retryVars
  <2>2. (\E r \in pollers : Reports(r, k)) =>
          (\E q \in pollers' : Reports(q, k)) \/ cache[k].rev \in missed'
    BY <2>1 DEF Reports
  <2> QED BY <1>4, <2>1, <2>2
<1>14. ASSUME NEW p \in pollers, Report(p)
       PROVE  resources'[cache'[k].name] # Nil /\ Followed(k)'
  <2>1. UNCHANGED <<cache, resources, due, held, later, dropped>>
    BY <1>14 DEF Report, pkVars, retryVars
  <2>2. /\ p.key \in Key
        /\ pollers' = pollers \ {p}
        /\ missed \subseteq missed'
        /\ \/ /\ UNCHANGED api
              /\ \/ p.ing.rev \in missed'
                 \/ api[p.key] = Nil
                 \/ api[p.key].rev # p.ing.rev
                 \/ api[p.key].status = p.id
           \/ \E new \in Ingress : new.rev = rev /\ api' = [api EXCEPT ![p.key] = new]
    BY <1>14, ReportEffect
  <2>3. cache[k].rev < rev /\ rev \in Nat
    BY <1>2, <2>1, StatusAssumption DEF BaseInv, StatusTypeOK, Rev
  <2>4. api'[k] = api[k] \/ api'[k] # cache[k]
    BY <2>2, <2>3 DEF BaseInv, StatusTypeOK
  <2>5. ASSUME Reports(p, k)
        PROVE  \/ cache[k].rev \in missed'
               \/ api'[k] = Nil
               \/ api'[k] # cache[k]
               \/ api'[k].status = resources'[cache[k].name].id
    <3>1. p.key = k /\ p.ing.rev = cache[k].rev /\ cache[k] = p.ing
      BY <2>5, ReportsTheCopy DEF Reports
    <3>2. resources[p.ing.name].id = p.id
      BY <2>5 DEF RaceInv
    <3>3. CASE UNCHANGED api
      BY <2>1, <2>2, <2>3, <3>1, <3>2, <3>3 DEF BaseInv, StatusTypeOK
    <3>4. ASSUME NEW new \in Ingress, new.rev = rev, api' = [api EXCEPT ![p.key] = new]
          PROVE  api'[k] # cache[k]
      BY <2>3, <3>1, <3>4 DEF BaseInv, StatusTypeOK
    <3> QED BY <2>2, <3>3, <3>4
  <2>6. (\E r \in pollers : Reports(r, k)) =>
          (\E q \in pollers' : Reports(q, k)) \/ Reports(p, k)
    BY <2>2
  <2> QED BY <1>4, <2>1, <2>2, <2>4, <2>5, <2>6
<1>15. ASSUME NEW i \in Id, ActivateLB(i)
       PROVE  resources'[cache'[k].name] # Nil /\ Followed(k)'
  <2>1. UNCHANGED <<api, cache, pollers, missed, due, held, later, dropped>>
    BY <1>15 DEF ActivateLB, pkVars, retryVars
  <2> QED BY <1>4, <2>1
<1>16. CASE UNCHANGED statusVars
  <2>1. UNCHANGED <<api, cache, pollers, missed, due, held, later, dropped>>
    BY <1>16 DEF statusVars, pkVars, retryVars
  <2> QED BY <1>4, <2>1
<1>17. CASE ListForCleanup
  <2>1. UNCHANGED <<api, cache, pollers, missed, due, held, later, dropped>>
    BY <1>17, ListStep DEF pkVars, retryVars
  <2> QED BY <1>4, <2>1
<1> QED BY <1>5, <1>6, <1>7, <1>8, <1>9, <1>10, <1>11, <1>12, <1>13, <1>14, <1>15, <1>16, <1>17
        DEF Next, Worker, Goroutine, Restart, Panic

\* What is followed and at rest is reported, or excused.
LEMMA RestSuffices == BaseInv /\ FollowedInv => RestIsReported
<1> SUFFICES ASSUME BaseInv, FollowedInv, NEW k \in Key, IsSc(api[k]), AtRest(k)
             PROVE  Reported(k) \/ Excused(k)
  BY DEF RestIsReported
<1>1. /\ cache[k] = api[k] /\ IsSc(cache[k])
      /\ k \notin due \cup held \cup later
      /\ \A p \in pollers : p.key # k
  BY DEF AtRest
<1>2. CASE k \in dropped
  BY <1>2 DEF Excused
<1> SUFFICES ASSUME k \notin dropped PROVE Reported(k) \/ Excused(k)
  BY <1>2
<1>3. resources[api[k].name] # Nil /\ Followed(k)
  BY <1>1 DEF FollowedInv
<1>4. api[k].rev \in missed \/ api[k].status = resources[api[k].name].id
  BY <1>1, <1>3 DEF Followed, Reports, IsSc
<1>5. api[k].name \in Name
  BY DEF IsSc, BaseInv, StatusTypeOK, Ingress
<1>6. ~resources[api[k].name].deleted => portal[resources[api[k].name].id] # Nil
  BY <1>3, <1>5 DEF BaseInv, RegistryInv, RegistrySound, SoundAt, GetIds
<1> QED BY <1>3, <1>4, <1>6 DEF Reported, Excused

\* When nothing is under way for an ingress of the class, it shows the load
\* balancer that serves it, unless its report failed or timed out, its key was
\* dropped after its retries or a failed delete has marked the object: a goroutine
\* that loses a race against an update, a cleanup or another goroutine loses it to
\* something that starts a new sync.
THEOREM RestStaysReported == StatusSpec => []RestIsReported
<1>1. Init => RaceInv /\ FollowedInv
  BY DEF Init, PKInit, RaceInv, FollowedInv, IsSc, Idle
<1> QED BY <1>1, BaseStarts, BaseStep, CopiesStep, RaceStep, FollowedStep, RestSuffices,
           ShownInvariant, PTL DEF StatusSpec
=============================================================================

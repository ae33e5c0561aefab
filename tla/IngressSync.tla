---------------------------- MODULE IngressSync ----------------------------
(***************************************************************************)
(* From an edit of an Ingress to the load balancer that serves it: the     *)
(* informers and their event handlers (internal/ingress/controller/store), *)
(* the work queue and its single worker (controller/ingress.go), the sync  *)
(* of one key (internal/service/service.go and service/sync) and, below    *)
(* them, the load balancer manager.  Module StatusSync has the goroutines  *)
(* that report the status.                                                 *)
(*                                                                         *)
(* An informer that lags replaces its copy of an object by the current     *)
(* one in one step.  Informers that deliver every version are covered: the *)
(* versions in between are those current when an earlier copy was made.    *)
(*                                                                         *)
(* Objects an ingress refers to are Dependencies with a value: a Service   *)
(* (its ports and annotations), a Secret (its certificate) or the Nodes.   *)
(* The certificate manager of the portal is abstracted: a certificate is   *)
(* identified by the contents of its Secret.                               *)
(***************************************************************************)
EXTENDS WorkQueue, LBManager, FiniteSets

CONSTANTS
  IngressClass,  \* the class this controller serves
  Spec,          \* ingress specs and annotations users write
  Host,          \* hosts of the rules of ingresses
  Service,       \* Services
  Secret,        \* Secrets
  Nodes,         \* all the Nodes
  Value,         \* contents of a Service, a Secret or the Nodes
  Usable,        \* the contents that pass the checks of the code
  DepMoves,      \* <<dependency, old, new>> changes that may happen
  NameOf,        \* GetLoadBalancerName: load balancer name, by key and UID
  MaxRev,        \* bound on the writes to ingresses
  MaxDepWrites,  \* bound on the writes to dependencies
  MaxRestarts,   \* bound on the restarts
  MaxNotifs      \* bound on the undelivered ingress events

Rev == 0..MaxRev
Dep == Service \cup Secret \cup {Nodes}

\* What the code reads of an ingress.
Ingress == [name: Name, rev: Rev, spec: Spec]

ASSUME SyncAssumption ==
  /\ MaxRev \in Nat /\ MaxDepWrites \in Nat
  /\ MaxRestarts \in Nat /\ MaxNotifs \in Nat
  /\ Usable \subseteq Value
  /\ Nil \notin Key \cup Name \cup Value \cup Secret
  /\ Nil \notin Ingress
  \* Names cut to 32 characters still tell the UIDs apart.
  /\ NameOf \in [Key \X Rev -> Name]
  /\ \A x, y \in Key \X Rev : NameOf[x] = NameOf[y] => x = y

VARIABLES
  api,         \* the ingresses of the API server
  rev,         \* its resource version
  dep,         \* its Services, Secrets and Nodes
  depWrites,   \* writes to these so far
  cache,       \* the ingress informer's store
  depCache,    \* the stores of the other informers
  notifs,      \* keys of the ingress events not handled yet, in order; Nil for
               \* a delete the watch missed (DeletedFinalStateUnknown)
  depNotifs,   \* dependencies whose update event is not handled yet
  toAdd,       \* keys a dependency's handler has still to enqueue
  worker,      \* the goroutine in processNextItem
  restarts,    \* restarts so far
  dropped,     \* history: keys whose last sync failed and was their last retry
  spoiled,     \* history: keys that bad data cost a retry they need now
  steady,      \* history: names of the ingresses that have been of this class
               \* since they were created
  classed      \* history: names of the ingresses that have ever been

clusterVars == <<api, rev, dep, depWrites>>
tallies     == <<dropped, spoiled>>
storeVars   == <<cache, depCache, notifs, depNotifs, toAdd>>
classes     == <<steady, classed>>
vars == <<lbVars, wqVars, clusterVars, storeVars, worker, restarts, tallies, classes>>

-----------------------------------------------------------------------------
(* Pure functions of an ingress. *)

IsScIngress(spec) ==
  IF spec.className # Nil THEN spec.className = IngressClass
                          ELSE spec.annotation = IngressClass

IsSc(ing) == ing # Nil /\ IsScIngress(ing.spec)

\* Variant with a defect: ingresses are not indexed by secret.
IndexedByService(spec) == spec.services

\* "byService" reads the Service of every path; the backend of a path may be a
\* resource instead, and the Service nil.
BreaksIndexer(ing) == ing # Nil /\ ing.spec.resource

\* The indexers "byService" and "bySecret", of an ingress that does not break them.
Indexed(spec) == spec.services \cup ({spec.tls[h] : h \in Host} \ {Nil})

\* mergeTLSWithAnnotations: the secret of each host; an annotation overrides
\* the tls section.
HostSecret(spec) ==
  [h \in Host |-> IF spec.annotated[h] # Nil THEN spec.annotated[h] ELSE spec.tls[h]]

SecretHosts(spec) == {h \in Host : HostSecret(spec)[h] # Nil}

\* getIngressHostsInfo and TranslateIngressToLB reject a service that does not
\* exist or has no such NodePort and an ingress without hosts; the annotations
\* may be malformed.
Translatable(spec, d) ==
  /\ spec.services # {}
  /\ \A s \in spec.services : d[s] \in Usable
  /\ ~spec.malformed

\* The content of the load balancer of an ingress.
Rendering(spec, certs, d) ==
  [services |-> [s \in spec.services |-> d[s]],
   certs    |-> certs,
   nodes    |-> d[Nodes]]

\* An ingress refers to Services and Secrets, and every rendering is a content
\* of a load balancer.
ASSUME SpecAssumption ==
  \A s \in Spec :
    /\ s.services \subseteq Service
    /\ s.tls \in [Host -> Secret \cup {Nil}]
    /\ s.annotated \in [Host -> Secret \cup {Nil}]
    /\ s.cluster \in ClusterId
    /\ s.resource \in BOOLEAN
    /\ \A c \in [Host -> Value \cup {Nil}], d \in [Dep -> Value \cup {Nil}] :
         Rendering(s, c, d) \in Config

\* Variants with a defect: of an update only the new object's class counts, or
\* only the old one's.
ConcernsNew(old, new) == old # new /\ IsSc(new)

ConcernsOld(old, new) == old # new /\ IsSc(IF old = Nil THEN new ELSE old)

\* The event handlers of the ingress informer pass on what was or is of this
\* class.  (The class of a new object decides for AddFunc, of the last one seen
\* for DeleteFunc, of either for UpdateFunc.)
Concerns(old, new) == old # new /\ (IsSc(old) \/ IsSc(new))

-----------------------------------------------------------------------------

NoCerts == [h \in Host |-> Nil]
NoDeps  == [d \in Dep |-> Nil]

Idle == [pc |-> "idle", key |-> Nil, ing |-> Nil, todo |-> {}, certs |-> NoCerts,
         got |-> NoDeps, input |-> Nil, err |-> FALSE, bad |-> FALSE]

Finishing(w, err) == [Idle EXCEPT !.pc = "finish", !.key = w.key, !.ing = w.ing,
                                  !.err = err]

\* The sync fails on what the cluster holds, not on the portal.
BadData(w) == [Finishing(w, TRUE) EXCEPT !.bad = TRUE]

\* The process starts with empty stores; the ingress informer starts when the
\* others have synced.
StoreStart == /\ cache' = [k \in Key |-> Nil]
              /\ depCache' = dep
              /\ notifs' = <<>>
              /\ depNotifs' = {}
              /\ toAdd' = {}

Init ==
  /\ LBInit
  /\ WQInit
  /\ api = [k \in Key |-> Nil]
  /\ rev = 0
  /\ dep \in {d \in [Dep -> Value] : d[Nodes] \in Usable}
  /\ depWrites = 0
  /\ cache = [k \in Key |-> Nil]
  /\ depCache = dep
  /\ notifs = <<>>
  /\ depNotifs = {}
  /\ toAdd = {}
  /\ worker = Idle
  /\ restarts = 0
  /\ dropped = {}
  /\ spoiled = {}
  /\ steady = {}
  /\ classed = {}

-----------------------------------------------------------------------------
(* Users.  A write gives the object a new resource version, so an edit that *)
(* keeps the spec (a status update, a label) is an edit too.                *)

Write(k, ing) ==
  /\ rev < MaxRev
  /\ rev' = rev + 1
  /\ api' = [api EXCEPT ![k] = ing]
  /\ UNCHANGED <<dep, depWrites, lbVars, wqVars, storeVars, worker, restarts, tallies>>

CreateIngress(k) ==
  /\ api[k] = Nil
  /\ \E s \in Spec :
       LET ing == [name |-> NameOf[<<k, rev>>], rev |-> rev, spec |-> s] IN
       /\ Write(k, ing)
       /\ steady' = IF IsSc(ing) THEN steady \cup {ing.name} ELSE steady
       /\ classed' = IF IsSc(ing) THEN classed \cup {ing.name} ELSE classed

EditIngress(k) ==
  /\ api[k] # Nil
  /\ \E s \in Spec :
       LET ing == [api[k] EXCEPT !.rev = rev, !.spec = s] IN
       /\ Write(k, ing)
       /\ steady' = IF IsSc(ing) THEN steady ELSE steady \ {ing.name}
       /\ classed' = IF IsSc(ing) THEN classed \cup {ing.name} ELSE classed

DeleteIngress(k) ==
  /\ api[k] # Nil
  /\ Write(k, Nil)
  /\ steady' = steady \ {api[k].name}
  /\ UNCHANGED classed

\* A Service, a Secret or the Nodes change.
WriteDep(d, v) ==
  /\ depWrites < MaxDepWrites
  /\ <<d, dep[d], v>> \in DepMoves
  /\ dep' = [dep EXCEPT ![d] = v]
  /\ depWrites' = depWrites + 1
  /\ UNCHANGED <<api, rev, lbVars, wqVars, storeVars, worker, restarts, tallies, classes>>

-----------------------------------------------------------------------------
(* Informers and event handlers. *)

\* What the informer delivers goes into its store, with the indexes, and then to
\* the handlers.
ObserveIngress(k) ==
  /\ cache[k] # api[k]
  /\ ~BreaksIndexer(api[k])
  /\ Len(notifs) < MaxNotifs
  /\ cache' = [cache EXCEPT ![k] = api[k]]
  /\ notifs' = IF Concerns(cache[k], api[k]) THEN Append(notifs, k) ELSE notifs
  /\ UNCHANGED <<lbVars, wqVars, clusterVars, depCache, depNotifs, toAdd, worker,
                 restarts, tallies, classes>>

\* The watch was down when the ingress was deleted: the next list shows it.
\* (It is counted as a fault.)
MissDelete(k) ==
  /\ cache[k] # Nil /\ api[k] = Nil
  /\ Len(notifs) < MaxNotifs
  /\ "lost" \in Answers("watch") /\ Spend(1)
  /\ cache' = [cache EXCEPT ![k] = Nil]
  /\ notifs' = Append(notifs, Nil)
  /\ UNCHANGED <<resources, portal, nextId, acked, wqVars, clusterVars, depCache,
                 depNotifs, toAdd, worker, restarts, tallies, classes>>

HandleIngressEvent ==
  /\ notifs # <<>>
  /\ Head(notifs) # Nil
  /\ Add(Head(notifs))
  /\ notifs' = Tail(notifs)
  /\ UNCHANGED <<lbVars, clusterVars, cache, depCache, depNotifs, toAdd, worker,
                 restarts, tallies, classes>>

\* Services and Secrets have an UpdateFunc only: one that appears or goes away
\* is not reported, and of the Nodes nothing is.
ObserveDep(d) ==
  /\ depCache[d] # dep[d]
  /\ depCache' = [depCache EXCEPT ![d] = dep[d]]
  /\ depNotifs' = IF d # Nodes /\ Nil \notin {depCache[d], dep[d]}
                  THEN depNotifs \cup {d} ELSE depNotifs
  /\ UNCHANGED <<lbVars, wqVars, clusterVars, cache, notifs, toAdd, worker,
                 restarts, tallies, classes>>

\* The handler looks the ingresses up in the index, of any class ...
HandleDepEvent(d) ==
  /\ d \in depNotifs
  /\ depNotifs' = depNotifs \ {d}
  /\ toAdd' = toAdd \cup {k \in Key : cache[k] # Nil /\ d \in Indexed(cache[k].spec)}
  /\ UNCHANGED <<lbVars, wqVars, clusterVars, cache, depCache, notifs, worker,
                 restarts, tallies, classes>>

\* ... and adds them one by one.
AddDependent(k) ==
  /\ k \in toAdd
  /\ toAdd' = toAdd \ {k}
  /\ Add(k)
  /\ UNCHANGED <<lbVars, clusterVars, cache, depCache, notifs, depNotifs, worker,
                 restarts, tallies, classes>>

DelayPassed(k) ==
  /\ AddWaiting(k)
  /\ UNCHANGED <<lbVars, clusterVars, storeVars, worker, restarts, tallies, classes>>

-----------------------------------------------------------------------------
(* The worker: processNextItem and SyncToPortal. *)

WorkerOnly == UNCHANGED <<wqVars, clusterVars, storeVars, restarts, tallies, classes>>

\* The ingress is read from the store once; what is done depends on this copy.
StartItem ==
  /\ worker.pc = "idle"
  /\ \E k \in Key :
       /\ Get(k)
       /\ worker' = [Idle EXCEPT !.pc  = IF IsSc(cache[k]) THEN "tls" ELSE "list",
                                 !.key = k,
                                 !.ing = cache[k],
                                 !.todo = IF IsSc(cache[k])
                                          THEN SecretHosts(cache[k].spec) ELSE {}]
  /\ UNCHANGED <<lbVars, clusterVars, storeVars, restarts, tallies, classes>>

\* Variant with a defect: the class annotation is not looked at.
ValidByClassName ==
  {cache[k].name : k \in {x \in Key : cache[x] # Nil
                                     /\ cache[x].spec.className = IngressClass}}

\* CleanupLBs: the names registered that no ingress in the store justifies.
ValidLBs == {cache[k].name : k \in {x \in Key : IsSc(cache[x])}}

ListForCleanup ==
  /\ worker.pc = "list"
  /\ worker' = [worker EXCEPT !.pc = "cleanup", !.todo = GetIds \ ValidLBs]
  /\ WorkerOnly
  /\ UNCHANGED lbVars

\* The map is iterated in any order; the first error ends the cleanup.
CleanupDelete(n, err) ==
  /\ worker.pc = "cleanup"
  /\ n \in worker.todo
  /\ DeleteLoadBalancer(n, err)
  /\ worker' = IF err THEN Finishing(worker, TRUE)
                      ELSE [worker EXCEPT !.todo = @ \ {n}]
  /\ WorkerOnly

CleanupDone ==
  /\ worker.pc = "cleanup"
  /\ worker.todo = {}
  /\ worker' = Finishing(worker, FALSE)
  /\ WorkerOnly
  /\ UNCHANGED lbVars

\* SyncTLS, one host: its secret must exist and pass the checks, and the portal
\* must find or create its certificate.
SyncHost(h) ==
  /\ worker.pc = "tls"
  /\ h \in worker.todo
  /\ LET content == depCache[HostSecret(worker.ing.spec)[h]] IN
     \E a \in Answers("cert") :
       /\ Spend(Cost(a))
       /\ worker' = IF content \notin Usable THEN BadData(worker)
                    ELSE IF a = "ok"
                    THEN [worker EXCEPT !.todo = @ \ {h}, !.certs[h] = content]
                    ELSE Finishing(worker, TRUE)
  /\ WorkerOnly
  /\ UNCHANGED <<resources, portal, nextId, acked>>

\* getIngressHostsInfo reads the Nodes ...
GetNodes ==
  /\ worker.pc = "tls"
  /\ worker.todo = {}
  /\ worker' = [worker EXCEPT !.pc = "translate", !.todo = worker.ing.spec.services,
                              !.got[Nodes] = depCache[Nodes]]
  /\ WorkerOnly
  /\ UNCHANGED lbVars

\* ... and then the Services, one by one: the first that is missing or has no such
\* NodePort is an error.  (A Service of two paths is read once here.)
GetService(s) ==
  /\ worker.pc = "translate"
  /\ s \in worker.todo
  /\ worker' = IF depCache[s] \notin Usable THEN BadData(worker)
               ELSE [worker EXCEPT !.todo = @ \ {s}, !.got[s] = depCache[s]]
  /\ WorkerOnly
  /\ UNCHANGED lbVars

Translate ==
  /\ worker.pc = "translate"
  /\ worker.todo = {}
  /\ LET s == worker.ing.spec IN
     worker' = IF Translatable(s, worker.got)
               THEN [worker EXCEPT
                       !.pc = "lb",
                       !.certs = NoCerts,
                       !.got = NoDeps,
                       !.input = [name    |-> worker.ing.name,
                                  cfg     |-> Rendering(s, worker.certs, worker.got),
                                  cluster |-> s.cluster]]
               ELSE BadData(worker)
  /\ WorkerOnly
  /\ UNCHANGED lbVars

SyncLB(err) ==
  /\ worker.pc = "lb"
  /\ SyncL7LB(worker.input, err)
  /\ worker' = Finishing(worker, err)
  /\ WorkerOnly

\* A cleanup that failed is reported on the ingress, which is nil when the key
\* is gone from the store: the event recorder dereferences it.
Panics == worker.err /\ worker.ing = Nil

Finish ==
  /\ worker.pc = "finish"
  /\ ~Panics
  /\ FinishItem(worker.key, worker.err)
  /\ LET k    == worker.key
         drop == worker.err /\ ~Retries(k, TRUE)
         cost == IF worker.bad THEN ~drop ELSE k \in spoiled /\ requeues[k] > 0
     IN /\ dropped' = IF drop THEN dropped \cup {k} ELSE dropped \ {k}
        /\ spoiled' = IF worker.err /\ cost THEN spoiled \cup {k} ELSE spoiled \ {k}
  /\ worker' = Idle
  /\ UNCHANGED <<lbVars, clusterVars, storeVars, restarts, classes>>

-----------------------------------------------------------------------------
(* A new process takes over: nothing survives in memory. *)

NewProcess ==
  /\ RestartManager
  /\ queue' = <<>> /\ dirty' = {} /\ processing' = {} /\ waiting' = {}
  /\ requeues' = [k \in Key |-> 0]
  /\ StoreStart
  /\ worker' = Idle
  /\ dropped' = {} /\ spoiled' = {}
  /\ UNCHANGED <<clusterVars, classes>>

Restart == restarts < MaxRestarts /\ restarts' = restarts + 1 /\ NewProcess

\* The indexer dereferences the nil Service, whatever the class of the ingress.
\* The next process lists the same ingresses.
IndexerPanics(k) ==
  cache[k] # api[k] /\ BreaksIndexer(api[k]) /\ NewProcess /\ UNCHANGED restarts

\* DeleteFunc asserts that its argument is an ingress: of a tombstone it is not.
HandleTombstone == notifs # <<>> /\ Head(notifs) = Nil /\ NewProcess /\ UNCHANGED restarts

Panic == worker.pc = "finish" /\ Panics /\ NewProcess /\ UNCHANGED restarts

-----------------------------------------------------------------------------

Users == \/ \E k \in Key : CreateIngress(k) \/ EditIngress(k) \/ DeleteIngress(k)
         \/ \E d \in Dep, v \in Value \cup {Nil} : WriteDep(d, v)

Informers == \/ \E k \in Key : ObserveIngress(k) \/ IndexerPanics(k) \/ MissDelete(k)
             \/ HandleIngressEvent
             \/ HandleTombstone
             \/ \E d \in Dep : ObserveDep(d) \/ HandleDepEvent(d)
             \/ \E k \in Key : AddDependent(k)
             \/ \E k \in Key : DelayPassed(k)

Worker == \/ StartItem
          \/ ListForCleanup
          \/ \E n \in Name, err \in BOOLEAN : CleanupDelete(n, err)
          \/ CleanupDone
          \/ \E h \in Host : SyncHost(h)
          \/ GetNodes
          \/ \E s \in Service : GetService(s)
          \/ Translate
          \/ \E err \in BOOLEAN : SyncLB(err)
          \/ Finish
          \/ Panic

Next == Users \/ Informers \/ Worker \/ Restart

SyncSpec == Init /\ [][Next]_vars

\* Every goroutine runs on and every delay passes.
Fairness ==
  /\ \A k \in Key : /\ WF_vars(ObserveIngress(k) \/ IndexerPanics(k))
                    /\ WF_vars(AddDependent(k))
                    /\ WF_vars(DelayPassed(k))
  /\ \A d \in Dep : WF_vars(ObserveDep(d)) /\ WF_vars(HandleDepEvent(d))
  /\ WF_vars(HandleIngressEvent \/ HandleTombstone)
  /\ WF_vars(Worker)

FairSyncSpec == SyncSpec /\ Fairness

-----------------------------------------------------------------------------
(* Properties. *)

\* The types of the state above the manager and the queue.
SyncTypeOK ==
  /\ api \in [Key -> Ingress \cup {Nil}]
  /\ cache \in [Key -> Ingress \cup {Nil}]
  /\ rev \in Rev
  /\ dep \in [Dep -> Value \cup {Nil}]
  /\ depCache \in [Dep -> Value \cup {Nil}]
  /\ notifs \in Seq(Key \cup {Nil})
  /\ steady \subseteq classed /\ classed \subseteq Name
  /\ depNotifs \subseteq Service \cup Secret
  /\ toAdd \subseteq Key
  /\ dropped \subseteq Key /\ spoiled \subseteq Key
  /\ worker.pc \in {"idle", "list", "cleanup", "tls", "translate", "lb", "finish"}
  /\ worker.ing \in Ingress \cup {Nil}
  /\ worker.input \in Input \cup {Nil}
  /\ processing = IF worker.pc = "idle" THEN {} ELSE {worker.key}

\* Nothing is on its way to the worker for key k, and nothing with it.
Settled(k) ==
  /\ cache[k] = api[k]
  /\ depCache = dep
  /\ depNotifs = {}
  /\ {k, Nil} \cap {notifs[i] : i \in DOMAIN notifs} = {}
  /\ k \notin toAdd \cup dirty \cup processing \cup waiting

\* What the load balancer of an ingress should hold now.
Wanted(k) ==
  LET s == api[k].spec IN
  Rendering(s, [h \in Host |-> IF h \in SecretHosts(s) THEN dep[HostSecret(s)[h]]
                                                     ELSE Nil], dep)

\* The process knows a load balancer for the ingress, and the portal's copy
\* holds what the ingress, its Services and its Secrets ask for.
Served(k) ==
  LET lb == resources[api[k].name] IN
  /\ lb # Nil
  /\ portal[lb.id] # Nil
  /\ portal[lb.id].name = api[k].name
  /\ portal[lb.id].cfg = Wanted(k)

\* The object of an ingress whose delete failed: UpdateLoadBalancer skips it.
MarkedDeleted(k) ==
  resources[api[k].name] # Nil /\ resources[api[k].name].deleted

\* No update is lost between the API server and the portal, however edits,
\* events, retries, restarts and a sync in progress interleave: an ingress of
\* this class is served as it is now, or it will be synced again, or it was
\* dropped after its retries, or a failed delete has marked its object.
ServedOrScheduled ==
  \A k \in Key :
    IsSc(api[k]) /\ Settled(k) => Served(k) \/ k \in dropped \/ MarkedDeleted(k)

\* The process leaves nothing behind it knows of: when all is settled, a load
\* balancer still registered for a key that has no ingress of this class was
\* given up on.  (One that belongs to an earlier ingress of a key that has a
\* new one may stay.)
NothingLeftRegistered ==
  (\A k \in Key : Settled(k)) /\ dropped = {} =>
    \A x \in Key \X Rev : resources[NameOf[x]] # Nil => IsSc(api[x[1]])

\* An ingress that has been of this class for its whole life keeps its load
\* balancer: neither a cleanup for other keys nor a new process that has not
\* seen all ingresses yet deletes it.
SteadyIsKept ==
  [][\A i \in Id :
       portal[i] # Nil /\ portal[i].name \in steady => portal'[i] # Nil]_vars

\* The portal as its account's owner sees it.
Directory == INSTANCE LBDirectory
  WITH owner   <- [i \in Id |-> IF portal[i] = Nil THEN Nil ELSE portal[i].name],
       used    <- 1..(nextId - 1),
       kept    <- steady,
       classed <- classed

\* Across restarts, panics, lost answers and stale stores, load balancers appear
\* only for ingresses that were of this class and have none, and disappear only
\* when an ingress has not kept the class.
RefinesDirectory == Directory!DirSpec

\* The indexer 'bySecret' is there "to find associated ingresses by secret
\* name": when all is settled the portal has the certificates the ingress's
\* secrets hold now.
SecretChangesReach ==
  \A k \in Key :
    IsSc(api[k]) /\ Settled(k) /\ k \notin dropped /\ ~MarkedDeleted(k) =>
      \A h \in SecretHosts(api[k].spec) :
        portal[resources[api[k].name].id].cfg.certs[h] = dep[HostSecret(api[k].spec)[h]]

\* "CleanupLBs deletes Load Balancers that do not have corresponding SC
\* Ingress in portal": when all is settled and nothing was dropped, each load
\* balancer of the portal belongs to an ingress of this class.
NoStrayLoadBalancer ==
  (\A k \in Key : Settled(k)) /\ dropped = {} =>
    \A i \in Id : portal[i] # Nil =>
      \E k \in Key : IsSc(api[k]) /\ api[k].name = portal[i].name

\* Nothing an ingress refers to makes its sync fail.
Syncable(k) ==
  /\ Translatable(api[k].spec, dep)
  /\ \A h \in SecretHosts(api[k].spec) : dep[HostSecret(api[k].spec)[h]] \in Usable

\* The portal failed when the key had no retry left, because syncs on bad data had
\* used them: repaired or not, nothing brings the key back.
OutOfRetries(k) == k \in dropped \cap spoiled

\* Once no ingress of any class has a resource backend, the system comes to rest,
\* and in the end every ingress of this class that can be synced is served, unless
\* a failed delete has marked its object.  (For no more failures of the portal than
\* retries.)
Converges ==
  <>[](\A k \in Key : ~BreaksIndexer(api[k])) =>
    /\ <>[](\A k \in Key : Settled(k))
    /\ <>[](\A k \in Key : IsSc(api[k]) /\ Syncable(k) =>
              Served(k) \/ MarkedDeleted(k) \/ OutOfRetries(k))
=============================================================================

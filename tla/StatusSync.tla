---------------------------- MODULE StatusSync ----------------------------
(***************************************************************************)
(* The reporting of addresses: the goroutine SyncToPortal starts after     *)
(* each successful sync (internal/service/service.go), SyncStatus          *)
(* (internal/service/sync/lb.go) and GetLoadBalancer, with the syncs and   *)
(* cleanups they race with.                                                *)
(*                                                                         *)
(* A goroutine keeps the ingress its sync has read, with its resource      *)
(* version, polls the load balancer by name, and writes the status of that *)
(* version.  A status written is an update of the ingress, so it leads to  *)
(* another sync and another goroutine.                                     *)
(*                                                                         *)
(* Data: of an ingress its name, its version, its class and its status     *)
(* count; the addresses of a load balancer are its id.  Certificates and   *)
(* translation are left to IngressSync and PortalInput, the queue is the   *)
(* abstract PendingKeys with the retries of handleErr, and an informer     *)
(* hands an event to its handler at once.  The goroutine assigns           *)
(* ing.Status inside the informer's object; goroutines of the same version *)
(* assign the same, so the copy is left out, and a torn read among them is *)
(* a crash like any other (Restart).                                       *)
(***************************************************************************)
EXTENDS LBManager, PendingKeys

CONSTANTS
  QueueRetries, \* retries before a key is dropped
  NameOf,       \* GetLoadBalancerName, by key and number of the write (UID)
  TheConfig,    \* the content of every load balancer
  MaxWrites,    \* bound on the writes of users
  MaxRev,       \* bound on the resource version
  MaxRestarts   \* bound on the restarts

ASSUME StatusAssumption ==
  /\ QueueRetries \in Nat
  /\ MaxWrites \in Nat /\ MaxRev \in Nat /\ MaxRestarts \in Nat
  /\ TheConfig \in Config
  /\ {"in_process", "active"} \subseteq Status
  /\ NameOf \in [Key \X (0..MaxWrites) -> Name]

Rev     == 0..MaxRev
Ingress == [name: Name, rev: Rev, sc: BOOLEAN, status: Id \cup {Nil}]
Poller  == [key: Key, ing: Ingress, id: Id, pc: {"poll", "report"}]

ASSUME NilAssumption == Nil \notin Ingress \cup Key

VARIABLES
  api,       \* the ingresses of the API server
  rev,       \* the resource version it gives next
  writes,    \* writes of users so far
  cache,     \* the ingress informer's store
  worker,    \* the goroutine in processNextItem
  requeues,  \* the rate limiter's count of retries, by key
  dropped,   \* history: keys whose last sync failed and was their last retry
  pollers,   \* the goroutines that report a status
  missed,    \* history: versions whose goroutine failed or timed out
  restarts   \* restarts so far

retryVars == <<requeues, dropped>>
statusVars == <<lbVars, pkVars, retryVars, api, rev, writes, cache, worker, pollers, missed,
                restarts>>

IsSc(ing) == ing # Nil /\ ing.sc

Idle == [key |-> Nil, ing |-> Nil, pc |-> "idle", todo |-> {}, err |-> FALSE]

Init ==
  /\ LBInit
  /\ PKInit
  /\ api = [k \in Key |-> Nil]
  /\ rev = 0
  /\ writes = 0
  /\ cache = [k \in Key |-> Nil]
  /\ worker = Idle
  /\ requeues = [k \in Key |-> 0]
  /\ dropped = {}
  /\ pollers = {}
  /\ missed = {}
  /\ restarts = 0

-----------------------------------------------------------------------------
(* Users, the API server and the informer.  An update leaves the status as  *)
(* it is.                                                                   *)

Write(k, ing) ==
  /\ writes < MaxWrites
  /\ rev < MaxRev
  /\ api' = [api EXCEPT ![k] = ing]
  /\ rev' = rev + 1
  /\ writes' = writes + 1
  /\ UNCHANGED <<lbVars, pkVars, retryVars, cache, worker, pollers, missed, restarts>>

CreateIngress(k, sc) ==
  /\ api[k] = Nil
  /\ Write(k, [name |-> NameOf[<<k, writes>>], rev |-> rev, sc |-> sc, status |-> Nil])

EditIngress(k, sc) ==
  /\ api[k] # Nil
  /\ Write(k, [api[k] EXCEPT !.rev = rev, !.sc = sc])

DeleteIngress(k) == api[k] # Nil /\ Write(k, Nil)

\* The informer replaces its copy; a handler adds the key of what was or is of
\* the class.
Observe(k) ==
  /\ cache[k] # api[k]
  /\ cache' = [cache EXCEPT ![k] = api[k]]
  /\ IF IsSc(cache[k]) \/ IsSc(api[k]) THEN Request(k) ELSE UNCHANGED pkVars
  /\ UNCHANGED <<lbVars, retryVars, api, rev, writes, worker, pollers, missed,
                 restarts>>

RetryDue(k) ==
  /\ Ripen(k)
  /\ UNCHANGED <<lbVars, retryVars, api, rev, writes, cache, worker, pollers, missed,
                 restarts>>

-----------------------------------------------------------------------------
(* The worker. *)

\* Variant with a defect: the class of the ingress is not looked at.
ServedAnyway(ing) == ing # Nil

\* What is synced; of anything else load balancers are cleaned up.
Synced(ing) == IsSc(ing)

StartItem(k) ==
  /\ worker = Idle
  /\ Take(k)
  /\ worker' = [Idle EXCEPT !.key = k, !.ing = cache[k],
                            !.pc  = IF Synced(cache[k]) THEN "sync" ELSE "list"]
  /\ UNCHANGED <<lbVars, retryVars, api, rev, writes, cache, pollers, missed, restarts>>

\* CleanupLBs begins with the registered names of no ingress of the class.
ListForCleanup ==
  /\ worker.pc = "list"
  /\ worker' = [worker EXCEPT
       !.pc   = "cleanup",
       !.todo = GetIds \ {cache[x].name : x \in {y \in Key : IsSc(cache[y])}}]
  /\ UNCHANGED <<lbVars, pkVars, retryVars, api, rev, writes, cache, pollers, missed,
                 restarts>>

\* Variant with a defect: a failed key is not retried.
EndForgets(err) ==
  /\ Release(worker.key)
  /\ worker' = Idle
  /\ UNCHANGED <<later, retryVars>>

\* handleErr: a failed key comes back, until its retries are used up; then it is
\* dropped, and its count begins anew.
EndItem(err) ==
  /\ Release(worker.key)
  /\ worker' = Idle
  /\ LET k       == worker.key
         retried == err /\ requeues[k] < QueueRetries
     IN /\ later'    = IF retried THEN later \cup {k} ELSE later
        /\ requeues' = [requeues EXCEPT ![k] = IF retried THEN @ + 1 ELSE 0]
        /\ dropped'  = IF err /\ ~retried THEN dropped \cup {k} ELSE dropped \ {k}

\* The goroutine for what the sync returned: an active load balancer is reported
\* without a poll.
Started(lb) ==
  [key |-> worker.key, ing |-> worker.ing, id |-> lb.id,
   pc  |-> IF lb.state = "active" THEN "report" ELSE "poll"]

SyncLB(err) ==
  /\ worker.pc = "sync"
  /\ SyncL7LB([name |-> worker.ing.name, cfg |-> TheConfig, cluster |-> NoCluster], err)
  /\ pollers' = IF err THEN pollers ELSE pollers \cup {Started(resources'[worker.ing.name])}
  /\ EndItem(err)
  /\ UNCHANGED <<api, rev, writes, cache, missed, restarts>>

\* CleanupLBs, one load balancer after another: the first error ends it.
CleanupDelete(n, err) ==
  /\ worker.pc = "cleanup"
  /\ n \in worker.todo
  /\ DeleteLoadBalancer(n, err)
  /\ worker' = [worker EXCEPT !.todo = IF err THEN {} ELSE @ \ {n}, !.err = err]
  /\ UNCHANGED <<pkVars, retryVars, api, rev, writes, cache, pollers, missed, restarts>>

\* The error of a cleanup is reported on the ingress.
Panics == worker.err /\ worker.ing = Nil

CleanupDone ==
  /\ worker.pc = "cleanup"
  /\ worker.todo = {}
  /\ ~Panics
  /\ EndItem(worker.err)
  /\ UNCHANGED <<lbVars, api, rev, writes, cache, pollers, missed, restarts>>

-----------------------------------------------------------------------------
(* The goroutines. *)

\* Variant with a defect: the first error ends the polling.
StopPolling(p) == pollers \ {p}

\* An error is polled over.
AfterError(p) == pollers

\* SyncStatus, every LBPollInterval: a name that is not registered is an error.
PollError(p) ==
  /\ p.pc = "poll"
  /\ \/ resources[p.ing.name] = Nil /\ UNCHANGED lbVars
     \/ GetLoadBalancer(p.ing.name, TRUE)
  /\ pollers' = AfterError(p)
  /\ UNCHANGED <<pkVars, retryVars, api, rev, writes, cache, worker, missed, restarts>>

\* What is reported is the load balancer registered for the name now.
Poll(p) ==
  /\ p.pc = "poll"
  /\ GetLoadBalancer(p.ing.name, FALSE)
  /\ LET lb == resources'[p.ing.name] IN
     pollers' = IF lb.state = "active"
                THEN (pollers \ {p}) \cup {[p EXCEPT !.pc = "report", !.id = lb.id]}
                ELSE pollers
  /\ UNCHANGED <<pkVars, retryVars, api, rev, writes, cache, worker, missed, restarts>>

\* LBPollTimeout has passed.
PollTimeout(p) ==
  /\ p.pc = "poll"
  /\ pollers' = pollers \ {p}
  /\ missed' = missed \cup {p.ing.rev}
  /\ UNCHANGED <<lbVars, pkVars, retryVars, api, rev, writes, cache, worker, restarts>>

\* Variant with a defect: the informer's latest copy is written.
LatestCopy(p) == cache[p.key]

\* The object whose status is written.
Object(p) == p.ing

\* UpdateStatus: the API server refuses an object that is not the current one,
\* and a status that is there already is no update.  Nothing is retried.
Report(p) ==
  /\ p.pc = "report"
  /\ pollers' = pollers \ {p}
  /\ LET current == /\ Object(p) # Nil /\ api[p.key] # Nil
                    /\ api[p.key].rev = Object(p).rev
     IN \E a \in Answers("status") :
          /\ Spend(Cost(a))
          /\ IF Performed(a) /\ current /\ api[p.key].status # p.id
             THEN /\ rev < MaxRev
                  /\ api' = [api EXCEPT ![p.key].status = p.id, ![p.key].rev = rev]
                  /\ rev' = rev + 1
             ELSE UNCHANGED <<api, rev>>
          /\ missed' = IF a = "fail" THEN missed \cup {p.ing.rev} ELSE missed
  /\ UNCHANGED <<resources, portal, nextId, acked, pkVars, retryVars, writes, cache,
                 worker, restarts>>

Goroutine(p) == PollError(p) \/ Poll(p) \/ Report(p)

ActivateLB(i) ==
  /\ Activate(i)
  /\ UNCHANGED <<pkVars, retryVars, api, rev, writes, cache, worker, pollers, missed,
                 restarts>>

-----------------------------------------------------------------------------
(* A new process: every goroutine is gone. *)

NewProcess ==
  /\ RestartManager
  /\ Forsake
  /\ cache' = [k \in Key |-> Nil]
  /\ worker' = Idle
  /\ requeues' = [k \in Key |-> 0]
  /\ dropped' = {}
  /\ pollers' = {}
  /\ missed' = {}
  /\ UNCHANGED <<api, rev, writes>>

Restart == restarts < MaxRestarts /\ restarts' = restarts + 1 /\ NewProcess

Panic == Panics /\ NewProcess /\ UNCHANGED restarts

-----------------------------------------------------------------------------

Worker == \/ \E k \in Key : StartItem(k)
          \/ \E err \in BOOLEAN : SyncLB(err)
          \/ ListForCleanup
          \/ \E n \in Name, err \in BOOLEAN : CleanupDelete(n, err)
          \/ CleanupDone
          \/ Panic

Next == \/ \E k \in Key : \/ \E sc \in BOOLEAN : CreateIngress(k, sc) \/ EditIngress(k, sc)
                          \/ DeleteIngress(k)
                          \/ Observe(k)
                          \/ RetryDue(k)
        \/ Worker
        \/ \E p \in pollers : Goroutine(p) \/ PollTimeout(p)
        \/ \E i \in Id : ActivateLB(i)
        \/ Restart

\* The goroutines go on, delays and time limits pass, the portal finishes its
\* work.
Fairness ==
  /\ \A k \in Key : WF_statusVars(Observe(k)) /\ WF_statusVars(RetryDue(k))
  /\ WF_statusVars(Worker)
  /\ WF_statusVars(\E p \in pollers : Goroutine(p))
  /\ WF_statusVars(\E p \in pollers : PollTimeout(p))
  /\ WF_statusVars(\E i \in Id : ActivateLB(i))

StatusSpec == Init /\ [][Next]_statusVars /\ Fairness

-----------------------------------------------------------------------------
(* Properties. *)

\* The types of the state above the manager; a goroutine reports for a version
\* of the class, and for a load balancer that was created.
StatusTypeOK ==
  /\ api \in [Key -> Ingress \cup {Nil}]
  /\ cache \in [Key -> Ingress \cup {Nil}]
  /\ rev \in Rev
  /\ missed \subseteq Rev
  /\ worker.ing \in Ingress \cup {Nil} /\ worker.todo \subseteq Name
  /\ worker.pc \in {"idle", "sync", "list", "cleanup"}
  /\ requeues \in [Key -> 0..QueueRetries] /\ dropped \subseteq Key
  /\ pollers \subseteq Poller
  /\ \A p \in pollers : p.ing.sc /\ p.id < nextId

\* An ingress never shows the addresses of another one's load balancer, nor of
\* an earlier ingress of its key, however late a goroutine of an older sync
\* writes.
ShownIsOwn ==
  \A k \in Key :
    api[k] # Nil /\ api[k].status # Nil =>
      /\ api[k].status < nextId
      /\ portal[api[k].status] # Nil => portal[api[k].status].name = api[k].name

\* Nothing is under way for key k.
AtRest(k) ==
  /\ cache[k] = api[k]
  /\ k \notin due \cup held \cup later
  /\ \A p \in pollers : p.key # k

\* The ingress shows the load balancer that serves it.
Reported(k) ==
  LET lb == resources[api[k].name] IN
  lb # Nil /\ portal[lb.id] # Nil /\ api[k].status = lb.id

\* What excuses an ingress: the report of this version failed or timed out, its
\* key was dropped after its retries, or a failed delete has marked its load
\* balancer.
Excused(k) ==
  \/ api[k].rev \in missed
  \/ k \in dropped
  \/ resources[api[k].name] # Nil /\ resources[api[k].name].deleted

\* A goroutine that loses a race loses it to an update that starts another one:
\* when nothing is under way, an ingress of the class shows the load balancer
\* that serves it.
RestIsReported ==
  \A k \in Key : IsSc(api[k]) /\ AtRest(k) => Reported(k) \/ Excused(k)

\* The updates of the status and the syncs they cause come to an end, and then
\* every ingress of the class shows its load balancer.
StatusConverges ==
  /\ \A k \in Key : <>[]AtRest(k)
  /\ <>[](\A k \in Key : IsSc(api[k]) => Reported(k) \/ Excused(k))
=============================================================================

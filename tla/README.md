# A TLA+ model of the servers.com ingress controller

The controller watches Ingresses of its class in a Kubernetes cluster and keeps one
servers.com L7 load balancer for each of them. This directory models what decides what
exists in the portal, with which content and when, and what an Ingress shows of it: the
informers' event handlers, the work queue and its worker, the sync of a key, the
certificates and the translation that make its input, the two managers, the goroutines
that report the status, and the life of the process. TLC checks small instances; TLAPS
proves every safety property that a passing run checks, the refinements included, for all values
of the constants; liveness is TLC's alone. Paths are relative to `src/`.

## 1. The system

| Component | State | Operations | Talks to |
|---|---|---|---|
| `cmd/main.go` | leader lease, signal handler | start leading, lose the lease (`klog.Fatal`), SIGTERM | controller |
| `internal/ingress/controller/ingress.go` | the work queue, `stopCh`, `shutdown` | `Run`, `Stop`, `processNextItem`, `handleErr` | store (handlers add keys), service |
| `internal/ingress/controller/store` | four informer stores, indexers `byService`, `bySecret` | event handlers, `Get*`, `ListIngress`, `getIngressHostsInfo` | API server, queue |
| `internal/ingress/utils.go` | none | `IsScIngress` | |
| `internal/service/service.go` | none of its own | `SyncToPortal`, the status goroutine | store, sync manager, LB manager, recorder |
| `internal/service/sync` | none of its own | `SyncTLS`, `SyncL7LB`, `CleanupLBs`, `SyncStatus` | the two managers, store |
| `internal/service/loadbalancer` | `resources`: name -> load balancer object | `NewLoadBalancer`, `UpdateLoadBalancer`, `DeleteLoadBalancer`, `GetLoadBalancer`, `GetIds` | portal |
| `internal/service/tls` | `resources`: fingerprint -> certificate | `SyncCertificate`, `Get`, `GetByID` | portal |
| `internal/service/annotations` | none | fill inputs from annotations | |
| `internal/config`, `internal/flags` | none after start | parse flags, build clients | |

One key goes round like this. An informer replaces its copy of an object and calls a
handler; the handler adds the key of the ingress (or of the ingresses an index gives for a
Service or Secret) to the queue. One goroutine takes keys and runs `SyncToPortal`: an
ingress that is gone or has another class leads to `CleanupLBs`, any other to certificates,
translation and `SyncL7LB`. An error puts the key back with a delay, `QueueRetries` times,
then drops it. After a successful sync a goroutine polls the load balancer and writes its
addresses into the Ingress status.

What makes it hard:

- Handlers, worker, pollers and users run concurrently; every store lags.
- The registry is in memory only. A crash, a lost lease or a panic loses it, and what
  the process knew is found again by name or not at all.
- Every portal call may fail, or take effect and lose its answer, in the middle of an
  operation that has already changed the registry.
- Nothing repeats by itself: `sync-period` is 0 by default, and a resync event has equal
  objects, which `UpdateFunc` ignores (`reflect.DeepEqual`). An event missed or a key
  dropped is not made up for until the next change.

What makes each part correct:

- *Queue*: an added key is processed after it was added, by one worker at a time; failed keys
  come back, a bounded number of times.
- *Store and handlers*: a change of an ingress, or of what it refers to, leads to a sync that
  sees it.
- *Manager*: an object points at its own load balancer; success means the portal has the
  input; a name has one load balancer.
- *Cleanup*: deletes what has no ingress of the class, and nothing else.
- *Certificates*: one certificate per fingerprint; the host gets the certificate of its Secret.
- *Status*: the Ingress shows the addresses of its own, active load balancer.
- *Process*: it stops once, cleanly; two leaders do not undo each other's work.

The hazards that follow from this are listed with their lines in `PROJECT.json`.

## 2. Modules

| Module | Models | Checked by |
|---|---|---|
| `PortalCalls` | the answers of a portal call, and how many go wrong | in all runs but `stop` |
| `LBManager` | `service/loadbalancer/loadbalancer.go`, `manager.go`; `SyncL7LB`; the portal's load balancers | `MCLBManager` |
| `LBManagerProofs` | theorems about `LBManager` | tlapm |
| `WorkQueue` | the rate limiting queue, `processNextItem`, `handleErr` | as part of `IngressSync` |
| `PendingKeys` | abstract: what the controller expects of its queue | refined by `WorkQueue` (proved, and checked in `IngressSync`); the queue of `StatusSync` |
| `WorkQueueProofs` | theorems about `WorkQueue` | tlapm |
| `IngressSync` | API server, informers, handlers, worker, `SyncToPortal`, `CleanupLBs`, restarts and panics; EXTENDS `WorkQueue` and `LBManager` | `MCIngressSync` |
| `LBDirectory` | abstract: what the owner of the account sees | refined by `IngressSync` (proved and checked) |
| `IngressSyncProofs` | theorems about `IngressSync`: types, queue and registry in the whole controller | tlapm |
| `DirectoryProofs` | `SteadyIsKept` and the refinement of `LBDirectory`; EXTENDS `IngressSyncProofs` | tlapm |
| `ServedProofs` | `ServedOrScheduled`, `NothingLeftRegistered`; EXTENDS `DirectoryProofs` | tlapm |
| `TLSManager` | `service/tls`, `service/sync/tls.go`, the portal's certificates | as part of `PortalInput` |
| `Translation` | `getIngressHostsInfo`, `TranslateIngressToLB`, `service/annotations`: pure | as part of `PortalInput` |
| `PortalInput` | the first half of `SyncToPortal`: certificates, then translation; EXTENDS `TLSManager`, INSTANCE `Translation` | `MCPortalInput` |
| `FoldProofs` | lemmas: what the folds of `Translation` and `TLSManager` compute, for all inputs | tlapm |
| `PortalInputProofs` | theorems about `PortalInput`; EXTENDS `FoldProofs` | tlapm |
| `StatusSync` | the goroutine of `SyncToPortal`, `SyncStatus`, and the syncs they race with; EXTENDS `LBManager` and `PendingKeys` | `MCStatusSync` |
| `StatusSyncProofs` | theorems about `StatusSync` | tlapm |
| `Lifecycle` | `OnStartedLeading`, `handleSigterm`, `Run`, `Stop` | `Lifecycle.cfg` |

Three compositions divide the work of `SyncToPortal`. `IngressSync` has all interleavings of
writes, events, retries and restarts, and takes the content of a load balancer as a
value; `PortalInput` has that content and what it is made of; `StatusSync` has what happens after
the sync.

### LBManager

`resources` is `m.resources`; an object keeps `id`, `state` (its status), `current`
(`currentInput`) and `deleted`. `portal` maps ids to load balancers, `nextId` is the next id.
`acked` is a history variable: the input of the last `SyncL7LB` of a name that returned no
error. Every method of the manager holds `m.lock` across its API call, so a method is one
action with the whole effect, and the answer of the call is chosen inside: `"ok"`, `"fail"`
(no effect) or `"lost"` (effect, no answer). `FaultKinds` says which calls may do which, `MaxFaults`
how often; the combination of two calls of one method (`Find`, then `create`) is chosen
together. Operators that take part in a method have an `err` parameter for the returned error.

`SyncL7LB` asks `HasRegistration` and then calls another method, so in principle another
goroutine may come between. Only the worker changes which names are registered, and it is one
goroutine; the pollers only refresh `state`. So the action is atomic.

Data: a `Config` is everything both update inputs copy. The cluster is apart because only
`SyncL7LB`'s input carries it. `IsChanged` compares JSON whose zones come in the order of a Go
map iteration, so equal contents may compare as changed: `reordered`. An update with fields left
out keeps the portal's values; the model has this for the cluster, not for log storage and geoip,
which are part of a `Config`.

### WorkQueue

client-go's queue as this code uses it: `queue`, `dirty`, `processing`, the keys `waiting` for
their delay and `requeues` (`NumRequeues`). It is external code, modelled from its use here,
except `Retries` and `FinishItem`, which are `handleErr` and the deferred `Done`. `PendingKeys`
says the same without order and counting: a key is `due` until taken, `held` by one worker,
or comes back `later`; `RefinesPendingKeys` is the refinement.

### IngressSync

- *Users* create, edit and delete Ingresses and change Services and Secrets. A new Ingress
  of the same key has a new UID and so a new load balancer name (`NameOf`); an edit may
  keep the spec.
- *Informers* jump: the copy becomes the current object in one step. An informer that delivers
  each version is covered, since the versions between are those that were current when earlier
  steps were taken. Events wait in `notifs` until a handler runs, so the store is ahead of the
  handlers as in client-go. `Services` and `Secrets` have an `UpdateFunc` only; Nodes have none.
  A handler of a Service looks its ingresses up at once and adds them one by one.
- *The worker* is `pc`: `idle`, `tls` (one step per host, whose
  Secret is read from the store then; a step is a call of the portal or an answer from memory),
  `translate` (a step for the Nodes, then one per Service, then the translation of what was
  read), `list` and `cleanup` (one step per delete), `lb`, `finish`. `ing` is the copy read at the
  start. A Service that two paths name is read once here; the code reads it for each path.
- *A missed delete* (`MissDelete`, counted as a fault) takes the ingress from the store and leaves a
  tombstone for `DeleteFunc`, whose type assertion ends the process (`HandleTombstone`).
- *A resource backend* (`spec.resource`) has no `Service`, which the indexer `byService` dereferences
  when the informer puts the ingress into its store, whatever its class (`BreaksIndexer`). So such an
  ingress never gets into the store: instead of `ObserveIngress` the process ends (`IndexerPanics`), and
  each new one at its first list, until the ingress is edited or deleted. No sync, and no line of
  `getIngressHostsInfo`, ever sees a resource backend.
- *A process* may end at any moment and be replaced (`Restart`: crash, lost lease, SIGTERM). `Panic` is
  the nil ingress of `service.go:70`. The new process has empty registry, queue and ingress store; the other
  stores are synced before the ingress informer starts (`StoreStart`).
- The certificate of a Secret is its content, and stands for the leaf by which the
  certificate manager knows it; bundles that differ in the chain only are in `PortalInput`.
- `dropped`, `spoiled`, `steady` and `classed` are history variables.

`LBDirectory` is the view from outside: a load balancer appears for the name of an ingress that has been
of the class, if there is none of that name, and disappears only when an ingress did not
keep the class. Restarts, retries, lost answers and panics are stutters or such steps.

### TLSManager, Translation and PortalInput

`registered` is `m.resources` of the certificate manager, for each of several controllers (clusters, or
classes) that share the portal's account. `certs` are the portal's certificates. `SyncTLS` goes
host by host in any order (a Go map); each host reads its Secret when its turn comes.
`SyncCertificate` lists, then creates, in two steps: it holds its own lock, but other
controllers and the customer (`RemoveCert`) do not. `AnswerById` is the branch of names with the certificate
manager's prefix. `by` in a certificate, `read` in a sync and what goes with `input` are history.

`tls.crt` is a sequence of lines, each a BEGIN, an END or a body, so that `SplitCerts` is its loop
over lines (`AddLine`); blanks are left out, a fingerprint is the body of the first block (SHA-1 taken as
injective), and the search of the portal returns what has the fingerprint, and perhaps more.

`Translation` is `TranslateIngressToLB` with what it calls, from an ingress with rules, paths,
Services with ports, NodePorts and annotations. Zones collected from a Go map are functions.
Paths have a Service: an ingress with a resource backend does not get here (see `IngressSync`).

`PortalInput` runs both, again and again, while Secrets and Services change, and keeps the last input.
The Services are read one by one in the order of the paths (`GetService`), each once, and the first
that is missing is an error; `Translate` works on those read (`got`).

### StatusSync

The worker (`pc`) reads the ingress, and then syncs it or makes the list of a cleanup, a step later, from the
store and the registry of that moment (`ListForCleanup`). Its step `SyncLB` is the end of `SyncToPortal`:
if it succeeds it starts a goroutine (`pollers`) with the ingress as read at the start of the item. `EndItem` is
`handleErr`: a failed key comes back until `requeues` is at `QueueRetries`, and then is dropped. `Poll` and `PollError` are one round of `SyncStatus`, by name;
`PollTimeout` its context; `Report` is `UpdateStatus` with the captured resource version: the API server refuses an old one, takes
an equal status for no update, and may fail or lose its answer. `Observe` is the informer and its handler
in one step, `PendingKeys` the queue without the count, and the addresses of a load balancer are its id. What
`ing.Status = ...` does to the informer's object is left out: goroutines of one version
assign the same, and the torn reads of a data race are crashes, as `Restart` is.
`missed` and `dropped` are history variables.

### Lifecycle

One process: the goroutine of `OnStartedLeading`, that of `handleSigterm`, the channel both hold, and
how the process ends. A SIGTERM before `signal.Notify` ends the process at once.

## 3. Runs

| Run | Question | Result |
|---|---|---|
| `lb_manager` | `RegistrySound`, `LiveAckIsServed`, `UniqueNames` under any calls, restarts, two faults | holds |
| `ingress_sync` | is an update or a retry ever lost, a known load balancer left behind, a load balancer in use deleted? | holds |
| `portal_input` | is each input made of what the ingress names, and each certificate uploaded once? | holds |
| `status` | does an ingress ever show a wrong load balancer, and its own in the end? | holds |
| `sync_live` | does the system come to rest with everything served, under fairness? | holds |
| `lb_delete_fails` | does success of `SyncL7LB` mean the portal serves the input, even after a refused delete? | violated |
| `lb_list_fails` | is a load balancer created only if there is none? | violated |
| `lb_cluster` | does success mean the cluster asked for? | violated |
| `sync_stray` | does the cleanup delete what has no ingress? | violated |
| `sync_annotated` | do changes of an ingress's Secrets reach the portal? | violated |
| `cert_chain` | does a successful sync mean the portal has the Secret's chain? | violated |
| `stop` | does a running controller stop without a panic? | violated |

Bounds. `lb_manager`: two names (a wrong owner needs two), two configurations and one cluster,
three load balancers (one id more than names, for a second of the same name), two faults (a
fault, and one in its repair). Two names and inputs are symmetric. `ingress_sync`: two
keys, three writes (create, change, delete or create again), five specs (class by name,
no class, no class and a resource backend, a malformed annotation, class by annotation with a Secret), two faults, one restart, one retry instead
of five: `Retries` compares with a constant, and one retry already gives the states "will be retried",
"retried" and "dropped". `sync_live` has one key, four of these specs, two writes
to it and two to its Service or Secret, which may be unusable at first, be repaired and break again. Services and Secrets
change in place: one that appears or goes away is reported to nobody (`UpdateFunc` only), so nothing is claimed
of it. Undelivered ingress events are bounded by two (`MaxNotifs`); an informer
waits for room, which delays it and loses nothing. A missed delete is one of the faults.
`portal_input`: two controllers (both list, both create), three certificates (one of the customer's,
one upload of each, or a second upload that must not be), two hosts (an annotation or a later tls entry against an earlier one), one
write, fault and restart each: enough for a Secret that changes between the read and the retry;
bundles with text around the blocks, with a chain, without an end, with no names. The starting points are two ingresses
that list a host twice or override it, with each kind of Secret, and one with several rules,
with every combination of Services (two variants, one without NodePort, none). `status`: one key, as goroutines meet only goroutines of their key; four writes (create, lose the class,
regain it or delete, create again), so that two load balancers follow one another while a goroutine of the first is
alive; two faults; one retry instead of five, so that two failed syncs in a row drop the key; one restart; three load
balancers. Resource versions are bounded above what those runs reach:
were status updates and syncs to go on for ever, `StatusConverges` would fail at the bound. The runs of `IngressSync` do not check
for deadlock: when all the bounded writes are made and synced the system is at rest.

`lb_manager` leaves out two faults. A failed listing creates a second load balancer and
is the run `lb_list_fails`. An update that took effect without an answer is rolled back to the older
input; an edit that restores that input then looks unchanged, and `LiveAckIsServed` fails.
The theorem names the same two assumptions.

Where the properties of `IngressSync` exclude something, the exclusion is a fact of the code:
`dropped` (a key that used up its retries), `MarkedDeleted` (the finding of `lb_delete_fails`),
`OutOfRetries` (retries that syncs on bad data used up are not there when the portal fails; they are
counted together, and nothing brings the key back: `spoiled` is the history variable that tells). `NothingLeftRegistered` speaks of keys without an ingress of the class: a key deleted and
created again before its sync has one event for both, the sync handles the new ingress only,
and the old load balancer waits for the next cleanup of any key.

`Converges` has a premise: from some time on no ingress of any class in the namespace has a resource backend
(`BreaksIndexer`). While there is one, every process dies in its informer and nothing comes to rest. The ingress may be
there first and be edited or deleted, so the runs have the crashes and what follows them. The handlers ignore ingresses of other
classes; the indexer does not, so one such ingress of another class keeps all those of this class from being served: a
defect of the code (`store.go:166`) that the model has and the property excludes. The
safety properties need no premise: what a process that dies has not done is scheduled again by the next one's list.

`RestIsReported` excuses an ingress whose report failed or timed out (nothing retries it),
one whose key was dropped after its last retry and has not been synced since, and one a failed delete has marked. `HostsHaveTheirCerts` does not speak of certificates
the customer removed.

Fairness (`Fairness`): each informer, each handler, each delay and the worker go on, because
each is a goroutine that nothing blocks for ever: `wait.Until` restarts the worker's loop and portal calls
return. What ends the ingress informer, and the process with it, is the panic of its indexer: the informer either
takes an object into its store or dies of it (fairness is on `ObserveIngress(k) \/ IndexerPanics(k)`), and the
process that follows goes on (the deployment restarts it). Writes, faults and restarts are bounded and not fair. There is no fairness on users.
`StatusSync` adds: some goroutine of a load balancer goes on as long as one can, their time limits pass, and the
portal finishes its work on a load balancer (a poll may still time out before).

### What the violations say

- `lb_delete_fails`: `DeleteLoadBalancer` marks the object before the portal answers.
  A refused delete leaves the mark, and `UpdateLoadBalancer` then returns success without a call.
  An ingress that loses and regains the class in that time is not updated again by this process.
- `lb_list_fails`: `Find` turns a failed listing into "not found".
- `lb_cluster`: the input for a load balancer that `Find` found has no `ClusterID`.
- `sync_stray`: a failed cleanup for a deleted ingress reports the error on a nil ingress;
  the recorder dereferences it, the process dies, its successor does not know the load balancer.
- `sync_annotated`: Secrets named by annotations are synced but not in `bySecret`.
- `cert_chain`: certificates are known by their first block; a corrected chain under the same
  block is answered from memory, or after a restart from the listing, and never uploaded.
- `stop`: `Stop` closes the channel, `Run` returns on it, and the deferred `close` of `OnStartedLeading` closes
  it again: the process panics while `handleSigterm` waits to exit with 0.

## 4. Proofs

For every value of the constants (any names, inputs, faults, keys, workers, controllers,
Secrets, ingresses, and any bounds). Each theorem rests on one inductive invariant; a lemma per
action shows that the action keeps it.

### The queue and the manager

- `WorkQueueProofs`: `QueueInv` = `WQTypeOK` and `QueueSound` is inductive. `QueueSound` (the
  queue is exactly `dirty \ processing`, without repetition) needs lemmas on what `Append`
  and `Tail` do to the elements of a sequence. `RetriesScheduled` (a counted retry is still
  to come) follows with `QueueInv`. `QueueRefines` shows that the queue implements `PendingKeys`:
  every method is the abstract action it stands for; for `Get` this needs `QueueSound`, since
  what the head of the queue is says only there that it is due and in nobody's hands.
- `LBManagerProofs`: `RegistrySound` alone is not inductive: a created load balancer is new only if
  the portal gave out no id from `nextId` on, so `RegistryInv` = `LBTypeOK` and
  `IdsAreOld` and `RegistrySound`. One lemma per method (`CreateKeeps`, `AdoptKeeps`,
  `PushKeeps`, `DeleteKeeps`, `GetKeeps`, `ActivateKeeps`, `RestartKeeps`) shows it is kept; adopting is the interesting
  case, since the object found must not be registered under another name.
- `AcknowledgedIsServed` strengthens `LiveAckIsServed` to `AckInv`, which adds that an object's
  current input is what its load balancer holds, and assumes `UpdatesAnswered`
  (no update loses its answer).
- `NamesStayUnique` assumes `ListsArrive` (no listing fails).

### The whole controller

- `IngressSyncProofs` carries `QueueInv` and `RegistryInv` over to `SyncSpec`. What is new is that a
  step of the worker calls queue and manager together and that a restart empties both: `WorkerOK`
  says what a sync in progress has at each `pc` (a key in `processing`, an ingress of the class, an
  input of its name), and with it each action is one method of each or leaves it alone.
  `SyncRefinesPendingKeys` follows step by step; a restart is the abstract one.
- `DirectoryProofs`: `SteadyIsKept` says that no delete of a cleanup hits an ingress that has kept its
  class. `NamingInv` adds to the invariants above who may have which name (`NamesInv`: a copy
  anywhere has a name given to its key before `rev`), that what is registered, exists or is to be cleaned up has
  been of the class (`ClassInv`), and the heart of it, `SteadyInv`: a registered name of a
  steady ingress is in the ingress store, so the cleanup's list of what to delete, made from registry
  and store, cannot hold it. It is inductive because a load balancer is registered only by a sync that
  has read its ingress from the store of the same process, and a store loses an ingress only after
  it was deleted, when it is steady no more.
- `SyncRefinesDirectory` uses the same invariant and `ListsArrive`: without a failed listing a create means that the
  portal had none of the name.
- `NothingIsLeft`: `LeftInv` says of each key with something registered that the store has its ingress
  in the class, or an event or retry is on its way, or the worker is cleaning up for it, or it was
  dropped.
- `NoUpdateIsLost`: `ServedInv` says the same of updates. The ingress as *stored* is served as the
  *stores* ask, or its key is scheduled (`Sched`: an event, a dependency's event, the handler's list, `dirty`, `waiting`), or
  the sync under way has read nothing older than the stores have now (`Underway`), or it was dropped.
  With `AckInv` and a store equal to the API server this gives `ServedOrScheduled`. The steps to argue
  are those in the middle of a sync: an event of an ingress or of a Secret between two reads
  schedules the key before the worker can finish with the old value.
- `NoUpdateIsLost` has three hypotheses, each a fact about what the code can see: `UpdatesAnswered`
  as above; `DepsReported` (Services and Secrets change in place, Nodes do not: the handlers report
  nothing else); `SecretsIndexed` (no Secret is named by an annotation only: the indexer
  does not see it, which `sync_annotated` shows). All three hold in the runs `ingress_sync` and `sync_live`.

### Certificates and translation

- `FoldProofs` computes the model's folds for all inputs. Loops of the code are
  `FoldLeft`s here, a CHOOSE of a function over sets of indices. That nothing has to be assumed of
  it is shown with the well-foundedness of `<` on the naturals: a set of naturals that has 0 and
  successors has all (`SetInduction`, where the property is a set and not an operator), so a function with the
  equation of the fold exists (`FoldTable`), and the chosen one goes through the values of the
  loop (`IterIsLoop`). Each fold is then an ordinary loop with an invariant of its own:
  `NamesAreRight` (the last tls entry that lists a host, or its annotation), `SplitIsRight` (the first
  certificate, and the others in order, of any text, as `UploadsAreBundles` states it by counting),
  `FingerprintIsFirst`, `FirstPort` (the first port with the number), `LastSays` (the last path whose
  Service has the annotation), `PathsHaveAll` and `PositionRight` (where the j-th path of the r-th
  rule is among those of its host).
- `PortalInputProofs`: `BaseInv` = types, `RegisteredByFingerprint`, and `CreateInv`: a controller about to create
  a certificate has uploaded none with its fingerprint, which other controllers, the customer and restarts
  cannot change between the listing and the create. `OneUploadEach` follows, with lost creates, as the
  retry finds by fingerprint. `AnswersInv` says of a sync in progress that a host still to do has
  no answer and each other one the right one (`RightCert`, for what was read); `InputsInv` says so of the input made of the
  answers. With `NamesAreRight` and `FingerprintIsFirst` they give `HostsHaveTheirCerts`. `MadeInv` says
  that an input is a translation that did not fail, of Services that have ports; with the lemmas on
  the folds it gives `PathsLeadToTheirService` and `SettingsAreOwn`.
- These theorems are about `InputSpec` without a hypothesis: any faults, failed listings and lost creates included.

### The status

- `StatusSyncProofs`: `ShownIsOwn` needs that each version of an ingress was one ingress (`CopiesInv`), since a
  report is accepted by version only, and that a goroutine's load balancer is of its ingress (`PollersInv`).
- `RestIsReported` needs the races: `RaceInv` says that while a goroutine reports for the version in the store,
  the object it polled is the one registered, that a cleanup deletes the load balancer of a classed ingress only when
  no goroutine reports for it and its key comes again, and that the worker holds what the store has unless the key is due.
  `FollowedInv` says that what is not on its way to the worker, and not dropped, is shown, excused, or followed by a goroutine. A goroutine that
  loses its update has lost it to a change which the informer has still to deliver, and which starts another. The theorem has no hypothesis on faults: `EndStep` says that the end of an item
  after an error puts the key back or drops it, and `dropped` is taken back by the next sync that succeeds or is retried.

### Assumptions

`LBAssumption`, `QueueAssumption`, `SyncAssumption` (names tell the UIDs of a key and keys apart; `Nil` is
no value), `SpecAssumption` and `StatusAssumption`, `NilAssumption`, `TLSAssumption` (a name has the manager's prefix or not;
what has DNS names is a certificate) and `InputAssumption` (the types of texts, ports and starting points; a certificate the
customer has before the start is nobody's upload): types of constants, and `Nil` apart from
values. TLC evaluates them in every run.

### Only model-checked

Liveness (`Converges`, `StatusConverges`): fairness and ENABLED are out of the prover's reach, so that what is scheduled is
done in the end rests on the two runs; what is *always* scheduled until done is proved. The properties of the violated runs
are refuted by TLC's traces. `Lifecycle` is finite: its run covers it.

## 5. Not modelled

- The overlap of two leaders of one class: whether a leader whose lease ran out can still call the portal
  depends on the timing inside client-go's leader election.
- Other users of the portal's load balancers, and portal limits. Of certificates the customer may remove one.
- Address changes: no one is told when the portal gives a load balancer another address, or a Node another one.
- `StripSpaces`, the formats of names, annotations and events. `SyncAssumption` states that names tell UIDs apart;
  `GetLoadBalancerName` cuts the last hex digit of a UUID, so this is an assumption on UIDs.
- Flags, configuration, logging, mocks: no state after start.
- Certificates and upstreams are never deleted from the portal by the code, so nothing is to be checked there.

## 6. Plan

1. Done: `LBManager`, `WorkQueue`, `IngressSync`, `TLSManager`, `Translation`, `PortalInput`, `StatusSync`, `Lifecycle`,
   the abstract `PendingKeys` and `LBDirectory`, and their runs.
2. Done: proofs for `LBSpec`, `WQSpec`, `SyncSpec`, `InputSpec` and `StatusSpec` of all invariants, action properties and
   refinements the passing runs check.
3. Left: an abstract specification of the certificate account that `PortalInput` implements; the statement of
   `NoUpdateIsLost` for lost update answers, in the weaker form that the code keeps.

----------------------------- MODULE WorkQueue -----------------------------
(***************************************************************************)
(* The work queue of the controller: client-go's rate limiting queue, as   *)
(* internal/ingress/controller/ingress.go uses it, with processNextItem    *)
(* and handleErr.                                                          *)
(*                                                                         *)
(* A key is dirty from the moment it is added until a worker takes it, and *)
(* being processed from then until Done.  A key added meanwhile becomes    *)
(* dirty but goes to the queue only at Done.  AddRateLimited keeps the key *)
(* aside until a delay has passed and counts the retry; Forget resets the  *)
(* count.                                                                  *)
(***************************************************************************)
EXTENDS Naturals, Sequences

CONSTANTS
  Key,          \* namespace/name keys of ingresses
  QueueRetries  \* retries before a key is dropped

ASSUME QueueAssumption == QueueRetries \in Nat

VARIABLES
  queue,       \* keys ready to be taken
  dirty,       \* keys that need processing
  processing,  \* keys a worker holds
  waiting,     \* keys waiting for their delay
  requeues     \* NumRequeues, by key

wqVars == <<queue, dirty, processing, waiting, requeues>>

WQInit ==
  /\ queue = <<>>
  /\ dirty = {}
  /\ processing = {}
  /\ waiting = {}
  /\ requeues = [k \in Key |-> 0]

Enqueue(k) == queue' = Append(queue, k)

-----------------------------------------------------------------------------
(* The queue's methods.  AddDirty is the part Add shares with the delayed  *)
(* additions.                                                              *)

\* Variant with a defect: a key that is being processed is queued at once.
AddAtOnce(k) ==
  /\ dirty' = dirty \cup {k}
  /\ IF k \in dirty THEN UNCHANGED queue ELSE Enqueue(k)

AddDirty(k) ==
  /\ dirty' = dirty \cup {k}
  /\ IF k \in dirty \cup processing THEN UNCHANGED queue ELSE Enqueue(k)

\* Add: from an event handler.
Add(k) ==
  /\ AddDirty(k)
  /\ UNCHANGED <<processing, waiting, requeues>>

\* The delay of AddRateLimited has passed.
AddWaiting(k) ==
  /\ k \in waiting
  /\ waiting' = waiting \ {k}
  /\ AddDirty(k)
  /\ UNCHANGED <<processing, requeues>>

\* Get.
Get(k) ==
  /\ queue # <<>>
  /\ k = Head(queue)
  /\ queue' = Tail(queue)
  /\ processing' = processing \cup {k}
  /\ dirty' = dirty \ {k}
  /\ UNCHANGED <<waiting, requeues>>

Done(k) ==
  /\ processing' = processing \ {k}
  /\ IF k \in dirty THEN Enqueue(k) ELSE UNCHANGED queue
  /\ UNCHANGED dirty

\* Variants with a defect: one retry too many, one too few.
RetriesPast(k, err) == err /\ requeues[k] <= QueueRetries

RetriesShort(k, err) == err /\ requeues[k] + 1 < QueueRetries

\* handleErr retries a failed key QueueRetries times.
Retries(k, err) == err /\ requeues[k] < QueueRetries

AddRateLimited(k) ==
  /\ waiting' = waiting \cup {k}
  /\ requeues' = [requeues EXCEPT ![k] = @ + 1]

Forget(k) == requeues' = [requeues EXCEPT ![k] = 0] /\ UNCHANGED waiting

\* Variants with a defect: Done is not called, and a dropped key is not forgotten.
FinishHeld(k, err) ==
  /\ k \in processing
  /\ IF Retries(k, err) THEN AddRateLimited(k) ELSE Forget(k)
  /\ UNCHANGED <<processing, queue, dirty>>

FinishCounted(k, err) ==
  /\ k \in processing
  /\ IF Retries(k, err) THEN AddRateLimited(k)
     ELSE IF err THEN UNCHANGED <<waiting, requeues>> ELSE Forget(k)
  /\ Done(k)

\* The end of processNextItem: handleErr, then the deferred Done.
FinishItem(k, err) ==
  /\ k \in processing
  /\ IF Retries(k, err) THEN AddRateLimited(k) ELSE Forget(k)
  /\ Done(k)

-----------------------------------------------------------------------------
(* The queue under any use, by one worker or several. *)

WQNext ==
  \E k \in Key :
    \/ Add(k)
    \/ AddWaiting(k)
    \/ Get(k)
    \/ \E err \in BOOLEAN : FinishItem(k, err)

WQSpec == WQInit /\ [][WQNext]_wqVars

-----------------------------------------------------------------------------
(* Properties. *)

\* The types of the queue's state.
WQTypeOK ==
  /\ queue \in Seq(Key)
  /\ dirty \subseteq Key
  /\ processing \subseteq Key
  /\ waiting \subseteq Key
  /\ requeues \in [Key -> 0..QueueRetries]

\* The queue holds each key once, and exactly the dirty keys nobody is
\* processing: no added key is forgotten (handleErr and Done come after more
\* Adds of the same key) and no key is given to two workers.
QueueSound ==
  /\ {queue[i] : i \in DOMAIN queue} = dirty \ processing
  /\ \A i, j \in DOMAIN queue : queue[i] = queue[j] => i = j

\* A retry that is counted is still to come: handleErr forgets a key it drops or
\* has synced, so a key that comes back later has all its retries again.
RetriesScheduled ==
  \A k \in Key : requeues[k] > 0 => k \in waiting \cup dirty \cup processing

\* The queue as the handlers and the worker rely on it.
Pending == INSTANCE PendingKeys WITH due <- dirty, held <- processing, later <- waiting

\* The queue keeps what PendingKeys promises: order, the deferred Done and the
\* counting of retries never lose a key nor give it out twice.
RefinesPendingKeys == Pending!PKSpec
=============================================================================

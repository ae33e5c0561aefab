-------------------------- MODULE WorkQueueProofs --------------------------
(* Theorems about the work queue, for any keys, any number of retries and   *)
(* any number of workers.                                                   *)
EXTENDS WorkQueue, TLAPS

QueueInv == WQTypeOK /\ QueueSound

Elems(s) == {s[i] : i \in DOMAIN s}

NoDup(s) == \A i, j \in DOMAIN s : s[i] = s[j] => i = j

-----------------------------------------------------------------------------
(* Helpers about sequences. *)

\* What Append does to the elements of a queue and their uniqueness.
LEMMA AppendFacts ==
  ASSUME NEW s \in Seq(Key), NEW k \in Key
  PROVE  /\ Append(s, k) \in Seq(Key)
         /\ Elems(Append(s, k)) = Elems(s) \cup {k}
         /\ NoDup(s) /\ k \notin Elems(s) => NoDup(Append(s, k))
<1>1. /\ Append(s, k) \in Seq(Key)
      /\ DOMAIN Append(s, k) = 1..(Len(s) + 1)
      /\ DOMAIN s = 1..Len(s)
      /\ Len(s) \in Nat
      /\ \A i \in 1..(Len(s) + 1) :
           Append(s, k)[i] = IF i = Len(s) + 1 THEN k ELSE s[i]
  OBVIOUS
<1>2. \A i \in 1..(Len(s) + 1) : i = Len(s) + 1 \/ i \in 1..Len(s)
  BY <1>1
<1>3. 1..Len(s) \subseteq 1..(Len(s) + 1) /\ Len(s) + 1 \in 1..(Len(s) + 1)
      /\ Len(s) + 1 \notin 1..Len(s)
  BY <1>1
<1>4. Elems(Append(s, k)) = Elems(s) \cup {k}
  BY <1>1, <1>2, <1>3 DEF Elems
<1>5. NoDup(s) /\ k \notin Elems(s) => NoDup(Append(s, k))
  BY <1>1, <1>2, <1>3 DEF NoDup, Elems
<1> QED BY <1>1, <1>4, <1>5

\* What taking the head off does to them.
LEMMA TailFacts ==
  ASSUME NEW s \in Seq(Key), s # <<>>
  PROVE  /\ Head(s) \in Key
         /\ Tail(s) \in Seq(Key)
         /\ Elems(s) = Elems(Tail(s)) \cup {Head(s)}
         /\ NoDup(s) => NoDup(Tail(s)) /\ Head(s) \notin Elems(Tail(s))
<1>1. /\ Tail(s) \in Seq(Key)
      /\ Len(s) \in Nat \ {0}
      /\ DOMAIN s = 1..Len(s)
      /\ DOMAIN Tail(s) = 1..(Len(s) - 1)
      /\ Head(s) = s[1]
      /\ \A i \in 1..(Len(s) - 1) : Tail(s)[i] = s[i + 1]
  OBVIOUS
<1>2. /\ 1 \in 1..Len(s)
      /\ \A i \in 1..(Len(s) - 1) : i + 1 \in 1..Len(s) /\ i + 1 # 1
      /\ \A i \in 1..Len(s) : i = 1 \/ (i - 1 \in 1..(Len(s) - 1) /\ (i - 1) + 1 = i)
  BY <1>1
<1>3. Head(s) \in Key
  BY <1>1, <1>2
<1>4. Elems(s) = Elems(Tail(s)) \cup {Head(s)}
  <2>1. ASSUME NEW i \in 1..Len(s)
        PROVE  s[i] \in Elems(Tail(s)) \cup {Head(s)}
    <3>1. CASE i = 1
      BY <1>1, <3>1
    <3>2. CASE i # 1
      <4>1. i - 1 \in DOMAIN Tail(s) /\ Tail(s)[i - 1] = s[i]
        BY <1>1, <1>2, <3>2
      <4> QED BY <4>1 DEF Elems
    <3> QED BY <3>1, <3>2
  <2>2. Elems(Tail(s)) \cup {Head(s)} \subseteq Elems(s)
    BY <1>1, <1>2 DEF Elems
  <2>3. Elems(s) \subseteq Elems(Tail(s)) \cup {Head(s)}
    BY <1>1, <2>1 DEF Elems
  <2> QED BY <2>2, <2>3
<1>5. ASSUME NoDup(s)
      PROVE  NoDup(Tail(s)) /\ Head(s) \notin Elems(Tail(s))
  <2>1. \A i, j \in 1..(Len(s) - 1) : i + 1 = j + 1 => i = j
    BY <1>1
  <2>2. NoDup(Tail(s))
    BY <1>1, <1>2, <1>5, <2>1 DEF NoDup
  <2>3. \A i \in 1..(Len(s) - 1) : s[i + 1] # s[1]
    BY <1>1, <1>2, <1>5 DEF NoDup
  <2>4. Head(s) \notin Elems(Tail(s))
    BY <1>1, <2>3 DEF Elems
  <2> QED BY <2>2, <2>4
<1> QED BY <1>1, <1>3, <1>4, <1>5

\* QueueSound in terms of Elems and NoDup.
LEMMA SoundIs == QueueSound <=> Elems(queue) = dirty \ processing /\ NoDup(queue)
BY DEF QueueSound, Elems, NoDup

-----------------------------------------------------------------------------
(* Each method keeps QueueInv. *)

\* Marking a key dirty keeps the queue sound, held or not.
LEMMA AddDirtyKeeps ==
  ASSUME QueueInv, NEW k \in Key, AddDirty(k), UNCHANGED processing
  PROVE  /\ queue' \in Seq(Key)
         /\ dirty' \subseteq Key
         /\ QueueSound'
<1> USE DEF QueueInv, WQTypeOK
<1>1. CASE k \in dirty \cup processing
  <2>1. queue' = queue /\ dirty' = dirty \cup {k} /\ processing' = processing
    BY <1>1 DEF AddDirty
  <2>2. dirty' \ processing' = dirty \ processing
    BY <1>1, <2>1
  <2>3. Elems(queue') = dirty' \ processing' /\ NoDup(queue')
    BY <2>1, <2>2, SoundIs
  <2> QED BY <2>1, <2>3 DEF QueueSound, Elems, NoDup
<1>2. CASE k \notin dirty \cup processing
  <2>1. queue' = Append(queue, k) /\ dirty' = dirty \cup {k} /\ processing' = processing
    BY <1>2 DEF AddDirty, Enqueue
  <2>2. dirty' \ processing' = (dirty \ processing) \cup {k}
    BY <1>2, <2>1
  <2>3. Elems(queue) = dirty \ processing /\ NoDup(queue)
    BY SoundIs
  <2>4. Elems(queue') = dirty' \ processing' /\ NoDup(queue')
    BY <1>2, <2>1, <2>2, <2>3, AppendFacts
  <2>5. QueueSound'
    BY <2>4 DEF QueueSound, Elems, NoDup
  <2> QED BY <2>1, <2>5, AppendFacts
<1> QED BY <1>1, <1>2

\* So does Get.
LEMMA TakeKeeps ==
  ASSUME QueueInv, NEW k \in Key, Get(k)
  PROVE  QueueInv'
<1> USE DEF QueueInv, WQTypeOK
<1>1. /\ queue # <<>> /\ k = Head(queue) /\ queue' = Tail(queue)
      /\ processing' = processing \cup {k}
      /\ dirty' = dirty \ {k}
      /\ UNCHANGED <<waiting, requeues>>
  BY DEF Get
<1>2. Elems(queue) = dirty \ processing /\ NoDup(queue)
  BY SoundIs
<1>3. Elems(queue') = dirty' \ processing' /\ NoDup(queue')
  BY <1>1, <1>2, TailFacts
<1>4. QueueSound'
  BY <1>3 DEF QueueSound, Elems, NoDup
<1> QED BY <1>1, <1>4, TailFacts

\* So does the end of processNextItem: Done queues a key added meanwhile.
LEMMA FinishKeeps ==
  ASSUME QueueInv, NEW k \in Key, NEW err \in BOOLEAN, FinishItem(k, err)
  PROVE  QueueInv'
<1> USE DEF QueueInv, WQTypeOK
<1>1. /\ k \in processing
      /\ processing' = processing \ {k}
      /\ dirty' = dirty
      /\ queue' = IF k \in dirty THEN Append(queue, k) ELSE queue
  BY DEF FinishItem, Done, Enqueue
<1>2. waiting' \subseteq Key /\ requeues' \in [Key -> 0..QueueRetries]
  <2>1. CASE Retries(k, err)
    <3>1. /\ requeues[k] < QueueRetries /\ requeues[k] \in 0..QueueRetries
          /\ requeues' = [requeues EXCEPT ![k] = requeues[k] + 1]
          /\ waiting' = waiting \cup {k}
      BY <2>1 DEF FinishItem, Retries, AddRateLimited
    <3>2. requeues[k] + 1 \in 0..QueueRetries
      BY <3>1, QueueAssumption
    <3> QED BY <3>1, <3>2
  <2>2. CASE ~Retries(k, err)
    <3>1. 0 \in 0..QueueRetries
      BY QueueAssumption
    <3> QED BY <2>2, <3>1 DEF FinishItem, Forget
  <2> QED BY <2>1, <2>2
<1>3. Elems(queue) = dirty \ processing /\ NoDup(queue)
  BY SoundIs
<1>4. Elems(queue') = dirty' \ processing' /\ NoDup(queue') /\ queue' \in Seq(Key)
  BY <1>1, <1>3, AppendFacts
<1>5. QueueSound'
  BY <1>4 DEF QueueSound, Elems, NoDup
<1> QED BY <1>1, <1>2, <1>4, <1>5

\* So does every step of the queue.
LEMMA QueueStep ==
  ASSUME QueueInv, [WQNext]_wqVars
  PROVE  QueueInv'
<1>1. ASSUME NEW k \in Key, Add(k) PROVE QueueInv'
  BY <1>1, AddDirtyKeeps DEF Add, QueueInv, WQTypeOK
<1>2. ASSUME NEW k \in Key, AddWaiting(k) PROVE QueueInv'
  BY <1>2, AddDirtyKeeps DEF AddWaiting, QueueInv, WQTypeOK
<1>3. CASE UNCHANGED wqVars
  BY <1>3 DEF wqVars, QueueInv, WQTypeOK, QueueSound
<1> QED BY <1>1, <1>2, <1>3, TakeKeeps, FinishKeeps DEF WQNext

\* An empty queue is sound.
LEMMA QueueStarts == WQInit => QueueInv
BY QueueAssumption DEF WQInit, QueueInv, WQTypeOK, QueueSound

\* The queue holds every dirty key that nobody processes, once, and no other.
THEOREM QueueInvariant == WQSpec => []QueueInv
BY QueueStarts, QueueStep, PTL DEF WQSpec

\* No added key is lost and none is handed to two workers.
THEOREM QueueIsSound == WQSpec => []QueueSound
BY QueueInvariant, PTL DEF QueueInv

\* The queue has its types; a key is retried QueueRetries times at most.
THEOREM QueueTyped == WQSpec => []WQTypeOK
BY QueueInvariant, PTL DEF QueueInv

\* Retries that are counted stay scheduled.
LEMMA RetriesStep ==
  ASSUME QueueInv, RetriesScheduled, [WQNext]_wqVars
  PROVE  RetriesScheduled'
<1> USE DEF RetriesScheduled
<1>1. ASSUME NEW k \in Key, Add(k) PROVE RetriesScheduled'
  BY <1>1 DEF Add, AddDirty
<1>2. ASSUME NEW k \in Key, AddWaiting(k) PROVE RetriesScheduled'
  BY <1>2 DEF AddWaiting, AddDirty
<1>3. ASSUME NEW k \in Key, Get(k) PROVE RetriesScheduled'
  BY <1>3 DEF Get
<1>4. ASSUME NEW k \in Key, NEW err \in BOOLEAN, FinishItem(k, err)
      PROVE  RetriesScheduled'
  <2>1. /\ processing' = processing \ {k}
        /\ dirty' = dirty
        /\ requeues \in [Key -> Nat]
    BY <1>4, QueueAssumption DEF FinishItem, Done, QueueInv, WQTypeOK
  <2>2. CASE Retries(k, err)
    BY <1>4, <2>1, <2>2 DEF FinishItem, AddRateLimited
  <2>3. CASE ~Retries(k, err)
    BY <1>4, <2>1, <2>3 DEF FinishItem, Forget
  <2> QED BY <2>2, <2>3
<1>5. CASE UNCHANGED wqVars
  BY <1>5 DEF wqVars
<1> QED BY <1>1, <1>2, <1>3, <1>4, <1>5 DEF WQNext

\* A counted retry is waiting, queued or being processed: handleErr and Forget
\* keep the count and the schedule together.
THEOREM RetriesAreScheduled == WQSpec => []RetriesScheduled
<1>1. WQInit => RetriesScheduled
  BY DEF WQInit, RetriesScheduled
<1> QED BY <1>1, RetriesStep, QueueInvariant, PTL DEF WQSpec

-----------------------------------------------------------------------------
(* The queue implements PendingKeys. *)

\* What Get hands out is due, and in nobody's hands.
LEMMA GetTakes ==
  ASSUME QueueInv, NEW k \in Key, Get(k)
  PROVE  Pending!Take(k)
<1>1. Elems(queue) = dirty \ processing
  BY SoundIs DEF QueueInv
<1>2. k \in Elems(queue)
  BY TailFacts DEF Get, QueueInv, WQTypeOK
<1>3. k \in dirty \ processing
  BY <1>1, <1>2
<1> QED BY <1>3 DEF Get, Pending!Take

\* With its key the end of processNextItem gives up nothing else; a retry is
\* the key coming back later.
LEMMA FinishReleases ==
  ASSUME NEW k \in Key, NEW err \in BOOLEAN, FinishItem(k, err)
  PROVE  Pending!Release(k)
<1>1. waiting' \in {waiting, waiting \cup {k}}
  BY DEF FinishItem, AddRateLimited, Forget
<1> QED BY <1>1 DEF FinishItem, Done, Pending!Release

\* Every step of the queue is a step of PendingKeys.
LEMMA QueueStepRefines ==
  ASSUME QueueInv, [WQNext]_wqVars
  PROVE  [Pending!PKNext]_Pending!pkVars
<1>1. ASSUME NEW k \in Key, Add(k) PROVE Pending!Request(k)
  BY <1>1 DEF Add, AddDirty, Pending!Request
<1>2. ASSUME NEW k \in Key, AddWaiting(k) PROVE Pending!Ripen(k)
  BY <1>2 DEF AddWaiting, AddDirty, Pending!Ripen
<1>3. CASE UNCHANGED wqVars
  BY <1>3 DEF wqVars, Pending!pkVars
<1> QED BY <1>1, <1>2, <1>3, GetTakes, FinishReleases DEF WQNext, Pending!PKNext

\* For any keys, retries and workers the work queue implements PendingKeys: what
\* handlers ask for stays due until it is taken, by one worker at a time.
THEOREM QueueRefines == WQSpec => RefinesPendingKeys
<1>1. WQInit => Pending!PKInit
  BY DEF WQInit, Pending!PKInit
<1> QED BY <1>1, QueueStepRefines, QueueInvariant, PTL
        DEF WQSpec, RefinesPendingKeys, Pending!PKSpec
=============================================================================

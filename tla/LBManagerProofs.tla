-------------------------- MODULE LBManagerProofs --------------------------
(* Theorems about the load balancer manager, for every value of the         *)
(* constants.                                                               *)
EXTENDS LBManager, TLAPS

\* The portal has given out no id from nextId on.
IdsAreOld == \A i \in Id : portal[i] # Nil => i < nextId

\* The strengthening that makes RegistrySound inductive.
RegistryInv == LBTypeOK /\ IdsAreOld /\ RegistrySound

-----------------------------------------------------------------------------
(* Helpers. *)

\* A created load balancer is one the portal can store.
LEMMA CreatedType == \A in \in Input : Created(in) \in PortalLB
BY LBAssumption DEF Created, Input, PortalLB

\* So is an updated one.
LEMMA UpdatedType ==
  \A lb \in PortalLB, in \in UpdateInput, s \in Status : Updated(lb, in, s) \in PortalLB
BY DEF Updated, UpdateInput, PortalLB

\* Both builders of an update input (sync/lb.go, loadbalancer.go) yield one.
LEMMA InputTypes ==
  \A in \in Input : /\ UpdateFrom(in) \in UpdateInput
                    /\ AdoptInput(in) \in UpdateInput
BY DEF UpdateFrom, AdoptInput, Input, UpdateInput, ClusterId

\* Faults stay within their bound.
LEMMA SpendType ==
  ASSUME LBTypeOK, NEW n \in Nat, Spend(n)
  PROVE  faults' \in 0..MaxFaults
BY LBAssumption DEF LBTypeOK, Spend

\* A call costs a natural number of faults.
LEMMA CostType == \A a : Cost(a) \in Nat
BY DEF Cost

\* What CreateLB does to the registry and the portal.
LEMMA CreateEffect ==
  ASSUME LBTypeOK, NEW in \in Input, NEW err \in BOOLEAN, CreateLB(in, err)
  PROVE  /\ faults' \in 0..MaxFaults
         /\ \/ /\ err
               /\ UNCHANGED <<resources, portal, nextId>>
            \/ /\ nextId \in Id
               /\ portal' = [portal EXCEPT ![nextId] = Created(in)]
               /\ nextId' = nextId + 1
               /\ \/ err /\ UNCHANGED resources
                  \/ /\ ~err
                     /\ resources' = [resources EXCEPT ![in.name] =
                          [id |-> nextId, state |-> "in_process",
                           current |-> Nil, deleted |-> FALSE]]
<1>1. PICK l \in Answers("list"), a \in Answers("create") :
        /\ Spend(Cost(l) + Cost(a))
        /\ err = (a # "ok")
        /\ IF Performed(a)
           THEN /\ nextId \in Id
                /\ portal' = [portal EXCEPT ![nextId] = Created(in)]
                /\ nextId' = nextId + 1
           ELSE UNCHANGED <<portal, nextId>>
        /\ IF err
           THEN UNCHANGED resources
           ELSE Register(in.name, [id |-> nextId, state |-> "in_process",
                                   current |-> Nil, deleted |-> FALSE])
  BY DEF CreateLB
<1>2. faults' \in 0..MaxFaults
  BY <1>1, CostType, SpendType, Cost(l) + Cost(a) \in Nat
<1>3. CASE Performed(a)
  BY <1>1, <1>2, <1>3 DEF Register
<1>4. CASE ~Performed(a)
  BY <1>1, <1>2, <1>4 DEF Performed
<1> QED BY <1>3, <1>4

\* What AdoptLB does: it reuses a load balancer of the right name.
LEMMA AdoptEffect ==
  ASSUME LBTypeOK, NEW in \in Input, NEW err \in BOOLEAN, AdoptLB(in, err)
  PROVE  \E i \in Id, a \in Answers("update"), s \in Status :
           /\ faults' \in 0..MaxFaults
           /\ portal[i] # Nil
           /\ portal[i].name = in.name
           /\ err = (a # "ok")
           /\ portal' = IF Performed(a)
                        THEN [portal EXCEPT ![i] = Updated(portal[i], AdoptInput(in), s)]
                        ELSE portal
           /\ resources' = IF err THEN resources
                           ELSE [resources EXCEPT ![in.name] =
                                  [id |-> i, state |-> s, current |-> AdoptInput(in),
                                   deleted |-> FALSE]]
           /\ UNCHANGED nextId
BY CostType, SpendType DEF AdoptLB, Find, Register

\* What PushUpdate does to a registered load balancer.
LEMMA PushEffect ==
  ASSUME LBTypeOK, NEW in \in UpdateInput, NEW err \in BOOLEAN,
         resources[in.name] # Nil, PushUpdate(in, err)
  PROVE  LET lb == resources[in.name] IN
         \E a \in Answers("update"), s \in Status :
           /\ faults' \in 0..MaxFaults
           /\ err = (a # "ok" \/ portal[lb.id] = Nil)
           /\ portal' = IF Performed(a) /\ portal[lb.id] # Nil
                        THEN [portal EXCEPT ![lb.id] = Updated(portal[lb.id], in, s)]
                        ELSE portal
           /\ resources' = [resources EXCEPT ![in.name] =
                              IF err THEN lb ELSE [lb EXCEPT !.current = in, !.state = s]]
           /\ UNCHANGED nextId
BY CostType, SpendType DEF PushUpdate, Register, RollBack

-----------------------------------------------------------------------------
(* Each method keeps RegistryInv.                                           *)

\* NewManager and an empty portal satisfy the invariant.
LEMMA InitRegistry == LBInit => RegistryInv
BY LBAssumption
DEF LBInit, RegistryInv, LBTypeOK, IdsAreOld, RegistrySound, SoundAt, GetIds, Id

\* Creating a load balancer keeps it: the new id is nobody's.
LEMMA CreateKeeps ==
  ASSUME RegistryInv, NEW in \in Input, NEW err \in BOOLEAN, CreateLB(in, err),
         acked' \in [Name -> Input \cup {Nil}]
  PROVE  RegistryInv'
<1> USE DEF RegistryInv
<1>1. /\ in.name \in Name
      /\ Created(in) \in PortalLB
      /\ Created(in).name = in.name
      /\ Created(in) # Nil
  BY CreatedType, LBAssumption DEF Input, Created
<1>2. CASE UNCHANGED <<resources, portal, nextId>>
  BY <1>2, CreateEffect DEF LBTypeOK, IdsAreOld, RegistrySound, SoundAt, GetIds
<1>3. ASSUME nextId \in Id,
             portal' = [portal EXCEPT ![nextId] = Created(in)],
             nextId' = nextId + 1
      PROVE  /\ portal' \in [Id -> PortalLB \cup {Nil}]
             /\ nextId' \in 1..(MaxLBs + 1)
             /\ IdsAreOld'
             /\ \A i \in Id : i < nextId => portal'[i] = portal[i]
  BY <1>1, <1>3, LBAssumption DEF LBTypeOK, IdsAreOld, Id
<1>4. ASSUME nextId \in Id,
             portal' = [portal EXCEPT ![nextId] = Created(in)],
             nextId' = nextId + 1,
             UNCHANGED resources
      PROVE  RegistryInv'
  BY <1>3, <1>4, CreateEffect
  DEF LBTypeOK, IdsAreOld, RegistrySound, SoundAt, GetIds, LoadBalancer, Id
<1>5. ASSUME nextId \in Id,
             portal' = [portal EXCEPT ![nextId] = Created(in)],
             nextId' = nextId + 1,
             resources' = [resources EXCEPT ![in.name] =
                             [id |-> nextId, state |-> "in_process",
                              current |-> Nil, deleted |-> FALSE]]
      PROVE  RegistryInv'
  <2> DEFINE new == [id |-> nextId, state |-> "in_process",
                     current |-> Nil, deleted |-> FALSE]
  <2>1. new \in LoadBalancer /\ new # Nil
    <3>1. nextId \in Id /\ "in_process" \in Status
      BY <1>5, LBAssumption
    <3>2. new \in LoadBalancer
      BY <3>1 DEF LoadBalancer
    <3> QED BY <3>2, LBAssumption
  <2>2. LBTypeOK'
    BY <1>1, <1>3, <1>5, <2>1, CreateEffect DEF LBTypeOK
  <2>3. \A n \in GetIds : resources[n].id \in Id /\ resources[n].id < nextId
    BY DEF LBTypeOK, RegistrySound, SoundAt, GetIds, LoadBalancer
  <2>4. \A n \in Name : resources'[n] = IF n = in.name THEN new ELSE resources[n]
    BY <1>1, <1>5 DEF LBTypeOK
  <2>5. portal'[nextId] = Created(in)
    BY <1>5 DEF LBTypeOK
  <2>6. RegistrySound'
    <3> SUFFICES ASSUME NEW n \in GetIds'
                 PROVE  SoundAt(n)'
      BY DEF RegistrySound
    <3>1. CASE n = in.name
      BY <1>1, <1>3, <1>5, <2>3, <2>4, <2>5, <3>1
      DEF SoundAt, GetIds, LBTypeOK
    <3>2. CASE n # in.name
      <4>1. n \in GetIds /\ resources'[n] = resources[n]
        BY <2>4, <3>2 DEF GetIds
      <4>2. SoundAt(n)
        BY <4>1 DEF RegistrySound
      <4>6. portal'[resources[n].id] = portal[resources[n].id]
        BY <1>3, <1>5, <2>3, <4>1
      <4>3. resources[n].id # nextId
        BY <1>5, <2>3, <4>1 DEF Id
      <4>4. \A m \in GetIds' \ {n} : resources'[m].id # resources[n].id
        BY <2>4, <4>1, <4>2, <4>3 DEF SoundAt, GetIds
      <4>5. nextId < nextId' /\ resources[n].id < nextId'
        BY <1>5, <2>3, <4>1 DEF Id
      <4> QED BY <4>1, <4>2, <4>6, <4>4, <4>5 DEF SoundAt
    <3> QED BY <3>1, <3>2
  <2> QED BY <1>3, <1>5, <2>2, <2>6
<1> QED BY <1>2, <1>4, <1>5, CreateEffect

\* Adopting one keeps it: only its own name could have registered that id.
LEMMA AdoptKeeps ==
  ASSUME RegistryInv, NEW in \in Input, NEW err \in BOOLEAN, AdoptLB(in, err),
         acked' \in [Name -> Input \cup {Nil}]
  PROVE  RegistryInv'
<1> USE DEF RegistryInv
<1>1. PICK i \in Id, a \in Answers("update"), s \in Status :
        /\ faults' \in 0..MaxFaults
        /\ portal[i] # Nil
        /\ portal[i].name = in.name
        /\ err = (a # "ok")
        /\ portal' = IF Performed(a)
                     THEN [portal EXCEPT ![i] = Updated(portal[i], AdoptInput(in), s)]
                     ELSE portal
        /\ resources' = IF err THEN resources
                        ELSE [resources EXCEPT ![in.name] =
                               [id |-> i, state |-> s, current |-> AdoptInput(in),
                                deleted |-> FALSE]]
        /\ UNCHANGED nextId
  BY AdoptEffect
<1> DEFINE up  == Updated(portal[i], AdoptInput(in), s)
           new == [id |-> i, state |-> s, current |-> AdoptInput(in), deleted |-> FALSE]
<1>2. /\ in.name \in Name
      /\ AdoptInput(in).name = in.name
      /\ up \in PortalLB
      /\ up.name = in.name
      /\ up # Nil
      /\ new \in LoadBalancer
      /\ new # Nil
  <2>1. in.name \in Name /\ AdoptInput(in).name = in.name
    BY DEF Input, AdoptInput
  <2>2. portal[i] \in PortalLB
    BY <1>1 DEF LBTypeOK
  <2>3. up \in PortalLB
    BY <2>2, UpdatedType, InputTypes
  <2>4. up.name = in.name
    BY <2>1 DEF Updated
  <2>5. new \in LoadBalancer
    BY InputTypes DEF LoadBalancer
  <2> QED BY <2>1, <2>3, <2>4, <2>5, LBAssumption
<1>3. \A j \in Id : portal'[j] = IF j = i /\ Performed(a) THEN up ELSE portal[j]
  BY <1>1 DEF LBTypeOK
<1>4. \A n \in Name : resources'[n] = IF n = in.name /\ ~err THEN new ELSE resources[n]
  BY <1>1, <1>2 DEF LBTypeOK
<1>5. LBTypeOK'
  BY <1>1, <1>2 DEF LBTypeOK
<1>6. IdsAreOld'
  BY <1>1, <1>3 DEF IdsAreOld
<1>7. \A n \in GetIds : n # in.name => resources[n].id \in Id /\ resources[n].id # i
  BY <1>1 DEF RegistrySound, SoundAt, GetIds, LBTypeOK, LoadBalancer
<1>8. RegistrySound'
  <2> SUFFICES ASSUME NEW n \in GetIds'
               PROVE  SoundAt(n)'
    BY DEF RegistrySound
  <2>1. CASE n = in.name /\ ~err
    <3>1. resources'[n] = new /\ Performed(a) /\ i < nextId
      BY <1>1, <1>4, <2>1 DEF GetIds, Performed, IdsAreOld
    <3> QED BY <1>1, <1>2, <1>3, <1>4, <1>7, <2>1, <3>1 DEF SoundAt, GetIds
  <2>2. CASE n # in.name \/ err
    <3>1. n \in GetIds /\ resources'[n] = resources[n] /\ resources[n].id \in Id
      BY <1>4, <2>2 DEF GetIds, LBTypeOK, LoadBalancer
    <3>2. SoundAt(n)
      BY <3>1 DEF RegistrySound
    <3>3. resources[n].id = i => n = in.name
      BY <1>1, <3>2 DEF SoundAt
    <3> QED BY <1>1, <1>2, <1>3, <1>4, <1>7, <2>2, <3>1, <3>2, <3>3 DEF SoundAt, GetIds
  <2> QED BY <2>1, <2>2
<1> QED BY <1>5, <1>6, <1>8

\* An update keeps it, accepted, refused or rolled back.
LEMMA PushKeeps ==
  ASSUME RegistryInv, NEW in \in UpdateInput, NEW err \in BOOLEAN,
         resources[in.name] # Nil, PushUpdate(in, err),
         acked' \in [Name -> Input \cup {Nil}]
  PROVE  RegistryInv'
<1> USE DEF RegistryInv
<1> DEFINE lb == resources[in.name]
<1>1. PICK a \in Answers("update"), s \in Status :
        /\ faults' \in 0..MaxFaults
        /\ err = (a # "ok" \/ portal[lb.id] = Nil)
        /\ portal' = IF Performed(a) /\ portal[lb.id] # Nil
                     THEN [portal EXCEPT ![lb.id] = Updated(portal[lb.id], in, s)]
                     ELSE portal
        /\ resources' = [resources EXCEPT ![in.name] =
                           IF err THEN lb ELSE [lb EXCEPT !.current = in, !.state = s]]
        /\ UNCHANGED nextId
  BY PushEffect
<1> DEFINE up  == Updated(portal[lb.id], in, s)
           new == [lb EXCEPT !.current = in, !.state = s]
<1>2. in.name \in Name /\ in.name \in GetIds
  BY DEF UpdateInput, GetIds
<1>3. lb \in LoadBalancer /\ lb.id \in Id
  BY <1>2 DEF LBTypeOK, LoadBalancer
<1>4. new \in LoadBalancer /\ new.id = lb.id /\ new.deleted = lb.deleted
  BY <1>3 DEF LoadBalancer
<1>5. portal[lb.id] # Nil => up \in PortalLB /\ up.name = in.name /\ up # Nil
  <2> SUFFICES ASSUME portal[lb.id] # Nil
               PROVE  up \in PortalLB /\ up.name = in.name /\ up # Nil
    OBVIOUS
  <2>1. portal[lb.id] \in PortalLB
    BY <1>3 DEF LBTypeOK
  <2>2. up \in PortalLB
    BY <2>1, UpdatedType
  <2>3. up.name = in.name
    BY DEF Updated
  <2> QED BY <2>2, <2>3, LBAssumption
<1>6. \A j \in Id :
        portal'[j] = IF j = lb.id /\ Performed(a) /\ portal[lb.id] # Nil
                     THEN up ELSE portal[j]
  BY <1>1, <1>3 DEF LBTypeOK
<1>7. \A n \in Name :
        resources'[n] = IF n = in.name /\ ~err THEN new ELSE resources[n]
  BY <1>1, <1>2 DEF LBTypeOK
<1>8. LBTypeOK'
  <2>1. resources' \in [Name -> LoadBalancer \cup {Nil}]
    BY <1>1, <1>2, <1>3, <1>4 DEF LBTypeOK
  <2>2. portal' \in [Id -> PortalLB \cup {Nil}]
    BY <1>1, <1>3, <1>5 DEF LBTypeOK
  <2> QED BY <1>1, <2>1, <2>2 DEF LBTypeOK
<1>9. IdsAreOld'
  BY <1>1, <1>6 DEF IdsAreOld
<1>10. /\ GetIds' = GetIds
       /\ \A n \in GetIds : /\ resources[n] \in LoadBalancer
                            /\ resources[n].id \in Id
                            /\ resources'[n].id = resources[n].id
                            /\ resources'[n].deleted = resources[n].deleted
  <2>1. new # Nil
    BY <1>4, LBAssumption
  <2>2. GetIds' = GetIds
    BY <1>2, <1>7, <2>1 DEF GetIds
  <2>3. ASSUME NEW n \in GetIds
        PROVE  /\ resources[n] \in LoadBalancer /\ resources[n].id \in Id
               /\ n \in Name
    BY <2>3 DEF GetIds, LBTypeOK, LoadBalancer
  <2>4. ASSUME NEW n \in GetIds
        PROVE  /\ resources'[n].id = resources[n].id
               /\ resources'[n].deleted = resources[n].deleted
    <3>1. resources'[n] = IF n = in.name /\ ~err THEN new ELSE resources[n]
      BY <1>7, <2>3
    <3> QED BY <1>4, <3>1
  <2> QED BY <2>2, <2>3, <2>4
<1>11. RegistrySound'
  <2> SUFFICES ASSUME NEW n \in GetIds
               PROVE  SoundAt(n)'
    BY <1>10 DEF RegistrySound
  <2>1. SoundAt(n)
    BY DEF RegistrySound
  <2>2. resources[n].id = lb.id => n = in.name
    BY <1>2, <2>1 DEF SoundAt
  <2>3. portal'[resources[n].id] # Nil <=> portal[resources[n].id] # Nil
    BY <1>5, <1>6, <1>10
  <2>4. portal'[resources[n].id] # Nil => portal'[resources[n].id].name = n
    BY <1>5, <1>6, <1>10, <2>1, <2>2 DEF SoundAt
  <2> QED BY <1>1, <1>10, <2>1, <2>3, <2>4 DEF SoundAt
<1> QED BY <1>8, <1>9, <1>11

\* Hence a whole SyncL7LB does.
LEMMA SyncKeeps ==
  ASSUME RegistryInv, NEW in \in Input, NEW err \in BOOLEAN, SyncL7LB(in, err)
  PROVE  RegistryInv'
<1>1. acked' \in [Name -> Input \cup {Nil}]
  BY DEF SyncL7LB, RegistryInv, LBTypeOK
<1>2. CASE resources[in.name] # Nil
  <2>1. /\ UpdateFrom(in) \in UpdateInput
        /\ UpdateFrom(in).name = in.name
        /\ UpdateLoadBalancer(UpdateFrom(in), err)
    BY <1>2, InputTypes DEF SyncL7LB, UpdateFrom
  <2>2. CASE PushUpdate(UpdateFrom(in), err)
    BY <1>1, <1>2, <2>1, <2>2, PushKeeps
  <2>3. CASE UNCHANGED <<resources, portal, nextId, faults>>
    BY <1>1, <2>3
    DEF RegistryInv, LBTypeOK, IdsAreOld, RegistrySound, SoundAt, GetIds
  <2> QED BY <2>1, <2>2, <2>3 DEF UpdateLoadBalancer
<1>3. CASE resources[in.name] = Nil
  BY <1>1, <1>3, CreateKeeps, AdoptKeeps DEF SyncL7LB, NewLoadBalancer
<1> QED BY <1>2, <1>3

\* A delete keeps it: the object goes, or stays and is marked.
LEMMA DeleteKeeps ==
  ASSUME RegistryInv, NEW name \in Name, NEW err \in BOOLEAN,
         DeleteLoadBalancer(name, err)
  PROVE  RegistryInv'
<1> USE DEF RegistryInv
<1> DEFINE lb == resources[name]
<1>1. PICK a \in Answers("delete") :
        /\ faults' \in 0..MaxFaults
        /\ err = (a # "ok" \/ portal[lb.id] = Nil)
        /\ portal' = IF Performed(a) THEN [portal EXCEPT ![lb.id] = Nil] ELSE portal
  BY CostType, SpendType DEF DeleteLoadBalancer
<1>2. /\ lb # Nil
      /\ resources' = [resources EXCEPT ![name] =
                         IF err THEN [lb EXCEPT !.deleted = TRUE] ELSE Nil]
      /\ nextId' = nextId
      /\ acked' = [acked EXCEPT ![name] = Nil]
  BY DEF DeleteLoadBalancer, Register
<1> DEFINE marked == [lb EXCEPT !.deleted = TRUE]
<1>3. /\ lb \in LoadBalancer /\ lb.id \in Id
      /\ marked \in LoadBalancer /\ marked # Nil
      /\ marked.id = lb.id /\ marked.deleted = TRUE
  <2>1. lb \in LoadBalancer /\ lb.id \in Id
    BY <1>2 DEF LBTypeOK, LoadBalancer
  <2>2. marked \in LoadBalancer /\ marked.id = lb.id /\ marked.deleted = TRUE
    BY <2>1 DEF LoadBalancer
  <2> QED BY <2>1, <2>2, LBAssumption
<1>4. \A j \in Id : portal'[j] = IF j = lb.id /\ Performed(a) THEN Nil ELSE portal[j]
  BY <1>1, <1>3 DEF LBTypeOK
<1>5. \A n \in Name :
        resources'[n] = IF n = name THEN IF err THEN marked ELSE Nil ELSE resources[n]
  BY <1>2 DEF LBTypeOK
<1>6. LBTypeOK'
  <2>1. resources' \in [Name -> LoadBalancer \cup {Nil}]
    BY <1>2, <1>3 DEF LBTypeOK
  <2>2. portal' \in [Id -> PortalLB \cup {Nil}]
    BY <1>1 DEF LBTypeOK
  <2> QED BY <1>1, <1>2, <2>1, <2>2 DEF LBTypeOK
<1>7. IdsAreOld'
  BY <1>2, <1>4 DEF IdsAreOld
<1>8. RegistrySound'
  <2> SUFFICES ASSUME NEW n \in GetIds'
               PROVE  SoundAt(n)'
    BY DEF RegistrySound
  <2>1. n \in GetIds /\ name \in GetIds
    BY <1>2, <1>5 DEF GetIds
  <2>2. SoundAt(n) /\ SoundAt(name)
    BY <2>1 DEF RegistrySound
  <2>3. \A m \in GetIds : m # n => resources[m].id # resources[n].id
    BY <2>2 DEF SoundAt
  <2>4. \A m \in GetIds' : m \in GetIds /\ resources'[m].id = resources[m].id
    BY <1>2, <1>3, <1>5 DEF GetIds
  <2>5. resources[n].id \in Id
    BY <2>1 DEF GetIds, LBTypeOK, LoadBalancer
  <2>6. ~resources'[n].deleted => n # name /\ resources'[n] = resources[n]
    BY <1>3, <1>5, <2>1 DEF GetIds
  <2>7. ~resources'[n].deleted => portal'[resources[n].id] # Nil
    BY <1>4, <2>1, <2>2, <2>3, <2>5, <2>6 DEF SoundAt
  <2>8. portal'[resources[n].id] # Nil => portal'[resources[n].id].name = n
    BY <1>4, <2>2, <2>5 DEF SoundAt
  <2> QED BY <1>2, <2>2, <2>3, <2>4, <2>7, <2>8 DEF SoundAt
<1> QED BY <1>6, <1>7, <1>8

\* Reading the status of a load balancer keeps it.
LEMMA GetKeeps ==
  ASSUME RegistryInv, NEW name \in Name, NEW err \in BOOLEAN,
         GetLoadBalancer(name, err)
  PROVE  RegistryInv'
<1> USE DEF RegistryInv
<1> DEFINE lb  == resources[name]
           new == [lb EXCEPT !.state = portal[lb.id].status]
<1>1. /\ lb # Nil
      /\ faults' \in 0..MaxFaults
      /\ err \/ portal[lb.id] # Nil
      /\ resources' = IF err THEN resources ELSE [resources EXCEPT ![name] = new]
      /\ UNCHANGED <<portal, nextId, acked>>
  BY CostType, SpendType DEF GetLoadBalancer, Register
<1>2. lb \in LoadBalancer /\ lb.id \in Id
  BY <1>1 DEF LBTypeOK, LoadBalancer
<1>3. ~err => new \in LoadBalancer /\ new.id = lb.id /\ new.deleted = lb.deleted
  <2>1. ~err => portal[lb.id] \in PortalLB
    BY <1>1, <1>2 DEF LBTypeOK
  <2> QED BY <1>2, <2>1 DEF LoadBalancer, PortalLB
<1>4. LBTypeOK'
  BY <1>1, <1>2, <1>3 DEF LBTypeOK
<1>5. /\ GetIds' = GetIds
      /\ \A n \in GetIds : /\ resources'[n].id = resources[n].id
                           /\ resources'[n].deleted = resources[n].deleted
  <2>1. ~err => new # Nil
    BY <1>3, LBAssumption
  <2> QED BY <1>1, <1>3, <2>1 DEF GetIds, LBTypeOK
<1>6. IdsAreOld' /\ RegistrySound'
  BY <1>1, <1>5 DEF IdsAreOld, RegistrySound, SoundAt
<1> QED BY <1>4, <1>6

\* So does the portal finishing its work.
LEMMA ActivateKeeps ==
  ASSUME RegistryInv, NEW i \in Id, Activate(i)
  PROVE  RegistryInv'
<1> USE DEF RegistryInv
<1> DEFINE new == [portal[i] EXCEPT !.status = "active"]
<1>1. portal[i] \in PortalLB
  BY DEF Activate, LBTypeOK
<1>2. new \in PortalLB /\ new.name = portal[i].name
  BY <1>1 DEF Activate, PortalLB
<1>3. new # Nil
  BY <1>2, LBAssumption
<1>4. /\ portal' = [portal EXCEPT ![i] = new]
      /\ UNCHANGED <<resources, nextId, faults, acked>>
  BY DEF Activate
<1>5. LBTypeOK'
  BY <1>2, <1>4 DEF LBTypeOK
<1>6. \A j \in Id : /\ portal'[j] # Nil <=> portal[j] # Nil
                    /\ portal'[j] # Nil => portal'[j].name = portal[j].name
  BY <1>1, <1>2, <1>3, <1>4, LBAssumption DEF LBTypeOK
<1>7. GetIds' = GetIds /\ \A n \in GetIds : resources[n].id \in Id
  BY <1>4 DEF GetIds, LBTypeOK, LoadBalancer
<1>8. IdsAreOld'
  BY <1>4, <1>6 DEF IdsAreOld
<1>9. RegistrySound'
  BY <1>4, <1>6, <1>7 DEF RegistrySound, SoundAt
<1> QED BY <1>5, <1>8, <1>9

\* A new process starts from an empty registry.
LEMMA RestartKeeps ==
  ASSUME RegistryInv, RestartManager
  PROVE  RegistryInv'
BY DEF RestartManager, RegistryInv, LBTypeOK, IdsAreOld, RegistrySound, GetIds

\* Nothing changes, nothing breaks.
LEMMA StutterKeeps ==
  ASSUME RegistryInv, UNCHANGED lbVars
  PROVE  RegistryInv'
BY DEF lbVars, RegistryInv, LBTypeOK, IdsAreOld, RegistrySound, SoundAt, GetIds

\* Every method keeps it.
LEMMA RegistryStep ==
  ASSUME RegistryInv, [LBNext]_lbVars
  PROVE  RegistryInv'
BY SyncKeeps, DeleteKeeps, GetKeeps, ActivateKeeps, RestartKeeps, StutterKeeps DEF LBNext

\* RegistryInv is an invariant of the manager under any sequence of calls.
THEOREM RegistryInvariant == LBSpec => []RegistryInv
BY InitRegistry, RegistryStep, PTL DEF LBSpec

\* The registry and the portal's table always have their types.
THEOREM ManagerTyped == LBSpec => []LBTypeOK
BY RegistryInvariant, PTL DEF RegistryInv

\* A registered object always points at a load balancer of its own name that no
\* other object points at, and that exists unless the object is marked deleted.
THEOREM RegistryIsSound == LBSpec => []RegistrySound
BY RegistryInvariant, PTL DEF RegistryInv

-----------------------------------------------------------------------------
(* What the two operations do to the tables, for those who call them.       *)

\* An update touches its own name and its own load balancer.
LEMMA PushTouches ==
  ASSUME RegistryInv, NEW in \in UpdateInput, NEW err \in BOOLEAN,
         resources[in.name] # Nil, PushUpdate(in, err)
  PROVE  /\ \A n \in Name : n # in.name => resources'[n] = resources[n]
         /\ err => resources' = resources
         /\ ~err => resources'[in.name] # Nil
         /\ \A i \in Id : \/ portal'[i] = portal[i]
                          \/ /\ portal[i] # Nil /\ portal'[i] # Nil
                             /\ portal[i].name = in.name
                             /\ portal'[i].name = in.name
         /\ nextId' = nextId
<1> USE DEF RegistryInv
<1> DEFINE lb == resources[in.name]
<1>1. PICK a \in Answers("update"), s \in Status :
        /\ faults' \in 0..MaxFaults
        /\ err = (a # "ok" \/ portal[lb.id] = Nil)
        /\ portal' = IF Performed(a) /\ portal[lb.id] # Nil
                     THEN [portal EXCEPT ![lb.id] = Updated(portal[lb.id], in, s)]
                     ELSE portal
        /\ resources' = [resources EXCEPT ![in.name] =
                           IF err THEN lb ELSE [lb EXCEPT !.current = in, !.state = s]]
        /\ UNCHANGED nextId
  BY PushEffect
<1> DEFINE new == [lb EXCEPT !.current = in, !.state = s]
           up  == Updated(portal[lb.id], in, s)
<1>2. in.name \in Name
  BY DEF UpdateInput
<1>3. lb \in LoadBalancer /\ lb.id \in Id
  BY <1>2 DEF LBTypeOK, LoadBalancer
<1>4. portal[lb.id] # Nil => portal[lb.id].name = in.name /\ up \in PortalLB
  BY <1>2, <1>3, UpdatedType DEF LBTypeOK, RegistrySound, SoundAt, GetIds
<1>5. up.name = in.name
  BY DEF Updated
<1>6. new \in LoadBalancer
  BY <1>3 DEF LoadBalancer
<1>7. \A i \in Id : \/ portal'[i] = portal[i]
                    \/ /\ portal[i] # Nil /\ portal'[i] # Nil
                       /\ portal[i].name = in.name
                       /\ portal'[i].name = in.name
  BY <1>1, <1>3, <1>4, <1>5, LBAssumption DEF LBTypeOK
<1> QED BY <1>1, <1>2, <1>6, <1>7, LBAssumption DEF LBTypeOK

\* An update keeps the object registered, with its id and its mark.
LEMMA PushKeepsId ==
  ASSUME RegistryInv, NEW in \in UpdateInput, NEW err \in BOOLEAN,
         resources[in.name] # Nil, PushUpdate(in, err)
  PROVE  /\ resources'[in.name] # Nil
         /\ resources'[in.name].id = resources[in.name].id
         /\ resources'[in.name].deleted = resources[in.name].deleted
<1> USE DEF RegistryInv
<1> DEFINE lb == resources[in.name]
<1>1. PICK a \in Answers("update"), s \in Status :
        /\ faults' \in 0..MaxFaults
        /\ err = (a # "ok" \/ portal[lb.id] = Nil)
        /\ portal' = IF Performed(a) /\ portal[lb.id] # Nil
                     THEN [portal EXCEPT ![lb.id] = Updated(portal[lb.id], in, s)]
                     ELSE portal
        /\ resources' = [resources EXCEPT ![in.name] =
                           IF err THEN lb ELSE [lb EXCEPT !.current = in, !.state = s]]
        /\ UNCHANGED nextId
  BY PushEffect
<1> DEFINE new == [lb EXCEPT !.current = in, !.state = s]
<1>2. in.name \in Name /\ lb \in LoadBalancer
  BY DEF UpdateInput, LBTypeOK
<1>3. new \in LoadBalancer /\ new.id = lb.id /\ new.deleted = lb.deleted
  BY <1>2 DEF LoadBalancer
<1>4. resources'[in.name] = IF err THEN lb ELSE new
  BY <1>1, <1>2 DEF LBTypeOK
<1> QED BY <1>3, <1>4, LBAssumption

\* SyncL7LB touches no other name; with an error it leaves the registry alone;
\* of the portal it changes load balancers of its name, or adds one.
LEMMA SyncEffect ==
  ASSUME RegistryInv, NEW in \in Input, NEW err \in BOOLEAN, SyncL7LB(in, err)
  PROVE  /\ \A n \in Name : n # in.name => resources'[n] = resources[n]
         /\ err => resources' = resources
         /\ ~err => resources'[in.name] # Nil
         /\ \/ /\ \A i \in Id : \/ portal'[i] = portal[i]
                                \/ /\ portal[i] # Nil /\ portal'[i] # Nil
                                   /\ portal[i].name = in.name
                                   /\ portal'[i].name = in.name
               /\ nextId' = nextId
            \/ /\ CreateLB(in, err)
               /\ nextId \in Id
               /\ portal' = [portal EXCEPT ![nextId] = Created(in)]
               /\ nextId' = nextId + 1
<1> USE DEF RegistryInv
<1>1. in.name \in Name
  BY DEF Input
<1>2. CASE CreateLB(in, err)
  <2>1. [id |-> nextId, state |-> "in_process", current |-> Nil, deleted |-> FALSE] # Nil
        \/ nextId \notin Id
    <3>1. nextId \in Id => [id |-> nextId, state |-> "in_process", current |-> Nil,
                            deleted |-> FALSE] \in LoadBalancer
      BY LBAssumption DEF LoadBalancer
    <3> QED BY <3>1, LBAssumption
  <2>2. err => resources' = resources
    BY <1>2 DEF CreateLB
  <2>3. \/ err /\ UNCHANGED <<resources, portal, nextId>>
        \/ /\ nextId \in Id
           /\ portal' = [portal EXCEPT ![nextId] = Created(in)]
           /\ nextId' = nextId + 1
           /\ \/ err /\ UNCHANGED resources
              \/ /\ ~err
                 /\ resources' = [resources EXCEPT ![in.name] =
                      [id |-> nextId, state |-> "in_process",
                       current |-> Nil, deleted |-> FALSE]]
    BY <1>2, CreateEffect
  <2> QED BY <1>1, <1>2, <2>1, <2>2, <2>3 DEF LBTypeOK
<1>3. CASE AdoptLB(in, err)
  <2>1. PICK i \in Id, a \in Answers("update"), s \in Status :
           /\ faults' \in 0..MaxFaults
           /\ portal[i] # Nil
           /\ portal[i].name = in.name
           /\ err = (a # "ok")
           /\ portal' = IF Performed(a)
                        THEN [portal EXCEPT ![i] = Updated(portal[i], AdoptInput(in), s)]
                        ELSE portal
           /\ resources' = IF err THEN resources
                           ELSE [resources EXCEPT ![in.name] =
                                  [id |-> i, state |-> s, current |-> AdoptInput(in),
                                   deleted |-> FALSE]]
           /\ UNCHANGED nextId
    BY <1>3, AdoptEffect
  <2>2. Updated(portal[i], AdoptInput(in), s) \in PortalLB
    BY <2>1, UpdatedType, InputTypes DEF LBTypeOK
  <2>3. Updated(portal[i], AdoptInput(in), s).name = in.name
    BY DEF Updated, AdoptInput
  <2>4. [id |-> i, state |-> s, current |-> AdoptInput(in), deleted |-> FALSE] \in LoadBalancer
    BY InputTypes DEF LoadBalancer
  <2> QED BY <1>1, <2>1, <2>2, <2>3, <2>4, LBAssumption DEF LBTypeOK
<1>4. CASE resources[in.name] # Nil /\ UpdateLoadBalancer(UpdateFrom(in), err)
  <2> DEFINE up == UpdateFrom(in)
  <2>1. up \in UpdateInput /\ up.name = in.name
    BY InputTypes DEF UpdateFrom
  <2>2. CASE PushUpdate(up, err)
    BY <1>4, <2>1, <2>2, PushTouches
  <2>3. CASE UNCHANGED <<resources, portal, nextId>>
    BY <1>4, <2>3
  <2> QED BY <1>4, <2>1, <2>2, <2>3 DEF UpdateLoadBalancer
<1> QED BY <1>2, <1>3, <1>4 DEF SyncL7LB, NewLoadBalancer

\* DeleteLoadBalancer touches its own name and its own load balancer.
LEMMA DeleteEffect ==
  ASSUME RegistryInv, NEW name \in Name, NEW err \in BOOLEAN,
         DeleteLoadBalancer(name, err)
  PROVE  /\ name \in GetIds
         /\ resources[name].id \in Id
         /\ \A n \in Name : n # name => resources'[n] = resources[n]
         /\ err => resources'[name] # Nil /\ resources'[name].deleted
         /\ ~err => resources'[name] = Nil
         /\ \A i \in Id : \/ portal'[i] = portal[i]
                          \/ /\ i = resources[name].id /\ portal'[i] = Nil
                             /\ portal[i] # Nil /\ portal[i].name = name
         /\ nextId' = nextId
<1> USE DEF RegistryInv
<1> DEFINE lb     == resources[name]
           marked == [lb EXCEPT !.deleted = TRUE]
<1>1. /\ lb # Nil
      /\ portal' = portal \/ portal' = [portal EXCEPT ![lb.id] = Nil]
      /\ resources' = [resources EXCEPT ![name] = IF err THEN marked ELSE Nil]
      /\ nextId' = nextId
  BY DEF DeleteLoadBalancer, Register
<1>2. lb \in LoadBalancer /\ lb.id \in Id
  BY <1>1 DEF LBTypeOK, LoadBalancer
<1>3. marked \in LoadBalancer /\ marked.deleted
  BY <1>2 DEF LoadBalancer
<1>4. name \in GetIds /\ (portal[lb.id] # Nil => portal[lb.id].name = name)
  BY <1>1 DEF GetIds, RegistrySound, SoundAt
<1> QED BY <1>1, <1>2, <1>3, <1>4, LBAssumption DEF LBTypeOK

-----------------------------------------------------------------------------
(* What was acknowledged is served, when the portal answers the updates it  *)
(* applies.                                                                 *)

\* For a live object the portal has the content of the last input the object
\* took and of the last acknowledged input.
ServedAt(n) ==
  /\ acked[n] # Nil => resources[n] # Nil
  /\ resources[n] # Nil /\ ~resources[n].deleted =>
       /\ resources[n].current # Nil =>
            portal[resources[n].id].cfg = resources[n].current.cfg
       /\ acked[n] # Nil => portal[resources[n].id].cfg = acked[n].cfg

AckInv == \A n \in Name : ServedAt(n)

UpdatesAnswered == <<"update", "lost">> \notin FaultKinds

\* Without lost answers an update that did not succeed had no effect.
LEMMA AnswersWhenAnswered ==
  ASSUME UpdatesAnswered, NEW a \in Answers("update")
  PROVE  Performed(a) <=> a = "ok"
BY DEF UpdatesAnswered, Answers, Performed

\* What concerns another name leaves a name served.
LEMMA ServedFrame ==
  ASSUME NEW n \in Name, ServedAt(n),
         resources'[n] = resources[n],
         acked'[n] = acked[n] \/ acked'[n] = Nil,
         resources[n] # Nil /\ ~resources[n].deleted =>
           portal'[resources[n].id].cfg = portal[resources[n].id].cfg
  PROVE  ServedAt(n)'
BY DEF ServedAt

\* A created load balancer serves the input it was created from.
LEMMA CreateServes ==
  ASSUME RegistryInv, AckInv, NEW in \in Input, NEW err \in BOOLEAN,
         CreateLB(in, err),
         resources[in.name] = Nil,
         acked' = [acked EXCEPT ![in.name] = IF err THEN Nil ELSE in]
  PROVE  AckInv'
<1> SUFFICES ASSUME NEW n \in Name
             PROVE  ServedAt(n)'
  BY DEF AckInv
<1> USE DEF RegistryInv
<1>1. in.name \in Name /\ ServedAt(n)
  BY DEF Input, AckInv
<1>2. \A j \in Id : j < nextId => portal'[j] = portal[j]
  <2>1. portal' = portal \/ portal' = [portal EXCEPT ![nextId] = Created(in)]
    BY CreateEffect
  <2>2. \A j \in Id : j < nextId => j # nextId
    BY LBAssumption DEF Id
  <2> QED BY <2>1, <2>2 DEF LBTypeOK
<1>3. CASE n # in.name
  <2>1. resources'[n] = resources[n] /\ acked'[n] = acked[n]
    BY <1>1, <1>3, CreateEffect DEF LBTypeOK
  <2>2. resources[n] # Nil => resources[n].id \in Id /\ resources[n].id < nextId
    BY DEF LBTypeOK, LoadBalancer, RegistrySound, SoundAt, GetIds
  <2> QED BY <1>1, <1>2, <2>1, <2>2, ServedFrame
<1>4. CASE n = in.name /\ err
  <2>1. resources'[n] = Nil /\ acked'[n] = Nil
    BY <1>1, <1>4, CreateEffect DEF LBTypeOK
  <2> QED BY <2>1 DEF ServedAt
<1>5. CASE n = in.name /\ ~err
  <2> DEFINE new == [id |-> nextId, state |-> "in_process",
                     current |-> Nil, deleted |-> FALSE]
  <2>1. /\ nextId \in Id
        /\ portal' = [portal EXCEPT ![nextId] = Created(in)]
        /\ resources' = [resources EXCEPT ![in.name] = new]
    BY <1>5, CreateEffect
  <2>2. resources'[n] = new /\ acked'[n] = in /\ portal'[nextId] = Created(in)
    BY <1>1, <1>5, <2>1 DEF LBTypeOK
  <2>3. new # Nil
    <3>1. "in_process" \in Status
      BY LBAssumption
    <3>2. new \in LoadBalancer
      BY <2>1, <3>1 DEF LoadBalancer
    <3> QED BY <3>2, LBAssumption
  <2> QED BY <2>2, <2>3 DEF ServedAt, Created
<1> QED BY <1>3, <1>4, <1>5

\* An adopted one serves the input it was updated with.
LEMMA AdoptServes ==
  ASSUME UpdatesAnswered, RegistryInv, AckInv,
         NEW in \in Input, NEW err \in BOOLEAN, AdoptLB(in, err),
         resources[in.name] = Nil,
         acked' = [acked EXCEPT ![in.name] = IF err THEN Nil ELSE in]
  PROVE  AckInv'
<1> SUFFICES ASSUME NEW n \in Name
             PROVE  ServedAt(n)'
  BY DEF AckInv
<1> USE DEF RegistryInv
<1>1. PICK i \in Id, a \in Answers("update"), s \in Status :
        /\ faults' \in 0..MaxFaults
        /\ portal[i] # Nil
        /\ portal[i].name = in.name
        /\ err = (a # "ok")
        /\ portal' = IF Performed(a)
                     THEN [portal EXCEPT ![i] = Updated(portal[i], AdoptInput(in), s)]
                     ELSE portal
        /\ resources' = IF err THEN resources
                        ELSE [resources EXCEPT ![in.name] =
                               [id |-> i, state |-> s, current |-> AdoptInput(in),
                                deleted |-> FALSE]]
        /\ UNCHANGED nextId
  BY AdoptEffect
<1>2. in.name \in Name /\ ServedAt(n)
  BY DEF Input, AckInv
<1>3. CASE n # in.name
  <2>1. resources'[n] = resources[n] /\ acked'[n] = acked[n]
    BY <1>1, <1>2, <1>3 DEF LBTypeOK
  <2>2. resources[n] # Nil => resources[n].id \in Id /\ resources[n].id # i
    BY <1>1, <1>3 DEF LBTypeOK, LoadBalancer, RegistrySound, SoundAt, GetIds
  <2>3. resources[n] # Nil => portal'[resources[n].id] = portal[resources[n].id]
    BY <1>1, <2>2 DEF LBTypeOK
  <2> QED BY <1>2, <2>1, <2>3, ServedFrame
<1>4. CASE n = in.name /\ err
  <2>1. resources'[n] = Nil /\ acked'[n] = Nil
    BY <1>1, <1>2, <1>4 DEF LBTypeOK
  <2> QED BY <2>1 DEF ServedAt
<1>5. CASE n = in.name /\ ~err
  <2> DEFINE up  == Updated(portal[i], AdoptInput(in), s)
             new == [id |-> i, state |-> s, current |-> AdoptInput(in), deleted |-> FALSE]
  <2>1. resources'[n] = new /\ acked'[n] = in /\ portal'[i] = up
    BY <1>1, <1>2, <1>5, AnswersWhenAnswered DEF LBTypeOK
  <2>2. up.cfg = in.cfg /\ AdoptInput(in).cfg = in.cfg
    BY DEF Updated, AdoptInput
  <2>3. new # Nil
    <3>1. new \in LoadBalancer
      BY InputTypes DEF LoadBalancer
    <3> QED BY <3>1, LBAssumption
  <2> QED BY <2>1, <2>2, <2>3 DEF ServedAt
<1> QED BY <1>3, <1>4, <1>5

\* After an update the portal, the current input and what is acknowledged agree.
LEMMA PushServes ==
  ASSUME UpdatesAnswered, RegistryInv, AckInv,
         NEW x \in Input, NEW in \in UpdateInput, in = UpdateFrom(x),
         NEW err \in BOOLEAN, resources[in.name] # Nil, PushUpdate(in, err),
         acked' = [acked EXCEPT ![in.name] = IF err THEN Nil ELSE x]
  PROVE  AckInv'
<1> SUFFICES ASSUME NEW n \in Name
             PROVE  ServedAt(n)'
  BY DEF AckInv
<1> USE DEF RegistryInv
<1> DEFINE lb == resources[in.name]
<1>1. PICK a \in Answers("update"), s \in Status :
        /\ faults' \in 0..MaxFaults
        /\ err = (a # "ok" \/ portal[lb.id] = Nil)
        /\ portal' = IF Performed(a) /\ portal[lb.id] # Nil
                     THEN [portal EXCEPT ![lb.id] = Updated(portal[lb.id], in, s)]
                     ELSE portal
        /\ resources' = [resources EXCEPT ![in.name] =
                           IF err THEN lb ELSE [lb EXCEPT !.current = in, !.state = s]]
        /\ UNCHANGED nextId
  BY PushEffect, ZenonT(60)
<1> DEFINE new == [lb EXCEPT !.current = in, !.state = s]
<1>2. /\ in.name \in Name /\ ServedAt(n)
      /\ in.cfg = x.cfg
  BY DEF UpdateInput, AckInv, UpdateFrom
<1>3. lb \in LoadBalancer /\ lb.id \in Id
  BY <1>2 DEF LBTypeOK, LoadBalancer
<1>4. err => portal' = portal
  BY <1>1, AnswersWhenAnswered
<1>5. CASE n # in.name
  <2>1. resources'[n] = resources[n] /\ acked'[n] = acked[n]
    BY <1>1, <1>2, <1>5 DEF LBTypeOK
  <2>2. resources[n] # Nil => resources[n].id \in Id /\ resources[n].id # lb.id
    BY <1>2, <1>5 DEF LBTypeOK, LoadBalancer, RegistrySound, SoundAt, GetIds
  <2>3. resources[n] # Nil => portal'[resources[n].id] = portal[resources[n].id]
    BY <1>1, <2>2 DEF LBTypeOK
  <2> QED BY <1>2, <2>1, <2>3, ServedFrame
<1>6. CASE n = in.name /\ err
  <2>1. resources'[n] = resources[n] /\ acked'[n] = Nil
    BY <1>1, <1>2, <1>6 DEF LBTypeOK
  <2> QED BY <1>2, <1>4, <1>6, <2>1, ServedFrame
<1>7. CASE n = in.name /\ ~err
  <2>1. /\ resources'[n] = new
        /\ acked'[n] = x
        /\ portal'[lb.id] = Updated(portal[lb.id], in, s)
    BY <1>1, <1>2, <1>3, <1>7, AnswersWhenAnswered DEF LBTypeOK
  <2>2. new.id = lb.id /\ new.current = in
    BY <1>3 DEF LoadBalancer
  <2>3. new # Nil
    <3>1. new \in LoadBalancer
      BY <1>3 DEF LoadBalancer
    <3> QED BY <3>1, LBAssumption
  <2>4. Updated(portal[lb.id], in, s).cfg = in.cfg
    BY DEF Updated
  <2> QED BY <1>2, <2>1, <2>2, <2>3, <2>4 DEF ServedAt
<1> QED BY <1>5, <1>6, <1>7

\* Hence they agree after a whole SyncL7LB, a skipped update included.
LEMMA SyncServes ==
  ASSUME UpdatesAnswered, RegistryInv, AckInv,
         NEW in \in Input, NEW err \in BOOLEAN, SyncL7LB(in, err)
  PROVE  AckInv'
<1>1. acked' = [acked EXCEPT ![in.name] = IF err THEN Nil ELSE in]
  BY DEF SyncL7LB
<1>2. CASE resources[in.name] = Nil
  BY <1>1, <1>2, CreateServes, AdoptServes DEF SyncL7LB, NewLoadBalancer
<1>3. CASE resources[in.name] # Nil
  <2> DEFINE up == UpdateFrom(in)
             lb == resources[in.name]
  <2>1. /\ up \in UpdateInput
        /\ up.name = in.name
        /\ up.cfg = in.cfg
        /\ UpdateLoadBalancer(up, err)
    BY <1>3, InputTypes DEF SyncL7LB, UpdateFrom
  <2>2. CASE PushUpdate(up, err)
    BY <1>1, <1>3, <2>1, <2>2, PushServes
  <2>3. ASSUME ~err, lb.deleted \/ lb.current = up,
               UNCHANGED <<resources, portal, nextId, faults>>
        PROVE  AckInv'
    <3> SUFFICES ASSUME NEW n \in Name
                 PROVE  ServedAt(n)'
      BY DEF AckInv
    <3>1. in.name \in Name /\ ServedAt(n)
      BY DEF AckInv, Input
    <3>2. CASE n # in.name
      BY <1>1, <2>3, <3>1, <3>2, ServedFrame DEF RegistryInv, LBTypeOK
    <3>3. CASE n = in.name
      <4>1. acked'[n] = in
        BY <1>1, <2>3, <3>1, <3>3 DEF RegistryInv, LBTypeOK
      <4>2. up # Nil
        BY <2>1, LBAssumption
      <4> QED BY <1>3, <2>1, <2>3, <3>1, <3>3, <4>1, <4>2 DEF ServedAt
    <3> QED BY <3>2, <3>3
  <2> QED BY <2>1, <2>2, <2>3 DEF UpdateLoadBalancer, IsChanged
<1> QED BY <1>2, <1>3

\* A delete takes the acknowledgement of its name back and touches no other.
LEMMA DeleteServes ==
  ASSUME RegistryInv, AckInv, NEW name \in Name, NEW err \in BOOLEAN,
         DeleteLoadBalancer(name, err)
  PROVE  AckInv'
<1> SUFFICES ASSUME NEW n \in Name
             PROVE  ServedAt(n)'
  BY DEF AckInv
<1> USE DEF RegistryInv
<1> DEFINE lb     == resources[name]
           marked == [lb EXCEPT !.deleted = TRUE]
<1>1. /\ lb # Nil
      /\ portal' = portal \/ portal' = [portal EXCEPT ![lb.id] = Nil]
      /\ resources' = [resources EXCEPT ![name] = IF err THEN marked ELSE Nil]
      /\ acked' = [acked EXCEPT ![name] = Nil]
  BY DEF DeleteLoadBalancer, Register
<1>2. CASE n = name
  <2>1. acked'[n] = Nil /\ resources'[n] = IF err THEN marked ELSE Nil
    BY <1>1, <1>2 DEF LBTypeOK
  <2>2. lb \in LoadBalancer
    BY <1>1 DEF LBTypeOK
  <2>3. marked.deleted = TRUE
    BY <2>2 DEF LoadBalancer
  <2> QED BY <2>1, <2>3 DEF ServedAt
<1>3. CASE n # name
  <2>1. resources'[n] = resources[n] /\ acked'[n] = acked[n]
    BY <1>1, <1>3 DEF LBTypeOK
  <2>2. resources[n] # Nil => resources[n].id \in Id /\ resources[n].id # lb.id
    BY <1>1, <1>3 DEF LBTypeOK, LoadBalancer, RegistrySound, SoundAt, GetIds
  <2>3. resources[n] # Nil => portal'[resources[n].id] = portal[resources[n].id]
    BY <1>1, <2>2 DEF LBTypeOK
  <2>4. ServedAt(n)
    BY DEF AckInv
  <2> QED BY <2>1, <2>3, <2>4, ServedFrame
<1> QED BY <1>2, <1>3

\* Reading a status changes nothing that is served.
LEMMA GetServes ==
  ASSUME RegistryInv, AckInv, NEW name \in Name, NEW err \in BOOLEAN,
         GetLoadBalancer(name, err)
  PROVE  AckInv'
<1> SUFFICES ASSUME NEW n \in Name
             PROVE  ServedAt(n)'
  BY DEF AckInv
<1> USE DEF RegistryInv
<1> DEFINE lb  == resources[name]
           new == [lb EXCEPT !.state = portal[lb.id].status]
<1>1. /\ lb # Nil
      /\ err \/ portal[lb.id] # Nil
      /\ resources' = IF err THEN resources ELSE [resources EXCEPT ![name] = new]
      /\ portal' = portal /\ acked' = acked
  BY DEF GetLoadBalancer, Register
<1>2. lb \in LoadBalancer /\ lb.id \in Id
  BY <1>1 DEF LBTypeOK, LoadBalancer
<1>3. ServedAt(n)
  BY DEF AckInv
<1>4. CASE err \/ n # name
  <2>1. resources'[n] = resources[n]
    BY <1>1, <1>4 DEF LBTypeOK
  <2> QED BY <1>1, <1>3, <2>1, ServedFrame
<1>5. CASE ~err /\ n = name
  <2>1. portal[lb.id] \in PortalLB
    BY <1>1, <1>2, <1>5 DEF LBTypeOK
  <2>2. /\ new \in LoadBalancer
        /\ new.id = lb.id /\ new.deleted = lb.deleted /\ new.current = lb.current
    BY <1>2, <2>1 DEF LoadBalancer, PortalLB
  <2>3. new # Nil
    BY <2>2, LBAssumption
  <2>4. resources'[n] = new
    BY <1>1, <1>5 DEF LBTypeOK
  <2>5. /\ resources'[n].id = resources[n].id
        /\ resources'[n].deleted = resources[n].deleted
        /\ resources'[n].current = resources[n].current
        /\ resources[n] # Nil /\ resources'[n] # Nil
    BY <1>1, <1>5, <2>2, <2>3, <2>4
  <2> QED BY <1>1, <1>3, <2>5 DEF ServedAt
<1> QED BY <1>4, <1>5

\* Nor does the portal finishing its work.
LEMMA ActivateServes ==
  ASSUME RegistryInv, AckInv, NEW i \in Id, Activate(i)
  PROVE  AckInv'
<1> SUFFICES ASSUME NEW n \in Name
             PROVE  ServedAt(n)'
  BY DEF AckInv
<1> USE DEF RegistryInv
<1> DEFINE new == [portal[i] EXCEPT !.status = "active"]
<1>1. portal[i] \in PortalLB
  BY DEF Activate, LBTypeOK
<1>2. new.cfg = portal[i].cfg
  BY <1>1 DEF PortalLB
<1>3. portal' = [portal EXCEPT ![i] = new] /\ UNCHANGED <<resources, acked>>
  BY DEF Activate
<1>4. resources[n] # Nil => resources[n].id \in Id
  BY DEF LBTypeOK, LoadBalancer
<1>5. resources[n] # Nil => portal'[resources[n].id].cfg = portal[resources[n].id].cfg
  BY <1>2, <1>3, <1>4 DEF LBTypeOK
<1>6. ServedAt(n)
  BY DEF AckInv
<1> QED BY <1>3, <1>5, <1>6, ServedFrame

\* Every method keeps what is acknowledged served.
LEMMA AckStep ==
  ASSUME UpdatesAnswered, RegistryInv, AckInv, [LBNext]_lbVars
  PROVE  AckInv'
<1>1. CASE \E in \in Input, err \in BOOLEAN : SyncL7LB(in, err)
  BY <1>1, SyncServes
<1>2. CASE \E n \in Name, err \in BOOLEAN : DeleteLoadBalancer(n, err)
  BY <1>2, DeleteServes
<1>3. CASE \E n \in Name, err \in BOOLEAN : GetLoadBalancer(n, err)
  BY <1>3, GetServes
<1>4. CASE \E i \in Id : Activate(i)
  BY <1>4, ActivateServes
<1>5. CASE RestartManager
  BY <1>5 DEF RestartManager, AckInv, ServedAt
<1>6. CASE UNCHANGED lbVars
  BY <1>6 DEF lbVars, AckInv, ServedAt
<1> QED BY <1>1, <1>2, <1>3, <1>4, <1>5, <1>6 DEF LBNext

\* At the start nothing is acknowledged.
LEMMA AckStarts == LBInit => AckInv
BY DEF LBInit, AckInv, ServedAt

\* What AckInv says of a registry that is sound.
LEMMA AckServes == RegistryInv /\ AckInv => LiveAckIsServed
BY DEF RegistryInv, RegistrySound, SoundAt, GetIds, AckInv, ServedAt, LiveAckIsServed

\* When the portal answers the updates it applies, a successful SyncL7LB means
\* that the portal serves the input, as long as the object lives: the rollback
\* after a failed update and the comparison that skips an unchanged one agree.
THEOREM AcknowledgedIsServed ==
  ASSUME UpdatesAnswered
  PROVE  LBSpec => []LiveAckIsServed
BY AckStarts, AckStep, AckServes, RegistryInvariant, PTL DEF LBSpec

-----------------------------------------------------------------------------
(* A name has one load balancer at most, when the list of load balancers    *)
(* always arrives.                                                          *)

ListsArrive == \A a \in {"fail", "lost"} : <<"list", a>> \notin FaultKinds

\* When listings arrive, a create means that the name had no load balancer.
LEMMA CreateFindsNone ==
  ASSUME ListsArrive, NEW in \in Input, NEW err \in BOOLEAN, CreateLB(in, err)
  PROVE  \A i \in Id : portal[i] # Nil => portal[i].name # in.name
BY DEF CreateLB, Find, Answers, ListsArrive

\* No create follows a list that missed a load balancer, and an update keeps the
\* name: with every list answered, a name never has two load balancers, over
\* lost answers, retries and restarts.
THEOREM NamesStayUnique ==
  ASSUME ListsArrive
  PROVE  LBSpec => []UniqueNames
<1>1. LBInit => UniqueNames
  BY DEF LBInit, UniqueNames
<1>2. RegistryInv /\ UniqueNames /\ [LBNext]_lbVars => UniqueNames'
  <2> SUFFICES ASSUME RegistryInv, UniqueNames, [LBNext]_lbVars
               PROVE  UniqueNames'
    OBVIOUS
  <2> USE DEF RegistryInv
  <2>1. ASSUME \A j \in Id : portal'[j] # Nil =>
                 portal[j] # Nil /\ portal'[j].name = portal[j].name
        PROVE  UniqueNames'
    BY <2>1 DEF UniqueNames
  <2>2. ASSUME NEW in \in Input, NEW err \in BOOLEAN, CreateLB(in, err)
        PROVE  UniqueNames'
    <3>1. /\ portal' = portal
             \/ (nextId \in Id /\ portal' = [portal EXCEPT ![nextId] = Created(in)])
      BY <2>2, CreateEffect
    <3>2. Created(in).name = in.name
      BY DEF Created
    <3>3. \A j \in Id : portal'[j] # Nil =>
            \/ j = nextId /\ portal'[j].name = in.name
            \/ j # nextId /\ portal[j] # Nil /\ portal'[j] = portal[j]
            \/ portal' = portal
      BY <3>1, <3>2 DEF LBTypeOK
    <3>4. \A j \in Id : portal[j] # Nil => portal[j].name # in.name
      BY <2>2, CreateFindsNone
    <3> QED BY <3>3, <3>4 DEF UniqueNames
  <2>3. ASSUME NEW in \in Input, NEW err \in BOOLEAN, AdoptLB(in, err)
        PROVE  UniqueNames'
    <3>1. PICK i \in Id, a \in Answers("update"), s \in Status :
            /\ faults' \in 0..MaxFaults
            /\ portal[i] # Nil
            /\ portal[i].name = in.name
            /\ err = (a # "ok")
            /\ portal' = IF Performed(a)
                         THEN [portal EXCEPT ![i] = Updated(portal[i], AdoptInput(in), s)]
                         ELSE portal
            /\ resources' = IF err THEN resources
                            ELSE [resources EXCEPT ![in.name] =
                                   [id |-> i, state |-> s, current |-> AdoptInput(in),
                                    deleted |-> FALSE]]
            /\ UNCHANGED nextId
      BY <2>3, AdoptEffect
    <3>2. Updated(portal[i], AdoptInput(in), s).name = in.name
      BY DEF Updated, AdoptInput
    <3> QED BY <2>1, <3>1, <3>2 DEF LBTypeOK
  <2>4. ASSUME NEW in \in UpdateInput, NEW err \in BOOLEAN,
               resources[in.name] # Nil, PushUpdate(in, err)
        PROVE  UniqueNames'
    <3> DEFINE lb == resources[in.name]
    <3>1. PICK a \in Answers("update"), s \in Status :
            /\ faults' \in 0..MaxFaults
            /\ err = (a # "ok" \/ portal[lb.id] = Nil)
            /\ portal' = IF Performed(a) /\ portal[lb.id] # Nil
                         THEN [portal EXCEPT ![lb.id] = Updated(portal[lb.id], in, s)]
                         ELSE portal
            /\ resources' = [resources EXCEPT ![in.name] =
                               IF err THEN lb ELSE [lb EXCEPT !.current = in, !.state = s]]
            /\ UNCHANGED nextId
      BY <2>4, PushEffect
    <3>2. Updated(portal[lb.id], in, s).name = in.name
      BY DEF Updated
    <3>3. portal[lb.id] # Nil => portal[lb.id].name = in.name
      BY <2>4 DEF UpdateInput, RegistrySound, SoundAt, GetIds
    <3> QED BY <2>1, <3>1, <3>2, <3>3 DEF LBTypeOK
  <2>5. ASSUME NEW in \in Input, NEW err \in BOOLEAN, SyncL7LB(in, err)
        PROVE  UniqueNames'
    <3>1. CASE resources[in.name] = Nil
      BY <2>2, <2>3, <2>5, <3>1 DEF SyncL7LB, NewLoadBalancer
    <3>2. CASE resources[in.name] # Nil
      <4>1. /\ UpdateFrom(in) \in UpdateInput
            /\ UpdateFrom(in).name = in.name
            /\ UpdateLoadBalancer(UpdateFrom(in), err)
        BY <2>5, <3>2, InputTypes DEF SyncL7LB, UpdateFrom
      <4>2. PushUpdate(UpdateFrom(in), err) \/ portal' = portal
        BY <4>1 DEF UpdateLoadBalancer
      <4> QED BY <2>1, <2>4, <3>2, <4>1, <4>2
    <3> QED BY <3>1, <3>2
  <2>6. ASSUME NEW n \in Name, NEW err \in BOOLEAN, DeleteLoadBalancer(n, err)
        PROVE  UniqueNames'
    BY <2>1, <2>6 DEF DeleteLoadBalancer, LBTypeOK
  <2>7. ASSUME NEW i \in Id, Activate(i)
        PROVE  UniqueNames'
    <3>1. portal[i] \in PortalLB
      BY <2>7 DEF Activate, LBTypeOK
    <3>2. [portal[i] EXCEPT !.status = "active"].name = portal[i].name
      BY <3>1 DEF PortalLB
    <3> QED BY <2>1, <2>7, <3>1, <3>2, LBAssumption DEF Activate, LBTypeOK
  <2>8. CASE portal' = portal
    BY <2>1, <2>8
  <2> QED BY <2>5, <2>6, <2>7, <2>8
        DEF LBNext, GetLoadBalancer, RestartManager, lbVars
<1> QED BY <1>1, <1>2, RegistryInvariant, PTL DEF LBSpec
=============================================================================

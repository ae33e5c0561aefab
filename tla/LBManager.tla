----------------------------- MODULE LBManager -----------------------------
(***************************************************************************)
(* The load balancer manager (internal/service/loadbalancer) and           *)
(* SyncL7LB (internal/service/sync/lb.go), above the servers.com portal    *)
(* API they call.                                                          *)
(*                                                                         *)
(* Every method of the manager holds m.lock from its first to its last     *)
(* line, the API calls included, so a method is one action, and the        *)
(* answers of its calls (PortalCalls) are chosen in it.                    *)
(*                                                                         *)
(* Data: a Config stands for everything both builders of an update input   *)
(* copy (zones, upstreams, geoip, log storage); the cluster is kept apart, *)
(* because only one of them copies it.  Of a LoadBalancer object the       *)
(* fields nothing reads after they are written (previousInput,             *)
(* lastRefresh) are left out, and so is createInput, which is read only    *)
(* inside NewLoadBalancer, where it is the argument.                       *)
(***************************************************************************)
EXTENDS PortalCalls

CONSTANTS
  Name,        \* load balancer names
  Config,      \* contents of a load balancer input
  Cluster,     \* cluster ids an ingress may ask for
  NoCluster,   \* a nil ClusterID
  Status,      \* statuses the portal reports
  Nil,         \* a nil pointer, an absent map entry
  MaxLBs       \* bound on the number of load balancers the portal creates

ClusterId == Cluster \cup {NoCluster}
Id        == 1..MaxLBs

\* L7LoadBalancerCreateInput and L7LoadBalancerUpdateInput.
Input       == [name: Name, cfg: Config, cluster: ClusterId]
UpdateInput == [name: Name, cfg: Config, cluster: ClusterId, shared: BOOLEAN]

\* What the portal stores, and what the manager keeps of it.
PortalLB     == [name: Name, cfg: Config, cluster: ClusterId, status: Status]
LoadBalancer == [id: Id, state: Status, current: UpdateInput \cup {Nil},
                 deleted: BOOLEAN]

ASSUME LBAssumption ==
  /\ MaxFaults \in Nat
  /\ MaxLBs \in Nat
  /\ "in_process" \in Status
  /\ Nil \notin Input
  /\ Nil \notin UpdateInput
  /\ Nil \notin PortalLB
  /\ Nil \notin LoadBalancer

VARIABLES
  resources,  \* m.resources: the load balancers this process has registered
  portal,     \* the load balancers that exist, by id
  nextId,     \* the id the portal gives next: ids are never reused
  acked       \* history: the input of the last SyncL7LB of a name, if it
              \* returned no error and nothing was asked of the name since

lbVars == <<resources, portal, nextId, faults, acked>>

LBInit ==
  /\ resources = [n \in Name |-> Nil]
  /\ portal = [i \in Id |-> Nil]
  /\ nextId = 1
  /\ faults = 0
  /\ acked = [n \in Name |-> Nil]

-----------------------------------------------------------------------------
(* The portal API. *)

\* A created load balancer.
Created(in) == [name |-> in.name, cfg |-> in.cfg, cluster |-> in.cluster,
                status |-> "in_process"]

\* Load balancer lb after an accepted update: a nil ClusterID without
\* SharedCluster leaves the cluster as it is.
Updated(lb, in, s) ==
  [name    |-> in.name,
   cfg     |-> in.cfg,
   cluster |-> IF in.cluster # NoCluster \/ in.shared THEN in.cluster ELSE lb.cluster,
   status  |-> s]

\* The portal finishes the work on a load balancer.
Activate(id) ==
  /\ portal[id] # Nil
  /\ portal[id].status = "in_process"
  /\ "active" \in Status
  /\ portal' = [portal EXCEPT ![id].status = "active"]
  /\ UNCHANGED <<resources, nextId, faults, acked>>

-----------------------------------------------------------------------------
(* The manager's methods.  err says whether the call returns an error. *)

GetIds == {n \in Name : resources[n] # Nil}

\* Variants with a defect: every load balancer the search pattern returns is
\* taken, and only one whose work is finished is.
FindAny(name, a) == {i \in Id : a = "ok" /\ portal[i] # Nil}

FindActive(name, a) ==
  {i \in FindAny(name, a) : portal[i].name = name /\ portal[i].status = "active"}

\* The candidates Find may settle on: listing by pattern, kept by exact name.
\* When listing fails Find reports that there is none.
Find(name, a) ==
  {i \in Id : a = "ok" /\ portal[i] # Nil /\ portal[i].name = name}

\* The update input of SyncL7LB.
UpdateFrom(in) ==
  [name |-> in.name, cfg |-> in.cfg, cluster |-> in.cluster,
   shared |-> in.cluster = NoCluster]

\* Variant with a defect: the create input is sent as it is.
AdoptAsIs(in) == in

\* The update input (*LoadBalancer).update builds for a load balancer that
\* Find found: it carries neither ClusterID nor SharedCluster.
AdoptInput(in) ==
  [name |-> in.name, cfg |-> in.cfg, cluster |-> NoCluster, shared |-> FALSE]

Register(name, lb) == resources' = [resources EXCEPT ![name] = lb]

\* NewLoadBalancer when Find returns nothing: (*LoadBalancer).create.
CreateLB(in, err) ==
  \E l \in Answers("list"), a \in Answers("create") :
    /\ Find(in.name, l) = {}
    /\ Spend(Cost(l) + Cost(a))
    /\ err = (a # "ok")
    /\ IF Performed(a)
       THEN /\ nextId \in Id
            /\ portal' = [portal EXCEPT ![nextId] = Created(in)]
            /\ nextId' = nextId + 1
       ELSE UNCHANGED <<portal, nextId>>
    /\ IF err
       THEN UNCHANGED resources
       ELSE Register(in.name, [id |-> nextId, state |-> "in_process",
                               current |-> Nil, deleted |-> FALSE])

\* NewLoadBalancer when Find returns a load balancer: (*LoadBalancer).update
\* of an object that has no current input yet.
AdoptLB(in, err) ==
  \E a \in Answers("update"), s \in Status : \E i \in Find(in.name, "ok") :
    /\ Spend(Cost(a))
    /\ err = (a # "ok")
    /\ portal' = IF Performed(a)
                 THEN [portal EXCEPT ![i] = Updated(portal[i], AdoptInput(in), s)]
                 ELSE portal
    /\ IF err
       THEN UNCHANGED resources
       ELSE Register(in.name, [id |-> i, state |-> s, current |-> AdoptInput(in),
                               deleted |-> FALSE])
    /\ UNCHANGED nextId

NewLoadBalancer(in, err) == CreateLB(in, err) \/ AdoptLB(in, err)

\* The inputs are compared as JSON.  Zones and upstreams are rendered in the
\* order of a Go map iteration, so equal contents may compare as changed.
IsChanged(lb, in, reordered) == lb.current # in \/ reordered

\* Variant with a defect: the object keeps the input the portal refused.
KeepInput(lb, in) == [lb EXCEPT !.current = in]

\* On an error the copy made before UpdateInput goes back into the map.
RollBack(lb, in) == lb

\* The part of UpdateLoadBalancer that calls the portal.
PushUpdate(in, err) ==
  LET lb   == resources[in.name]
      gone == portal[lb.id] = Nil
  IN \E a \in Answers("update"), s \in Status :
       /\ Spend(Cost(a))
       /\ err = (a # "ok" \/ gone)
       /\ portal' = IF Performed(a) /\ ~gone
                    THEN [portal EXCEPT ![lb.id] = Updated(portal[lb.id], in, s)]
                    ELSE portal
       /\ Register(in.name, IF err THEN RollBack(lb, in)
                                   ELSE [lb EXCEPT !.current = in, !.state = s])
       /\ UNCHANGED nextId

\* UpdateLoadBalancer of a registered name.
UpdateLoadBalancer(in, err) ==
  LET lb == resources[in.name] IN
  \E reordered \in BOOLEAN :
    IF lb.deleted \/ ~IsChanged(lb, in, reordered)
    THEN ~err /\ UNCHANGED <<resources, portal, nextId, faults>>
    ELSE PushUpdate(in, err)

\* SyncL7LB: update what is registered, otherwise create or adopt.
SyncL7LB(in, err) ==
  /\ IF resources[in.name] # Nil
     THEN UpdateLoadBalancer(UpdateFrom(in), err)
     ELSE NewLoadBalancer(in, err)
  /\ acked' = [acked EXCEPT ![in.name] = IF err THEN Nil ELSE in]

\* DeleteLoadBalancer of a registered name: MarkAsDeleted comes first and
\* nothing takes it back when the portal refuses.  Deleting an id the portal
\* no longer has is an error.
DeleteLoadBalancer(name, err) ==
  LET lb == resources[name] IN
  /\ lb # Nil
  /\ \E a \in Answers("delete") :
       /\ Spend(Cost(a))
       /\ err = (a # "ok" \/ portal[lb.id] = Nil)
       /\ portal' = IF Performed(a) THEN [portal EXCEPT ![lb.id] = Nil] ELSE portal
  /\ Register(name, IF err THEN [lb EXCEPT !.deleted = TRUE] ELSE Nil)
  /\ acked' = [acked EXCEPT ![name] = Nil]
  /\ UNCHANGED nextId

\* GetLoadBalancer of a registered name, called by the status pollers.
GetLoadBalancer(name, err) ==
  LET lb == resources[name] IN
  /\ lb # Nil
  /\ \E a \in Answers("get") :
       /\ Spend(Cost(a))
       /\ err = (a # "ok" \/ portal[lb.id] = Nil)
  /\ IF err
     THEN UNCHANGED resources
     ELSE Register(name, [lb EXCEPT !.state = portal[lb.id].status])
  /\ UNCHANGED <<portal, nextId, acked>>

\* The process is replaced: NewManager starts from an empty map.
RestartManager ==
  /\ resources' = [n \in Name |-> Nil]
  /\ acked' = [n \in Name |-> Nil]
  /\ UNCHANGED <<portal, nextId, faults>>

-----------------------------------------------------------------------------
(* The manager under any sequence of calls. *)

LBNext ==
  \/ \E in \in Input, err \in BOOLEAN : SyncL7LB(in, err)
  \/ \E n \in Name, err \in BOOLEAN : DeleteLoadBalancer(n, err)
  \/ \E n \in Name, err \in BOOLEAN : GetLoadBalancer(n, err)
  \/ \E i \in Id : Activate(i)
  \/ RestartManager

LBSpec == LBInit /\ [][LBNext]_lbVars

-----------------------------------------------------------------------------
(* Properties. *)

\* The types of the manager's and the portal's state.
LBTypeOK ==
  /\ resources \in [Name -> LoadBalancer \cup {Nil}]
  /\ portal \in [Id -> PortalLB \cup {Nil}]
  /\ nextId \in 1..(MaxLBs + 1)
  /\ faults \in 0..MaxFaults
  /\ acked \in [Name -> Input \cup {Nil}]

\* A registered object points at the load balancer of its own name, and never
\* at one another object owns; unless it is marked deleted, that load balancer
\* exists.  (resources is only ever an in-memory picture of the portal: a
\* retry, an adopted load balancer and a restart all go through Find.)
SoundAt(n) ==
  LET lb == resources[n] IN
  /\ lb.id < nextId
  /\ portal[lb.id] # Nil => portal[lb.id].name = n
  /\ ~lb.deleted => portal[lb.id] # Nil
  /\ \A m \in GetIds \ {n} : resources[m].id # lb.id

RegistrySound == \A n \in GetIds : SoundAt(n)

\* The portal serves what was acknowledged: when SyncL7LB reported success for
\* a name and the object is not marked deleted, the portal's load balancer has
\* the content of that input.  The guard that skips "unchanged" updates
\* (IsChanged) and the rollback on errors must agree for this to hold.
LiveAckIsServed ==
  \A n \in Name :
    acked[n] # Nil /\ ~resources[n].deleted =>
      /\ resources[n] # Nil
      /\ portal[resources[n].id] # Nil
      /\ portal[resources[n].id].cfg = acked[n].cfg

\* The promise of "SyncL7LB add or update L7 Load Balancer in portal": success
\* means the portal serves the input, whatever the object went through before.
AckIsServed ==
  \A n \in Name :
    acked[n] # Nil =>
      /\ resources[n] # Nil
      /\ portal[resources[n].id] # Nil
      /\ portal[resources[n].id].cfg = acked[n].cfg

\* Success also means the cluster of the input, or none, whether the load
\* balancer was created, found and adopted, or updated.
AckClusterIsServed ==
  \A n \in Name :
    acked[n] # Nil /\ ~resources[n].deleted =>
      portal[resources[n].id].cluster = acked[n].cluster

\* "creates a new load balancer in portal from input if it doesn't exists in
\* portal, otherwise update it": a name has one load balancer at most, over
\* retries, lost answers and restarts.
UniqueNames ==
  \A i, j \in Id :
    portal[i] # Nil /\ portal[j] # Nil /\ portal[i].name = portal[j].name => i = j
=============================================================================

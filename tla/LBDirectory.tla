---------------------------- MODULE LBDirectory ----------------------------
(***************************************************************************)
(* What the owner of the portal's account sees of the controller, whatever *)
(* happens inside it: a load balancer appears for the name of an ingress   *)
(* that has been of the class, when there is none of that name; one is     *)
(* never taken from an ingress that has kept the class; an id names one    *)
(* load balancer for ever.  Module IngressSync implements this.            *)
(***************************************************************************)
CONSTANTS Name, Id, Nil

VARIABLES
  owner,    \* the name of each load balancer that exists, by id
  used,     \* the ids given out so far
  kept,     \* names of ingresses that have been of the class since their creation
  classed   \* names of ingresses that have ever been of the class

dirVars == <<owner, used, kept, classed>>

DirInit ==
  /\ owner = [i \in Id |-> Nil]
  /\ used = {}
  /\ kept = {}
  /\ classed = {}

Appear(n, i) ==
  /\ n \in classed
  /\ \A j \in Id : owner[j] # n
  /\ i \in Id \ used
  /\ owner' = [owner EXCEPT ![i] = n]
  /\ used' = used \cup {i}
  /\ UNCHANGED <<kept, classed>>

Disappear(i) ==
  /\ owner[i] \in classed \ kept
  /\ owner' = [owner EXCEPT ![i] = Nil]
  /\ UNCHANGED <<used, kept, classed>>

\* Users create and reclassify ingresses.
Reclassify ==
  /\ kept' \subseteq classed'
  /\ classed \subseteq classed' /\ classed' \subseteq Name
  /\ kept' \subseteq kept \cup (classed' \ classed)
  /\ UNCHANGED <<owner, used>>

DirNext == \/ \E n \in Name, i \in Id : Appear(n, i)
           \/ \E i \in Id : Disappear(i)
           \/ Reclassify

DirSpec == DirInit /\ [][DirNext]_dirVars
=============================================================================

---------------------------- MODULE PendingKeys ----------------------------
(***************************************************************************)
(* What the controller expects of its work queue, without the order of     *)
(* keys or the counting of retries: a key that is asked for is due until   *)
(* it is taken after that, a key is in one worker's hands at a time, and a *)
(* key to be retried comes back after a delay.  Several keys may be asked  *)
(* for at once.  Module WorkQueue implements this.                         *)
(***************************************************************************)
CONSTANT Key

VARIABLES
  due,    \* keys to be taken, those in a worker's hands included
  held,   \* keys in a worker's hands
  later   \* keys that come back after a delay

pkVars == <<due, held, later>>

PKInit == due = {} /\ held = {} /\ later = {}

Request(k) == due' = due \cup {k} /\ UNCHANGED <<held, later>>

Ripen(k) ==
  /\ k \in later
  /\ later' = later \ {k}
  /\ due' = due \cup {k}
  /\ UNCHANGED held

Take(k) ==
  /\ k \in due \ held
  /\ due' = due \ {k}
  /\ held' = held \cup {k}
  /\ UNCHANGED later

\* The key is done with, or is to be retried; asked for again meanwhile it is due.
Release(k) ==
  /\ k \in held
  /\ held' = held \ {k}
  /\ later' \in {later, later \cup {k}}
  /\ UNCHANGED due

\* The process that holds the keys ends.
Forsake == due' = {} /\ held' = {} /\ later' = {}

PKNext == \/ \E k \in Key : Request(k) \/ Ripen(k) \/ Take(k) \/ Release(k)
          \/ Forsake

PKSpec == PKInit /\ [][PKNext]_pkVars
=============================================================================

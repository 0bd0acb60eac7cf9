--------------------------- MODULE OrderedDelivery ---------------------------
(***************************************************************************)
(* What the transactional outbox promises its producers: messages settle,  *)
(* as delivered or as dead letters, one at a time within a partition, in   *)
(* the order they were committed, and never twice.  Claims, leases,        *)
(* attempts and workers are left out; OutboxDispatcher implements it.      *)
(***************************************************************************)
EXTENDS Naturals

CONSTANTS Messages,   \* (topic, event id) of a message
          Partitions, \* (topic, partition key)
          PartitionOf \* the partition of each message

VARIABLES place,      \* commit order of each message, 0 before it is enqueued
          outcome     \* "absent", "pending", "delivered" or "dead"

vars == <<place, outcome>>

Init ==
  /\ place = [m \in Messages |-> 0]
  /\ outcome = [m \in Messages |-> "absent"]

(* A message is committed behind everything committed before it.           *)
Put(m) ==
  /\ outcome[m] = "absent"
  /\ place'[m] \in Nat
  /\ \A n \in Messages : place[n] < place'[m]
  /\ place' = [place EXCEPT ![m] = place'[m]]
  /\ outcome' = [outcome EXCEPT ![m] = "pending"]

(* The first pending message of its partition settles.                     *)
IsHead(m) ==
  /\ outcome[m] = "pending"
  /\ \A n \in Messages :
       /\ PartitionOf[n] = PartitionOf[m]
       /\ outcome[n] = "pending"
       => place[m] <= place[n]

Settle(m, o) ==
  /\ IsHead(m)
  /\ outcome' = [outcome EXCEPT ![m] = o]
  /\ UNCHANGED place

Next ==
  \/ \E m \in Messages : Put(m)
  \/ \E m \in Messages, o \in {"delivered", "dead"} : Settle(m, o)

Spec == Init /\ [][Next]_vars
=============================================================================

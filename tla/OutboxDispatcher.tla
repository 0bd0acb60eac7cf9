-------------------------- MODULE OutboxDispatcher ---------------------------
(***************************************************************************)
(* SqliteOutboxDispatcher: messages are committed to transactional_outbox, *)
(* a dispatch loop claims the next one in a short transaction, runs its    *)
(* handler outside any transaction and acknowledges, retries or            *)
(* dead-letters it in another.  Several loops, in one process or in many,  *)
(* may run at once; a claim may run out under a handler and a loop may die *)
(* between any two transactions.                                           *)
(***************************************************************************)
EXTENDS Naturals

CONSTANTS Messages,    \* (topic, event id) of a message
          Partitions,  \* (topic, partition key)
          PartitionOf, \* the partition of each message
          Workers,     \* dispatch loops, named by their worker id
          None,
          MaxAttempts, \* maximumAttempts: 12 in the code
          MaxClaims    \* bound: the claim with this number neither outlives
                       \* its lease nor loses its worker

ASSUME DispatcherAssumption ==
  /\ PartitionOf \in [Messages -> Partitions]
  /\ None \notin Workers
  /\ MaxAttempts \in Nat \ {0}
  /\ MaxClaims \in Nat \ {0}

VARIABLES
  id,        \* outbox_id of each message, 0 before it is enqueued
  last,      \* the AUTOINCREMENT counter of transactional_outbox
  status,    \* delivered_at and dead_lettered_at
  attempts,  \* ... attempts
  claimedBy, \* ... claimed_by
  live,      \* ... claimed_until is still ahead
  due,       \* ... available_at has passed
  receipt,   \* attempts of the row in outbox_delivery_receipts, or 0
  offset,    \* outbox_consumer_offsets.last_outbox_id of each partition
  recorded,  \* the handler's own delivery record exists
  phase,     \* where each dispatch loop is
  job        \* the message it has claimed and the attempt it is on

rowVars == <<id, last, status, attempts, claimedBy, live, due>>
vars == <<rowVars, receipt, offset, recorded, phase, job>>

Jobs == [message: Messages, attempt: Nat]

TypeOK ==
  /\ id \in [Messages -> Nat]
  /\ last \in Nat
  /\ status \in [Messages -> {"absent", "pending", "delivered", "dead"}]
  /\ attempts \in [Messages -> Nat]
  /\ claimedBy \in [Messages -> Workers \cup {None}]
  /\ live \in [Messages -> BOOLEAN]
  /\ due \in [Messages -> BOOLEAN]
  /\ receipt \in [Messages -> Nat]
  /\ offset \in [Partitions -> Nat]
  /\ recorded \in [Messages -> BOOLEAN]
  /\ phase \in [Workers -> {"idle", "handling", "handled", "failed"}]
  /\ job \in [Workers -> Jobs \cup {None}]
  /\ \A w \in Workers : phase[w] # "idle" => job[w] \in Jobs

Init ==
  /\ id = [m \in Messages |-> 0]
  /\ last = 0
  /\ status = [m \in Messages |-> "absent"]
  /\ attempts = [m \in Messages |-> 0]
  /\ claimedBy = [m \in Messages |-> None]
  /\ live = [m \in Messages |-> FALSE]
  /\ due = [m \in Messages |-> FALSE]
  /\ receipt = [m \in Messages |-> 0]
  /\ offset = [p \in Partitions |-> 0]
  /\ recorded = [m \in Messages |-> FALSE]
  /\ phase = [w \in Workers |-> "idle"]
  /\ job = [w \in Workers |-> None]

-----------------------------------------------------------------------------
Settled(m) == status[m] \in {"delivered", "dead"}

(* n was committed before m and to the same partition.                     *)
Precedes(n, m) == PartitionOf[n] = PartitionOf[m] /\ id[n] < id[m]

(* Mutants: predecessors are not looked for; only released rows are taken. *)
ClaimableOutOfOrder(m) == status[m] = "pending" /\ due[m] /\ ~live[m]
ClaimableReleased(m) ==
  /\ status[m] = "pending"
  /\ due[m]
  /\ claimedBy[m] = None
  /\ \A n \in Messages : status[n] = "pending" => ~Precedes(n, m)

(* The row the claim query selects: unsettled, due, unclaimed or with its  *)
(* claim run out, and behind no unsettled predecessor.                     *)
Claimable(m) ==
  /\ status[m] = "pending"
  /\ due[m]
  /\ ~live[m]
  /\ \A n \in Messages : status[n] = "pending" => ~Precedes(n, m)

(* Mutant: neither the worker nor the attempt is compared.                 *)
HoldsAnyClaim(w) == status[job[w].message] = "pending"

(* The fence of every settling UPDATE: claimed by this worker, and on the  *)
(* attempt it claimed.                                                     *)
HoldsClaim(w) ==
  LET m == job[w].message IN
  /\ status[m] = "pending"
  /\ claimedBy[m] = w
  /\ attempts[m] = job[w].attempt

(* Mutant: the attempt that is about to follow is counted.                 *)
OutOfAttemptsEarly(w) == job[w].attempt + 1 >= MaxAttempts

OutOfAttempts(w) == job[w].attempt >= MaxAttempts

(* Mutant: the message is forgotten in the middle of its handling.         *)
LetGoEarly(w) ==
  /\ job' = [job EXCEPT ![w] = None]
  /\ UNCHANGED phase

(* The loop lets its message go, to claim another or to end.               *)
LetGo(w) ==
  /\ phase' = [phase EXCEPT ![w] = "idle"]
  /\ job' = [job EXCEPT ![w] = None]

-----------------------------------------------------------------------------
(* A producer commits a message; a second enqueue of the same message      *)
(* changes nothing, or is rejected when its payload differs.               *)
Enqueue(m) ==
  /\ status[m] = "absent"
  /\ last' = last + 1
  /\ id' = [id EXCEPT ![m] = last + 1]
  /\ status' = [status EXCEPT ![m] = "pending"]
  /\ due' = [due EXCEPT ![m] = TRUE]
  /\ UNCHANGED <<attempts, claimedBy, live, receipt, offset, recorded, phase, job>>

Claim(w, m) ==
  /\ phase[w] = "idle"
  /\ Claimable(m)
  /\ \A n \in Messages : Claimable(n) => id[m] <= id[n]
  /\ attempts' = [attempts EXCEPT ![m] = @ + 1]
  /\ claimedBy' = [claimedBy EXCEPT ![m] = w]
  /\ live' = [live EXCEPT ![m] = TRUE]
  /\ phase' = [phase EXCEPT ![w] = "handling"]
  /\ job' = [job EXCEPT ![w] = [message |-> m, attempt |-> attempts[m] + 1]]
  /\ UNCHANGED <<id, last, status, due, receipt, offset, recorded>>

(* The registered handlers end by creating a delivery record stamped with  *)
(* the time, create-only: a run that finds an earlier run's record throws. *)
Handle(w) ==
  LET m == job[w].message IN
  /\ phase[w] = "handling"
  /\ recorded' = [recorded EXCEPT ![m] = TRUE]
  /\ phase' = [phase EXCEPT ![w] = IF recorded[m] THEN "failed" ELSE "handled"]
  /\ UNCHANGED <<rowVars, receipt, offset, job>>

(* The handler throws before its record, or the topic has no handler.      *)
Throw(w) ==
  /\ phase[w] = "handling"
  /\ phase' = [phase EXCEPT ![w] = "failed"]
  /\ UNCHANGED <<rowVars, receipt, offset, recorded, job>>

(* Acknowledgement: row, delivery receipt and partition offset together.   *)
Ack(w) ==
  LET m == job[w].message
      p == PartitionOf[m]
  IN
  /\ phase[w] = "handled"
  /\ HoldsClaim(w)
  /\ status' = [status EXCEPT ![m] = "delivered"]
  /\ claimedBy' = [claimedBy EXCEPT ![m] = None]
  /\ live' = [live EXCEPT ![m] = FALSE]
  /\ receipt' = [receipt EXCEPT ![m] = job[w].attempt]
  /\ offset' = [offset EXCEPT ![p] = IF id[m] > @ THEN id[m] ELSE @]
  /\ LetGo(w)
  /\ UNCHANGED <<id, last, attempts, due, recorded>>

(* The claim was lost: the acknowledgement throws into the loop's catch.   *)
AckLost(w) ==
  /\ phase[w] = "handled"
  /\ ~HoldsClaim(w)
  /\ phase' = [phase EXCEPT ![w] = "failed"]
  /\ UNCHANGED <<rowVars, receipt, offset, recorded, job>>

(* The catch block below the attempt limit: released, due after a backoff. *)
Retry(w) ==
  LET m == job[w].message IN
  /\ phase[w] = "failed"
  /\ HoldsClaim(w)
  /\ ~OutOfAttempts(w)
  /\ due' = [due EXCEPT ![m] = FALSE]
  /\ claimedBy' = [claimedBy EXCEPT ![m] = None]
  /\ live' = [live EXCEPT ![m] = FALSE]
  /\ LetGo(w)
  /\ UNCHANGED <<id, last, status, attempts, receipt, offset, recorded>>

(* The catch block at the attempt limit.                                   *)
DeadLetter(w) ==
  LET m == job[w].message IN
  /\ phase[w] = "failed"
  /\ HoldsClaim(w)
  /\ OutOfAttempts(w)
  /\ status' = [status EXCEPT ![m] = "dead"]
  /\ claimedBy' = [claimedBy EXCEPT ![m] = None]
  /\ live' = [live EXCEPT ![m] = FALSE]
  /\ LetGo(w)
  /\ UNCHANGED <<id, last, attempts, due, receipt, offset, recorded>>

(* The catch block without the claim: the error leaves dispatchAvailable.  *)
FailLost(w) ==
  /\ phase[w] = "failed"
  /\ ~HoldsClaim(w)
  /\ LetGo(w)
  /\ UNCHANGED <<rowVars, receipt, offset, recorded>>

-----------------------------------------------------------------------------
(* claimed_until passes, whatever its worker is doing.                     *)
ExpireClaim(m) ==
  /\ live[m]
  /\ attempts[m] < MaxClaims
  /\ live' = [live EXCEPT ![m] = FALSE]
  /\ UNCHANGED <<id, last, status, attempts, claimedBy, due, receipt, offset,
                 recorded, phase, job>>

(* available_at passes.                                                    *)
BackoffEnds(m) ==
  /\ status[m] = "pending"
  /\ ~due[m]
  /\ due' = [due EXCEPT ![m] = TRUE]
  /\ UNCHANGED <<id, last, status, attempts, claimedBy, live, receipt, offset,
                 recorded, phase, job>>

(* The operator's REQUEUE_STALE_OUTBOX: expired claims are released.       *)
Stale(m) == status[m] # "delivered" /\ claimedBy[m] # None /\ ~live[m]

RequeueStale ==
  /\ \E m \in Messages : Stale(m)
  /\ claimedBy' = [m \in Messages |-> IF Stale(m) THEN None ELSE claimedBy[m]]
  /\ due' = [m \in Messages |-> Stale(m) \/ due[m]]
  /\ UNCHANGED <<id, last, status, attempts, live, receipt, offset, recorded,
                 phase, job>>

(* A loop dies with its process.                                           *)
Crash(w) ==
  /\ phase[w] # "idle"
  /\ HoldsClaim(w) => job[w].attempt < MaxClaims
  /\ LetGo(w)
  /\ UNCHANGED <<rowVars, receipt, offset, recorded>>

Settle(w) == AckLost(w) \/ Ack(w) \/ Retry(w) \/ DeadLetter(w) \/ FailLost(w)

Step(w) ==
  \/ \E m \in Messages : Claim(w, m)
  \/ Handle(w)
  \/ Throw(w)
  \/ Settle(w)

Next ==
  \/ \E m \in Messages : Enqueue(m)
  \/ \E w \in Workers : Step(w)
  \/ \E m \in Messages : ExpireClaim(m)
  \/ \E m \in Messages : BackoffEnds(m)
  \/ RequeueStale
  \/ \E w \in Workers : Crash(w)

Spec == Init /\ [][Next]_vars

(* Coordination maintenance runs a dispatch loop every second, a handler   *)
(* ends one way or the other, and the clock passes claims and backoffs.    *)
FairSpec ==
  /\ Spec
  /\ \A w \in Workers : WF_vars(Step(w))
  /\ \A m \in Messages : WF_vars(ExpireClaim(m)) /\ WF_vars(BackoffEnds(m))

-----------------------------------------------------------------------------
(* A handler takes effect for a message only when every message committed  *)
(* to its partition before it has settled.                                 *)
EffectsInOrder ==
  \A m, n \in Messages : recorded[m] /\ status[n] # "absent" /\ Precedes(n, m)
    => Settled(n)

(* A partition's offset is the newest delivery in it, and nothing at or    *)
(* before it is still to be settled: a consumer that reads offsets never   *)
(* skips a message, whatever was reordered, retried or dead-lettered.      *)
OffsetsHaveNoGaps ==
  \A m \in Messages :
    /\ status[m] = "pending" => offset[PartitionOf[m]] < id[m]
    /\ status[m] = "delivered" => id[m] <= offset[PartitionOf[m]]

(* A delivery receipt is proof that a handler took effect: it exists for   *)
(* delivered messages only and names the attempt that won the row.         *)
ReceiptsAreProof ==
  \A m \in Messages :
    /\ (receipt[m] # 0) <=> (status[m] = "delivered")
    /\ receipt[m] # 0 => recorded[m] /\ receipt[m] = attempts[m]

(* Nothing is dead-lettered before its attempts are used up.               *)
DeadLettersWereTried ==
  \A m \in Messages : status[m] = "dead" => attempts[m] >= MaxAttempts

(* A loop whose claim ran out and passed to another attempt changes no row *)
(* when its handler comes back late.                                       *)
StaleLoopsAreFenced ==
  [][\A w \in Workers :
       /\ phase[w] \in {"handled", "failed"} /\ phase'[w] # phase[w]
       /\ attempts[job[w].message] # job[w].attempt
       => UNCHANGED <<rowVars, receipt, offset>>]_vars

(* The outbox implements ordered delivery per partition.                   *)
Promise == INSTANCE OrderedDelivery WITH place <- id, outcome <- status
ImplementsPromise == Promise!Spec

(* Every message is delivered or dead-lettered in the end, so no partition *)
(* is blocked for ever.                                                    *)
EveryMessageSettles == \A m \in Messages : status[m] = "pending" ~> Settled(m)

(* docs/docs/24-operations-runbook.md:159 says the outbox is redelivered   *)
(* idempotently: a message whose handler has taken effect does not become  *)
(* a dead letter because it was delivered again.                           *)
RedeliveryIsIdempotent ==
  \A m \in Messages : recorded[m] => status[m] # "dead"
=============================================================================

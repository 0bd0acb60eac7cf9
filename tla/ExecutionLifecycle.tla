------------------------- MODULE ExecutionLifecycle -------------------------
(***************************************************************************)
(* The ledger of execution attempts of one immutable Task version          *)
(* (packages/core/src/execution-lifecycle.ts).  An attempt has exactly one *)
(* Activation and one Dispatch, so one record holds the three.  Every      *)
(* update is a read-compute-CAS on the aggregate's row, recomputed on the  *)
(* latest row when the CAS fails: it is one atomic step here, and an       *)
(* update that gives up (or is denied) changes nothing.                    *)
(*                                                                         *)
(* The module makes no assumption on its callers: any operation may come   *)
(* at any time, from anyone.  DepartmentSpawn gives the callers the code   *)
(* has.  WAITING is left out: no operation writes it.                      *)
(***************************************************************************)
EXTENDS Naturals, Sequences

CONSTANT Keys       \* dispatch keys; a key stands for one payload hash

VARIABLES
  records,          \* the aggregate: attempt n with its activation and dispatch
  found             \* what the running reconciliation listed as expired

ledgerVars == <<records, found>>

Ended == {"SETTLED", "FAILED", "CANCELLED", "LOST"}
ActivationStates == {"RESERVED", "STARTING", "RUNNING"} \cup Ended
AttemptStates == {"RESERVED", "DISPATCHING", "RUNNING"} \cup Ended
DispatchEnded == {"SETTLED", "RECOVERY_REQUIRED", "FAILED", "CANCELLED"}
DispatchStates == {"PENDING", "ACCEPTED", "STARTED"} \cup DispatchEnded
Numbers == DOMAIN records

\* The states markDispatch may be asked for; SETTLED it only ever replays.
Marks == DispatchStates \ {"PENDING", "SETTLED"}

Record == [key : Keys, attempt : AttemptStates, activation : ActivationStates,
           dispatch : DispatchStates, bound : BOOLEAN,
           lease : {"none", "fresh", "expired"},
           receipt : {"none", "settlement", "expiry"}]

DispatchStep(from, to) ==
  \/ from = "PENDING"  /\ to \in {"ACCEPTED", "STARTED", "RECOVERY_REQUIRED",
                                  "FAILED", "CANCELLED"}
  \/ from = "ACCEPTED" /\ to \in {"STARTED", "RECOVERY_REQUIRED", "FAILED", "CANCELLED"}
  \/ from = "STARTED"  /\ to \in {"SETTLED", "RECOVERY_REQUIRED", "FAILED", "CANCELLED"}

ActivationStep(from, to) ==
  \/ from = to
  \/ from = "RESERVED" /\ to \in {"STARTING", "FAILED", "CANCELLED", "LOST"}
  \/ from = "STARTING" /\ to \in {"RUNNING", "FAILED", "CANCELLED", "LOST"}
  \/ from = "RUNNING"  /\ to \in Ended

AttemptStep(from, to) ==
  \/ from = to
  \/ from = "RESERVED"    /\ to \in {"DISPATCHING", "FAILED", "CANCELLED", "LOST"}
  \/ from = "DISPATCHING" /\ to \in {"RUNNING", "FAILED", "CANCELLED", "LOST"}
  \/ from = "RUNNING"     /\ to \in Ended

-----------------------------------------------------------------------------
(* Operations.  Each is enabled exactly when the code neither throws nor    *)
(* answers from what is already recorded.                                   *)

Init == records = << >> /\ found = {}

Exact(k) == {n \in Numbers : records[n].key = k}
Active == {n \in Numbers : records[n].dispatch \notin DispatchEnded}

NewRecord(k) == [key |-> k, attempt |-> "RESERVED", activation |-> "RESERVED",
                 dispatch |-> "PENDING", bound |-> FALSE, lease |-> "none",
                 receipt |-> "none"]

\* A reservation that forgets the lock on the active dispatch.
MayReserveAnyway(k) == Exact(k) = {}
MayReserve(k) == Exact(k) = {} /\ Active = {}

Reserve(k) ==
  /\ MayReserve(k)
  /\ records' = Append(records, NewRecord(k))
  /\ UNCHANGED found

CanBind(r) == ~r.bound /\ r.activation \notin Ended

BoundTo(r) ==
  [r EXCEPT !.bound = TRUE,
            !.activation = IF @ = "RESERVED" THEN "STARTING" ELSE @,
            !.lease = IF r.activation = "RUNNING" THEN @ ELSE "fresh"]

Bind(n) ==
  /\ CanBind(records[n])
  /\ records' = [records EXCEPT ![n] = BoundTo(@)]
  /\ UNCHANGED found

CanBeat(r) == r.activation \in {"STARTING", "RUNNING"}

\* A heartbeat that leaves the attempt where it was.
BeatenAlone(r) == [r EXCEPT !.activation = "RUNNING", !.lease = "fresh"]

Beaten(r) == [r EXCEPT !.activation = "RUNNING", !.lease = "fresh",
                       !.attempt = IF @ = "DISPATCHING" THEN "RUNNING" ELSE @]

Heartbeat(n) ==
  /\ CanBeat(records[n])
  /\ records' = [records EXCEPT ![n] = Beaten(@)]
  /\ UNCHANGED found

ActivationFor(to) ==
  CASE to = "ACCEPTED" -> "STARTING"
    [] to = "STARTED" -> "RUNNING"
    [] to = "RECOVERY_REQUIRED" -> "LOST"
    [] OTHER -> to

AttemptFor(to) == IF to = "ACCEPTED" THEN "DISPATCHING" ELSE ActivationFor(to)

CanMark(r, to) ==
  /\ DispatchStep(r.dispatch, to)
  /\ \/ to = "STARTED" /\ r.activation = "RESERVED"
     \/ ActivationStep(r.activation, ActivationFor(to))
  /\ \/ to = "STARTED" /\ r.attempt = "RESERVED"
     \/ AttemptStep(r.attempt, AttemptFor(to))

\* Nothing reads the lease of an activation that has ended.
LeaseFor(to) == IF to \in {"ACCEPTED", "STARTED"} THEN "fresh" ELSE "none"

\* A mark that leaves the attempt to somebody else.
MarkedPartly(r, to) ==
  [r EXCEPT !.dispatch = to, !.activation = ActivationFor(to), !.lease = LeaseFor(to)]

Marked(r, to) ==
  [r EXCEPT !.dispatch = to, !.activation = ActivationFor(to),
            !.attempt = AttemptFor(to), !.lease = LeaseFor(to)]

Mark(n, to) ==
  /\ CanMark(records[n], to)
  /\ records' = [records EXCEPT ![n] = Marked(@, to)]
  /\ UNCHANGED found

\* A settlement that writes the activation's outcome into the dispatch.
DispatchForAsActivation(outcome) == outcome

DispatchFor(outcome) == IF outcome = "LOST" THEN "RECOVERY_REQUIRED" ELSE outcome

\* A settlement that only guards against a premature success.
CanSettleAgain(r, outcome) == outcome = "SETTLED" => r.activation = "RUNNING"

CanSettle(r, outcome) ==
  /\ r.activation \notin Ended
  /\ ActivationStep(r.activation, outcome)
  /\ AttemptStep(r.attempt, outcome)

Settled(r, outcome, receipt) ==
  [r EXCEPT !.activation = outcome, !.attempt = outcome,
            !.dispatch = DispatchFor(outcome), !.lease = "none", !.receipt = receipt]

Settle(n, outcome) ==
  /\ CanSettle(records[n], outcome)
  /\ records' = [records EXCEPT ![n] = Settled(@, outcome, "settlement")]
  /\ UNCHANGED found

-----------------------------------------------------------------------------
(* Time, and the reconciliation that follows it                             *)

\* heartbeatExpiresAt (or, before the first heartbeat, updatedAt plus the
\* lease) passes.
Expire(n) ==
  /\ records[n].lease = "fresh"
  /\ records' = [records EXCEPT ![n].lease = "expired"]
  /\ UNCHANGED found

\* A listing that waits for a first heartbeat.
ExpiredRunning == {n \in Numbers : records[n].lease = "expired"
                                     /\ records[n].activation = "RUNNING"}

\* Live and started, and out of time.
Expired == {n \in Numbers : records[n].lease = "expired"}

ListExpired ==
  /\ found = {}
  /\ Expired # {}
  /\ found' = Expired
  /\ UNCHANGED records

\* The listing is not read again: an activation that ended since is skipped,
\* any other is settled as LOST.
SettleExpired(n) ==
  /\ n \in found
  /\ found' = found \ {n}
  /\ records' = IF CanSettle(records[n], "LOST")
                THEN [records EXCEPT ![n] = Settled(@, "LOST", "expiry")]
                ELSE records

\* A listing is abandoned: a store failure breaks the loop off, or its host
\* stops.
Abandon ==
  /\ found # {}
  /\ found' = {}
  /\ UNCHANGED records

Operation(n) ==
  \/ Bind(n)
  \/ Heartbeat(n)
  \/ \E to \in Marks : Mark(n, to)
  \/ \E outcome \in Ended : Settle(n, outcome)
  \/ Expire(n)
  \/ SettleExpired(n)

Next ==
  \/ \E k \in Keys : Reserve(k)
  \/ \E n \in Numbers : Operation(n)
  \/ ListExpired
  \/ Abandon

Spec == Init /\ [][Next]_ledgerVars

-----------------------------------------------------------------------------
(* Properties                                                               *)

\* The variables stay in their types.
TypeOK == records \in Seq(Record) /\ found \subseteq Numbers

\* The three layers of one attempt end together and with the same outcome,
\* whether markDispatch, settleActivation or the reconciliation ended it
\* (execution-lifecycle.ts:563-749).
EndsTogether(r) ==
  r.attempt \in Ended \/ r.activation \in Ended \/ r.dispatch \in DispatchEnded
    => /\ r.activation \in Ended
       /\ r.attempt = r.activation
       /\ r.dispatch = DispatchFor(r.activation)
LayersEndTogether == \A n \in Numbers : EndsTogether(records[n])

\* A dispatch that the transport took (ACCEPTED, STARTED) never runs ahead of
\* or behind its attempt: a started dispatch has a running attempt, and once
\* accepted the attempt runs exactly when its activation does
\* (heartbeatActivation and markDispatch, execution-lifecycle.ts:463-637).
AdvancesTogether(r) ==
  /\ r.dispatch = "STARTED" => r.activation = "RUNNING" /\ r.attempt = "RUNNING"
  /\ r.dispatch = "ACCEPTED" => /\ r.attempt # "RESERVED"
                                /\ r.attempt = "RUNNING" <=> r.activation = "RUNNING"
LayersAdvanceTogether == \A n \in Numbers : AdvancesTogether(records[n])

\* Only the newest attempt of a Task version is live, and no two attempts
\* came from one dispatch key (reserveTaskDispatch, execution-lifecycle.ts:336-357).
OnlyNewestAttemptLives ==
  \A m, n \in Numbers : m < n =>
    /\ records[m].activation \in Ended
    /\ records[m].key # records[n].key

\* An attempt that has ended is never touched again: no late mark, binding,
\* heartbeat, settlement or reconciliation reopens it or changes its outcome
\* or its receipt (execution-lifecycle.ts:425-749).
EndedStaysEnded ==
  [][\A n \in Numbers : records[n].activation \in Ended
        => n \in DOMAIN records' /\ records'[n] = records[n]]_ledgerVars

\* The attempts of a Task version follow one another (AttemptHistory).
History == INSTANCE AttemptHistory WITH
  Outcomes <- Ended,
  history <- [n \in Numbers |->
                IF records[n].activation \in Ended THEN records[n].activation ELSE "open"]
KeepsAttemptHistory == History!Spec
=============================================================================

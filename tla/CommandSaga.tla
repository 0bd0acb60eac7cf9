----------------------------- MODULE CommandSaga -----------------------------
(***************************************************************************)
(* The durable command Saga of one mission: SingleWriterMissionKernel in   *)
(* front of SqliteMilitaryLedger.transactCommand.  A command is admitted   *)
(* in one SQLite transaction, its operation runs outside any transaction   *)
(* under a 30 s lease, its result is checkpointed in a second transaction  *)
(* and the receipt, the outbox row and the COMMITTED fence are written in  *)
(* a third.  Several processes share the database, may crash between any   *)
(* two transactions, and may still be running an operation whose lease     *)
(* has run out.                                                            *)
(***************************************************************************)
EXTENDS Naturals, Sequences

CONSTANTS Keys,       \* idempotency keys
          Payloads,   \* payload hash and semantic fingerprint of a command
          Values,     \* results of an operation
          Callers,    \* call sites that submit commands
          Hosts,      \* processes that open the database
          HostOf,     \* the process each call site lives in
          Ids,        \* command ids (uuids); recycled once nobody holds them
          None,
          MaxForeign  \* bound: events appended by writers outside the kernel

VARIABLES
  log,      \* mission_events: the event stream, <<[kind, key], ...>>
  state,    \* mission_command_operations.state, or "ABSENT"
  payload,  \* ... payload_sha256 and command_fingerprint
  prev,     \* ... previous_seq
  owner,    \* ... lease_owner
  leased,   \* ... lease_until is still ahead
  result,   \* ... result_json
  receipt,  \* mission_command_receipts
  outbox,   \* number of 'mission-command.committed' rows of each key
  tail,     \* the kernel's promise chain of each process, oldest first
  pc,       \* where each call is
  call,     \* the command of each call in flight
  replies   \* history: every successful reply a caller has been given

opVars == <<state, payload, prev, owner, leased, result>>
vars == <<log, opVars, receipt, outbox, tail, pc, call, replies>>

States == {"ABSENT", "PENDING_EFFECT", "RETRYABLE", "EFFECT_APPLIED", "COMMITTED"}
Events == [kind: {"admitted", "domain", "foreign"}, key: Keys \cup {None}]
Calls  == [id: Ids, key: Keys, payload: Payloads, revision: Nat]
Receipts == [payload: Payloads, from: Nat, to: Nat, value: Values]
Opened == [key: Keys, payload: Payloads, from: Nat]

ASSUME SagaAssumption ==
  /\ HostOf \in [Callers -> Hosts]
  /\ MaxForeign \in Nat
  /\ None \notin Ids \cup Keys \cup Payloads \cup Values
  /\ None \notin Receipts /\ None \notin Calls /\ None \notin Opened

TypeOK ==
  /\ log \in Seq(Events)
  /\ state \in [Keys -> States]
  /\ payload \in [Keys -> Payloads \cup {None}]
  /\ prev \in [Keys -> Nat]
  /\ owner \in [Keys -> Ids \cup {None}]
  /\ leased \in [Keys -> BOOLEAN]
  /\ result \in [Keys -> Values \cup {None}]
  /\ receipt \in [Keys -> Receipts \cup {None}]
  /\ outbox \in [Keys -> Nat]
  /\ tail \in [Hosts -> Seq(Callers)]
  /\ pc \in [Callers -> {"idle", "queued", "effect", "applied", "final"}]
  /\ call \in [Callers -> Calls \cup {None}]
  /\ \A c \in Callers : pc[c] # "idle" => call[c] \in Calls
  /\ replies \subseteq [key: Keys, receipt: Receipts]

Init ==
  /\ log = <<>>
  /\ state = [k \in Keys |-> "ABSENT"]
  /\ payload = [k \in Keys |-> None]
  /\ prev = [k \in Keys |-> 0]
  /\ owner = [k \in Keys |-> None]
  /\ leased = [k \in Keys |-> FALSE]
  /\ result = [k \in Keys |-> None]
  /\ receipt = [k \in Keys |-> None]
  /\ outbox = [k \in Keys |-> 0]
  /\ tail = [h \in Hosts |-> <<>>]
  /\ pc = [c \in Callers |-> "idle"]
  /\ call = [c \in Callers |-> None]
  /\ replies = {}

-----------------------------------------------------------------------------
(* An operation row that is not COMMITTED blocks every other command.      *)
IsOpen(k) == state[k] \notin {"ABSENT", "COMMITTED"}

(* The ids a fresh uuid differs from: every id something still compares.   *)
HeldIds == {call[c].id : c \in {d \in Callers : pc[d] # "idle"}}
             \cup {owner[k] : k \in Keys}

(* Mutant: the idempotency key of an event is not looked up.               *)
AppendAlways(e) == log' = Append(log, e)

(* Idempotent append: an event whose idempotency key is already in the     *)
(* stream is not appended again (same type, actor and payload).            *)
AppendOnce(e) ==
  log' = IF \E i \in DOMAIN log : log[i] = e THEN log ELSE Append(log, e)

(* Mutant: the call is forgotten while it is still in progress.            *)
ReturnEarly(c) ==
  /\ call' = [call EXCEPT ![c] = None]
  /\ tail' = [tail EXCEPT ![HostOf[c]] = Tail(@)]
  /\ UNCHANGED pc

(* Mutant: the chain waits for ever behind a call that is gone.            *)
ReturnUnchained(c) ==
  /\ pc' = [pc EXCEPT ![c] = "idle"]
  /\ call' = [call EXCEPT ![c] = None]
  /\ UNCHANGED tail

(* The call leaves the kernel's chain, whether it resolved or rejected.    *)
Return(c) ==
  /\ pc' = [pc EXCEPT ![c] = "idle"]
  /\ call' = [call EXCEPT ![c] = None]
  /\ tail' = [tail EXCEPT ![HostOf[c]] = Tail(@)]

Reject(c) ==
  /\ Return(c)
  /\ UNCHANGED replies

Reply(c, k, r) ==
  /\ Return(c)
  /\ replies' = replies \cup {[key |-> k, receipt |-> r]}

-----------------------------------------------------------------------------
(* runMissionCommand reads the mission's revision, builds a command with a *)
(* fresh id and chains it behind the process's earlier calls.              *)
Submit(c, k, p) ==
  /\ pc[c] = "idle"
  /\ \E i \in Ids \ HeldIds :
       call' = [call EXCEPT ![c] =
                 [id |-> i, key |-> k, payload |-> p, revision |-> Len(log)]]
  /\ pc' = [pc EXCEPT ![c] = "queued"]
  /\ tail' = [tail EXCEPT ![HostOf[c]] = Append(@, c)]
  /\ UNCHANGED <<log, opVars, receipt, outbox, replies>>

(* Mutant: a call does not wait for its predecessors.                      *)
TurnAtOnce(c) == pc[c] = "queued"

(* The call's turn in the kernel: its predecessors have settled.           *)
Turn(c) == pc[c] = "queued" /\ Head(tail[HostOf[c]]) = c

SamePayload(c) == payload[call[c].key] = call[c].payload

(* Admission transaction, receipt already there: answered from it.         *)
AdmitDuplicate(c) ==
  LET k == call[c].key IN
  /\ Turn(c)
  /\ receipt[k] # None
  /\ IF receipt[k].payload = call[c].payload
       THEN Reply(c, k, receipt[k])
       ELSE Reject(c)
  /\ UNCHANGED <<log, opVars, receipt, outbox>>

(* Mutant: an open operation of another key is not looked for.             *)
MayOpenAlongside(c) == call[c].revision = Len(log)

(* Admission transaction, first sight of the key: nothing else may be open *)
(* and the revision must still be the one the caller read.                 *)
MayOpen(c) ==
  /\ \A j \in Keys \ {call[c].key} : ~IsOpen(j)
  /\ call[c].revision = Len(log)

AdmitFirst(c) ==
  LET k == call[c].key IN
  /\ Turn(c)
  /\ receipt[k] = None
  /\ state[k] = "ABSENT"
  /\ IF MayOpen(c)
       THEN /\ log' = Append(log, [kind |-> "admitted", key |-> k])
            /\ state' = [state EXCEPT ![k] = "PENDING_EFFECT"]
            /\ payload' = [payload EXCEPT ![k] = call[c].payload]
            /\ prev' = [prev EXCEPT ![k] = Len(log)]
            /\ owner' = [owner EXCEPT ![k] = call[c].id]
            /\ leased' = [leased EXCEPT ![k] = TRUE]
            /\ pc' = [pc EXCEPT ![c] = "effect"]
            /\ UNCHANGED <<result, tail, call, replies>>
       ELSE /\ Reject(c)
            /\ UNCHANGED <<log, opVars>>
  /\ UNCHANGED <<receipt, outbox>>

(* Mutant: a lease that ran out is not taken over.                         *)
MayTakeOverFailed(k) == state[k] = "RETRYABLE"

(* Admission transaction, operation left behind: RETRYABLE, or PENDING     *)
(* with its lease run out, is leased again; a live lease is RESOURCE_LOCKED. *)
MayTakeOver(k) ==
  \/ state[k] = "RETRYABLE"
  \/ state[k] = "PENDING_EFFECT" /\ ~(owner[k] # None /\ leased[k])

AdmitRetry(c) ==
  LET k == call[c].key IN
  /\ Turn(c)
  /\ state[k] \in {"RETRYABLE", "PENDING_EFFECT"}
  /\ IF SamePayload(c) /\ MayTakeOver(k)
       THEN /\ state' = [state EXCEPT ![k] = "PENDING_EFFECT"]
            /\ owner' = [owner EXCEPT ![k] = call[c].id]
            /\ leased' = [leased EXCEPT ![k] = TRUE]
            /\ pc' = [pc EXCEPT ![c] = "effect"]
            /\ UNCHANGED <<payload, prev, result, tail, call, replies>>
       ELSE Reject(c) /\ UNCHANGED opVars
  /\ UNCHANGED <<log, receipt, outbox>>

(* Admission transaction, result already checkpointed: no effect is run.   *)
AdmitApplied(c) ==
  /\ Turn(c)
  /\ state[call[c].key] = "EFFECT_APPLIED"
  /\ IF SamePayload(c)
       THEN pc' = [pc EXCEPT ![c] = "final"] /\ UNCHANGED <<tail, call, replies>>
       ELSE Reject(c)
  /\ UNCHANGED <<log, opVars, receipt, outbox>>

(* The operation runs outside any transaction and appends its domain event *)
(* under a key derived from the command.                                   *)
RunEffect(c) ==
  /\ pc[c] = "effect"
  /\ AppendOnce([kind |-> "domain", key |-> call[c].key])
  /\ pc' = [pc EXCEPT ![c] = "applied"]
  /\ UNCHANGED <<opVars, receipt, outbox, tail, call, replies>>

(* Mutants: the lease is not compared; neither lease nor state is.         *)
HoldsAnyLease(c) == state[call[c].key] = "PENDING_EFFECT"
HoldsNothing(c) == call[c].key \in Keys

HoldsLease(c) ==
  /\ state[call[c].key] = "PENDING_EFFECT"
  /\ owner[call[c].key] = call[c].id

(* The operation returned: checkpoint its result, unless the lease has     *)
(* passed to another command id, in which case the call is rejected.       *)
Checkpoint(c, v) ==
  LET k == call[c].key IN
  /\ pc[c] = "applied"
  /\ IF HoldsLease(c)
       THEN /\ state' = [state EXCEPT ![k] = "EFFECT_APPLIED"]
            /\ result' = [result EXCEPT ![k] = v]
            /\ owner' = [owner EXCEPT ![k] = None]
            /\ leased' = [leased EXCEPT ![k] = FALSE]
            /\ pc' = [pc EXCEPT ![c] = "final"]
            /\ UNCHANGED <<payload, prev, tail, call, replies>>
       ELSE Reject(c) /\ UNCHANGED opVars
  /\ UNCHANGED <<log, receipt, outbox>>

(* The operation threw, before or after its event: RETRYABLE if the lease  *)
(* is still this call's, and the error goes to the caller either way.      *)
FailEffect(c) ==
  LET k == call[c].key IN
  /\ pc[c] \in {"effect", "applied"}
  /\ IF HoldsLease(c)
       THEN /\ state' = [state EXCEPT ![k] = "RETRYABLE"]
            /\ owner' = [owner EXCEPT ![k] = None]
            /\ leased' = [leased EXCEPT ![k] = FALSE]
            /\ UNCHANGED <<payload, prev, result>>
       ELSE UNCHANGED opVars
  /\ Reject(c)
  /\ UNCHANGED <<log, receipt, outbox>>

(* Mutant: the admission event is left out of the receipt.                 *)
NewReceiptShort(k) ==
  [payload |-> payload[k], from |-> prev[k] + 1, to |-> Len(log), value |-> result[k]]

NewReceipt(k) ==
  [payload |-> payload[k], from |-> prev[k], to |-> Len(log), value |-> result[k]]

(* Mutant: finalisation looks at neither the receipt nor the state.        *)
FinalizeAgain(c) ==
  LET k == call[c].key IN
  /\ pc[c] = "final"
  /\ outbox' = [outbox EXCEPT ![k] = @ + 1]
  /\ receipt' = [receipt EXCEPT ![k] = NewReceipt(k)]
  /\ state' = [state EXCEPT ![k] = "COMMITTED"]
  /\ Reply(c, k, NewReceipt(k))
  /\ UNCHANGED <<log, payload, prev, owner, leased, result>>

(* Finalisation transaction: outbox row, receipt and COMMITTED fence, or   *)
(* the receipt another process has written meanwhile.                      *)
Finalize(c) ==
  LET k == call[c].key IN
  /\ pc[c] = "final"
  /\ IF receipt[k] # None
       THEN /\ Reply(c, k, receipt[k])
            /\ UNCHANGED <<state, receipt, outbox>>
       ELSE /\ state[k] = "EFFECT_APPLIED"
            /\ outbox' = [outbox EXCEPT ![k] = @ + 1]
            /\ receipt' = [receipt EXCEPT ![k] = NewReceipt(k)]
            /\ state' = [state EXCEPT ![k] = "COMMITTED"]
            /\ Reply(c, k, NewReceipt(k))
  /\ UNCHANGED <<log, payload, prev, owner, leased, result>>

-----------------------------------------------------------------------------
(* lease_until passes.                                                     *)
ExpireLease(k) ==
  /\ state[k] = "PENDING_EFFECT"
  /\ leased[k]
  /\ leased' = [leased EXCEPT ![k] = FALSE]
  /\ UNCHANGED <<log, state, payload, prev, owner, result, receipt, outbox,
                 tail, pc, call, replies>>

(* A process dies: its calls and its promise chain are gone.               *)
Crash(h) ==
  /\ \E c \in Callers : HostOf[c] = h /\ pc[c] # "idle"
  /\ tail' = [tail EXCEPT ![h] = <<>>]
  /\ pc' = [c \in Callers |-> IF HostOf[c] = h THEN "idle" ELSE pc[c]]
  /\ call' = [c \in Callers |-> IF HostOf[c] = h THEN None ELSE call[c]]
  /\ UNCHANGED <<log, opVars, receipt, outbox, replies>>

ForeignEvent == [kind |-> "foreign", key |-> None]

(* Maintenance, model hooks and remote calls append to the mission without *)
(* going through the kernel.                                               *)
ForeignAppend ==
  /\ Len(SelectSeq(log, LAMBDA e : e = ForeignEvent)) < MaxForeign
  /\ log' = Append(log, ForeignEvent)
  /\ UNCHANGED <<opVars, receipt, outbox, tail, pc, call, replies>>

Step(c) ==
  \/ AdmitDuplicate(c)
  \/ AdmitFirst(c)
  \/ AdmitRetry(c)
  \/ AdmitApplied(c)
  \/ RunEffect(c)
  \/ \E v \in Values : Checkpoint(c, v)
  \/ FailEffect(c)
  \/ Finalize(c)

Next ==
  \/ \E c \in Callers, k \in Keys, p \in Payloads : Submit(c, k, p)
  \/ \E c \in Callers : Step(c)
  \/ \E k \in Keys : ExpireLease(k)
  \/ \E h \in Hosts : Crash(h)
  \/ ForeignAppend

Spec == Init /\ [][Next]_vars

(* The scheduler runs every call that can take a step, operations end, and *)
(* the clock passes every lease.                                           *)
Scheduling ==
  /\ \A c \in Callers : WF_vars(Step(c))
  /\ \A k \in Keys : WF_vars(ExpireLease(k))

(* The recovery contract of the callers: an unsettled command is submitted *)
(* again and again, its turn comes again and again, and an operation tried *)
(* for ever ends at last within its lease.                                 *)
Holding(c, k) == pc[c] \in {"effect", "applied"} /\ call[c].key = k /\ HoldsLease(c)

Recovery(k) ==
  /\ SF_vars(\E c \in Callers : Submit(c, k, payload[k]))
  /\ SF_vars(/\ MayTakeOver(k) \/ state[k] = "EFFECT_APPLIED"
             /\ \E c \in Callers : /\ Turn(c)
                                   /\ call[c].key = k
                                   /\ SamePayload(c)
                                   /\ AdmitRetry(c) \/ AdmitApplied(c))
  /\ SF_vars(\E c \in Callers : Holding(c, k) /\ RunEffect(c))
  /\ SF_vars(\E c \in Callers, v \in Values : Holding(c, k) /\ Checkpoint(c, v))
  /\ SF_vars(\E c \in Callers : pc[c] = "final" /\ call[c].key = k /\ Finalize(c))

FairSpec == Spec /\ Scheduling

-----------------------------------------------------------------------------
(* At most one command of the mission is between admission and its commit, *)
(* however many processes submit, crash, take leases over or lose them.    *)
SingleOpenCommand == \A j, k \in Keys : IsOpen(j) /\ IsOpen(k) => j = k

(* The promise chain serialises a process: one call at a time is past      *)
(* admission, it is the oldest of the chain, and nobody is in it twice.    *)
OneCallPerProcess ==
  /\ \A h \in Hosts : \A i, j \in DOMAIN tail[h] :
       tail[h][i] = tail[h][j] => i = j
  /\ \A c \in Callers : pc[c] \in {"effect", "applied", "final"} =>
       tail[HostOf[c]] # <<>> /\ Head(tail[HostOf[c]]) = c

(* The receipt, the outbox row and the COMMITTED fence are one fact: none  *)
(* exists without the others and no command is announced twice.            *)
CommittedOnce ==
  \A k \in Keys :
    /\ (state[k] = "COMMITTED") <=> (receipt[k] # None)
    /\ outbox[k] = IF receipt[k] = None THEN 0 ELSE 1

(* A call that goes on to finalise always finds the checkpoint it needs:   *)
(* "effect has no durable completion checkpoint" cannot happen.            *)
FinalizerFindsCheckpoint ==
  \A c \in Callers : pc[c] = "final" =>
    /\ state[call[c].key] \in {"EFFECT_APPLIED", "COMMITTED"}
    /\ result[call[c].key] # None

(* The positions of the stream a receipt lists as its eventIds.            *)
Stretch(r) == r.from + 1 .. r.to

(* A receipt lists exactly its own admission and domain events among the   *)
(* commands' events, and no event is listed by two receipts, even when the *)
(* operation was retried, taken over or ran twice.                         *)
ReceiptsOwnTheirEvents ==
  \A k \in Keys : receipt[k] # None =>
    /\ receipt[k].to <= Len(log)
    /\ \A i \in DOMAIN log : log[i].kind # "foreign" =>
         (log[i].key = k <=> i \in Stretch(receipt[k]))
    /\ \A j \in Keys \ {k} : receipt[j] # None =>
         Stretch(receipt[j]) \cap Stretch(receipt[k]) = {}

(* Re-execution never duplicates what an operation appends: the stream has *)
(* one admission and at most one domain event of each key.                 *)
EventsOnce ==
  \A i, j \in DOMAIN log : log[i] = log[j] /\ log[i].kind # "foreign" => i = j

(* Every caller that was ever told "done" under one key was told the same: *)
(* the same value over the same events, whoever ran the operation.         *)
RepliesAgree ==
  \A r, s \in replies : r.key = s.key => r = s /\ receipt[r.key] = r.receipt

(* A checkpoint is the word of the last process to lease the operation: a  *)
(* call that lost its lease can neither settle the operation nor make it   *)
(* RETRYABLE under its successor.                                          *)
OnlyLeaseHolderSettles ==
  [][\A c \in Callers, k \in Keys :
       /\ pc[c] \in {"effect", "applied"} /\ call[c].key = k /\ pc'[c] # pc[c]
       /\ state[k] = "PENDING_EFFECT" /\ owner[k] \notin {None, call[c].id}
       => state'[k] = "PENDING_EFFECT" /\ owner'[k] = owner[k]]_vars

(* The abstract view: the open command is the operation row not COMMITTED. *)
OpenCommand ==
  IF \E k \in Keys : IsOpen(k)
    THEN LET k == CHOOSE j \in Keys : IsOpen(j)
         IN [key |-> k, payload |-> payload[k], from |-> prev[k]]
    ELSE None

Promise == INSTANCE MissionCommands
             WITH length <- Len(log), open <- OpenCommand, receipts <- receipt

(* The Saga implements the atomic commands of MissionCommands.             *)
ImplementsPromise == Promise!Spec

(* Every call that enters the kernel leaves it, with a reply, an error or  *)
(* a crash, even behind calls that were rejected.                          *)
EveryCallReturns == \A c \in Callers : pc[c] # "idle" ~> pc[c] = "idle"

(* Under the recovery contract an admitted command is committed in the     *)
(* end, so the mission is not blocked for ever by what a crash left open.  *)
AdmittedCommits ==
  (\A k \in Keys : Recovery(k)) =>
    \A k \in Keys : IsOpen(k) ~> state[k] = "COMMITTED"
=============================================================================

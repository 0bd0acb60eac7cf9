----------------------------- MODULE TaskRuntime -----------------------------
(***************************************************************************)
(* One workspace-bound version of a Task as MissionRuntime keeps it        *)
(* (packages/core/src/runtime.ts): the stored Task record, the Mission's   *)
(* event stream, and the commands that change both.  Every command runs    *)
(* under the Mission kernel: admitted, its effect, its receipt.  An effect *)
(* appends its events one by one and then stores the record; a crash may   *)
(* come between any two of these writes, and a command that is refused or  *)
(* crashes stays open: no other command of the Mission is admitted until   *)
(* the same command commits (storage-sqlite/src/ledger.ts:116-146, the     *)
(* module CommandSaga).  The registration of Tasks, waves, waits for       *)
(* guidance and decisions, and the end of the Mission are left out.        *)
(***************************************************************************)
EXTENDS TaskLedger, Naturals

CONSTANTS
  Agents,           \* the Agents of the Task's attempts, one each
  Drafts,           \* bounds what one Agent may submit
  MaxReceipts,      \* bounds the verifications
  None

VARIABLES
  task,             \* the stored record of the Task
  folded,           \* its state in the projection of the event stream
  stream,           \* the events appended, one per idempotency key
  frozen,           \* Agents frozen by oversight
  open,             \* the kernel's open command, or None
  committed,        \* commands with a receipt
  effect            \* the running effect of the open command

runtimeVars == <<task, folded, stream, frozen, open, committed, effect>>

Candidates == Agents \X Drafts
Nobody == <<None, None>>

(* A command is named by its idempotency key: what it does, to which Agent *)
(* or Candidate, with which reason or verdict ("plain" where there is      *)
(* none), under which receipt.                                             *)
Command(do, of, as, nr) == [do |-> do, of |-> of, as |-> as, nr |-> nr]
LeaseBy(a)        == Command("lease", <<a, None>>, "plain", 0)
ReleaseBy(a, why) == Command("release", <<a, None>>, why, 0)
Submit(c)         == Command("submit", c, "plain", 0)
Record(v)         == Command("record", v.of, v.as, v.nr)
RecordFailure(c)  == Command("fail", c, "REWORK", 0)
Queue(c)          == Command("queue", c, "plain", 0)
Deliver(r)        == Command("deliver", r.of, r.as, 0)
RecordSpecs(r)    == Command("specs", r.of, r.as, 0)

Reasons == {"pause", "other"}
Verdicts == {"ACCEPTED", "REWORK", "BLOCKED", "FROZEN"}
Verifications == [of : Candidates, as : Verdicts, nr : 1..MaxReceipts]
Integrations == [of : Candidates, as : {"APPLIED", "CONFLICT"}]

RuntimeInit ==
  /\ task = [state |-> "READY", worker |-> None, candidate |-> Nobody,
             verified |-> None, integrated |-> None, specs |-> None]
  /\ folded = "READY"
  /\ stream = {} /\ frozen = {} /\ committed = {}
  /\ open = None
  /\ effect = None

-----------------------------------------------------------------------------
(* What the operations of MissionRuntime do with the Task.                 *)

Resumable == {"PAUSED", "RECOVERY_REQUIRED", "INTEGRATION_FAILED", "REWORK"}
Held == {"LEASED", "EXECUTING", "CANDIDATE_SUBMITTED", "VERIFYING",
         "WAITING_INTEGRATION", "INTEGRATING"}
UnderVerification == {"CANDIDATE_SUBMITTED", "VERIFYING"}

Event(type, of, as, nr) == [type |-> type, of |-> of, as |-> as, nr |-> nr]
Leased(a) == Event("task/leased", <<a, None>>, "EXECUTING", 0)

(* Receipts the record may already carry.                                  *)
VerificationOf(op) == [of |-> op.of, as |-> op.as, nr |-> op.nr]
IntegrationOf(op) == [of |-> op.of, as |-> op.as]

(* The operation is about the Candidate the Task has now.                  *)
AnyCandidate(op) == TRUE
IsCurrent(op) == task.candidate = op.of

(* The Task's integration is the one to deliver.                           *)
DeliveredInTurn(op) ==
  task.state = "WAITING_INTEGRATION" /\ task.integrated = IntegrationOf(op)
Delivered(op) == task.integrated = IntegrationOf(op)

(* A release that stores its outcome for the state.                        *)
SettledByOutcome(why) ==
  IF task.state \notin Held THEN "COMPLETED"
  ELSE IF why = "pause" THEN "PAUSED" ELSE "RECOVERY_REQUIRED"

(* releaseTaskLease takes a Task away from the states that need a worker.  *)
Settled(why) ==
  IF task.state \notin Held THEN task.state
  ELSE IF why = "pause" THEN "PAUSED" ELSE "RECOVERY_REQUIRED"

(* The operations: whether one returns early because it has been carried   *)
(* out, whether it is allowed (it throws when neither), the record it      *)
(* stores and the events it appends before.                                *)

(* The key of task/resumed names the state the Task is resumed from, not   *)
(* the attempt.                                                            *)
LeaseTask(op) ==
  LET worker == op.of[1] IN
  [ replayed |-> /\ worker \notin frozen /\ Leased(worker) \in stream
                 /\ task.state = "EXECUTING" /\ task.worker = worker,
    allowed  |-> worker \notin frozen /\ task.state \in Resumable \cup {"READY"},
    after    |-> [task EXCEPT !.state = "EXECUTING", !.worker = worker],
    events   |-> IF task.state \in Resumable
                   THEN <<Event("task/resumed", Nobody, task.state, 0), Leased(worker)>>
                   ELSE <<Leased(worker)>> ]

ReleaseTaskLease(op) ==
  [ replayed |-> FALSE,
    allowed  |-> task.worker = op.of[1],
    after    |-> [task EXCEPT !.state = Settled(op.as), !.worker = None],
    events   |-> <<Event("task/activation-settled", op.of, Settled(op.as), 0)>> ]

SubmitCandidate(op) ==
  [ replayed |-> FALSE,
    allowed  |-> /\ task.worker = op.of[1] /\ op.of[1] \notin frozen
                 /\ CanMove(task.state, "CANDIDATE_SUBMITTED"),
    after    |-> [task EXCEPT !.state = "CANDIDATE_SUBMITTED", !.candidate = op.of],
    events   |-> <<Event("task/candidate-submitted", op.of, "plain", 0)>> ]

RecordCandidateVerification(op) ==
  [ replayed |-> /\ IsCurrent(op) /\ task.state \notin UnderVerification
                 /\ task.verified = VerificationOf(op),
    allowed  |-> IsCurrent(op) /\ task.state \in UnderVerification,
    after    |-> [task EXCEPT !.state = Verdict[op.as], !.verified = VerificationOf(op)],
    events   |-> <<Event("verification/completed", op.of, op.as, op.nr)>> ]

RecordCandidateVerificationFailure(op) ==
  [ replayed |-> FALSE,
    allowed  |-> IsCurrent(op),
    after    |-> [task EXCEPT !.state = IF @ \in UnderVerification THEN "REWORK" ELSE @],
    events   |-> <<Event("verification/completed", op.of, op.as, op.nr)>> ]

(* The integration order is put into a queue outside the Mission.          *)
QueueIntegration(op) ==
  [ replayed |-> FALSE, allowed |-> TRUE, after |-> task, events |-> <<>> ]

RecordIntegration(op) ==
  LET applied == op.as = "APPLIED" IN
  [ replayed |-> Delivered(op),
    allowed  |-> task.state = "WAITING_INTEGRATION",
    after    |-> [task EXCEPT !.integrated = IntegrationOf(op),
                              !.state = IF applied THEN "ACCEPTED"
                                        ELSE "INTEGRATION_FAILED"],
    events   |-> IF applied THEN <<Event("task/integrated", op.of, "plain", 0),
                                   Event("task/accepted", op.of, "plain", 0)>>
                 ELSE <<Event("task/integration-failed", op.of, "plain", 0)>> ]

(* For an ACCEPTED Task, and for one that its Agent delivers by it alone.  *)
RecordSpecsCommit(op) ==
  LET recorded == Event("specs/commit-recorded", op.of, "plain", 0) IN
  [ replayed |-> task.specs = op.of /\ task.state = "ACCEPTED",
    allowed  |-> \/ task.state = "EXECUTING"
                 \/ /\ task.state = "ACCEPTED" /\ task.integrated # None
                    /\ task.integrated.as = "APPLIED",
    after    |-> [task EXCEPT !.state = "ACCEPTED", !.specs = op.of],
    events   |-> IF task.state = "EXECUTING"
                   THEN <<recorded, Event("task/accepted", op.of, "specs", 0)>>
                   ELSE <<recorded>> ]

Operation(op) ==
  CASE op.do = "lease"   -> LeaseTask(op)
    [] op.do = "release" -> ReleaseTaskLease(op)
    [] op.do = "submit"  -> SubmitCandidate(op)
    [] op.do = "record"  -> RecordCandidateVerification(op)
    [] op.do = "fail"    -> RecordCandidateVerificationFailure(op)
    [] op.do = "queue"   -> QueueIntegration(op)
    [] op.do = "deliver" -> RecordIntegration(op)
    [] op.do = "specs"   -> RecordSpecsCommit(op)

Throws(op) == ~Operation(op).replayed /\ ~Operation(op).allowed

-----------------------------------------------------------------------------
(* The kernel.                                                             *)

(* Commands of the process are chained: nobody is answered while an effect *)
(* runs.  A command is sent only with a snapshot of the Mission.           *)
Answers == effect = None /\ folded # Broken

(* Another command is open.                                                *)
Locked(op) == open \notin {None, op}

Begin(op) ==
  /\ Answers /\ ~Locked(op) /\ op \notin committed
  /\ ~Throws(op)
  /\ open' = op
  /\ LET run == Operation(op) IN
       effect' = IF run.replayed
                   THEN [at |-> "applied", events |-> <<>>, task |-> task]
                   ELSE [at |-> "running", events |-> run.events, task |-> run.after]
  /\ UNCHANGED <<task, folded, stream, frozen, committed>>

(* Not admitted: another command is open, the Mission has moved on since   *)
(* the caller read its revision, or it cannot be read at all.              *)
TurnAway(op) ==
  /\ effect = None /\ op \notin committed
  /\ open # op \/ folded = Broken
  /\ UNCHANGED runtimeVars

(* The effect throws before it has written anything; its command is open.  *)
Refuse(op) ==
  /\ Answers /\ ~Locked(op) /\ op \notin committed
  /\ Throws(op)
  /\ open' = op
  /\ UNCHANGED <<task, folded, stream, frozen, committed, effect>>

(* #append: one event, unless its key is in the stream.                    *)
AppendEvent ==
  /\ effect # None /\ effect.events # <<>>
  /\ folded # Broken
  /\ LET e == Head(effect.events) IN
       IF e \in stream THEN UNCHANGED <<stream, folded>>
       ELSE stream' = stream \cup {e} /\ folded' = Fold(folded, e)
  /\ effect' = [effect EXCEPT !.events = Tail(@)]
  /\ UNCHANGED <<task, frozen, open, committed>>

(* The record is stored; a FROZEN verdict has frozen its Agent as well.    *)
Store ==
  /\ effect # None /\ effect.at = "running" /\ effect.events = <<>>
  /\ task' = effect.task
  /\ frozen' = IF open.do = "record" /\ open.as = "FROZEN"
                 THEN frozen \cup {open.of[1]} ELSE frozen
  /\ effect' = [effect EXCEPT !.at = "applied"]
  /\ UNCHANGED <<folded, stream, open, committed>>

Commit ==
  /\ effect # None /\ effect.at = "applied"
  /\ committed' = committed \cup {open}
  /\ open' = None
  /\ effect' = None
  /\ UNCHANGED <<task, folded, stream, frozen>>

(* The process ends, or the effect throws between two writes: what was     *)
(* written stays, the command stays open.                                  *)
Abort ==
  /\ effect' = None
  /\ UNCHANGED <<task, folded, stream, frozen, open, committed>>

-----------------------------------------------------------------------------
Commands ==
  [do : {"lease", "release", "submit", "record", "fail", "queue", "deliver",
         "specs"},
   of : Agents \X (Drafts \cup {None}),
   as : Reasons \cup Verdicts \cup {"plain", "APPLIED", "CONFLICT"},
   nr : 0..MaxReceipts]

TaskRecords == [state : TaskStates, worker : Agents \cup {None},
                candidate : Candidates \cup {Nobody},
                verified : Verifications \cup {None},
                integrated : Integrations \cup {None},
                specs : Candidates \cup {None}]

EventTypes == {"task/leased", "task/resumed", "task/activation-settled",
               "task/candidate-submitted", "verification/completed",
               "task/integrated", "task/accepted", "task/integration-failed",
               "specs/commit-recorded"}
EventRecords == [type : EventTypes,
                 of : (Agents \cup {None}) \X (Drafts \cup {None}),
                 as : TaskStates \cup {"plain", "specs"}, nr : 0..MaxReceipts]
Effects == [at : {"running", "applied"}, events : Seq(EventRecords),
            task : TaskRecords]

ASSUME ReceiptsAssumption == MaxReceipts \in Nat
ASSUME NoneAssumption ==
  None \notin Agents \cup Commands \cup Effects \cup Verifications \cup Integrations
              \cup {"APPLIED"}

RuntimeTypeOK ==
  /\ task \in TaskRecords
  /\ folded \in TaskStates \cup {Broken}
  /\ stream \subseteq EventRecords
  /\ frozen \subseteq Agents
  /\ open \in Commands \cup {None} /\ committed \subseteq Commands
  /\ effect \in Effects \cup {None}
=============================================================================

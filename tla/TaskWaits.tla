------------------------------- MODULE TaskWaits -------------------------------
(***************************************************************************)
(* The waits of a Task: a worker that cannot go on asks the staff by radio *)
(* or the user by a question set and concludes its turn; its attempt ends, *)
(* and a later one is spawned with the guidance or the answer.  Three      *)
(* stores take part: the Task record with the Mission's events             *)
(* (core/src/runtime.ts), the radio and the decision broker                *)
(* (storage-sqlite/src/radio-repository.ts, decision-repository.ts), and a *)
(* call writes to them one after the other.                                *)
(*   An operation of MissionRuntime reads the record, appends its events   *)
(* and puts the record back.  Those that are the effect of a Mission       *)
(* command exclude each other, and a command that failed stays open until  *)
(* its caller completes it (CommandSaga); the others run whenever they     *)
(* are called, and putTask has no revision check.  A store's own           *)
(* operation is one step: of two that overlap, state-records.ts lets one   *)
(* throw.  The requests and the question sets of an attempt are named      *)
(* after it, one each.                                                     *)
(***************************************************************************)
EXTENDS TaskLedger, Naturals

CONSTANTS
  Attempts,         \* the attempts, 1..n: bounds spawns and questions
  Askers,           \* the attempts that ask: bounds the waits
  General,          \* the root agent
  Advisors,         \* other agents that serve the radio
  Host, Cleanup, Operator,  \* callers of Mission commands
  MaxTries,         \* leases of a radio request before it is given up
  None

Staff == Advisors \cup {General}
Callers == Attempts \cup {General, Host, Cleanup, Operator}

TaskRecords ==
  LET some == Attempts \cup {None} IN
  [state : TaskStates, worker : some, request : some, question : some,
   guidance : some, answer : some]
EventTypes ==
  { "put", "task/blocker-submitted", "task/decision-waiting", "task/decision-resolved",
    "radio/guidance-delivered", "radio/dead-lettered", "decision/expired", "task/leased",
    "task/resumed", "task/activation-settled", "task/cancelled", "mission/cancelled" }
Events ==
  [type : EventTypes, of : Attempts \cup {None},
   as : TaskStates \cup {"plain", "block", "await-guidance"}]
\* An operation under way: the record it will put, and its writes.
Operations == [task : TaskRecords, writes : Seq(Events)]

ASSUME AttemptsAssumption == Attempts \subseteq Nat /\ MaxTries \in Nat \ {0}
\* Whoever sends a command is known by its identity.
ASSUME CallersAssumption ==
  /\ {General, Host, Cleanup, Operator} \cap Attempts = {}
  /\ General \notin {Host, Cleanup, Operator} /\ Host \notin {Cleanup, Operator}
  /\ Cleanup # Operator
ASSUME NoneAssumption == None \notin Callers \cup Advisors \cup Operations

(* Where an operation of MissionRuntime may be under way: in the Mission's *)
(* command, or outside it.                                                 *)
Places == {"command", "guidance", "maintenance", "acknowledgement"}

VARIABLES
  task,             \* the Task record
  folded,           \* its state in the projection of the events
  stream,           \* the events appended
  radio,            \* an entry per request
  broker,           \* the state of each question set
  kernel,           \* the caller whose Mission command runs
  saving,           \* per place, the operation under way
  life,             \* per attempt, whether its child lives
  steps,            \* per attempt, what is left of its tool call
  advice,           \* per member of the staff, its tool call
  pass,             \* the maintenance pass
  spawn             \* the spawn call

ledgerVars == <<task, folded, stream>>
storeVars == <<radio, broker>>
savingVars == <<kernel, saving>>
workerVars == <<life, steps>>
callVars == <<workerVars, advice, pass, spawn>>
vars == <<ledgerVars, storeVars, savingVars, callVars>>

Unsent == [state |-> "UNSENT", tries |-> 0, by |-> None]
Ready == [at |-> "idle", of |-> None]
Resting == [at |-> "idle", dead |-> {}, expired |-> {}]
NoSpawn == [at |-> "idle", by |-> None, guidance |-> None, answer |-> None]

Init ==
  /\ task = [state |-> "READY", worker |-> None, request |-> None,
             question |-> None, guidance |-> None, answer |-> None]
  /\ folded = "READY" /\ stream = {}
  /\ radio = [n \in Attempts |-> Unsent]
  /\ broker = [n \in Attempts |-> "UNASKED"]
  /\ kernel = None
  /\ saving = [p \in Places |-> None]
  /\ life = [n \in Attempts |-> "new"]
  /\ steps = [n \in Attempts |-> <<>>]
  /\ advice = [g \in Staff |-> Ready]
  /\ pass = Resting
  /\ spawn = NoSpawn

-----------------------------------------------------------------------------
(* Operations of MissionRuntime                                            *)

\* Left out: events that neither the projection nor a property looks at.
Event(type, of, as) == [type |-> type, of |-> of, as |-> as]
Put == Event("put", None, "plain")
MissionCancelled == Event("mission/cancelled", None, "plain")
Closed == MissionCancelled \in stream

Busy(p) == saving[p] # None

\* The operation has read the Task: the record it will put, and its writes,
\* one after the other.
Load(p, after, writes) ==
  /\ ~Busy(p)
  /\ saving' = [saving EXCEPT ![p] = [task |-> after, writes |-> writes]]
Command(caller, after, writes) ==
  /\ kernel \in {None, caller}
  /\ kernel' = caller
  /\ Load("command", after, writes)
OutsideCommands(p, after, writes) == Load(p, after, writes) /\ UNCHANGED kernel

\* The rest of the writes; a command ends with its last one.
Go(p) ==
  LET rest == Tail(saving[p].writes) IN
  /\ saving' = [saving EXCEPT ![p] = IF rest = <<>> THEN None ELSE [@ EXCEPT !.writes = rest]]
  /\ kernel' = IF rest = <<>> /\ p = "command" THEN None ELSE kernel

\* A key that stands for another event: the append throws.
Conflicts(e) ==
  e.type = "task/activation-settled" /\ \E f \in stream : f.type = e.type /\ f.of = e.of /\ f.as # e.as

\* #append: once the Mission is over, or its events cannot be folded, only
\* what has been appended before is accepted.
Accepted(e) == ~Conflicts(e) /\ IF Closed THEN e \in stream ELSE folded # Broken

AppendEvent(p) ==
  /\ Busy(p)
  /\ LET e == Head(saving[p].writes) IN
       /\ e # Put /\ Accepted(e)
       /\ IF e \in stream THEN UNCHANGED <<stream, folded>>
          ELSE stream' = stream \cup {e} /\ folded' = Fold(folded, e)
  /\ Go(p)
  /\ UNCHANGED <<task, storeVars, callVars>>

\* putTask: whatever the record has become meanwhile.
PutTask(p) ==
  /\ Busy(p) /\ Head(saving[p].writes) = Put
  /\ task' = saving[p].task
  /\ Go(p)
  /\ UNCHANGED <<folded, stream, storeVars, callVars>>

-----------------------------------------------------------------------------
(* The radio                                                               *)

\* The next step of a tool call, once the one before has come to its end.
NextStep(n, step) ==
  /\ steps[n] # <<>> /\ Head(steps[n]) = step
  /\ kernel = n => ~Busy("command")
  /\ steps' = [steps EXCEPT ![n] = Tail(@)]

\* recoverRadioEntries, when the times of late have run out: a request is
\* given up, a lease taken back.  An entry whose time has run out is changed
\* by whatever looks at it first, so that no clock is needed.
RecoverKeepingOwner(e) ==
  CASE e.state = "QUEUED" -> [e EXCEPT !.state = "DEAD_LETTERED"]
    [] e.state = "LEASED" ->
         [e EXCEPT !.state = IF e.tries >= MaxTries THEN "DEAD_LETTERED" ELSE "QUEUED"]
    [] OTHER -> e
RecoverQueued(e) ==
  IF e.state = "QUEUED" THEN [e EXCEPT !.state = "DEAD_LETTERED"] ELSE e
Recover(e) ==
  CASE e.state = "QUEUED" -> [e EXCEPT !.state = "DEAD_LETTERED"]
    [] e.state = "LEASED" ->
         [e EXCEPT !.by = None,
                   !.state = IF e.tries >= MaxTries THEN "DEAD_LETTERED" ELSE "QUEUED"]
    [] OTHER -> e
Recovered(late) == [n \in Attempts |-> IF n \in late THEN Recover(radio[n]) ELSE radio[n]]

GivenUp(entries) == {n \in Attempts : entries[n].state = "DEAD_LETTERED"}

\* request, which submit_blocker calls before its command: one that is there
\* already is answered as queued, whatever became of it.
Request(n) ==
  /\ NextStep(n, "request")
  /\ radio' = [radio EXCEPT ![n] =
                 IF @.state = "UNSENT" THEN [@ EXCEPT !.state = "QUEUED"] ELSE @]
  /\ UNCHANGED <<ledgerVars, broker, savingVars, life, advice, pass, spawn>>

\* lease: the oldest queued request.
Poll(g, late) ==
  LET queued == {n \in Attempts : Recovered(late)[n].state = "QUEUED"} IN
  /\ advice[g].at = "idle"
  /\ \/ queued = {} /\ radio' = Recovered(late)
     \/ \E n \in queued :
          /\ \A k \in queued : n <= k
          /\ radio' = [Recovered(late) EXCEPT ![n] =
                         [state |-> "LEASED", by |-> g, tries |-> @.tries + 1]]
  /\ UNCHANGED <<ledgerVars, broker, savingVars, callVars>>

\* leased, and then issue: the entry must still be leased, by whomever.
CallIssue(g, n) ==
  /\ advice[g].at = "idle"
  /\ radio[n].state = "LEASED" /\ radio[n].by = g
  /\ advice' = [advice EXCEPT ![g] = [at |-> "issue", of |-> n]]
  /\ UNCHANGED <<ledgerVars, storeVars, savingVars, workerVars, pass, spawn>>

\* The root agent goes on to deliver it, the others leave it there.
Issue(g) ==
  LET n == advice[g].of IN
  /\ advice[g].at = "issue" /\ radio[n].state = "LEASED"
  /\ radio' = [radio EXCEPT ![n].state = "GUIDANCE_READY", ![n].by = None]
  /\ advice' = [advice EXCEPT ![g] = IF g = General THEN [@ EXCEPT !.at = "deliver"]
                                     ELSE Ready]
  /\ UNCHANGED <<ledgerVars, broker, savingVars, workerVars, pass, spawn>>

\* guidance: out of date it is given up, and the call ends.
Read(n, late) ==
  /\ radio[n].state \in {"GUIDANCE_READY", "DELIVERED", "ACKNOWLEDGED"}
  /\ radio' = [radio EXCEPT ![n].state =
                 IF late THEN "DEAD_LETTERED"
                 ELSE IF @ = "GUIDANCE_READY" THEN "DELIVERED" ELSE @]

Deliver(late) ==
  /\ advice[General].at = "deliver" /\ Read(advice[General].of, late)
  /\ advice' = [advice EXCEPT ![General] = IF late THEN Ready ELSE [@ EXCEPT !.at = "apply"]]
  /\ UNCHANGED <<ledgerVars, broker, savingVars, workerVars, pass, spawn>>

\* A worker may read guidance by itself.
ReadGuidance(n, of, late) ==
  /\ life[n] = "live" /\ Read(of, late)
  /\ UNCHANGED <<ledgerVars, broker, savingVars, callVars>>

ApplyGuidance ==
  LET n == advice[General].of IN
  /\ advice[General].at = "apply" /\ task.state = "BLOCKED"
  /\ OutsideCommands("guidance",
          [task EXCEPT !.state = "READY", !.guidance = n, !.request = None],
          <<Event("radio/guidance-delivered", n, "plain"), Put>>)
  /\ advice' = [advice EXCEPT ![General] = Ready]
  /\ UNCHANGED <<ledgerVars, storeVars, workerVars, pass, spawn>>

-----------------------------------------------------------------------------
(* The worker's tools                                                      *)

Tools == { <<"request", "await-guidance">>, <<"block">>, <<"ask", "wait">>,
           <<"block", "ask", "wait">> }

\* Each of the tools concludes the turn of the worker, unless it fails.
Call(n, tool) ==
  /\ n \in Askers /\ life[n] = "live"
  /\ steps' = [steps EXCEPT ![n] = tool]
  /\ life' = [life EXCEPT ![n] = "concluding"]
  /\ UNCHANGED <<ledgerVars, storeVars, savingVars, advice, pass, spawn>>

SubmitBlocker(n, how) ==
  /\ NextStep(n, how)
  /\ task.worker = n /\ CanMove(task.state, "BLOCKED")
  /\ Command(n, [task EXCEPT !.state = "BLOCKED",
                            !.request = IF how = "await-guidance" THEN n ELSE @],
             <<Event("task/blocker-submitted", n, how), Put>>)
  /\ UNCHANGED <<ledgerVars, storeVars, life, advice, pass, spawn>>

\* The broker's submit, in the command that then lets the Task wait.
SubmitQuestion(n) ==
  /\ NextStep(n, "ask")
  /\ kernel \in {None, n} /\ kernel' = n
  /\ broker' = [broker EXCEPT ![n] = IF @ = "UNASKED" THEN "QUEUED" ELSE @]
  /\ UNCHANGED <<ledgerVars, radio, saving, life, advice, pass, spawn>>

WaitForDecision(n) ==
  /\ NextStep(n, "wait") /\ kernel = n
  /\ task.worker = n /\ CanMove(task.state, "WAITING_DECISION")
  /\ Command(n, [task EXCEPT !.state = "WAITING_DECISION", !.question = n],
             <<Event("task/decision-waiting", n, "plain"), Put>>)
  /\ UNCHANGED <<ledgerVars, storeVars, life, advice, pass, spawn>>

-----------------------------------------------------------------------------
(* Question sets                                                           *)

\* expireDueDecisions.
ExpiredOnceDue(late) == [n \in Attempts |-> IF n \in late /\ broker[n] # "UNASKED"
                                            THEN "EXPIRED" ELSE broker[n]]
Expired(late) == [n \in Attempts |-> IF n \in late /\ broker[n] = "QUEUED" THEN "EXPIRED"
                                     ELSE broker[n]]

\* presentNext and pending show what is queued, after expiring what is due.
Present(late) ==
  /\ advice[General].at = "idle"
  /\ broker' = Expired(late)
  /\ UNCHANGED <<ledgerVars, radio, savingVars, callVars>>

\* recordAnswers: no longer once the set has expired.
Answer(n) ==
  /\ advice[General].at = "idle" /\ kernel \in {None, General} /\ ~Busy("command")
  /\ broker[n] \in {"QUEUED", "ANSWERED"}
  /\ broker' = [broker EXCEPT ![n] = "ANSWERED"]
  /\ advice' = [advice EXCEPT ![General] = [at |-> "resolve", of |-> n]]
  /\ kernel' = General
  /\ UNCHANGED <<ledgerVars, radio, saving, workerVars, pass, spawn>>

ResolveDecision ==
  LET n == advice[General].of IN
  /\ advice[General].at = "resolve"
  /\ task.question = n /\ task.state = "WAITING_DECISION"
  /\ Command(General, [task EXCEPT !.state = "READY", !.question = None, !.answer = n],
             <<Event("task/decision-resolved", n, "plain"), Put>>)
  /\ advice' = [advice EXCEPT ![General] = Ready]
  /\ UNCHANGED <<ledgerVars, storeVars, workerVars, pass, spawn>>

-----------------------------------------------------------------------------
(* The maintenance pass                                                    *)

\* reconcileDeadLetters lists only what it gives up itself.
ReconcileRadio(late) ==
  /\ pass.at = "idle" /\ ~Busy("maintenance")
  /\ radio' = Recovered(late)
  /\ pass' = [at |-> "radio", dead |-> GivenUp(Recovered(late)) \ GivenUp(radio),
              expired |-> {}]
  /\ UNCHANGED <<ledgerVars, broker, savingVars, workerVars, advice, spawn>>

DeadLetterGuidanceWait(n) ==
  /\ pass.at = "radio" /\ n \in pass.dead /\ ~Busy("maintenance")
  /\ IF task.request = n /\ task.state = "BLOCKED"
       THEN OutsideCommands("maintenance", [task EXCEPT !.request = None],
                            <<Event("radio/dead-lettered", n, "plain"), Put>>)
       ELSE UNCHANGED savingVars
  /\ pass' = [pass EXCEPT !.dead = @ \ {n}]
  /\ UNCHANGED <<ledgerVars, storeVars, workerVars, advice, spawn>>

Reporting(expired) ==
  IF expired = {} THEN Resting ELSE [at |-> "questions", dead |-> {}, expired |-> expired]

\* reconcileExpired, like the other operations of the broker, expires what is
\* due; it alone lists it.
ReconcileQuestions(late) ==
  /\ pass.at = "radio" /\ pass.dead = {} /\ ~Busy("maintenance")
  /\ broker' = Expired(late)
  /\ pass' = Reporting({n \in Attempts : broker'[n] # broker[n]})
  /\ UNCHANGED <<ledgerVars, radio, savingVars, workerVars, advice, spawn>>

ExpireDecisionWait(n) ==
  /\ pass.at = "questions" /\ n \in pass.expired /\ ~Busy("maintenance")
  /\ IF task.question = n /\ task.state = "WAITING_DECISION"
       THEN OutsideCommands("maintenance", [task EXCEPT !.state = "BLOCKED", !.question = None],
                            <<Event("decision/expired", n, "plain"), Put>>)
       ELSE UNCHANGED savingVars
  /\ pass' = Reporting(pass.expired \ {n})
  /\ UNCHANGED <<ledgerVars, storeVars, workerVars, advice, spawn>>

-----------------------------------------------------------------------------
(* Spawning, the end of an attempt, cancellation                           *)

ResumableWhenBlocked == {"RECOVERY_REQUIRED", "BLOCKED"}
Resumable == {"RECOVERY_REQUIRED"}
New == {n \in Attempts : life[n] = "new"}

\* The prompt of the new attempt gets what the Task holds at this moment.
ReadPending ==
  /\ spawn.at = "idle"
  /\ \E n \in New :
       /\ \A m \in New : n <= m
       /\ spawn' = [at |-> "lease", by |-> n,
                    guidance |-> task.guidance, answer |-> task.answer]
  /\ UNCHANGED <<ledgerVars, storeVars, savingVars, workerVars, advice, pass>>

LeaseTask ==
  LET n == spawn.by
      leased == <<Event("task/leased", n, "plain"), Put>> IN
  /\ spawn.at = "lease" /\ task.state \in Resumable \cup {"READY"}
  /\ Command(Host, [task EXCEPT !.state = "EXECUTING", !.worker = n],
             IF task.state \in Resumable
               THEN <<Event("task/resumed", None, task.state)>> \o leased ELSE leased)
  /\ spawn' = [spawn EXCEPT !.at = "start"]
  /\ UNCHANGED <<ledgerVars, storeVars, workerVars, advice, pass>>

Start ==
  /\ spawn.at = "start" /\ kernel # Host
  /\ life' = [life EXCEPT ![spawn.by] = "live"]
  /\ spawn' = [spawn EXCEPT !.at = IF spawn.guidance # None THEN "guidance" ELSE "answer"]
  /\ UNCHANGED <<ledgerVars, storeVars, savingVars, steps, advice, pass>>

\* The acknowledgements; one that throws is only logged.
AcknowledgeRadio ==
  LET n == spawn.guidance IN
  /\ spawn.at = "radio"
  /\ radio' = [radio EXCEPT ![n].state = IF @ = "DELIVERED" THEN "ACKNOWLEDGED" ELSE @]
  /\ spawn' = [spawn EXCEPT !.at = "answer"]
  /\ UNCHANGED <<ledgerVars, broker, savingVars, workerVars, advice, pass>>

AcknowledgeGuidance ==
  /\ spawn.at = "guidance"
  /\ IF task.worker = spawn.by /\ task.guidance = spawn.guidance
       THEN OutsideCommands("acknowledgement", [task EXCEPT !.guidance = None], <<Put>>)
       ELSE UNCHANGED savingVars
  /\ spawn' = [spawn EXCEPT !.at = "radio"]
  /\ UNCHANGED <<ledgerVars, storeVars, workerVars, advice, pass>>

AcknowledgeAnswer ==
  /\ spawn.at = "answer" /\ ~Busy("acknowledgement")
  /\ IF spawn.answer # None /\ task.worker = spawn.by /\ task.answer = spawn.answer
       THEN OutsideCommands("acknowledgement", [task EXCEPT !.answer = None], <<Put>>)
       ELSE UNCHANGED savingVars
  /\ spawn' = NoSpawn
  /\ UNCHANGED <<ledgerVars, storeVars, workerVars, advice, pass>>

Held == {"LEASED", "EXECUTING"}

\* The cleanup of a child gives the Task back.
ReleaseTaskLease(n) ==
  LET state == IF task.state \in Held THEN "RECOVERY_REQUIRED" ELSE task.state IN
  /\ life[n] = "gone" /\ task.worker = n
  /\ Command(Cleanup, [task EXCEPT !.state = state, !.worker = None],
             <<Event("task/activation-settled", n, state), Put>>)
  /\ UNCHANGED <<ledgerVars, storeVars, callVars>>

ChildEnds(n) ==
  /\ life[n] \in {"live", "concluding"} /\ steps[n] = <<>> /\ (kernel = n => ~Busy("command"))
  /\ life' = [life EXCEPT ![n] = "gone"]
  /\ UNCHANGED <<ledgerVars, storeVars, savingVars, steps, advice, pass, spawn>>

PutThenAnnounce == <<Put, Event("task/cancelled", None, "plain"), MissionCancelled>>
Cancellation == <<Event("task/cancelled", None, "plain"), Put, MissionCancelled>>

\* cancelMission: the waits are ended in their stores, then in the Task, which
\* is passed over when it is CANCELLED already.
CancelMission ==
  LET cancelled == [task EXCEPT !.state = "CANCELLED", !.worker = None, !.request = None,
                      !.question = None, !.guidance = None, !.answer = None] IN
  /\ ~Closed
  /\ IF task.state = "CANCELLED"
       THEN Command(Operator, task, <<MissionCancelled>>) /\ UNCHANGED storeVars
       ELSE /\ Command(Operator, cancelled, Cancellation)
            /\ radio' = [n \in Attempts |->
                 IF n = task.request /\ radio[n].state # "ACKNOWLEDGED"
                   THEN [radio[n] EXCEPT !.state = "DEAD_LETTERED", !.by = None]
                   ELSE radio[n]]
            /\ broker' = [n \in Attempts |->
                 IF n = task.question /\ broker[n] = "QUEUED" THEN "EXPIRED" ELSE broker[n]]
  /\ UNCHANGED <<ledgerVars, callVars>>

-----------------------------------------------------------------------------
(* Failures                                                                *)

\* An append throws: it is not accepted, or another one came between its read
\* of the Mission's revision and its write.  The call ends, and a command stays
\* open: no other is admitted until its caller has completed it.
Throw(p) ==
  /\ Busy(p) /\ Head(saving[p].writes) # Put
  /\ Accepted(Head(saving[p].writes)) => \E q \in Places \ {p} : Busy(q)
  /\ saving' = [saving EXCEPT ![p] = None]
  /\ IF p = "command"
       THEN /\ steps' = [n \in Attempts |-> IF n = kernel THEN <<>> ELSE steps[n]]
            /\ spawn' = IF kernel = Host THEN NoSpawn ELSE spawn
            /\ life' = [n \in Attempts |-> IF n = kernel THEN "live"
                          ELSE IF kernel = Host /\ n = spawn.by THEN "gone" ELSE life[n]]
       ELSE UNCHANGED <<workerVars, spawn>>
  /\ pass' = IF p = "maintenance" THEN Resting ELSE pass
  /\ UNCHANGED <<ledgerVars, storeVars, kernel, advice>>

\* A call is turned away, or throws before it has read the Task, when a
\* command stays open.
LeavesOpen(caller) == kernel' \in {kernel, IF kernel = None THEN caller ELSE kernel}

WorkerRefused(n) ==
  /\ steps[n] # <<>> /\ (kernel = n => ~Busy("command"))
  /\ steps' = [steps EXCEPT ![n] = <<>>]
  /\ life' = [life EXCEPT ![n] = "live"]
  /\ LeavesOpen(n)
  /\ UNCHANGED <<ledgerVars, storeVars, saving, advice, pass, spawn>>

StaffRefused(g) ==
  /\ advice[g].at # "idle"
  /\ advice' = [advice EXCEPT ![g] = Ready]
  /\ UNCHANGED <<ledgerVars, storeVars, savingVars, workerVars, pass, spawn>>

SpawnRefused ==
  /\ spawn.at = "lease" /\ LeavesOpen(Host)
  /\ spawn' = NoSpawn
  /\ life' = [life EXCEPT ![spawn.by] = "gone"]
  /\ UNCHANGED <<ledgerVars, storeVars, saving, steps, advice, pass>>

\* The host ends: what is not stored is lost, and so are the children; the
\* command stays open.
Crash ==
  /\ saving' = [p \in Places |-> None]
  /\ life' = [n \in Attempts |-> IF life[n] = "new" /\ spawn.by # n THEN "new" ELSE "gone"]
  /\ steps' = [n \in Attempts |-> <<>>]
  /\ advice' = [g \in Staff |-> Ready]
  /\ pass' = Resting
  /\ spawn' = NoSpawn
  /\ UNCHANGED <<ledgerVars, storeVars, kernel>>

-----------------------------------------------------------------------------
WorkerStep(n) ==
  \/ \E tool \in Tools : Call(n, tool)
  \/ Request(n) \/ SubmitQuestion(n) \/ WaitForDecision(n)
  \/ \E how \in {"block", "await-guidance"} : SubmitBlocker(n, how)
  \/ WorkerRefused(n)
  \/ \E of \in Attempts, late \in BOOLEAN : ReadGuidance(n, of, late)

StaffStep ==
  \/ \E g \in Staff : Issue(g) \/ StaffRefused(g)
  \/ \E g \in Staff, late \in SUBSET Attempts : Poll(g, late)
  \/ \E g \in Staff, n \in Attempts : CallIssue(g, n)
  \/ \E late \in BOOLEAN : Deliver(late)
  \/ \E late \in SUBSET Attempts : Present(late)
  \/ ApplyGuidance \/ ResolveDecision
  \/ \E n \in Attempts : Answer(n)

MaintenanceStep ==
  \/ \E late \in SUBSET Attempts : ReconcileRadio(late) \/ ReconcileQuestions(late)
  \/ \E n \in Attempts : DeadLetterGuidanceWait(n) \/ ExpireDecisionWait(n)

HostStep ==
  \/ ReadPending \/ LeaseTask \/ Start \/ SpawnRefused
  \/ AcknowledgeRadio \/ AcknowledgeGuidance \/ AcknowledgeAnswer
  \/ \E n \in Attempts : ChildEnds(n) \/ ReleaseTaskLease(n)
  \/ CancelMission

Writes(p) == AppendEvent(p) \/ PutTask(p)

Next ==
  \/ \E n \in Attempts : WorkerStep(n)
  \/ StaffStep \/ MaintenanceStep \/ HostStep
  \/ \E p \in Places : Writes(p) \/ Throw(p)
  \/ Crash

Spec == Init /\ [][Next]_vars

(* The pass is taken by a timer, and the clock moves on: every wait is     *)
(* found late some time.                                                   *)
RestOfThePass ==
  \/ \E n \in Attempts : DeadLetterGuidanceWait(n) \/ ExpireDecisionWait(n)
  \/ Writes("maintenance") \/ Throw("maintenance")

FairSpec ==
  /\ Spec
  /\ SF_vars(ReconcileRadio(Attempts)) /\ SF_vars(ReconcileQuestions(Attempts))
  /\ WF_vars(RestOfThePass)

-----------------------------------------------------------------------------
(* Properties                                                              *)

TypeOK ==
  /\ task \in TaskRecords
  /\ folded \in TaskStates \cup {Broken}
  /\ \A n \in Attempts :
       /\ radio[n].state \in {"UNSENT", "QUEUED", "LEASED", "GUIDANCE_READY", "DELIVERED",
                              "ACKNOWLEDGED", "DEAD_LETTERED"}
       /\ radio[n].tries \in 0..MaxTries
       /\ radio[n].state = "LEASED" <=> radio[n].by # None
       /\ broker[n] \in {"UNASKED", "QUEUED", "ANSWERED", "EXPIRED"}
       /\ life[n] \in {"new", "live", "concluding", "gone"}

Told(type, n) == \E e \in stream : e.type = type /\ e.of = n

(* A wait comes to one end, and the Mission's events tell the one its      *)
(* store decided: a set that was answered is never reported expired, nor a *)
(* request given up after its guidance was delivered to the Task, however  *)
(* answers, expiry and cancellation race.                                  *)
OneEnd ==
  \A n \in Attempts :
    /\ Told("radio/dead-lettered", n) =>
         radio[n].state = "DEAD_LETTERED" /\ ~Told("radio/guidance-delivered", n)
    /\ Told("task/decision-resolved", n) => broker[n] = "ANSWERED"
    /\ Told("decision/expired", n) => broker[n] = "EXPIRED"

(* An attempt that stopped to wait is followed by another one only after   *)
(* the Task got guidance or an answer: its own, or what an earlier attempt *)
(* asked for and the Task was given late or never seen to have used.       *)
Waited(n) == Told("task/blocker-submitted", n) \/ Told("task/decision-waiting", n)
Heard(n) == Told("radio/guidance-delivered", n) \/ Told("task/decision-resolved", n)
WaitsAreEnded ==
  \A n, m \in Attempts :
    n < m /\ life[m] \in {"live", "concluding"} /\ Waited(n)
    => \E k \in Attempts : k <= n /\ Heard(k)

(* Whatever is written over a cancelled Task by an operation that read it  *)
(* before, the projection of the Mission keeps it cancelled.               *)
CancellationIsProjected ==
  task.state = "CANCELLED" \/ Closed => folded \in {"CANCELLED", Broken}

(* No request waits for ever for its advisor, and no question for its user.*)
RequestsDoNotLinger ==
  \A n \in Askers :
    /\ radio[n].state \in {"QUEUED", "LEASED"} ~> radio[n].state \notin {"QUEUED", "LEASED"}
    /\ broker[n] = "QUEUED" ~> broker[n] # "QUEUED"

(* Guidance is delivered to the Task only while the Agent that asked for   *)
(* it, or none, holds the Task.                                            *)
GuidanceFindsItsAsker ==
  [][ \A n \in Attempts :
        ~Told("radio/guidance-delivered", n) /\ Told("radio/guidance-delivered", n)'
        => task.worker \in {n, None} ]_vars

(* The Task of an expired question set does not wait for it any longer.    *)
WaitsFor(n) == task.state = "WAITING_DECISION" /\ task.question = n
ExpiryEndsTheWait ==
  \A n \in Askers : broker[n] = "EXPIRED" /\ WaitsFor(n) ~> ~WaitsFor(n)
=============================================================================

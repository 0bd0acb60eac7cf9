--------------------------- MODULE DepartmentSpawn ---------------------------
(***************************************************************************)
(* The callers of the execution lifecycle for one workspace-bound Task:    *)
(* concurrent department spawns (packages/runtime/src/agents.ts), the      *)
(* children they start (plugin-host child transport, pre-step heartbeat    *)
(* and child cleanup), the Task lease, the periodic reconciliation and     *)
(* crashes of the host.                                                    *)
(*                                                                         *)
(* A dispatch key without an explicit idempotency key is a digest that     *)
(* contains the Mission revision (host-runtime.ts:735-764): the key of a   *)
(* call is the revision it read.  The Mission moves on when the Task is    *)
(* leased or released and for reasons of its own.  Cancelling the whole    *)
(* Mission is left out.                                                    *)
(***************************************************************************)
EXTENDS ExecutionLifecycle, FiniteSets

CONSTANTS
  Callers,          \* spawn calls the General may have in flight
  MaxRevision,      \* stands for every later Mission revision
  MaxFaults,        \* bounds crashes of the host and failed lease releases
  ChildOutcomes     \* outcomes child cleanup may settle with

ASSUME KeysAreRevisions == /\ MaxRevision \in Nat /\ MaxFaults \in Nat
                           /\ Keys \subseteq 0..(MaxRevision - 1) /\ 0 \in Keys
ASSUME OutcomesAreEnds == ChildOutcomes \subseteq Ended

VARIABLES
  call,             \* the spawn calls: where each stands and its locals
  bindings,         \* attempts with a durable execution binding
  child,            \* the child session of each attempt
  task,             \* "free": leaseTask may take it; "executing"; "elsewhere"
  holder,           \* the attempt whose Agent is the Task's worker, or 0
  leased,           \* attempts whose task.lease command has its receipt
  revision,
  faults,
  shared            \* history: keys that two calls had in flight at one time

taskVars == <<task, holder, leased, revision, faults, shared>>
hostVars == <<bindings, child, taskVars>>
vars == <<ledgerVars, call, hostVars>>

Attempts == 1..Cardinality(Keys)
Alive == {n \in Attempts : child[n] = "alive"}

\* at: the stage; key: the dispatch key; target: the attempt it reserved or
\* recovered; ours: it created the binding; recovered: the reservation was an
\* existing one; verdict: what its last catch block is to record.
Stages == {"idle", "keyed", "reserved", "bound", "preparing", "accepting", "sending",
           "converging", "admitting", "starting", "compensating", "discarding",
           "failing", "marking"}
CallRecord == [at : Stages, key : Keys, target : Numbers \cup {0}, ours : BOOLEAN,
               recovered : BOOLEAN, verdict : {"FAILED", "RECOVERY_REQUIRED"}]
Idle == [at |-> "idle", key |-> 0, target |-> 0, ours |-> FALSE,
         recovered |-> FALSE, verdict |-> "FAILED"]

SpawnInit ==
  /\ Init
  /\ call = [c \in Callers |-> Idle]
  /\ bindings = {}
  /\ child = [n \in Attempts |-> "none"]
  /\ task = "free"
  /\ holder = 0
  /\ leased = {}
  /\ revision = 0
  /\ faults = 0
  /\ shared = {}

At(c, stage) == call[c].at = stage
Goto(c, stage) == call' = [call EXCEPT ![c].at = stage]
Return(c) == call' = [call EXCEPT ![c] = Idle]

\* The dispatch the call works on.
Dispatch(c) == records[call[c].target].dispatch

-----------------------------------------------------------------------------
(* The spawn call                                                           *)

\* Another call with this key is under way.
InFlight(key, c) == \E d \in Callers \ {c} : ~At(d, "idle") /\ call[d].key = key

\* Calls are bounded by the dispatch keys of the model.
Call(c) ==
  /\ At(c, "idle")
  /\ revision \in Keys
  /\ call' = [call EXCEPT ![c] = [Idle EXCEPT !.at = "keyed", !.key = revision]]
  /\ shared' = IF InFlight(revision, c) THEN shared \cup {revision} ELSE shared
  /\ UNCHANGED <<ledgerVars, bindings, child, task, holder, leased, revision, faults>>

ReserveNew(c) ==
  /\ At(c, "keyed")
  /\ Reserve(call[c].key)
  /\ call' = [call EXCEPT ![c] = [@ EXCEPT !.at = "reserved", !.target = Len(records) + 1]]
  /\ UNCHANGED hostVars

ReserveReplay(c) ==
  /\ At(c, "keyed")
  /\ \E n \in Exact(call[c].key) :
       call' = [call EXCEPT ![c] = [@ EXCEPT !.at = "reserved", !.target = n,
                                             !.recovered = TRUE]]
  /\ UNCHANGED <<ledgerVars, hostVars>>

ReserveLocked(c) ==
  /\ At(c, "keyed")
  /\ Exact(call[c].key) = {}
  /\ Active # {}
  /\ Return(c)
  /\ UNCHANGED <<ledgerVars, hostVars>>

\* Routing, profiles and budget policy are resolved; any of them may fail.
BindAgent(c) ==
  /\ At(c, "reserved")
  /\ \/ Bind(call[c].target) /\ Goto(c, "bound")
     \/ records[call[c].target].bound /\ Goto(c, "bound") /\ UNCHANGED ledgerVars
     \/ Goto(c, "failing") /\ UNCHANGED ledgerVars
  /\ UNCHANGED hostVars

FindBinding(c) ==
  /\ At(c, "bound")
  /\ Goto(c, IF call[c].target \in bindings THEN "accepting" ELSE "preparing")
  /\ UNCHANGED <<ledgerVars, hostVars>>

\* Workspace, budget, capacity, grant and binding.  The immutable grant and
\* binding carry the time they were made: a second one is refused.
Prepare(c) ==
  /\ At(c, "preparing")
  /\ \/ /\ call[c].target \notin bindings
        /\ bindings' = bindings \cup {call[c].target}
        /\ call' = [call EXCEPT ![c] = [@ EXCEPT !.at = "accepting", !.ours = TRUE]]
     \/ (Goto(c, "compensating") \/ Goto(c, "failing")) /\ UNCHANGED bindings
  /\ UNCHANGED <<ledgerVars, child, taskVars>>

\* An exception that is always taken for one before the transport was asked.
ThrowFailed(c, outcome) ==
  call' = [call EXCEPT ![c] =
    [@ EXCEPT !.at = IF call[c].ours THEN "compensating" ELSE "failing", !.verdict = "FAILED"]]

\* An exception: the inner catch covers the call that made the binding, the
\* outer one every call.
Throw(c, outcome) ==
  call' = [call EXCEPT ![c] =
    [@ EXCEPT !.at = IF call[c].ours THEN "compensating" ELSE "failing", !.verdict = outcome]]

\* A mark that only wants its dispatch to be accepted already is a replay.
Accept(c) ==
  /\ At(c, "accepting")
  /\ \/ Mark(call[c].target, "ACCEPTED") /\ Goto(c, "sending")
     \/ Dispatch(c) = "ACCEPTED" /\ Goto(c, "sending") /\ UNCHANGED ledgerVars
     \/ /\ Dispatch(c) # "ACCEPTED" /\ ~CanMark(records[call[c].target], "ACCEPTED")
        /\ Throw(c, "FAILED")
        /\ UNCHANGED ledgerVars
  /\ UNCHANGED hostVars

Later == IF revision < MaxRevision THEN revision + 1 ELSE revision

\* A release that is never asked for.
ReleaseForgotten(n) == UNCHANGED taskVars

\* releaseTaskLease, by whoever believes that attempt n is done.  Only the
\* Task's worker may; a failure of the command is logged and not repeated.
Release(n) ==
  \/ /\ holder = n
     /\ holder' = 0
     /\ task' \in IF task = "elsewhere" THEN {"free", "elsewhere"} ELSE {"free"}
     /\ revision' = Later
     /\ UNCHANGED <<leased, faults, shared>>
  \/ /\ holder = n /\ faults < MaxFaults
     /\ faults' = faults + 1
     /\ UNCHANGED <<task, holder, leased, revision, shared>>
  \/ /\ holder # n
     /\ UNCHANGED taskVars

\* The exact child already lives in this host.
SendRecovered(c) ==
  /\ At(c, "sending")
  /\ child[call[c].target] = "alive"
  /\ Goto(c, "starting")
  /\ UNCHANGED <<ledgerVars, hostVars>>

\* The exact child has lived: its cleanup runs (again), the call waits for it.
SendEnded(c) ==
  LET n == call[c].target IN
  /\ At(c, "sending")
  /\ child[n] \in {"gone", "dead"}
  /\ child' = [child EXCEPT ![n] = "ending"]
  /\ Release(n)
  /\ Goto(c, "converging")
  /\ UNCHANGED <<ledgerVars, bindings>>

\* A child that is sent off without a lease.
TakeNoTask(n) == UNCHANGED taskVars

\* The task.lease command.  Its key names the Agent: a second command of the
\* same attempt is answered from the receipt and leases nothing.
TakeTask(n) ==
  \/ n \in leased /\ UNCHANGED taskVars
  \/ /\ n \notin leased /\ task = "free"
     /\ task' = "executing"
     /\ holder' = n
     /\ leased' = leased \cup {n}
     /\ revision' = Later
     /\ UNCHANGED <<faults, shared>>

Lease(c) ==
  LET n == call[c].target IN
  /\ At(c, "sending")
  /\ child[n] = "none"
  /\ TakeTask(n)
  /\ Goto(c, "admitting")
  /\ UNCHANGED <<ledgerVars, bindings, child>>

\* No route, no lease, or a child that has ended.
SendFails(c) ==
  /\ \/ At(c, "sending") /\ child[call[c].target] \in {"none", "ending"}
     \/ At(c, "converging") /\ child[call[c].target] # "ending"
  /\ Throw(c, "RECOVERY_REQUIRED")
  /\ UNCHANGED <<ledgerVars, hostVars>>

\* The child's first prompt is admitted under the reserved child id.
Admit(c) ==
  LET n == call[c].target IN
  /\ At(c, "admitting")
  /\ child[n] = "none"
  /\ child' = [child EXCEPT ![n] = "alive"]
  /\ Goto(c, "starting")
  /\ UNCHANGED <<ledgerVars, bindings, taskVars>>

\* The child is refused, or drained because it did not come up properly; the
\* transport gives the Task back.
AdmitFails(c) ==
  LET n == call[c].target IN
  /\ At(c, "admitting")
  /\ \/ UNCHANGED child
     \/ child[n] = "none" /\ child' = [child EXCEPT ![n] = "ending"]
  /\ Release(n)
  /\ Throw(c, "RECOVERY_REQUIRED")
  /\ UNCHANGED <<ledgerVars, bindings>>

\* The start receipt is written before the transport has answered.
StartableEarly == {"sending", "starting"}

\* The stages at which a spawn call may write its start receipt.
Startable == {"starting"}

Start(c) ==
  /\ call[c].at \in Startable
  /\ \/ Mark(call[c].target, "STARTED") /\ Return(c)
     \/ Dispatch(c) = "STARTED" /\ Return(c) /\ UNCHANGED ledgerVars
     \/ /\ Dispatch(c) # "STARTED" /\ ~CanMark(records[call[c].target], "STARTED")
        /\ Throw(c, "RECOVERY_REQUIRED")
        /\ UNCHANGED ledgerVars
  /\ UNCHANGED hostVars

\* Marks made in a catch block are themselves caught.
MarkQuietly(c) ==
  \/ Mark(call[c].target, call[c].verdict)
  \/ UNCHANGED ledgerVars

Compensate(c) ==
  /\ At(c, "compensating")
  /\ MarkQuietly(c)
  /\ Goto(c, IF call[c].verdict = "FAILED" THEN "discarding" ELSE "failing")
  /\ UNCHANGED hostVars

Discard(c) ==
  /\ At(c, "discarding")
  /\ bindings' = IF call[c].ours THEN bindings \ {call[c].target} ELSE bindings
  /\ Goto(c, "failing")
  /\ UNCHANGED <<ledgerVars, child, taskVars>>

\* The outer catch reads the dispatch first ...
Inspect(c) ==
  /\ At(c, "failing")
  /\ IF Dispatch(c) \in DispatchEnded
     THEN Return(c)
     ELSE call' = [call EXCEPT ![c] =
            [@ EXCEPT !.at = "marking",
                      !.verdict = IF Dispatch(c) = "PENDING" THEN "FAILED"
                                  ELSE "RECOVERY_REQUIRED"]]
  /\ UNCHANGED <<ledgerVars, hostVars>>

\* ... and then marks it.
MarkFailure(c) ==
  /\ At(c, "marking")
  /\ MarkQuietly(c)
  /\ Return(c)
  /\ UNCHANGED hostVars

-----------------------------------------------------------------------------
(* The child, the Mission, the reconciliation, the host                     *)

\* A pre-step of the child: the heartbeat, if its binding can be found.
Beat(n) ==
  /\ child[n] = "alive"
  /\ n \in bindings
  /\ Heartbeat(n)
  /\ UNCHANGED <<call, hostVars>>

\* The child ends, or is told to, and gives its Task back: if its binding can
\* be found.
ChildEnds(n) ==
  /\ child[n] = "alive"
  /\ \/ /\ n \in bindings
        /\ child' = [child EXCEPT ![n] = "ending"]
        /\ Release(n)
     \/ /\ n \notin bindings
        /\ child' = [child EXCEPT ![n] = "gone"]
        /\ UNCHANGED taskVars
  /\ UNCHANGED <<ledgerVars, call, bindings>>

\* The rest of the cleanup settles the activation, finds it ended, or fails.
Cleanup(n) ==
  /\ child[n] = "ending"
  /\ child' = [child EXCEPT ![n] = "gone"]
  /\ \/ \E outcome \in ChildOutcomes : Settle(n, outcome)
     \/ UNCHANGED ledgerVars
  /\ UNCHANGED <<call, bindings, taskVars>>

\* Anything else that is committed to the Mission: submissions of the child,
\* verification (REWORK is free, and keeps its worker), guidance, decisions.
MissionMoves ==
  /\ revision' = Later
  /\ task' \in {task, "free", "elsewhere"}
  /\ UNCHANGED <<ledgerVars, call, bindings, child, holder, leased, faults, shared>>

LeaseRunsOut(n) == Expire(n) /\ UNCHANGED <<call, hostVars>>

List == ListExpired /\ UNCHANGED <<call, hostVars>>

Reconcile(n) == SettleExpired(n) /\ UNCHANGED <<call, hostVars>>

\* Spawn calls and reconciliation are lost, children die unsettled; the
\* ledger, the bindings and the Task lease are durable.
HostCrash ==
  /\ faults < MaxFaults
  /\ faults' = faults + 1
  /\ call' = [c \in Callers |-> Idle]
  /\ child' = [n \in Attempts |->
                 IF child[n] \in {"alive", "ending"} THEN "dead" ELSE child[n]]
  /\ found' = {}
  /\ UNCHANGED <<records, bindings, task, holder, leased, revision, shared>>

SpawnStep(c) ==
  \/ Call(c) \/ ReserveNew(c) \/ ReserveReplay(c) \/ ReserveLocked(c)
  \/ BindAgent(c) \/ FindBinding(c) \/ Prepare(c) \/ Accept(c)
  \/ SendRecovered(c) \/ SendEnded(c) \/ Lease(c) \/ SendFails(c)
  \/ Admit(c) \/ AdmitFails(c) \/ Start(c)
  \/ Compensate(c) \/ Discard(c) \/ Inspect(c) \/ MarkFailure(c)

SpawnNext ==
  \/ \E c \in Callers : SpawnStep(c)
  \/ \E n \in Numbers : Beat(n) \/ ChildEnds(n) \/ Cleanup(n)
                        \/ LeaseRunsOut(n) \/ Reconcile(n)
  \/ List \/ MissionMoves \/ HostCrash

SpawnSpec == SpawnInit /\ [][SpawnNext]_vars

-----------------------------------------------------------------------------
(* Properties                                                               *)

\* The variables stay in their types.
SpawnTypeOK ==
  /\ TypeOK
  /\ call \in [Callers -> CallRecord]
  /\ bindings \subseteq Numbers
  /\ child \in [Attempts -> {"none", "alive", "ending", "dead", "gone"}]
  /\ task \in {"free", "executing", "elsewhere"}
  /\ holder \in Numbers \cup {0}
  /\ leased \subseteq Numbers
  /\ revision \in 0..MaxRevision
  /\ faults \in 0..MaxFaults
  /\ shared \subseteq Keys

\* A start receipt proves a child: a dispatch is STARTED only after the
\* transport established one (agents.ts:267-283, 404-424).
StartProvesChild ==
  \A n \in Numbers : records[n].dispatch = "STARTED" => child[n] # "none"

\* A child is admitted only after its Task lease was committed
\* (child-transport.ts:75-128).
LeaseBeforeChild == \A n \in Attempts : child[n] # "none" => n \in leased

\* No two calls ever had the key of attempt n in flight at the same time.  Equal
\* calls do not know of each other (agents.ts has no table of calls in flight);
\* what they may do to each other is excepted from the next properties, and
\* shown by ReplayedSpawn.cfg.  Calls with other keys, earlier and later calls
\* with the same key, and calls after a crash are not excepted.
Unshared(n) == records[n].key \notin shared

\* A dispatch that a spawn call failed never had a child: when the transport
\* may have been asked the verdict is RECOVERY_REQUIRED (agents.ts:425-475).
FailedHadNoChild ==
  \A n \in Numbers :
    Unshared(n) /\ records[n].dispatch = "FAILED" /\ records[n].receipt = "none"
      => child[n] = "none"

\* As long as nothing was lost, a Task that is executing has somebody who will
\* give it back: a child that has not ended, or the call that is about to
\* start it (the rollbacks of child-transport.ts:137-147 and
\* host-runtime.ts:851-919), whatever calls for other attempts do meanwhile.
ExecutingIsAttended ==
  faults = 0 /\ task = "executing" /\ Unshared(holder) =>
    \/ child[holder] = "alive"
    \/ \E c \in Callers : At(c, "admitting") /\ call[c].target = holder

\* An attempt whose child is not running ends, or its child comes to run: no
\* bound attempt keeps its Task locked once its child is gone (the
\* reconciliation, coordination-maintenance.ts:163).
SilentAttemptsEnd ==
  \A n \in Attempts :
    (n \in Numbers /\ records[n].activation \in {"STARTING", "RUNNING"})
      ~> (n \in Numbers /\ (records[n].activation \in Ended \/ child[n] = "alive"))

\* Replaying a dispatch leaves the liveness of its running child alone
\* (violated: the second of two equal spawn calls is denied ACCEPTED, and its
\* catch block marks the started dispatch RECOVERY_REQUIRED).
ReplaySparesTheChild ==
  [][\A c \in Callers : call[c].recovered /\ call'[c] # call[c] =>
       \A n \in Alive : records[n].activation \notin Ended
                            => records'[n].activation \notin Ended]_vars

\* A running child has its execution binding, without which it can neither beat
\* nor settle (agents.ts:425-451): the call that created the binding discards it
\* only when no child can have been started.
LiveChildHasBinding == \A n \in Alive \cap Numbers : Unshared(n) => n \in bindings

\* A Task whose worker died with the host is taken back some time (violated:
\* nothing reads leaseExpiresAt, and nobody cleans up after a child of an
\* earlier host process).
DeadWorkersLoseTheTask ==
  \A n \in Attempts :
    (task = "executing" /\ holder = n /\ child[n] = "dead") ~> (task # "executing")

\* Time passes, the reconciliation runs again and again, and a spawn call
\* that has begun goes on.
Fairness ==
  /\ WF_vars(List)
  /\ \A n \in Attempts : /\ WF_vars(n \in Numbers /\ LeaseRunsOut(n))
                          /\ WF_vars(n \in Numbers /\ Reconcile(n))
  /\ \A c \in Callers : WF_vars(~At(c, "idle") /\ SpawnStep(c))

LiveSpec == SpawnSpec /\ Fairness
=============================================================================

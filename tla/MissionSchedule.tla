---------------------------- MODULE MissionSchedule ----------------------------
(***************************************************************************)
(* How MissionRuntime (packages/core/src/runtime.ts) brings the Tasks of a *)
(* Mission to execution: the General registers them one by one, each in a  *)
(* wave and with dependencies on earlier ones; a Task of the active wave   *)
(* is made ready when its dependencies are met, a wave is closed when all  *)
(* its Tasks are accepted, and then the wave of the oldest open Task is    *)
(* opened.  All this happens at the end of a Mission command, step by      *)
(* step; a command that crashes or throws stays open, and no other command *)
(* of the Mission is admitted until the same one is run again and          *)
(* completed (CommandSaga).  Completing the Mission is not a command.      *)
(***************************************************************************)
EXTENDS Naturals, FiniteSets

CONSTANTS
  NTasks,           \* the Tasks 1..NTasks, in the order of their registration
  Waves,
  Plans,            \* per Task, its wave, needs and validated Tasks
  MaxCrashes,       \* bounds the crashes
  General, Harness, None

Tasks == 1..NTasks

ASSUME NTasksAssumption == NTasks \in Nat
ASSUME PlansAssumption ==
  Plans \subseteq [Tasks -> [wave : Waves, needs : SUBSET Tasks, validates : SUBSET Tasks]]
ASSUME NamesAssumption ==
  General # Harness
  /\ None \notin {"register", "announce", "create", "advance", "open wave", "make ready", "cancel"}

VARIABLES
  plan,             \* the General's plan
  record,           \* the state of each Task record
  active,           \* the waves opened and not closed, in the Mission's events
  opened,           \* the wave/opened events, with the actor of each
  ended,            \* whether the Mission is open, completed or cancelled
  open,             \* the open command
  effect,           \* where its effect is, if it runs
  general,          \* whether the General is completing the Mission
  crashes

taskVars == <<record, active, opened, ended>>
vars == <<plan, taskVars, open, effect, general, crashes>>

Registered == {t \in Tasks : record[t] # "NONE"}
Terminal == {"ACCEPTED", "CANCELLED"}
OpenTasks == {t \in Registered : record[t] \notin Terminal}
Oldest(S) == CHOOSE t \in S : \A u \in S : t <= u
TasksOf(w) == {t \in Registered : plan[t].wave = w}

Command(do, of) == [do |-> do, of |-> of]
Commands == [do : {"register", "lease", "verify", "accept"}, of : Tasks]
            \cup [do : {"cancel"}, of : {None}]

Init ==
  /\ plan \in Plans
  /\ record = [t \in Tasks |-> "NONE"]
  /\ active = {} /\ opened = {}
  /\ ended = "no"
  /\ open = None /\ effect = None
  /\ general = "idle"
  /\ crashes = 0

-----------------------------------------------------------------------------
(* The end of a command: #scheduleMission.                                 *)

Goto(stage) == effect' = stage

(* #advanceWaveBarriers: a wave whose Tasks are all accepted is closed.    *)
ClosableBySome == {w \in active : \E t \in TasksOf(w) : record[t] = "ACCEPTED"}
Closable == {w \in active : TasksOf(w) # {} /\ \A t \in TasksOf(w) : record[t] = "ACCEPTED"}

NextCommand ==
  /\ effect = "advance"
  /\ Goto("open wave")
  /\ UNCHANGED <<plan, taskVars, open, general, crashes>>
AdvanceWaveBarriers ==
  /\ effect = "advance"
  /\ Closable # {} => ended = "no"
  /\ active' = active \ Closable
  /\ Goto("open wave")
  /\ UNCHANGED <<plan, record, opened, ended, open, general, crashes>>

(* An event is known by its key, the name of the wave; appending it again  *)
(* does nothing, and throws when it was appended by somebody else.         *)
OpenedBy(w) == {by \in {General, Harness} : <<w, by>> \in opened}
CanOpen(w, by) == OpenedBy(w) \subseteq {by} /\ ended = "no"
Open(w, by) ==
  /\ opened' = opened \cup {<<w, by>>}
  /\ active' = IF OpenedBy(w) = {} THEN active \cup {w} ELSE active

OpenWave ==
  /\ effect = "open wave"
  /\ IF active = {} /\ OpenTasks # {}
       THEN LET w == plan[Oldest(OpenTasks)].wave IN CanOpen(w, Harness) /\ Open(w, Harness)
       ELSE UNCHANGED <<active, opened>>
  /\ Goto("make ready")
  /\ UNCHANGED <<plan, record, ended, open, general, crashes>>

(* dependencySatisfied: what a Task needs must be accepted, what it        *)
(* validates must have a verified Candidate.                               *)
Validatable == {"WAITING_INTEGRATION", "ACCEPTED"}
ValidatableIsEnough(t) ==
  \A u \in plan[t].needs \cup plan[t].validates : record[u] \in Validatable
DependenciesSatisfied(t) ==
  /\ \A u \in plan[t].needs : record[u] = "ACCEPTED"
  /\ \A u \in plan[t].validates : record[u] \in Validatable
Due == {t \in Tasks : /\ record[t] = "CREATED" /\ plan[t].wave \in active
                      /\ DependenciesSatisfied(t)}

MakeReady ==
  /\ effect = "make ready" /\ Due # {} /\ ended = "no"
  /\ record' = [record EXCEPT ![Oldest(Due)] = "READY"]
  /\ UNCHANGED <<plan, active, opened, ended, open, effect, general, crashes>>

Commit ==
  /\ effect = "make ready" /\ Due = {}
  /\ open' = None /\ Goto(None)
  /\ UNCHANGED <<plan, taskVars, general, crashes>>

(* An append to a Mission that is over, or under a key that has been used  *)
(* otherwise: the effect throws.                                           *)
Throw ==
  /\ \/ effect = "advance" /\ Closable # {} /\ ended # "no"
     \/ effect = "open wave" /\ active = {} /\ OpenTasks # {}
          /\ ~CanOpen(plan[Oldest(OpenTasks)].wave, Harness)
     \/ effect = "make ready" /\ Due # {} /\ ended # "no"
     \/ effect = "announce" /\ ended # "no"
  /\ Goto(None)
  /\ UNCHANGED <<plan, taskVars, open, general, crashes>>

-----------------------------------------------------------------------------
(* The commands.                                                           *)

(* The first time, or again after its effect failed.                       *)
Admitted(c) == effect = None /\ open \in {None, c}

(* registerTask: the General does one thing at a time.  The dependencies   *)
(* are Tasks there are already.                                            *)
BeginRegister(t) ==
  /\ Admitted(Command("register", t)) /\ ended = "no" /\ general = "idle"
  /\ record[t] = "NONE" /\ \A u \in Tasks : u < t => record[u] # "NONE"
  /\ open' = Command("register", t)
  /\ Goto("register")
  /\ UNCHANGED <<plan, taskVars, general, crashes>>

OpenAnonymously ==
  /\ effect = "register"
  /\ IF Registered = {} /\ active = {} THEN Open(plan[open.of].wave, None)
                                       ELSE UNCHANGED <<active, opened>>
  /\ Goto("announce")
  /\ UNCHANGED <<plan, record, ended, open, general, crashes>>
OpenFirstWave ==
  /\ effect = "register"
  /\ IF Registered = {} /\ active = {}
       THEN CanOpen(plan[open.of].wave, General) /\ Open(plan[open.of].wave, General)
       ELSE UNCHANGED <<active, opened>>
  /\ Goto("announce")
  /\ UNCHANGED <<plan, record, ended, open, general, crashes>>

(* task/created.                                                           *)
AnnounceTask ==
  /\ effect = "announce" /\ ended = "no"
  /\ Goto("create")
  /\ UNCHANGED <<plan, taskVars, open, general, crashes>>

CreateTask ==
  /\ effect = "create"
  /\ record' = [record EXCEPT ![open.of] = "CREATED"]
  /\ Goto("advance")
  /\ UNCHANGED <<plan, active, opened, ended, open, general, crashes>>

(* leaseTask does not schedule.                                            *)
LeaseTask(t) ==
  /\ Admitted(Command("lease", t)) /\ ended = "no"
  /\ record[t] \in {"READY", "REWORK"}
  /\ record' = [record EXCEPT ![t] = "EXECUTING"]
  /\ open' = None
  /\ UNCHANGED <<plan, active, opened, ended, effect, general, crashes>>

(* recordCandidateVerification.                                            *)
Verify(t, verdict) ==
  /\ Admitted(Command("verify", t)) /\ ended = "no"
  /\ record[t] = "EXECUTING"
  /\ record' = [record EXCEPT ![t] = verdict]
  /\ open' = Command("verify", t) /\ Goto("advance")
  /\ UNCHANGED <<plan, active, opened, ended, general, crashes>>

(* recordIntegration.                                                      *)
Accept(t) ==
  /\ Admitted(Command("accept", t)) /\ ended = "no"
  /\ record[t] = "WAITING_INTEGRATION"
  /\ record' = [record EXCEPT ![t] = "ACCEPTED"]
  /\ open' = Command("accept", t) /\ Goto("advance")
  /\ UNCHANGED <<plan, active, opened, ended, general, crashes>>

(* Run again, these find what they recorded and return before they         *)
(* schedule.                                                               *)
Replay(t) ==
  /\ effect = None
  /\ \/ open = Command("verify", t) /\ record[t] # "EXECUTING"
     \/ open = Command("accept", t) /\ record[t] = "ACCEPTED"
  /\ open' = None
  /\ UNCHANGED <<plan, taskVars, effect, general, crashes>>

(* cancelMission: the open Tasks, one after the other, and the Mission.    *)
BeginCancel ==
  /\ Admitted(Command("cancel", None)) /\ ended = "no"
  /\ open' = Command("cancel", None) /\ Goto("cancel")
  /\ UNCHANGED <<plan, taskVars, general, crashes>>

CancelTask ==
  /\ effect = "cancel" /\ OpenTasks # {} /\ ended = "no"
  /\ record' = [record EXCEPT ![Oldest(OpenTasks)] = "CANCELLED"]
  /\ UNCHANGED <<plan, active, opened, ended, open, effect, general, crashes>>

CancelMission ==
  /\ effect = "cancel" /\ OpenTasks = {}
  /\ ended' = IF ended = "no" THEN "cancelled" ELSE ended
  /\ open' = IF ended = "no" THEN None ELSE open
  /\ Goto(None)
  /\ UNCHANGED <<plan, record, active, opened, general, crashes>>

-----------------------------------------------------------------------------
(* completeMission, when the General has nothing else to do.               *)

NothingOpen == Registered # {} /\ OpenTasks = {}
AllAccepted == Registered # {} /\ \A t \in Registered : record[t] = "ACCEPTED"

BeginComplete ==
  /\ general = "idle" /\ ended = "no" /\ AllAccepted
  /\ effect # None => open \notin {Command("register", t) : t \in Tasks}
  /\ active' = active \ Closable
  /\ general' = "completing"
  /\ UNCHANGED <<plan, record, opened, ended, open, effect, crashes>>

CompleteMission ==
  /\ general = "completing"
  /\ ended' = IF ended = "no" /\ AllAccepted THEN "completed" ELSE ended
  /\ general' = "idle"
  /\ UNCHANGED <<plan, record, active, opened, open, effect, crashes>>

Crash ==
  /\ crashes < MaxCrashes
  /\ crashes' = crashes + 1
  /\ effect' = None /\ general' = "idle"
  /\ UNCHANGED <<plan, taskVars, open>>

-----------------------------------------------------------------------------
Schedule == AdvanceWaveBarriers \/ OpenWave \/ MakeReady \/ Commit
Effect == Schedule \/ Throw \/ OpenFirstWave \/ AnnounceTask \/ CreateTask \/ CancelTask \/ CancelMission

Verdicts == {"WAITING_INTEGRATION", "REWORK"}

Next ==
  \/ Effect
  \/ BeginCancel \/ BeginComplete \/ CompleteMission
  \/ \E t \in Tasks : \/ BeginRegister(t) \/ LeaseTask(t) \/ Accept(t) \/ Replay(t)
                      \/ \E verdict \in Verdicts : Verify(t, verdict)
  \/ Crash

Spec == Init /\ [][Next]_vars

(* Effects run on; the attempts of a Task are made, one of them passes     *)
(* verification, and what passed is integrated.                            *)
FairSpec ==
  /\ Spec
  /\ WF_vars(Effect)
  /\ \A t \in Tasks : /\ SF_vars(LeaseTask(t)) /\ SF_vars(Accept(t))
                      /\ SF_vars(Verify(t, "WAITING_INTEGRATION"))

-----------------------------------------------------------------------------
(* Properties                                                              *)

Started == {"READY", "EXECUTING", "REWORK", "WAITING_INTEGRATION"}
States == Started \cup Terminal \cup {"NONE", "CREATED"}
Stages == {None, "register", "announce", "create", "advance", "open wave", "make ready", "cancel"}

TypeOK ==
  /\ plan \in Plans
  /\ record \in [Tasks -> States]
  /\ active \subseteq Waves /\ opened \subseteq Waves \X {General, Harness}
  /\ ended \in {"no", "completed", "cancelled"}
  /\ open \in Commands \cup {None} /\ effect \in Stages
  /\ general \in {"idle", "completing"} /\ crashes \in Nat

(* The planner admits Tasks of different waves that write the same files   *)
(* because waves follow one another (core/src/planning.ts:81): two such    *)
(* Tasks are never under way at once.                                      *)
WavesAreSequential ==
  \A t, u \in Tasks :
    record[t] \in Started /\ record[u] \in Started => plan[t].wave = plan[u].wave

(* A Task is under way, or done, only when all that it needs is accepted.  *)
NeedsAreAccepted ==
  \A t \in Tasks : record[t] \in Started \cup {"ACCEPTED"} =>
    \A u \in plan[t].needs : record[u] = "ACCEPTED"

(* A completed Mission has accepted every Task it was given, whatever      *)
(* commands are still running when the General completes it.               *)
CompletedIsAccepted ==
  ended = "completed" => Registered # {} /\ \A t \in Registered : record[t] = "ACCEPTED"

(* Every registered Task is brought to execution, or the Mission ends:     *)
(* again and again there is none that waits for its turn.                  *)
TasksGetTheirTurn == []<>(ended # "no" \/ \A t \in Tasks : record[t] # "CREATED")

(* It cannot be so when a Task needs one of a later wave, which nothing    *)
(* in the planner refuses.                                                 *)
Forward == \A t \in Tasks : \A u \in plan[t].needs \cup plan[t].validates :
             \A v \in Tasks : plan[v].wave = plan[t].wave => u <= v \/ plan[u].wave = plan[t].wave

(* It is so when besides nothing crashes, and no Task is put into a wave   *)
(* that has been closed.                                                   *)
Late(t) == record[t] = "CREATED" /\ plan[t].wave \notin active /\ OpenedBy(plan[t].wave) # {}
OrderlyTasksGetTheirTurn ==
  Forward /\ [](crashes = 0 /\ \A t \in Tasks : ~Late(t)) => TasksGetTheirTurn

(* The risk register has the Runtime detect deadlocks and waves that       *)
(* cannot be left (docs/docs/23-risk-register.md:33): no Task without a    *)
(* backward need is left waiting for ever.                                 *)
ForwardTasksGetTheirTurn == Forward => TasksGetTheirTurn
=============================================================================

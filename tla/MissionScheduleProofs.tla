------------------------- MODULE MissionScheduleProofs -------------------------
(***************************************************************************)
(* Theorems about MissionSchedule, for any plan, any number of Tasks and   *)
(* waves and any number of crashes.  The inductive invariant says that one *)
(* wave is active at a time and holds every Task under way, and that a     *)
(* registration runs only for a Task that is not there yet, and not while  *)
(* or after the Mission is completed.                                      *)
(***************************************************************************)
EXTENDS MissionSchedule, WellFoundedInduction, TLAPS

Registering == {"register", "announce", "create"}

(* At most one wave is active.                                             *)
OneWave == \A v, w \in active : v = w

(* The wave of a Task under way is active.                                 *)
StartedInActive == \A t \in Tasks : record[t] \in Started => plan[t].wave \in active

(* A registration is of a Task that has no record.                         *)
RegistersNew ==
  effect \in Registering =>
    open \in [do : {"register"}, of : Tasks] /\ record[open.of] = "NONE"

(* No registration runs while, or after, the Mission is completed.         *)
CompletionIsAlone ==
  general = "completing" \/ ended = "completed" => effect \notin Registering

Inv ==
  /\ OneWave
  /\ StartedInActive
  /\ RegistersNew
  /\ CompletionIsAlone
  /\ NeedsAreAccepted
  /\ CompletedIsAccepted

-----------------------------------------------------------------------------
(* Every nonempty set of Tasks has an oldest one.                          *)
Before == {p \in Nat \X Nat : p[1] < p[2]}

LEMMA OldestIsOne ==
  ASSUME NEW S, S \subseteq Tasks, S # {}
  PROVE  Oldest(S) \in S
<1>1. S \subseteq Nat
  BY NTasksAssumption DEF Tasks
<1>2. OpToRel(<, Nat) = Before
  BY DEF OpToRel, Before
<1>3. PICK x \in S : \A y \in S : <<y, x>> \notin Before
  BY <1>1, <1>2, NatLessThanWellFounded, WFMin
<1>4. ASSUME NEW a \in Nat, NEW b \in Nat, <<a, b>> \notin Before PROVE b <= a
  <2>1. <<a, b>>[1] = a /\ <<a, b>>[2] = b /\ <<a, b>> \in Nat \X Nat
    OBVIOUS
  <2>2. ~(a < b)
    BY <1>4, <2>1, Zenon DEF Before
  <2> QED
    BY <2>2
<1>5. \A y \in S : x <= y
  BY <1>1, <1>3, <1>4
<1> QED
  BY <1>5 DEF Oldest

-----------------------------------------------------------------------------
LEMMA InitInv == Init => TypeOK /\ Inv
<1> SUFFICES ASSUME Init PROVE TypeOK /\ Inv
  OBVIOUS
<1>1. TypeOK
  BY DEF Init, TypeOK, States, Started, Terminal, Stages
<1>2. \A t \in Tasks : record[t] = "NONE"
  BY DEF Init
<1>3. effect \notin Registering
  BY NamesAssumption DEF Init, Registering
<1>4. OneWave /\ StartedInActive /\ RegistersNew /\ CompletionIsAlone
  BY <1>2, <1>3 DEF Init, OneWave, StartedInActive, RegistersNew, CompletionIsAlone, Started
<1>5. NeedsAreAccepted /\ CompletedIsAccepted
  BY <1>2 DEF Init, NeedsAreAccepted, CompletedIsAccepted, Started
<1> QED
  BY <1>1, <1>4, <1>5 DEF Inv

(* Opening a wave keeps the types.                                         *)
LEMMA OpenTyped ==
  ASSUME TypeOK, NEW w \in Waves, NEW by \in {General, Harness}, Open(w, by)
  PROVE  active' \subseteq Waves /\ opened' \subseteq Waves \X {General, Harness}
<1>1. <<w, by>> \in Waves \X {General, Harness}
  OBVIOUS
<1> QED
  BY <1>1 DEF TypeOK, Open

(* Every step keeps the types.                                             *)
LEMMA TypeStep == TypeOK /\ RegistersNew /\ [Next]_vars => TypeOK'
<1> SUFFICES ASSUME TypeOK, RegistersNew, [Next]_vars PROVE TypeOK'
  OBVIOUS
<1>0. \A t \in Tasks : plan[t].wave \in Waves
  BY PlansAssumption DEF TypeOK
<1>c. \A n \in Nat : n + 1 \in Nat
  OBVIOUS
<1> USE DEF TypeOK, States, Started, Terminal, Stages, Commands, Command, Goto, Verdicts, taskVars
<1>1. CASE AdvanceWaveBarriers
  BY <1>1 DEF AdvanceWaveBarriers
<1>2. CASE OpenWave
  <2>1. CASE active = {} /\ OpenTasks # {}
    <3>1. Oldest(OpenTasks) \in Tasks
      BY <2>1, OldestIsOne DEF OpenTasks, Registered
    <3>2. Open(plan[Oldest(OpenTasks)].wave, Harness)
      BY <1>2, <2>1 DEF OpenWave
    <3>3. active' \subseteq Waves /\ opened' \subseteq Waves \X {General, Harness}
      BY <1>0, <3>1, <3>2, OpenTyped
    <3> QED
      BY <1>2, <3>3 DEF OpenWave
  <2>2. CASE ~(active = {} /\ OpenTasks # {})
    BY <1>2, <2>2 DEF OpenWave
  <2> QED
    BY <2>1, <2>2
<1>3. CASE MakeReady
  BY <1>3 DEF MakeReady
<1>4. CASE Commit
  BY <1>4 DEF Commit
<1>5. CASE Throw
  BY <1>5 DEF Throw
<1>6. CASE OpenFirstWave
  <2>1. CASE Registered = {} /\ active = {}
    <3>1. open \in [do : {"register"}, of : Tasks]
      BY <1>6 DEF OpenFirstWave, RegistersNew, Registering
    <3>2. Open(plan[open.of].wave, General)
      BY <1>6, <2>1 DEF OpenFirstWave
    <3>3. active' \subseteq Waves /\ opened' \subseteq Waves \X {General, Harness}
      BY <1>0, <3>1, <3>2, OpenTyped
    <3> QED
      BY <1>6, <3>3 DEF OpenFirstWave
  <2>2. CASE ~(Registered = {} /\ active = {})
    BY <1>6, <2>2 DEF OpenFirstWave
  <2> QED
    BY <2>1, <2>2
<1>7. CASE AnnounceTask
  BY <1>7 DEF AnnounceTask
<1>8. CASE CreateTask
  BY <1>8 DEF CreateTask
<1>9. CASE CancelTask
  BY <1>9 DEF CancelTask
<1>10. CASE CancelMission
  BY <1>10 DEF CancelMission
<1>11. CASE BeginCancel
  BY <1>11 DEF BeginCancel
<1>12. CASE BeginComplete
  BY <1>12 DEF BeginComplete
<1>13. CASE CompleteMission
  BY <1>13 DEF CompleteMission
<1>14. ASSUME NEW t \in Tasks, BeginRegister(t) PROVE TypeOK'
  BY <1>14 DEF BeginRegister
<1>15. ASSUME NEW t \in Tasks, LeaseTask(t) PROVE TypeOK'
  BY <1>15 DEF LeaseTask
<1>16. ASSUME NEW t \in Tasks, Accept(t) PROVE TypeOK'
  BY <1>16 DEF Accept
<1>17. ASSUME NEW t \in Tasks, Replay(t) PROVE TypeOK'
  BY <1>17 DEF Replay
<1>18. ASSUME NEW t \in Tasks, NEW verdict \in Verdicts, Verify(t, verdict) PROVE TypeOK'
  BY <1>18 DEF Verify
<1>19. CASE Crash
  <2>1. crashes \in Nat /\ crashes' = crashes + 1
    BY <1>19, Zenon DEF Crash
  <2>2. effect' \in Stages
    BY <1>19 DEF Crash
  <2>3. crashes' \in Nat
    BY <1>c, <2>1, Zenon
  <2> QED
    BY <1>19, <2>2, <2>3 DEF Crash
<1>20. CASE UNCHANGED vars
  BY <1>20 DEF vars
<1> QED
  BY <1>1, <1>2, <1>3, <1>4, <1>5, <1>6, <1>7, <1>8, <1>9, <1>10, <1>11, <1>12, <1>13, <1>14, <1>15, <1>16, <1>17, <1>18, <1>19, <1>20 DEF Next, Effect, Schedule

-----------------------------------------------------------------------------
(* One wave is active, and holds what is under way.                        *)
LEMMA WaveStep == TypeOK /\ Inv /\ [Next]_vars => OneWave' /\ StartedInActive'
<1> SUFFICES ASSUME TypeOK, Inv, [Next]_vars PROVE OneWave' /\ StartedInActive'
  OBVIOUS
<1> USE DEF Inv, OneWave, StartedInActive, Started, Goto, taskVars
<1>1. CASE AdvanceWaveBarriers
  BY <1>1 DEF AdvanceWaveBarriers, Closable, TasksOf, Registered
<1>2. CASE OpenWave
  BY <1>2 DEF OpenWave, Open
<1>3. CASE MakeReady
  <2>1. Oldest(Due) \in Due
    BY <1>3, OldestIsOne DEF MakeReady, Due
  <2>2. Oldest(Due) \in Tasks /\ plan[Oldest(Due)].wave \in active
    BY <2>1 DEF Due
  <2>3. record' = [record EXCEPT ![Oldest(Due)] = "READY"] /\ UNCHANGED <<plan, active>>
    BY <1>3 DEF MakeReady
  <2> QED
    BY <2>2, <2>3 DEF TypeOK
<1>4. CASE Commit
  BY <1>4 DEF Commit
<1>5. CASE Throw
  BY <1>5 DEF Throw
<1>6. CASE OpenFirstWave
  BY <1>6 DEF OpenFirstWave, Open
<1>7. CASE AnnounceTask
  BY <1>7 DEF AnnounceTask
<1>8. CASE CreateTask
  BY <1>8 DEF CreateTask, TypeOK
<1>9. CASE CancelTask
  BY <1>9 DEF CancelTask, TypeOK
<1>10. CASE CancelMission
  BY <1>10 DEF CancelMission
<1>11. CASE BeginCancel
  BY <1>11 DEF BeginCancel
<1>12. CASE BeginComplete
  BY <1>12 DEF BeginComplete, Closable, TasksOf, Registered
<1>13. CASE CompleteMission
  BY <1>13 DEF CompleteMission
<1>14. ASSUME NEW t \in Tasks, BeginRegister(t) PROVE OneWave' /\ StartedInActive'
  BY <1>14 DEF BeginRegister
<1>15. ASSUME NEW t \in Tasks, LeaseTask(t) PROVE OneWave' /\ StartedInActive'
  BY <1>15 DEF LeaseTask, TypeOK
<1>16. ASSUME NEW t \in Tasks, Accept(t) PROVE OneWave' /\ StartedInActive'
  BY <1>16 DEF Accept, TypeOK
<1>17. ASSUME NEW t \in Tasks, Replay(t) PROVE OneWave' /\ StartedInActive'
  BY <1>17 DEF Replay
<1>18. ASSUME NEW t \in Tasks, NEW verdict \in Verdicts, Verify(t, verdict) PROVE OneWave' /\ StartedInActive'
  BY <1>18 DEF Verify, TypeOK
<1>19. CASE Crash
  BY <1>19 DEF Crash
<1>20. CASE UNCHANGED vars
  BY <1>20 DEF vars
<1> QED
  BY <1>1, <1>2, <1>3, <1>4, <1>5, <1>6, <1>7, <1>8, <1>9, <1>10, <1>11, <1>12, <1>13, <1>14, <1>15, <1>16, <1>17, <1>18, <1>19, <1>20 DEF Next, Effect, Schedule

(* Registration is of a new Task, and not at the end of the Mission.       *)
LEMMA RegisterStep == TypeOK /\ Inv /\ [Next]_vars => RegistersNew' /\ CompletionIsAlone'
<1> SUFFICES ASSUME TypeOK, Inv, [Next]_vars PROVE RegistersNew' /\ CompletionIsAlone'
  OBVIOUS
<1>0. None \notin Registering
  BY NamesAssumption DEF Registering
<1> USE DEF Inv, RegistersNew, CompletionIsAlone, Registering, Goto, taskVars
<1>1. CASE AdvanceWaveBarriers
  BY <1>0, <1>1 DEF AdvanceWaveBarriers
<1>2. CASE OpenWave
  BY <1>0, <1>2 DEF OpenWave
<1>3. CASE MakeReady
  BY <1>3 DEF MakeReady
<1>4. CASE Commit
  BY <1>0, <1>4 DEF Commit
<1>5. CASE Throw
  BY <1>0, <1>5 DEF Throw
<1>6. CASE OpenFirstWave
  BY <1>0, <1>6 DEF OpenFirstWave
<1>7. CASE AnnounceTask
  BY <1>0, <1>7 DEF AnnounceTask
<1>8. CASE CreateTask
  BY <1>0, <1>8 DEF CreateTask
<1>9. CASE CancelTask
  BY <1>0, <1>9 DEF CancelTask
<1>10. CASE CancelMission
  BY <1>0, <1>10 DEF CancelMission
<1>11. CASE BeginCancel
  BY <1>0, <1>11 DEF BeginCancel
<1>12. CASE BeginComplete
  <2>1. open \notin [do : {"register"}, of : Tasks] \/ effect = None
    BY <1>12 DEF BeginComplete, Command
  <2> QED
    BY <1>0, <2>1, <1>12 DEF BeginComplete
<1>13. CASE CompleteMission
  BY <1>0, <1>13 DEF CompleteMission
<1>14. ASSUME NEW t \in Tasks, BeginRegister(t) PROVE RegistersNew' /\ CompletionIsAlone'
  BY <1>14 DEF BeginRegister, Admitted, Command
<1>15. ASSUME NEW t \in Tasks, LeaseTask(t) PROVE RegistersNew' /\ CompletionIsAlone'
  BY <1>0, <1>15 DEF LeaseTask, Admitted
<1>16. ASSUME NEW t \in Tasks, Accept(t) PROVE RegistersNew' /\ CompletionIsAlone'
  BY <1>16 DEF Accept, Admitted
<1>17. ASSUME NEW t \in Tasks, Replay(t) PROVE RegistersNew' /\ CompletionIsAlone'
  BY <1>0, <1>17 DEF Replay
<1>18. ASSUME NEW t \in Tasks, NEW verdict \in Verdicts, Verify(t, verdict) PROVE RegistersNew' /\ CompletionIsAlone'
  BY <1>18 DEF Verify, Admitted
<1>19. CASE Crash
  BY <1>0, <1>19 DEF Crash
<1>20. CASE UNCHANGED vars
  BY <1>0, <1>20 DEF vars
<1> QED
  BY <1>1, <1>2, <1>3, <1>4, <1>5, <1>6, <1>7, <1>8, <1>9, <1>10, <1>11, <1>12, <1>13, <1>14, <1>15, <1>16, <1>17, <1>18, <1>19, <1>20 DEF Next, Effect, Schedule

(* What is accepted stays so, and nothing starts before what it needs is.  *)
LEMMA NeedStep == TypeOK /\ Inv /\ [Next]_vars => NeedsAreAccepted'
<1> SUFFICES ASSUME TypeOK, Inv, [Next]_vars PROVE NeedsAreAccepted'
  OBVIOUS
<1>0. \A t \in Tasks : plan[t].needs \subseteq Tasks
  BY PlansAssumption DEF TypeOK
<1> USE DEF Inv, NeedsAreAccepted, Started, Goto, taskVars
<1>1. CASE AdvanceWaveBarriers
  BY <1>0, <1>1 DEF AdvanceWaveBarriers
<1>2. CASE OpenWave
  BY <1>0, <1>2 DEF OpenWave
<1>3. CASE MakeReady
  <2>1. Oldest(Due) \in Due
    BY <1>3, OldestIsOne DEF MakeReady, Due
  <2>2. Oldest(Due) \in Tasks /\ record[Oldest(Due)] = "CREATED" /\ DependenciesSatisfied(Oldest(Due))
    BY <2>1 DEF Due
  <2>3. record' = [record EXCEPT ![Oldest(Due)] = "READY"] /\ UNCHANGED plan
    BY <1>3 DEF MakeReady
  <2> QED
    BY <1>0, <2>2, <2>3 DEF TypeOK, DependenciesSatisfied
<1>4. CASE Commit
  BY <1>0, <1>4 DEF Commit
<1>5. CASE Throw
  BY <1>0, <1>5 DEF Throw
<1>6. CASE OpenFirstWave
  BY <1>0, <1>6 DEF OpenFirstWave
<1>7. CASE AnnounceTask
  BY <1>0, <1>7 DEF AnnounceTask
<1>8. CASE CreateTask
  <2>1. open.of \in Tasks /\ record[open.of] = "NONE"
    BY <1>8 DEF CreateTask, RegistersNew, Registering
  <2> QED
    BY <1>0, <2>1, <1>8 DEF CreateTask, TypeOK
<1>9. CASE CancelTask
  <2>1. Oldest(OpenTasks) \in OpenTasks
    BY <1>9, OldestIsOne DEF CancelTask, OpenTasks, Registered
  <2>2. Oldest(OpenTasks) \in Tasks /\ record[Oldest(OpenTasks)] # "ACCEPTED"
    BY <2>1 DEF OpenTasks, Registered, Terminal
  <2>3. record' = [record EXCEPT ![Oldest(OpenTasks)] = "CANCELLED"] /\ UNCHANGED plan
    BY <1>9 DEF CancelTask
  <2> QED
    BY <1>0, <2>2, <2>3 DEF TypeOK
<1>10. CASE CancelMission
  BY <1>0, <1>10 DEF CancelMission
<1>11. CASE BeginCancel
  BY <1>0, <1>11 DEF BeginCancel
<1>12. CASE BeginComplete
  BY <1>0, <1>12 DEF BeginComplete
<1>13. CASE CompleteMission
  BY <1>0, <1>13 DEF CompleteMission
<1>14. ASSUME NEW t \in Tasks, BeginRegister(t) PROVE NeedsAreAccepted'
  BY <1>0, <1>14 DEF BeginRegister
<1>15. ASSUME NEW t \in Tasks, LeaseTask(t) PROVE NeedsAreAccepted'
  BY <1>0, <1>15 DEF LeaseTask, TypeOK
<1>16. ASSUME NEW t \in Tasks, Accept(t) PROVE NeedsAreAccepted'
  BY <1>0, <1>16 DEF Accept, TypeOK
<1>17. ASSUME NEW t \in Tasks, Replay(t) PROVE NeedsAreAccepted'
  BY <1>0, <1>17 DEF Replay
<1>18. ASSUME NEW t \in Tasks, NEW verdict \in Verdicts, Verify(t, verdict) PROVE NeedsAreAccepted'
  BY <1>0, <1>18 DEF Verify, TypeOK, Verdicts
<1>19. CASE Crash
  BY <1>0, <1>19 DEF Crash
<1>20. CASE UNCHANGED vars
  BY <1>0, <1>20 DEF vars
<1> QED
  BY <1>1, <1>2, <1>3, <1>4, <1>5, <1>6, <1>7, <1>8, <1>9, <1>10, <1>11, <1>12, <1>13, <1>14, <1>15, <1>16, <1>17, <1>18, <1>19, <1>20 DEF Next, Effect, Schedule

(* A completed Mission stays as it is.                                     *)
LEMMA CompletionStep == TypeOK /\ Inv /\ [Next]_vars => CompletedIsAccepted'
<1> SUFFICES ASSUME TypeOK, Inv, [Next]_vars PROVE CompletedIsAccepted'
  OBVIOUS
<1> USE DEF Inv, CompletedIsAccepted, Registered, Goto, taskVars
<1>1. CASE AdvanceWaveBarriers
  BY <1>1 DEF AdvanceWaveBarriers
<1>2. CASE OpenWave
  BY <1>2 DEF OpenWave
<1>3. CASE MakeReady
  BY <1>3 DEF MakeReady
<1>4. CASE Commit
  BY <1>4 DEF Commit
<1>5. CASE Throw
  BY <1>5 DEF Throw
<1>6. CASE OpenFirstWave
  BY <1>6 DEF OpenFirstWave
<1>7. CASE AnnounceTask
  BY <1>7 DEF AnnounceTask
<1>8. CASE CreateTask
  BY <1>8 DEF CreateTask, CompletionIsAlone, Registering
<1>9. CASE CancelTask
  BY <1>9 DEF CancelTask
<1>10. CASE CancelMission
  BY <1>10 DEF CancelMission
<1>11. CASE BeginCancel
  BY <1>11 DEF BeginCancel
<1>12. CASE BeginComplete
  BY <1>12 DEF BeginComplete
<1>13. CASE CompleteMission
  BY <1>13 DEF CompleteMission, AllAccepted
<1>14. ASSUME NEW t \in Tasks, BeginRegister(t) PROVE CompletedIsAccepted'
  BY <1>14 DEF BeginRegister
<1>15. ASSUME NEW t \in Tasks, LeaseTask(t) PROVE CompletedIsAccepted'
  BY <1>15 DEF LeaseTask
<1>16. ASSUME NEW t \in Tasks, Accept(t) PROVE CompletedIsAccepted'
  BY <1>16 DEF Accept
<1>17. ASSUME NEW t \in Tasks, Replay(t) PROVE CompletedIsAccepted'
  BY <1>17 DEF Replay
<1>18. ASSUME NEW t \in Tasks, NEW verdict \in Verdicts, Verify(t, verdict) PROVE CompletedIsAccepted'
  BY <1>18 DEF Verify
<1>19. CASE Crash
  BY <1>19 DEF Crash
<1>20. CASE UNCHANGED vars
  BY <1>20 DEF vars
<1> QED
  BY <1>1, <1>2, <1>3, <1>4, <1>5, <1>6, <1>7, <1>8, <1>9, <1>10, <1>11, <1>12, <1>13, <1>14, <1>15, <1>16, <1>17, <1>18, <1>19, <1>20 DEF Next, Effect, Schedule

(* The invariant, of every reachable state.                                *)
LEMMA Invariance == Spec => [](TypeOK /\ Inv)
<1>1. TypeOK /\ Inv /\ [Next]_vars => (TypeOK /\ Inv)'
  BY TypeStep, WaveStep, RegisterStep, NeedStep, CompletionStep DEF Inv
<1> QED
  BY InitInv, <1>1, PTL DEF Spec

(* Records, waves, events and the running effect keep their types          *)
(* (storage-sqlite/src/runtime-state.ts:94).                               *)
THEOREM TypeCorrectness == Spec => []TypeOK
  BY Invariance, PTL

(* Tasks of different waves are never under way at once: #scheduleMission  *)
(* opens a wave only when no other is open (core/src/runtime.ts:1048).     *)
THEOREM SequentialWaves == Spec => []WavesAreSequential
<1>1. Inv => WavesAreSequential
  BY DEF Inv, OneWave, StartedInActive, WavesAreSequential
<1> QED
  BY Invariance, <1>1, PTL

(* Nothing is under way, or done, before all that it needs is accepted     *)
(* (dependencySatisfied, core/src/runtime.ts:1195).                        *)
THEOREM NeedsFirst == Spec => []NeedsAreAccepted
  BY Invariance, PTL DEF Inv

(* A completed Mission has Tasks, and has accepted them all                *)
(* (completeMission, core/src/runtime.ts:443).                             *)
THEOREM CompleteIsDone == Spec => []CompletedIsAccepted
  BY Invariance, PTL DEF Inv
=============================================================================

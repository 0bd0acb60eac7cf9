---------------------------- MODULE TaskWaitsProofs ----------------------------
(***************************************************************************)
(* Proofs about the waits of a Task, for any number of attempts, advisors  *)
(* and retries.  An event matters from the moment an operation has it      *)
(* among its writes (Known), for then it may come; what a store has        *)
(* decided is final before that.  An operation that read the Task when     *)
(* nothing had been heard cannot be under way once a Task that waits goes  *)
(* on (QuietInv): that is why the first wait needs its end.                *)
(***************************************************************************)
EXTENDS TaskWaits, TLAPS

(* What an operation under way has still to append.                        *)
Pending(p, type, n) ==
  Busy(p) /\ \E i \in DOMAIN saving[p].writes :
               saving[p].writes[i].type = type /\ saving[p].writes[i].of = n
Known(type, n) == Told(type, n) \/ \E p \in Places : Pending(p, type, n)
Coming(p) == Head(saving[p].writes)

-----------------------------------------------------------------------------
(* The inductive invariants                                                *)

RadioStates == {"UNSENT", "QUEUED", "LEASED", "GUIDANCE_READY", "DELIVERED",
                "ACKNOWLEDGED", "DEAD_LETTERED"}
Some == Attempts \cup {None}
Entries ==
  { r \in [state : RadioStates, tries : 0..MaxTries, by : Staff \cup {None}] :
      /\ r.state = "LEASED" <=> r.by # None
      /\ r.state \in {"UNSENT", "QUEUED"} => r.tries < MaxTries }
Steps == {"request", "await-guidance", "block", "ask", "wait"}

StoresTyped ==
  /\ task \in TaskRecords
  /\ folded \in TaskStates \cup {Broken}
  /\ stream \in SUBSET Events
  /\ radio \in [Attempts -> Entries]
  /\ broker \in [Attempts -> {"UNASKED", "QUEUED", "ANSWERED", "EXPIRED"}]

SavingTyped ==
  /\ kernel \in Callers \cup {None}
  /\ saving \in [Places -> Operations \cup {None}]
  /\ \A p \in Places : Busy(p) =>
       /\ saving[p].writes # <<>>
       /\ \A i \in DOMAIN saving[p].writes :
            saving[p].writes[i].type = "task/activation-settled"
            => saving[p].writes[i].as \in TaskStates

WorkersTyped ==
  /\ life \in [Attempts -> {"new", "live", "concluding", "gone"}]
  /\ steps \in [Attempts -> Seq(Steps)]
AdviceTyped ==
  /\ advice \in [Staff -> [at : {"idle", "issue", "deliver", "apply", "resolve"}, of : Some]]
  /\ \A g \in Staff : advice[g].at # "idle" => advice[g].of \in Attempts
PassTyped ==
  pass \in [at : {"idle", "radio", "questions"}, dead : SUBSET Attempts,
            expired : SUBSET Attempts]
SpawnTyped ==
  /\ spawn \in [at : {"idle", "lease", "start", "guidance", "radio", "answer"},
                by : Some, guidance : Some, answer : Some]
  /\ spawn.at # "idle" <=> spawn.by \in Attempts
  /\ spawn.at \in {"guidance", "radio"} => spawn.guidance # None
CallsTyped == WorkersTyped /\ AdviceTyped /\ PassTyped /\ SpawnTyped

WaitsTyped == StoresTyped /\ SavingTyped /\ CallsTyped

(* A store's decision about a wait is final before the Mission may tell of *)
(* it.                                                                     *)
Issued(n) ==
  \/ advice[General].at \in {"deliver", "apply"} /\ advice[General].of = n
  \/ Known("radio/guidance-delivered", n)

EndsInv ==
  \A n \in Attempts :
    /\ Issued(n) => radio[n].state \in {"GUIDANCE_READY", "DELIVERED", "ACKNOWLEDGED",
                                         "DEAD_LETTERED"}
    /\ n \in pass.dead \/ Known("radio/dead-lettered", n)
       => radio[n].state = "DEAD_LETTERED" /\ ~Issued(n)
    /\ \/ advice[General].at = "resolve" /\ advice[General].of = n
       \/ Known("task/decision-resolved", n)
       => broker[n] = "ANSWERED"
    /\ n \in pass.expired \/ Known("decision/expired", n) => broker[n] = "EXPIRED"

(* The projection of a Mission whose Task was cancelled.                   *)
Gone == folded \in {"CANCELLED", Broken}

CancelInv ==
  /\ (\E e \in stream : e.type = "task/cancelled") => Gone
  /\ task.state = "CANCELLED" \/ Closed => Gone
  /\ \A p \in Places :
       /\ Busy(p)
       /\ \/ saving[p].task.state = "CANCELLED"
          \/ \E i \in DOMAIN saving[p].writes : saving[p].writes[i] = MissionCancelled
       => Gone \/ Coming(p).type = "task/cancelled"

(* Attempts are started in their order, each once it has leased the Task.  *)
Leased(n) == Told("task/leased", n)
Leasing(n) == kernel = Host /\ Pending("command", "task/leased", n)

LifeInv ==
  /\ \A n \in Attempts :
       /\ steps[n] # <<>> => life[n] = "concluding"
       /\ life[n] \in {"live", "concluding"} => Leased(n)
       /\ Leased(n) => life[n] # "new" \/ (spawn.at = "start" /\ spawn.by = n)
       /\ \A m \in Attempts : life[n] # "new" /\ life[m] = "new" => n < m
       /\ spawn.by = n => (life[n] = "new" <=> spawn.at \in {"lease", "start"})
  /\ spawn.at \in {"lease", "start"} => \A m \in New : spawn.by <= m
  /\ spawn.at = "start" => Leased(spawn.by) \/ Leasing(spawn.by)

(* Only who has leased the Task asks, and is heard.                        *)
AskedInv ==
  /\ \A n \in Attempts :
       /\ radio[n].state # "UNSENT" \/ broker[n] # "UNASKED" => Leased(n)
       /\ \A type \in {"radio/guidance-delivered", "task/decision-resolved"} :
            Known(type, n) => Leased(n)
       /\ task.request = n => Leased(n)
       /\ \A p \in Places : Busy(p) /\ saving[p].task.request = n => Leased(n)
  /\ \A g \in Staff : advice[g].at # "idle" => Leased(advice[g].of)

(* Whose command is under way.                                             *)
PutLast(writes) == \A i \in DOMAIN writes : writes[i] = Put <=> i = Len(writes)

CommandInv ==
  /\ Busy("command") => kernel # None
  /\ \A n \in Attempts : Busy("command") /\ kernel = n =>
       /\ saving["command"].task.state \in {"BLOCKED", "WAITING_DECISION"}
       /\ saving["command"].task.worker = n
       /\ PutLast(saving["command"].writes)
       /\ life[n] = "concluding"
  /\ Busy("command") /\ kernel = Host =>
       /\ spawn.at = "start"
       /\ saving["command"].task.state = "EXECUTING"
       /\ saving["command"].task.worker = spawn.by
       /\ PutLast(saving["command"].writes)
  /\ \A n \in Attempts, p \in Places :
       /\ Pending(p, "task/leased", n) => p = "command" /\ kernel = Host /\ spawn.by = n
       /\ Pending(p, "task/blocker-submitted", n) \/ Pending(p, "task/decision-waiting", n)
          => p = "command" /\ kernel = n

(* Who is, or may again become, the worker of the record.                  *)
MayBeWorker(n) ==
  task.worker = n \/ \E p \in Places : Busy(p) /\ saving[p].task.worker = n
EndedFor(n) == \E k \in Attempts : k <= n /\ Heard(k)

OrderInv ==
  \A n, m \in Attempts :
    n < m /\ Leased(m) /\ (Waited(n) \/ MayBeWorker(n)) => EndedFor(n)

(* Before the Task has been given anything.                                *)
Quiet == \A n \in Attempts : ~Heard(n)
Gives(e) == /\ e.type \in {"radio/guidance-delivered", "task/decision-resolved"}
            /\ e.of \in Attempts
Stop == {"BLOCKED", "WAITING_DECISION", "CANCELLED"}
Blank(t) == t.guidance = None /\ t.answer = None

QuietInv ==
  Quiet =>
    /\ Blank(task) /\ Blank(spawn)
    /\ ~Busy("acknowledgement")
    /\ Busy("guidance") => Gives(Coming("guidance"))
    /\ Busy("maintenance") =>
         Blank(saving["maintenance"].task) /\ saving["maintenance"].task.state = "BLOCKED"
    /\ Busy("guidance") \/ Busy("maintenance") => task.state \in Stop
    /\ task.state \in {"READY", "RECOVERY_REQUIRED"} => task.worker = None
    /\ (\E n \in Attempts : Waited(n)) => task.state \in Stop \/ kernel \in Attempts
    /\ Busy("command") =>
         IF kernel = General THEN Gives(Coming("command"))
         ELSE /\ Blank(saving["command"].task)
              /\ saving["command"].task.state \notin Stop => task.state \notin Stop
              /\ saving["command"].task.state \in {"READY", "RECOVERY_REQUIRED"}
                 => saving["command"].task.worker = None
              /\ kernel = Host => task.worker = None

WaitsInv ==
  /\ WaitsTyped /\ EndsInv /\ CancelInv
  /\ LifeInv /\ AskedInv /\ CommandInv /\ OrderInv /\ QuietInv

-----------------------------------------------------------------------------
(* The operations under way                                                *)

\* An operation is a record of its own, never None.
LEMMA OperationsBusy ==
  ASSUME NEW p \in Places, SavingTyped
  PROVE  /\ Busy(p) <=> saving[p] \in Operations
         /\ Busy(p) => /\ saving[p].task \in TaskRecords
                       /\ saving[p].writes \in Seq(Events) \ {<<>>}
                       /\ Coming(p) \in Events
                       /\ Tail(saving[p].writes) \in Seq(Events)
BY NoneAssumption DEF SavingTyped, Busy, Operations, Coming

\* What an operation that begins adds to what is known.
LEMMA LoadAdds ==
  ASSUME SavingTyped, NEW p \in Places, NEW after \in TaskRecords,
         NEW writes \in Seq(Events) \ {<<>>}, Load(p, after, writes)
  PROVE  /\ Busy(p)' /\ saving'[p] = [task |-> after, writes |-> writes]
         /\ \A q \in Places \ {p} : saving'[q] = saving[q] /\ (Busy(q)' <=> Busy(q))
         /\ \A q \in Places : \A type, n : Pending(q, type, n)' =>
              IF q = p THEN \E i \in DOMAIN writes : writes[i].type = type /\ writes[i].of = n
              ELSE Pending(q, type, n)
<1>1. [task |-> after, writes |-> writes] \in Operations
  BY DEF Operations
<1>2. saving' = [saving EXCEPT ![p] = [task |-> after, writes |-> writes]]
  BY DEF Load
<1>3. /\ saving'[p] = [task |-> after, writes |-> writes]
      /\ \A q \in Places \ {p} : saving'[q] = saving[q]
  BY <1>2 DEF SavingTyped
<1>4. saving'[p] # None
  BY <1>1, <1>3, NoneAssumption
<1> QED
  BY <1>3, <1>4 DEF Busy, Pending

\* An operation that begins with typed writes leaves the savings typed.
LEMMA LoadTyped ==
  ASSUME SavingTyped, NEW p \in Places, NEW after \in TaskRecords,
         NEW writes \in Seq(Events) \ {<<>>}, Load(p, after, writes),
         \A i \in DOMAIN writes :
           writes[i].type = "task/activation-settled" => writes[i].as \in TaskStates,
         kernel' \in Callers \cup {None}
  PROVE  SavingTyped'
<1>1. /\ Busy(p)' /\ saving'[p] = [task |-> after, writes |-> writes]
      /\ \A q \in Places \ {p} : saving'[q] = saving[q] /\ (Busy(q)' <=> Busy(q))
  BY LoadAdds
<1>2. saving' \in [Places -> Operations \cup {None}]
  BY DEF Load, SavingTyped, Operations
<1>3. ASSUME NEW q \in Places, Busy(q)'
      PROVE  /\ saving'[q].writes # <<>>
             /\ \A i \in DOMAIN saving'[q].writes :
                  saving'[q].writes[i].type = "task/activation-settled"
                  => saving'[q].writes[i].as \in TaskStates
  <2>1. CASE q = p
    BY <1>1, <2>1
  <2>2. CASE q # p
    BY <1>1, <1>3, <2>2 DEF SavingTyped
  <2> QED
    BY <2>1, <2>2
<1> QED
  BY <1>2, <1>3 DEF SavingTyped

\* What is left of an operation after one of its writes.
LEMMA GoLeaves ==
  ASSUME SavingTyped, NEW p \in Places, Busy(p), Go(p)
  PROVE  /\ \A q \in Places \ {p} : saving'[q] = saving[q] /\ (Busy(q)' <=> Busy(q))
         /\ Busy(p)' <=> Tail(saving[p].writes) # <<>>
         /\ Busy(p)' => saving'[p].task = saving[p].task
                       /\ saving'[p].writes = Tail(saving[p].writes)
         /\ kernel' = IF ~Busy(p)' /\ p = "command" THEN None ELSE kernel
         /\ \A q \in Places : \A type, n : Pending(q, type, n)' => Pending(q, type, n)
         /\ SavingTyped'
<1> DEFINE rest == Tail(saving[p].writes)
           left == [task |-> saving[p].task, writes |-> rest]
<1>1. /\ saving[p] \in Operations /\ saving[p].writes \in Seq(Events) \ {<<>>}
      /\ rest \in Seq(Events)
  BY OperationsBusy
<1>2. [saving[p] EXCEPT !.writes = rest] = left
  BY <1>1 DEF Operations
<1>3. left \in Operations /\ left # None
  BY <1>1, NoneAssumption DEF Operations
<1>4. saving' = [saving EXCEPT ![p] = IF rest = <<>> THEN None ELSE left]
  BY <1>2 DEF Go
<1>5. /\ \A q \in Places \ {p} : saving'[q] = saving[q] /\ (Busy(q)' <=> Busy(q))
      /\ saving'[p] = IF rest = <<>> THEN None ELSE left
  BY <1>4 DEF SavingTyped, Busy
<1>6. /\ Busy(p)' <=> rest # <<>>
      /\ Busy(p)' => saving'[p].task = saving[p].task /\ saving'[p].writes = rest
  BY <1>3, <1>5 DEF Busy
<1>7. kernel' = IF ~Busy(p)' /\ p = "command" THEN None ELSE kernel
  BY <1>6 DEF Go
<1>8. \A i \in DOMAIN rest : i + 1 \in DOMAIN saving[p].writes /\ rest[i] = saving[p].writes[i + 1]
  BY <1>1
<1>9. ASSUME NEW q \in Places, NEW type, NEW n, Pending(q, type, n)'
      PROVE  Pending(q, type, n)
  <2>1. CASE q = p
    <3>1. PICK i \in DOMAIN rest : rest[i].type = type /\ rest[i].of = n
      BY <1>6, <1>9, <2>1 DEF Pending
    <3> QED
      BY <1>8, <2>1, <3>1 DEF Pending
  <2>2. CASE q # p
    BY <1>5, <1>9, <2>2 DEF Pending
  <2> QED
    BY <2>1, <2>2
<1>10. saving' \in [Places -> Operations \cup {None}]
  BY <1>3, <1>4 DEF SavingTyped
<1>11. ASSUME NEW q \in Places, Busy(q)'
       PROVE  /\ saving'[q].writes # <<>>
              /\ \A i \in DOMAIN saving'[q].writes :
                   saving'[q].writes[i].type = "task/activation-settled"
                   => saving'[q].writes[i].as \in TaskStates
  <2>1. CASE q = p
    <3>1. saving'[q].writes = rest /\ rest # <<>>
      BY <1>6, <1>11, <2>1
    <3>2. ASSUME NEW i \in DOMAIN rest, rest[i].type = "task/activation-settled"
          PROVE  rest[i].as \in TaskStates
      BY <1>8, <3>2 DEF SavingTyped
    <3> QED
      BY <3>1, <3>2
  <2>2. CASE q # p
    BY <1>5, <1>11, <2>2 DEF SavingTyped
  <2> QED
    BY <2>1, <2>2
<1>12. kernel' \in Callers \cup {None}
  BY <1>7 DEF SavingTyped
<1> QED
  BY <1>5, <1>6, <1>7, <1>9, <1>10, <1>11, <1>12 DEF SavingTyped

-----------------------------------------------------------------------------
(* The fold                                                                *)

\* Walk ends where its path ends, or the fold is broken (task-reducer.ts).
LEMMA WalkEnds ==
  ASSUME NEW s, NEW path
  PROVE  Walk(s, path) \in {path[Len(path)], Broken}
BY DEF Walk

\* Where the events of the waits take the fold.
LEMMA FoldEnds ==
  ASSUME NEW s \in TaskStates \cup {Broken}, NEW e \in Events,
         e.type = "task/activation-settled" => e.as \in TaskStates
  PROVE  Fold(s, e) \in TaskStates \cup {Broken}
<1> USE DEF TaskStates
<1>1. CASE e.type = "task/leased"
  <2> DEFINE path == (IF s = "CREATED" THEN <<"READY">> ELSE <<>>) \o <<"LEASED", "EXECUTING">>
  <2>1. Fold(s, e) = Walk(s, path)
    BY <1>1 DEF Fold
  <2>2. path[Len(path)] = "EXECUTING"
    <3>1. CASE s = "CREATED"
      <4>1. path = <<"READY">> \o <<"LEASED", "EXECUTING">>
        BY <3>1
      <4> QED
        BY <4>1
    <3>2. CASE s # "CREATED"
      <4>1. path = <<>> \o <<"LEASED", "EXECUTING">>
        BY <3>2
      <4> QED
        BY <4>1
    <3> QED
      BY <3>1, <3>2
  <2> HIDE DEF path
  <2> QED
    BY <2>1, <2>2, WalkEnds
<1>2. CASE e.type = "task/activation-settled"
  <2>1. Fold(s, e) = Walk(s, <<e.as>>)
    BY <1>2 DEF Fold
  <2> QED
    BY <1>2, <2>1, WalkEnds
<1>3. CASE e.type \in {"task/resumed", "task/decision-resolved"}
  <2>1. Fold(s, e) = Walk(s, <<"READY">>)
    BY <1>3 DEF Fold
  <2> QED
    BY <2>1, WalkEnds
<1>4. CASE e.type = "task/blocker-submitted"
  <2>1. Fold(s, e) = Walk(s, <<"BLOCKED">>)
    BY <1>4 DEF Fold
  <2> QED
    BY <2>1, WalkEnds
<1>5. CASE e.type = "task/decision-waiting"
  <2>1. Fold(s, e) = Walk(s, <<"WAITING_DECISION">>)
    BY <1>5 DEF Fold
  <2> QED
    BY <2>1, WalkEnds
<1>6. CASE e.type = "radio/guidance-delivered"
  <2>1. Fold(s, e) \in {Walk(s, <<"GUIDANCE_PENDING", "READY">>), Walk(s, <<"READY">>)}
    BY <1>6 DEF Fold
  <2> QED
    BY <2>1, WalkEnds
<1>7. CASE e.type = "task/cancelled"
  <2>1. Fold(s, e) = Walk(s, <<"CANCELLED">>)
    BY <1>7 DEF Fold
  <2> QED
    BY <2>1, WalkEnds
<1>8. CASE e.type \in {"put", "radio/dead-lettered", "decision/expired", "mission/cancelled"}
  BY <1>8 DEF Fold
<1> QED
  BY <1>1, <1>2, <1>3, <1>4, <1>5, <1>6, <1>7, <1>8 DEF Events, EventTypes

\* Nothing leaves CANCELLED: no state is entered from it.
LEMMA NoWayBack ==
  ASSUME NEW to \in TaskStates, to # "CANCELLED"
  PROVE  ~CanMove("CANCELLED", to)
BY DEF CanMove, EnteredFrom, TaskStates

\* A walk from CANCELLED goes nowhere else.
LEMMA WalkFromCancelled ==
  ASSUME NEW path \in Seq(TaskStates), path # <<>>,
         Len(path) > 1 => path[1] # "CANCELLED"
  PROVE  Walk("CANCELLED", path) \in {"CANCELLED", Broken}
<1>1. /\ 1 \in DOMAIN path /\ path[1] \in TaskStates
      /\ (<<"CANCELLED">> \o path)[1] = "CANCELLED"
  OBVIOUS
<1>2. CASE path[1] # "CANCELLED"
  BY <1>1, <1>2, NoWayBack DEF Walk
<1>3. CASE path[1] = "CANCELLED"
  <2>1. Len(path) \in Nat \ {0}
    OBVIOUS
  <2>2. Len(path) = 1
    BY <1>3, <2>1
  <2> QED
    BY <1>3, <2>2, WalkEnds
<1> QED
  BY <1>2, <1>3

\* A cancelled or broken projection stays so (task-reducer.ts).
LEMMA FoldStaysGone ==
  ASSUME NEW s \in {"CANCELLED", Broken}, NEW e \in Events,
         e.type = "task/activation-settled" => e.as \in TaskStates
  PROVE  Fold(s, e) \in {"CANCELLED", Broken}
<1>0. ASSUME NEW path PROVE Walk(Broken, path) = Broken
  BY DEF Walk
<1>1. CASE e.type = "task/leased"
  <2>1. s # "CREATED"
    BY DEF Broken
  <2>2. Fold(s, e) = Walk(s, <<>> \o <<"LEASED", "EXECUTING">>)
    BY <1>1, <2>1 DEF Fold
  <2>3. <<>> \o <<"LEASED", "EXECUTING">> = <<"LEASED", "EXECUTING">>
    OBVIOUS
  <2>4. Fold(s, e) = Walk(s, <<"LEASED", "EXECUTING">>)
    BY <2>2, <2>3
  <2>5. <<"LEASED", "EXECUTING">> \in Seq(TaskStates)
    BY DEF TaskStates
  <2> QED
    BY <1>0, <2>4, <2>5, WalkFromCancelled
<1>2. CASE e.type \in {"task/activation-settled", "task/resumed", "task/decision-resolved",
                       "task/blocker-submitted", "task/decision-waiting", "task/cancelled"}
  <2>1. PICK to \in TaskStates : Fold(s, e) = Walk(s, <<to>>)
    BY <1>2 DEF Fold, TaskStates
  <2> QED
    BY <1>0, <2>1, WalkFromCancelled
<1>3. CASE e.type = "radio/guidance-delivered"
  <2>1. Fold(s, e) = Walk(s, <<"READY">>)
    BY <1>3 DEF Fold, Broken
  <2>2. <<"READY">> \in Seq(TaskStates)
    BY DEF TaskStates
  <2> QED
    BY <1>0, <2>1, <2>2, WalkFromCancelled
<1>4. CASE e.type \in {"put", "radio/dead-lettered", "decision/expired", "mission/cancelled"}
  BY <1>4 DEF Fold
<1> QED
  BY <1>1, <1>2, <1>3, <1>4 DEF Events, EventTypes

\* The Task's cancellation ends the fold.
LEMMA FoldCancels ==
  ASSUME NEW s, NEW e, e.type = "task/cancelled"
  PROVE  Fold(s, e) \in {"CANCELLED", Broken}
<1>1. Fold(s, e) = Walk(s, <<"CANCELLED">>)
  BY DEF Fold
<1> QED
  BY <1>1, WalkEnds

-----------------------------------------------------------------------------
(* Types                                                                   *)

\* A request is leased, issued, read, given up: it stays an entry.
LEMMA EntriesStay ==
  ASSUME NEW r \in Entries
  PROVE  /\ Recover(r) \in Entries
         /\ r.state = "UNSENT" => [r EXCEPT !.state = "QUEUED"] \in Entries
         /\ \A g \in Staff : r.state = "QUEUED" =>
              [state |-> "LEASED", by |-> g, tries |-> r.tries + 1] \in Entries
         /\ [r EXCEPT !.state = "DEAD_LETTERED", !.by = None] \in Entries
         /\ r.state = "LEASED" => [r EXCEPT !.state = "GUIDANCE_READY", !.by = None] \in Entries
         /\ \A to \in {"DELIVERED", "ACKNOWLEDGED", "DEAD_LETTERED"} :
              r.state \in {"GUIDANCE_READY", "DELIVERED", "ACKNOWLEDGED"}
              => [r EXCEPT !.state = to] \in Entries
<1> DEFINE Rec == [state : RadioStates, tries : 0..MaxTries, by : Staff \cup {None}]
<1>1. r \in Rec /\ (r.state = "LEASED" <=> r.by # None)
      /\ (r.state \in {"UNSENT", "QUEUED"} => r.tries < MaxTries)
  BY DEF Entries
<1>2. MaxTries \in Nat \ {0} /\ None \notin Staff
  BY AttemptsAssumption, NoneAssumption DEF Staff, Callers
<1>3. ASSUME NEW to
      PROVE  /\ [r EXCEPT !.state = to] = [state |-> to, tries |-> r.tries, by |-> r.by]
             /\ [r EXCEPT !.state = to, !.by = None] =
                  [state |-> to, tries |-> r.tries, by |-> None]
             /\ [r EXCEPT !.by = None, !.state = to] =
                  [state |-> to, tries |-> r.tries, by |-> None]
  <2>1. [r EXCEPT !.state = to] = [state |-> to, tries |-> r.tries, by |-> r.by]
    BY <1>1
  <2>2. [r EXCEPT !.by = None] = [state |-> r.state, tries |-> r.tries, by |-> None]
    BY <1>1
  <2>3. [[state |-> to, tries |-> r.tries, by |-> r.by] EXCEPT !.by = None] =
          [state |-> to, tries |-> r.tries, by |-> None]
    OBVIOUS
  <2>4. [[state |-> r.state, tries |-> r.tries, by |-> None] EXCEPT !.state = to] =
          [state |-> to, tries |-> r.tries, by |-> None]
    OBVIOUS
  <2> QED
    BY <2>1, <2>2, <2>3, <2>4
<1>4. Recover(r) \in Entries
  <2>1. CASE r.state = "QUEUED"
    <3>1. Recover(r) = [state |-> "DEAD_LETTERED", tries |-> r.tries, by |-> r.by]
      BY <1>3, <2>1 DEF Recover
    <3> QED
      BY <1>1, <1>2, <2>1, <3>1 DEF Entries, RadioStates
  <2>2. CASE r.state = "LEASED"
    <3>1. PICK to \in {"DEAD_LETTERED", "QUEUED"} :
            /\ Recover(r) = [r EXCEPT !.by = None, !.state = to]
            /\ to = "QUEUED" => ~(r.tries >= MaxTries)
      BY <2>2 DEF Recover
    <3>2. Recover(r) = [state |-> to, tries |-> r.tries, by |-> None]
      BY <1>3, <3>1
    <3> QED
      BY <1>1, <1>2, <3>1, <3>2 DEF Entries, RadioStates
  <2>3. CASE r.state \notin {"QUEUED", "LEASED"}
    BY <2>3 DEF Recover
  <2> QED
    BY <2>1, <2>2, <2>3
<1>5. r.state = "UNSENT" => [r EXCEPT !.state = "QUEUED"] \in Entries
  BY <1>1, <1>3 DEF Entries, RadioStates
<1>6. \A g \in Staff : r.state = "QUEUED" =>
        [state |-> "LEASED", by |-> g, tries |-> r.tries + 1] \in Entries
  BY <1>1, <1>2 DEF Entries, RadioStates
<1>7. [r EXCEPT !.state = "DEAD_LETTERED", !.by = None] \in Entries
  BY <1>1, <1>2, <1>3 DEF Entries, RadioStates
<1>8. r.state = "LEASED" => [r EXCEPT !.state = "GUIDANCE_READY", !.by = None] \in Entries
  BY <1>1, <1>2, <1>3 DEF Entries, RadioStates
<1>9. \A to \in {"DELIVERED", "ACKNOWLEDGED", "DEAD_LETTERED"} :
        r.state \in {"GUIDANCE_READY", "DELIVERED", "ACKNOWLEDGED"}
        => [r EXCEPT !.state = to] \in Entries
  <2> SUFFICES ASSUME NEW to \in {"DELIVERED", "ACKNOWLEDGED", "DEAD_LETTERED"},
                      r.state \in {"GUIDANCE_READY", "DELIVERED", "ACKNOWLEDGED"}
               PROVE  [r EXCEPT !.state = to] \in Entries
    OBVIOUS
  <2>1. [r EXCEPT !.state = to] = [state |-> to, tries |-> r.tries, by |-> r.by]
    BY <1>3
  <2>2. [state |-> to, tries |-> r.tries, by |-> r.by] \in Entries
    BY <1>1, <1>2 DEF Entries, RadioStates
  <2> QED
    BY <2>1, <2>2
<1> QED
  BY <1>4, <1>5, <1>6, <1>7, <1>8, <1>9

Final == {"GUIDANCE_READY", "DELIVERED", "ACKNOWLEDGED", "DEAD_LETTERED"}

\* What a step may do to a request: given up it stays so, and once there is
\* guidance it is not queued again (radio-repository.ts).
RadioMoves ==
  /\ radio' \in [Attempts -> Entries]
  /\ \A n \in Attempts :
       /\ radio[n].state = "DEAD_LETTERED" => radio'[n].state = "DEAD_LETTERED"
       /\ radio[n].state \in Final => radio'[n].state \in Final
       /\ radio'[n].state # "UNSENT" =>
            radio[n].state # "UNSENT" \/ steps[n] # <<>> \/ task.request = n

\* One request changes.
LEMMA OneMoves ==
  ASSUME StoresTyped, NEW n \in Attempts, NEW r \in Entries,
         \A k \in Attempts : radio'[k] = IF k = n THEN r ELSE radio[k],
         radio' \in [Attempts -> Entries] \/ (\E f : radio' = [radio EXCEPT ![n] = f]),
         radio[n].state = "DEAD_LETTERED" => r.state = "DEAD_LETTERED",
         radio[n].state \in Final => r.state \in Final,
         r.state # "UNSENT" => radio[n].state # "UNSENT" \/ steps[n] # <<>> \/ task.request = n
  PROVE  RadioMoves
<1>1. radio \in [Attempts -> Entries]
  BY DEF StoresTyped
<1>2. radio' \in [Attempts -> Entries]
  BY <1>1
<1> QED
  BY <1>2 DEF RadioMoves

\* recoverRadioEntries.
LEMMA RecoveredMoves ==
  ASSUME StoresTyped, NEW late \in SUBSET Attempts
  PROVE  /\ Recovered(late) \in [Attempts -> Entries]
         /\ \A n \in Attempts :
              /\ radio[n].state = "DEAD_LETTERED" => Recovered(late)[n].state = "DEAD_LETTERED"
              /\ radio[n].state \in Final => Recovered(late)[n] = radio[n]
              /\ Recovered(late)[n].state # "UNSENT" => radio[n].state # "UNSENT"
<1>1. radio \in [Attempts -> Entries]
  BY DEF StoresTyped
<1>2. Recovered(late) \in [Attempts -> Entries]
  BY <1>1, EntriesStay DEF Recovered
<1>3. ASSUME NEW n \in Attempts, radio[n].state \in Final \cup {"UNSENT"}
      PROVE  Recovered(late)[n] = radio[n]
  BY <1>3 DEF Recovered, Recover, Final
<1> QED
  BY <1>2, <1>3 DEF Final

\* request queues what has not been asked.
LEMMA RequestMoves ==
  ASSUME StoresTyped, NEW n \in Attempts, Request(n)
  PROVE  RadioMoves
<1>1. radio[n] \in Entries
  BY DEF StoresTyped
<1> DEFINE r == IF radio[n].state = "UNSENT" THEN [radio[n] EXCEPT !.state = "QUEUED"] ELSE radio[n]
<1>2. r \in Entries
  BY <1>1, EntriesStay
<1>3. radio' = [radio EXCEPT ![n] = r]
  BY DEF Request
<1>4. steps[n] # <<>>
  BY DEF Request, NextStep
<1>5. radio[n].state \in Final => r = radio[n]
  BY DEF Final
<1> HIDE DEF r
<1>6. \A k \in Attempts : radio'[k] = IF k = n THEN r ELSE radio[k]
  BY <1>3 DEF StoresTyped
<1>7. radio[n].state = "DEAD_LETTERED" => radio[n].state \in Final
  BY DEF Final
<1> QED
  BY <1>2, <1>3, <1>4, <1>5, <1>6, <1>7, OneMoves

\* lease takes what is queued, once what is late has been taken back.
LEMMA PollMoves ==
  ASSUME StoresTyped, NEW g \in Staff, NEW late \in SUBSET Attempts, Poll(g, late)
  PROVE  RadioMoves
<1> DEFINE after == Recovered(late)
<1>1. /\ after \in [Attempts -> Entries]
      /\ \A n \in Attempts :
           /\ radio[n].state = "DEAD_LETTERED" => after[n].state = "DEAD_LETTERED"
           /\ radio[n].state \in Final => after[n] = radio[n]
           /\ after[n].state # "UNSENT" => radio[n].state # "UNSENT"
  BY RecoveredMoves
<1>2. CASE radio' = after
  BY <1>1, <1>2 DEF RadioMoves
<1>3. ASSUME NEW n \in Attempts, after[n].state = "QUEUED",
             radio' = [after EXCEPT ![n] =
                         [state |-> "LEASED", by |-> g, tries |-> after[n].tries + 1]]
      PROVE  RadioMoves
  <2> DEFINE r == [state |-> "LEASED", by |-> g, tries |-> after[n].tries + 1]
  <2> HIDE DEF after
  <2>1. r \in Entries
    BY <1>1, <1>3, EntriesStay
  <2>2. radio' \in [Attempts -> Entries] /\ \A k \in Attempts : k # n => radio'[k] = after[k]
    BY <1>1, <1>3, <2>1
  <2>3. radio[n].state \notin Final \cup {"DEAD_LETTERED", "UNSENT"}
    BY <1>1, <1>3 DEF Final
  <2> QED
    BY <1>1, <2>2, <2>3 DEF RadioMoves
<1> QED
  BY <1>2, <1>3 DEF Poll

\* issue answers what is leased.
LEMMA IssueMoves ==
  ASSUME StoresTyped, CallsTyped, NEW g \in Staff, Issue(g)
  PROVE  RadioMoves
<1> DEFINE n == advice[g].of
           r == [radio[n] EXCEPT !.state = "GUIDANCE_READY", !.by = None]
<1>1. radio[n] \in Entries /\ radio[n].state = "LEASED"
  BY DEF StoresTyped, CallsTyped, AdviceTyped, Issue
<1>2. r \in Entries /\ r.state = "GUIDANCE_READY"
  BY <1>1, EntriesStay DEF Entries
<1>3. radio' = [radio EXCEPT ![n] = r]
  BY DEF Issue, StoresTyped
<1>4. radio[n].state \notin Final
  BY <1>1 DEF Final
<1> HIDE DEF r, n
<1>5. n \in Attempts
  BY DEF n, Issue, CallsTyped, AdviceTyped
<1>6. \A k \in Attempts : radio'[k] = IF k = n THEN r ELSE radio[k]
  BY <1>3 DEF StoresTyped
<1> QED
  BY <1>1, <1>2, <1>3, <1>4, <1>5, <1>6, OneMoves

\* guidance is delivered, or given up when it is out of date.
LEMMA ReadMoves ==
  ASSUME StoresTyped, NEW n \in Attempts, NEW late \in BOOLEAN, Read(n, late)
  PROVE  RadioMoves
<1> DEFINE to == IF late THEN "DEAD_LETTERED"
                 ELSE IF radio[n].state = "GUIDANCE_READY" THEN "DELIVERED" ELSE radio[n].state
           r == [radio[n] EXCEPT !.state = to]
<1>1. radio[n] \in Entries /\ radio[n].state \in {"GUIDANCE_READY", "DELIVERED", "ACKNOWLEDGED"}
  BY DEF StoresTyped, Read
<1>2. to \in {"DELIVERED", "ACKNOWLEDGED", "DEAD_LETTERED"}
  BY <1>1
<1>3. radio' = [radio EXCEPT ![n] = r]
  BY DEF Read, StoresTyped
<1> HIDE DEF to
<1>4. r \in Entries /\ r.state = to
  BY <1>1, <1>2, EntriesStay DEF Entries
<1> HIDE DEF r
<1>5. \A k \in Attempts : radio'[k] = IF k = n THEN r ELSE radio[k]
  BY <1>3 DEF StoresTyped
<1> QED
  BY <1>1, <1>2, <1>3, <1>4, <1>5, OneMoves DEF Final

\* The acknowledgement follows the delivery.
LEMMA AcknowledgeMoves ==
  ASSUME StoresTyped, CallsTyped, AcknowledgeRadio
  PROVE  RadioMoves
<1> DEFINE n == spawn.guidance
           r == [radio[n] EXCEPT !.state = IF radio[n].state = "DELIVERED" THEN "ACKNOWLEDGED"
                                           ELSE radio[n].state]
<1>1. CASE n \notin Attempts
  <2>1. radio' = radio
    BY <1>1 DEF AcknowledgeRadio, StoresTyped
  <2> QED
    BY <2>1 DEF RadioMoves, StoresTyped
<1>2. CASE n \in Attempts
  <2>1. radio[n] \in Entries
    BY <1>2 DEF StoresTyped
  <2>2. radio' = [radio EXCEPT ![n] = r]
    BY <1>2 DEF AcknowledgeRadio, StoresTyped
  <2>3. CASE radio[n].state = "DELIVERED"
    <3>1. r \in Entries /\ r.state = "ACKNOWLEDGED"
      BY <2>1, <2>3, EntriesStay DEF Entries
    <3> HIDE DEF r
    <3>2. \A k \in Attempts : radio'[k] = IF k = n THEN r ELSE radio[k]
      BY <1>2, <2>2 DEF StoresTyped
    <3> QED
      BY <1>2, <2>2, <2>3, <3>1, <3>2, OneMoves DEF Final
  <2>4. CASE radio[n].state # "DELIVERED"
    <3>1. r = radio[n]
      BY <2>1, <2>4 DEF Entries
    <3> HIDE DEF r
    <3>2. radio' = radio
      BY <2>2, <3>1 DEF StoresTyped
    <3> QED
      BY <3>2 DEF RadioMoves, StoresTyped
  <2> QED
    BY <2>3, <2>4
<1> QED
  BY <1>1, <1>2

\* cancelMission ends the request the Task waits for.
LEMMA CancelMoves ==
  ASSUME StoresTyped, CancelMission
  PROVE  RadioMoves
<1>1. CASE radio' = radio
  BY <1>1 DEF RadioMoves, StoresTyped
<1>2. CASE radio' = [n \in Attempts |->
                      IF n = task.request /\ radio[n].state # "ACKNOWLEDGED"
                        THEN [radio[n] EXCEPT !.state = "DEAD_LETTERED", !.by = None]
                        ELSE radio[n]]
  <2>1. ASSUME NEW n \in Attempts
        PROVE  /\ radio'[n] \in Entries
               /\ radio'[n] = radio[n] \/ (task.request = n /\ radio'[n].state = "DEAD_LETTERED")
    <3>1. radio[n] \in Entries
      BY DEF StoresTyped
    <3>2. [radio[n] EXCEPT !.state = "DEAD_LETTERED", !.by = None].state = "DEAD_LETTERED"
      BY <3>1 DEF Entries
    <3> QED
      BY <1>2, <3>1, <3>2, EntriesStay
  <2>2. radio' \in [Attempts -> Entries]
    BY <1>2, <2>1
  <2> QED
    BY <2>1, <2>2 DEF RadioMoves, Final
<1> QED
  BY <1>1, <1>2 DEF CancelMission, storeVars

\* Every step treats the requests so.
LEMMA RadioNext ==
  ASSUME StoresTyped, CallsTyped, Next
  PROVE  RadioMoves
<1>0. ASSUME UNCHANGED radio PROVE RadioMoves
  BY <1>0 DEF RadioMoves, StoresTyped
<1>1. ASSUME NEW n \in Attempts, WorkerStep(n) PROVE RadioMoves
  <2>1. CASE Request(n)
    BY <2>1, RequestMoves
  <2>2. ASSUME NEW of \in Attempts, NEW late \in BOOLEAN, ReadGuidance(n, of, late)
        PROVE  RadioMoves
    BY <2>2, ReadMoves DEF ReadGuidance
  <2> QED
    BY <1>0, <1>1, <2>1, <2>2 DEF WorkerStep, Call, SubmitQuestion, WaitForDecision,
       SubmitBlocker, WorkerRefused, storeVars
<1>2. ASSUME StaffStep PROVE RadioMoves
  <2>1. ASSUME NEW g \in Staff, Issue(g) PROVE RadioMoves
    BY <2>1, IssueMoves
  <2>2. ASSUME NEW g \in Staff, NEW late \in SUBSET Attempts, Poll(g, late) PROVE RadioMoves
    BY <2>2, PollMoves
  <2>3. ASSUME NEW late \in BOOLEAN, Deliver(late) PROVE RadioMoves
    <3>1. General \in Staff /\ Read(advice[General].of, late) /\ advice[General].at # "idle"
      BY <2>3 DEF Deliver, Staff
    <3> QED
      BY <3>1, ReadMoves DEF CallsTyped, AdviceTyped
  <2> QED
    BY <1>0, <1>2, <2>1, <2>2, <2>3 DEF StaffStep, StaffRefused, CallIssue, Present,
       ApplyGuidance, ResolveDecision, Answer, storeVars
<1>3. ASSUME MaintenanceStep PROVE RadioMoves
  <2>1. ASSUME NEW late \in SUBSET Attempts, ReconcileRadio(late) PROVE RadioMoves
    BY <2>1, RecoveredMoves DEF ReconcileRadio, RadioMoves
  <2> QED
    BY <1>0, <1>3, <2>1 DEF MaintenanceStep, ReconcileQuestions, DeadLetterGuidanceWait,
       ExpireDecisionWait, storeVars
<1>4. ASSUME HostStep PROVE RadioMoves
  <2>1. CASE AcknowledgeRadio
    BY <2>1, AcknowledgeMoves
  <2>2. CASE CancelMission
    BY <2>2, CancelMoves
  <2> QED
    BY <1>0, <1>4, <2>1, <2>2 DEF HostStep, ReadPending, LeaseTask, Start, SpawnRefused,
       AcknowledgeGuidance, AcknowledgeAnswer, ChildEnds, ReleaseTaskLease, storeVars
<1>5. ASSUME NEW p \in Places, Writes(p) \/ Throw(p) PROVE RadioMoves
  BY <1>0, <1>5 DEF Writes, AppendEvent, PutTask, Throw, storeVars
<1>6. ASSUME Crash PROVE RadioMoves
  BY <1>0, <1>6 DEF Crash, storeVars
<1> QED
  BY <1>1, <1>2, <1>3, <1>4, <1>5, <1>6 DEF Next

\* What a step may do to a question set: answered or expired it stays so
\* (decision-repository.ts).
BrokerMoves ==
  /\ broker' \in [Attempts -> {"UNASKED", "QUEUED", "ANSWERED", "EXPIRED"}]
  /\ \A n \in Attempts :
       /\ broker[n] \in {"ANSWERED", "EXPIRED"} => broker'[n] = broker[n]
       /\ broker'[n] # "UNASKED" => broker[n] # "UNASKED" \/ steps[n] # <<>>

\* Every step treats the question sets so.
LEMMA BrokerNext ==
  ASSUME StoresTyped, Next
  PROVE  BrokerMoves
<1> USE DEF BrokerMoves, StoresTyped
<1>0. ASSUME UNCHANGED broker PROVE BrokerMoves
  BY <1>0
<1>1. ASSUME NEW n \in Attempts, WorkerStep(n) PROVE BrokerMoves
  <2>1. CASE SubmitQuestion(n)
    BY <2>1 DEF SubmitQuestion, NextStep
  <2> QED
    BY <1>0, <1>1, <2>1 DEF WorkerStep, Call, Request, WaitForDecision, ReadGuidance,
       SubmitBlocker, WorkerRefused, storeVars
<1>2. ASSUME StaffStep PROVE BrokerMoves
  <2>1. ASSUME NEW late \in SUBSET Attempts, Present(late) PROVE BrokerMoves
    BY <2>1 DEF Present, Expired
  <2>2. ASSUME NEW n \in Attempts, Answer(n) PROVE BrokerMoves
    <3>1. broker' = [broker EXCEPT ![n] = "ANSWERED"] /\ broker[n] \in {"QUEUED", "ANSWERED"}
      BY <2>2 DEF Answer
    <3> QED
      BY <3>1
  <2> QED
    BY <1>0, <1>2, <2>1, <2>2 DEF StaffStep, StaffRefused, CallIssue, Issue, Poll, Deliver,
       ApplyGuidance, ResolveDecision, storeVars
<1>3. ASSUME MaintenanceStep PROVE BrokerMoves
  <2>1. ASSUME NEW late \in SUBSET Attempts, ReconcileQuestions(late) PROVE BrokerMoves
    BY <2>1 DEF ReconcileQuestions, Expired
  <2> QED
    BY <1>0, <1>3, <2>1 DEF MaintenanceStep, ReconcileRadio, DeadLetterGuidanceWait,
       ExpireDecisionWait, storeVars
<1>4. ASSUME HostStep PROVE BrokerMoves
  <2>1. CASE CancelMission
    BY <1>0, <2>1 DEF CancelMission, storeVars
  <2> QED
    BY <1>0, <1>4, <2>1 DEF HostStep, ReadPending, LeaseTask, Start, SpawnRefused,
       AcknowledgeGuidance, AcknowledgeRadio, AcknowledgeAnswer, ChildEnds, ReleaseTaskLease,
       storeVars
<1>5. ASSUME NEW p \in Places, Writes(p) \/ Throw(p) PROVE BrokerMoves
  BY <1>0, <1>5 DEF Writes, AppendEvent, PutTask, Throw, storeVars
<1>6. ASSUME Crash PROVE BrokerMoves
  BY <1>0, <1>6 DEF Crash, storeVars
<1> QED
  BY <1>1, <1>2, <1>3, <1>4, <1>5, <1>6 DEF Next

-----------------------------------------------------------------------------
(* The operations that begin                                               *)

\* What an operation of MissionRuntime finds when it reads the Task, and
\* what it is to write.
Begins(p, after, writes) ==
  \/ \E n \in Attempts, how \in {"block", "await-guidance"} :
       /\ p = "command" /\ kernel' = n /\ steps[n] # <<>> /\ task.worker = n
       /\ after = [task EXCEPT !.state = "BLOCKED",
                              !.request = IF how = "await-guidance" THEN n ELSE @]
       /\ writes = <<Event("task/blocker-submitted", n, how), Put>>
  \/ \E n \in Attempts :
       /\ p = "command" /\ kernel' = n /\ steps[n] # <<>> /\ task.worker = n
       /\ after = [task EXCEPT !.state = "WAITING_DECISION", !.question = n]
       /\ writes = <<Event("task/decision-waiting", n, "plain"), Put>>
  \/ \E n \in Attempts :
       /\ p = "guidance" /\ advice[General].at = "apply" /\ advice[General].of = n
       /\ task.state = "BLOCKED"
       /\ after = [task EXCEPT !.state = "READY", !.guidance = n, !.request = None]
       /\ writes = <<Event("radio/guidance-delivered", n, "plain"), Put>>
  \/ \E n \in Attempts :
       /\ p = "command" /\ kernel' = General
       /\ advice[General].at = "resolve" /\ advice[General].of = n
       /\ after = [task EXCEPT !.state = "READY", !.question = None, !.answer = n]
       /\ writes = <<Event("task/decision-resolved", n, "plain"), Put>>
  \/ \E n \in pass.dead :
       /\ p = "maintenance" /\ task.state = "BLOCKED"
       /\ after = [task EXCEPT !.request = None]
       /\ writes = <<Event("radio/dead-lettered", n, "plain"), Put>>
  \/ \E n \in pass.expired :
       /\ p = "maintenance" /\ task.state = "WAITING_DECISION"
       /\ after = [task EXCEPT !.state = "BLOCKED", !.question = None]
       /\ writes = <<Event("decision/expired", n, "plain"), Put>>
  \/ /\ p = "command" /\ kernel' = Host /\ spawn.at = "lease"
     /\ spawn' = [spawn EXCEPT !.at = "start"]
     /\ task.state \in {"READY", "RECOVERY_REQUIRED"}
     /\ after = [task EXCEPT !.state = "EXECUTING", !.worker = spawn.by]
     /\ \/ writes = <<Event("task/leased", spawn.by, "plain"), Put>>
        \/ writes = <<Event("task/resumed", None, task.state),
                      Event("task/leased", spawn.by, "plain"), Put>>
  \/ /\ p = "acknowledgement"
     /\ \/ after = [task EXCEPT !.guidance = None] /\ spawn.guidance # None
        \/ after = [task EXCEPT !.answer = None] /\ spawn.answer # None
     /\ writes = <<Put>>
  \/ \E n \in Attempts, state \in TaskStates :
       /\ p = "command" /\ kernel' = Cleanup /\ task.worker = n
       /\ state = IF task.state \in Held THEN "RECOVERY_REQUIRED" ELSE task.state
       /\ after = [task EXCEPT !.state = state, !.worker = None]
       /\ writes = <<Event("task/activation-settled", n, state), Put>>
  \/ /\ p = "command" /\ kernel' = Operator
     /\ \/ task.state = "CANCELLED" /\ after = task /\ writes = <<MissionCancelled>>
        \/ /\ after = [task EXCEPT !.state = "CANCELLED", !.worker = None, !.request = None,
                                   !.question = None, !.guidance = None, !.answer = None]
           /\ writes = Cancellation

Beginning(p, after, writes) ==
  /\ Load(p, after, writes) /\ Begins(p, after, writes)
  /\ IF p = "command" THEN kernel \in {None, kernel'} ELSE UNCHANGED kernel
  /\ UNCHANGED <<ledgerVars, life>>

\* What a step does to the operations under way: one begins, one comes to
\* its next write, or some are over, and the spawn call with its command.
SavingSteps ==
  \/ \E p \in Places : \E after, writes : Beginning(p, after, writes)
  \/ \E p \in Places : Writes(p)
  \/ \E over \in SUBSET Places :
       /\ saving' = [p \in Places |-> IF p \in over THEN None ELSE saving[p]]
       /\ "command" \in over /\ kernel = Host => spawn' = NoSpawn

\* One event before two others.
LEMMA Joined ==
  ASSUME NEW a, NEW b, NEW c
  PROVE  <<a>> \o <<b, c>> = <<a, b, c>>
<1> DEFINE S == {a, b, c}
           both == <<a>> \o <<b, c>>
<1>1. both \in Seq(S) /\ Len(both) = 3
  OBVIOUS
<1>2. both[1] = a /\ both[2] = b /\ both[3] = c
  OBVIOUS
<1>3. DOMAIN both = 1..3 /\ DOMAIN <<a, b, c>> = 1..3
  BY <1>1
<1>4. both = [i \in 1..3 |-> both[i]] /\ <<a, b, c>> = [i \in 1..3 |-> <<a, b, c>>[i]]
  BY <1>1, <1>3
<1>5. \A i \in 1..3 : both[i] = <<a, b, c>>[i]
  BY <1>2
<1> QED
  BY <1>4, <1>5

\* Every step treats the operations under way so.
LEMMA SavingStep ==
  ASSUME WaitsTyped, Next
  PROVE  SavingSteps
<1>0. ASSUME UNCHANGED saving PROVE SavingSteps
  <2>1. saving' = [p \in Places |-> IF p \in {} THEN None ELSE saving[p]]
    BY <1>0 DEF WaitsTyped, SavingTyped
  <2>2. {} \in SUBSET Places
    OBVIOUS
  <2> QED
    BY <2>1, <2>2, Zenon DEF SavingSteps
<1>1. ASSUME NEW n \in Attempts, WorkerStep(n) PROVE SavingSteps
  <2>1. ASSUME NEW how \in {"block", "await-guidance"}, SubmitBlocker(n, how)
        PROVE  SavingSteps
    <3> DEFINE after == [task EXCEPT !.state = "BLOCKED",
                                     !.request = IF how = "await-guidance" THEN n ELSE @]
               writes == <<Event("task/blocker-submitted", n, how), Put>>
    <3>1. /\ kernel \in {None, n} /\ kernel' = n /\ steps[n] # <<>> /\ task.worker = n
          /\ Load("command", after, writes) /\ UNCHANGED <<ledgerVars, life>>
      BY <2>1 DEF SubmitBlocker, Command, NextStep
    <3> HIDE DEF after, writes
    <3>2. Begins("command", after, writes)
      BY <3>1 DEF Begins, after, writes
    <3> QED
      BY <3>1, <3>2 DEF SavingSteps, Beginning, Places
  <2>2. CASE WaitForDecision(n)
    <3> DEFINE after == [task EXCEPT !.state = "WAITING_DECISION", !.question = n]
               writes == <<Event("task/decision-waiting", n, "plain"), Put>>
    <3>1. /\ kernel \in {None, n} /\ kernel' = n /\ steps[n] # <<>> /\ task.worker = n
          /\ Load("command", after, writes) /\ UNCHANGED <<ledgerVars, life>>
      BY <2>2 DEF WaitForDecision, Command, NextStep
    <3> HIDE DEF after, writes
    <3>2. Begins("command", after, writes)
      BY <3>1 DEF Begins, after, writes
    <3> QED
      BY <3>1, <3>2 DEF SavingSteps, Beginning, Places
  <2> QED
    BY <1>0, <1>1, <2>1, <2>2 DEF WorkerStep, Call, Request, SubmitQuestion, ReadGuidance,
       WorkerRefused, savingVars
<1>2. ASSUME StaffStep PROVE SavingSteps
  <2>1. CASE ApplyGuidance
    <3> DEFINE n == advice[General].of
               after == [task EXCEPT !.state = "READY", !.guidance = n, !.request = None]
               writes == <<Event("radio/guidance-delivered", n, "plain"), Put>>
    <3>1. /\ advice[General].at = "apply" /\ task.state = "BLOCKED" /\ n \in Attempts
          /\ Load("guidance", after, writes) /\ UNCHANGED <<ledgerVars, life, kernel>>
      BY <2>1 DEF ApplyGuidance, OutsideCommands, workerVars, WaitsTyped,
         CallsTyped, AdviceTyped, Staff
    <3> HIDE DEF after, writes
    <3>2. Begins("guidance", after, writes)
      BY <3>1 DEF Begins, after, writes
    <3> QED
      BY <3>1, <3>2 DEF SavingSteps, Beginning, Places
  <2>2. CASE ResolveDecision
    <3> DEFINE n == advice[General].of
               after == [task EXCEPT !.state = "READY", !.question = None, !.answer = n]
               writes == <<Event("task/decision-resolved", n, "plain"), Put>>
    <3>1. /\ advice[General].at = "resolve" /\ n \in Attempts
          /\ kernel \in {None, General} /\ kernel' = General
          /\ Load("command", after, writes) /\ UNCHANGED <<ledgerVars, life>>
      BY <2>2 DEF ResolveDecision, Command, workerVars, WaitsTyped,
         CallsTyped, AdviceTyped, Staff
    <3> HIDE DEF after, writes
    <3>2. Begins("command", after, writes)
      BY <3>1 DEF Begins, after, writes
    <3> QED
      BY <3>1, <3>2 DEF SavingSteps, Beginning, Places
  <2> QED
    BY <1>0, <1>2, <2>1, <2>2 DEF StaffStep, StaffRefused, CallIssue, Issue, Poll, Deliver,
       Present, Answer, savingVars
<1>3. ASSUME MaintenanceStep PROVE SavingSteps
  <2>1. ASSUME NEW n \in Attempts, DeadLetterGuidanceWait(n), task.state = "BLOCKED",
               OutsideCommands("maintenance", [task EXCEPT !.request = None],
                               <<Event("radio/dead-lettered", n, "plain"), Put>>)
        PROVE  SavingSteps
    <3> DEFINE after == [task EXCEPT !.request = None]
               writes == <<Event("radio/dead-lettered", n, "plain"), Put>>
    <3>1. /\ n \in pass.dead /\ Load("maintenance", after, writes)
          /\ UNCHANGED <<ledgerVars, life, kernel>>
      BY <2>1 DEF DeadLetterGuidanceWait, OutsideCommands, workerVars
    <3> HIDE DEF after, writes
    <3>2. Begins("maintenance", after, writes)
      BY <2>1, <3>1 DEF Begins, after, writes
    <3> QED
      BY <3>1, <3>2 DEF SavingSteps, Beginning, Places
  <2>2. ASSUME NEW n \in Attempts, ExpireDecisionWait(n), task.state = "WAITING_DECISION",
               OutsideCommands("maintenance", [task EXCEPT !.state = "BLOCKED", !.question = None],
                               <<Event("decision/expired", n, "plain"), Put>>)
        PROVE  SavingSteps
    <3> DEFINE after == [task EXCEPT !.state = "BLOCKED", !.question = None]
               writes == <<Event("decision/expired", n, "plain"), Put>>
    <3>1. /\ n \in pass.expired /\ Load("maintenance", after, writes)
          /\ UNCHANGED <<ledgerVars, life, kernel>>
      BY <2>2 DEF ExpireDecisionWait, OutsideCommands, workerVars
    <3> HIDE DEF after, writes
    <3>2. Begins("maintenance", after, writes)
      BY <2>2, <3>1 DEF Begins, after, writes
    <3> QED
      BY <3>1, <3>2 DEF SavingSteps, Beginning, Places
  <2> QED
    BY <1>0, <1>3, <2>1, <2>2 DEF MaintenanceStep, ReconcileRadio, ReconcileQuestions,
       DeadLetterGuidanceWait, ExpireDecisionWait, savingVars
<1>4. ASSUME HostStep PROVE SavingSteps
  <2>1. CASE LeaseTask
    <3> DEFINE after == [task EXCEPT !.state = "EXECUTING", !.worker = spawn.by]
               leased == <<Event("task/leased", spawn.by, "plain"), Put>>
               resumed == <<Event("task/resumed", None, task.state),
                            Event("task/leased", spawn.by, "plain"), Put>>
    <3>0. <<Event("task/resumed", None, task.state)>> \o leased = resumed
      BY Joined DEF resumed, leased
    <3>1. /\ spawn.at = "lease" /\ spawn' = [spawn EXCEPT !.at = "start"]
          /\ kernel \in {None, Host} /\ kernel' = Host
          /\ task.state \in {"READY", "RECOVERY_REQUIRED"}
          /\ Load("command", after, leased) \/ Load("command", after, resumed)
          /\ UNCHANGED <<ledgerVars, life>>
      BY <2>1, <3>0 DEF LeaseTask, Command, workerVars, Resumable, WaitsTyped,
         CallsTyped, SpawnTyped
    <3> HIDE DEF after, leased, resumed
    <3>2. Begins("command", after, leased) /\ Begins("command", after, resumed)
      BY <3>1 DEF Begins, after, leased, resumed
    <3> QED
      BY <3>1, <3>2 DEF SavingSteps, Beginning, Places
  <2>2. CASE AcknowledgeGuidance
    <3> DEFINE after == [task EXCEPT !.guidance = None]
               writes == <<Put>>
    <3>1. CASE OutsideCommands("acknowledgement", after, writes)
      <4>1. /\ Load("acknowledgement", after, writes)
            /\ UNCHANGED <<ledgerVars, life, kernel>>
        BY <2>2, <3>1 DEF AcknowledgeGuidance, OutsideCommands, workerVars
      <4>2. spawn.guidance # None
        BY <2>2 DEF AcknowledgeGuidance, WaitsTyped, CallsTyped, SpawnTyped
      <4> HIDE DEF after, writes
      <4>3. Begins("acknowledgement", after, writes)
        BY <4>2 DEF Begins, after, writes
      <4> QED
        BY <4>1, <4>3 DEF SavingSteps, Beginning, Places
    <3> QED
      BY <1>0, <2>2, <3>1 DEF AcknowledgeGuidance, savingVars
  <2>3. CASE AcknowledgeAnswer
    <3> DEFINE after == [task EXCEPT !.answer = None]
               writes == <<Put>>
    <3>1. CASE OutsideCommands("acknowledgement", after, writes) /\ spawn.answer # None
      <4>1. /\ Load("acknowledgement", after, writes)
            /\ UNCHANGED <<ledgerVars, life, kernel>>
        BY <2>3, <3>1 DEF AcknowledgeAnswer, OutsideCommands, workerVars
      <4> HIDE DEF after, writes
      <4>3. Begins("acknowledgement", after, writes)
        BY <3>1 DEF Begins, after, writes
      <4> QED
        BY <4>1, <4>3 DEF SavingSteps, Beginning, Places
    <3> QED
      BY <1>0, <2>3, <3>1 DEF AcknowledgeAnswer, savingVars
  <2>4. ASSUME NEW n \in Attempts, ReleaseTaskLease(n) PROVE SavingSteps
    <3> DEFINE state == IF task.state \in Held THEN "RECOVERY_REQUIRED" ELSE task.state
               after == [task EXCEPT !.state = state, !.worker = None]
               writes == <<Event("task/activation-settled", n, state), Put>>
    <3>1. /\ kernel \in {None, Cleanup} /\ kernel' = Cleanup /\ task.worker = n
          /\ Load("command", after, writes) /\ UNCHANGED <<ledgerVars, life>>
      BY <2>4 DEF ReleaseTaskLease, Command, callVars, workerVars
    <3>2. state \in TaskStates
      BY DEF WaitsTyped, StoresTyped, TaskRecords, TaskStates
    <3> HIDE DEF after, writes
    <3>3. Begins("command", after, writes)
      BY <3>1, <3>2 DEF Begins, after, writes
    <3> QED
      BY <3>1, <3>3 DEF SavingSteps, Beginning, Places
  <2>5. CASE CancelMission
    <3> DEFINE cancelled == [task EXCEPT !.state = "CANCELLED", !.worker = None, !.request = None,
                               !.question = None, !.guidance = None, !.answer = None]
    <3>1. /\ kernel \in {None, Operator} /\ kernel' = Operator /\ UNCHANGED <<ledgerVars, life>>
          /\ \/ task.state = "CANCELLED" /\ Load("command", task, <<MissionCancelled>>)
             \/ Load("command", cancelled, Cancellation)
      BY <2>5 DEF CancelMission, Command, callVars, workerVars
    <3>2. /\ Begins("command", cancelled, Cancellation)
          /\ task.state = "CANCELLED" => Begins("command", task, <<MissionCancelled>>)
      BY <3>1 DEF Begins
    <3> HIDE DEF cancelled
    <3> QED
      BY <3>1, <3>2 DEF SavingSteps, Beginning, Places
  <2> QED
    BY <1>0, <1>4, <2>1, <2>2, <2>3, <2>4, <2>5 DEF HostStep, ReadPending, Start, SpawnRefused,
       AcknowledgeRadio, ChildEnds, savingVars
<1>5. ASSUME NEW p \in Places, Writes(p) \/ Throw(p) PROVE SavingSteps
  <2>1. CASE Throw(p)
    <3> DEFINE over == {p}
    <3>1. /\ over \in SUBSET Places
          /\ saving' = [q \in Places |-> IF q \in over THEN None ELSE saving[q]]
          /\ "command" \in over /\ kernel = Host => spawn' = NoSpawn
      BY <2>1 DEF Throw, WaitsTyped, SavingTyped
    <3> HIDE DEF over
    <3> QED
      BY <3>1 DEF SavingSteps
  <2> QED
    BY <1>5, <2>1 DEF SavingSteps
<1>6. ASSUME Crash PROVE SavingSteps
  <2>1. /\ saving' = [q \in Places |-> IF q \in Places THEN None ELSE saving[q]]
        /\ spawn' = NoSpawn
    BY <1>6 DEF Crash
  <2> QED
    BY <2>1 DEF SavingSteps
<1> QED
  BY <1>1, <1>2, <1>3, <1>4, <1>5, <1>6 DEF Next

\* What may be told of an attempt next, besides what is known already.
Due(type, n) ==
  \/ type = "radio/guidance-delivered" /\ advice[General].at = "apply" /\ advice[General].of = n
  \/ type = "task/decision-resolved" /\ advice[General].at = "resolve" /\ advice[General].of = n
  \/ type = "radio/dead-lettered" /\ n \in pass.dead
  \/ type = "decision/expired" /\ n \in pass.expired
  \/ /\ type = "task/leased" /\ spawn.at = "lease" /\ spawn.by = n
     /\ spawn' = [spawn EXCEPT !.at = "start"] /\ kernel' = Host
  \/ type \in {"task/blocker-submitted", "task/decision-waiting"} /\ steps[n] # <<>> /\ kernel' = n
     /\ n \in Attempts
  \/ type \in {"put", "task/resumed", "task/activation-settled", "task/cancelled",
               "mission/cancelled"}
PlaceOf(type) ==
  CASE type = "radio/guidance-delivered" -> {"guidance"}
    [] type \in {"radio/dead-lettered", "decision/expired"} -> {"maintenance"}
    [] type = "put" -> Places
    [] OTHER -> {"command"}

\* Two events, one after the other.
LEMMA Pair ==
  ASSUME NEW S, NEW a \in S, NEW b \in S
  PROVE  /\ <<a, b>> \in Seq(S) /\ <<a, b>> # <<>>
         /\ \A i \in DOMAIN <<a, b>> : <<a, b>>[i] \in {a, b}
<1>1. <<a, b>> \in Seq(S) /\ <<a, b>>[1] = a /\ <<a, b>>[2] = b /\ Len(<<a, b>>) = 2
  OBVIOUS
<1>2. DOMAIN <<a, b>> = 1..2
  OBVIOUS
<1>3. \A i \in 1..2 : i = 1 \/ i = 2
  OBVIOUS
<1>4. <<a, b>> # <<>>
  BY <1>1
<1>5. \A i \in DOMAIN <<a, b>> : <<a, b>>[i] \in {a, b}
  BY <1>1, <1>2, <1>3
<1> QED
  BY <1>1, <1>4, <1>5

\* What an operation begins with is typed, and due.
LEMMA BeginsDue ==
  ASSUME WaitsTyped, NEW p \in Places, NEW after, NEW writes, Begins(p, after, writes)
  PROVE  /\ after \in TaskRecords /\ writes \in Seq(Events) \ {<<>>}
         /\ \A i \in DOMAIN writes :
              /\ writes[i].type = "task/activation-settled" => writes[i].as \in TaskStates
              /\ Due(writes[i].type, writes[i].of) /\ p \in PlaceOf(writes[i].type)
<1> DEFINE Goal == /\ after \in TaskRecords /\ writes \in Seq(Events) \ {<<>>}
                   /\ \A i \in DOMAIN writes :
                        /\ writes[i].type = "task/activation-settled" => writes[i].as \in TaskStates
                        /\ Due(writes[i].type, writes[i].of) /\ p \in PlaceOf(writes[i].type)
<1>0. /\ task \in TaskRecords /\ spawn.by \in Some /\ pass.dead \subseteq Attempts
      /\ pass.expired \subseteq Attempts /\ Attempts \subseteq Some /\ None \in Some
      /\ (spawn.at # "idle" => spawn.by \in Attempts) /\ task.state \in TaskStates
      /\ {"plain", "block", "await-guidance"} \cap TaskStates = {}
      /\ {"READY", "BLOCKED", "WAITING_DECISION", "EXECUTING", "CANCELLED", "RECOVERY_REQUIRED"}
           \subseteq TaskStates
  BY DEF WaitsTyped, StoresTyped, CallsTyped, PassTyped, SpawnTyped, Some, TaskRecords, TaskStates
<1>00. /\ Put \in Events /\ Put.type = "put"
       /\ Due("put", Put.of) /\ p \in PlaceOf("put")
  BY DEF Put, Event, Events, EventTypes, Due, PlaceOf
<1>1. ASSUME NEW type \in EventTypes, NEW n \in Some,
             NEW as \in TaskStates \cup {"plain", "block", "await-guidance"},
             writes = <<Event(type, n, as), Put>>, after \in TaskRecords,
             Due(type, n), p \in PlaceOf(type),
             type = "task/activation-settled" => as \in TaskStates
      PROVE  Goal
  <2> DEFINE e == Event(type, n, as)
  <2>2. writes = <<e, Put>> /\ e = Event(type, n, as)
    BY <1>1
  <2> HIDE DEF e
  <2>0. e \in Events /\ e.type = type /\ e.of = n /\ e.as = as
    BY <1>1, <2>2 DEF Event, Events, Some
  <2>1. /\ <<e, Put>> \in Seq(Events) /\ <<e, Put>> # <<>>
        /\ \A i \in DOMAIN <<e, Put>> : <<e, Put>>[i] \in {e, Put}
    BY <1>00, <2>0, Pair
  <2>3. \A i \in DOMAIN writes : writes[i] \in {e, Put}
    BY <2>1, <2>2
  <2> QED
    BY <1>00, <1>1, <2>0, <2>1, <2>2, <2>3
<1>2. ASSUME NEW n \in Attempts, NEW how \in {"block", "await-guidance"},
             p = "command", kernel' = n, steps[n] # <<>>,
             after = [task EXCEPT !.state = "BLOCKED",
                              !.request = IF how = "await-guidance" THEN n ELSE @],
             writes = <<Event("task/blocker-submitted", n, how), Put>>
      PROVE  Goal
  <2>1. after \in TaskRecords
    BY <1>0, <1>2 DEF TaskRecords, TaskStates
  <2>2. Due("task/blocker-submitted", n) /\ p \in PlaceOf("task/blocker-submitted")
    BY <1>2 DEF Due, PlaceOf
  <2> QED
    BY <1>0, <1>1, <1>2, <2>1, <2>2 DEF EventTypes
<1>3. ASSUME NEW n \in Attempts, p = "command", kernel' = n, steps[n] # <<>>,
             after = [task EXCEPT !.state = "WAITING_DECISION", !.question = n],
             writes = <<Event("task/decision-waiting", n, "plain"), Put>>
      PROVE  Goal
  <2>1. after \in TaskRecords
    BY <1>0, <1>3 DEF TaskRecords, TaskStates
  <2>2. Due("task/decision-waiting", n) /\ p \in PlaceOf("task/decision-waiting")
    BY <1>3 DEF Due, PlaceOf
  <2> QED
    BY <1>0, <1>1, <1>3, <2>1, <2>2 DEF EventTypes
<1>4. ASSUME NEW n \in Attempts, p = "guidance",
             advice[General].at = "apply", advice[General].of = n,
             after = [task EXCEPT !.state = "READY", !.guidance = n, !.request = None],
             writes = <<Event("radio/guidance-delivered", n, "plain"), Put>>
      PROVE  Goal
  <2>1. after \in TaskRecords
    BY <1>0, <1>4 DEF TaskRecords, TaskStates
  <2>2. Due("radio/guidance-delivered", n) /\ p \in PlaceOf("radio/guidance-delivered")
    BY <1>4 DEF Due, PlaceOf
  <2> QED
    BY <1>0, <1>1, <1>4, <2>1, <2>2 DEF EventTypes
<1>5. ASSUME NEW n \in Attempts, p = "command",
             advice[General].at = "resolve", advice[General].of = n,
             after = [task EXCEPT !.state = "READY", !.question = None, !.answer = n],
             writes = <<Event("task/decision-resolved", n, "plain"), Put>>
      PROVE  Goal
  <2>1. after \in TaskRecords
    BY <1>0, <1>5 DEF TaskRecords, TaskStates
  <2>2. Due("task/decision-resolved", n) /\ p \in PlaceOf("task/decision-resolved")
    BY <1>5 DEF Due, PlaceOf
  <2> QED
    BY <1>0, <1>1, <1>5, <2>1, <2>2 DEF EventTypes
<1>6. ASSUME NEW n \in pass.dead, p = "maintenance", after = [task EXCEPT !.request = None],
             writes = <<Event("radio/dead-lettered", n, "plain"), Put>>
      PROVE  Goal
  <2>1. after \in TaskRecords
    BY <1>0, <1>6 DEF TaskRecords, TaskStates
  <2>2. Due("radio/dead-lettered", n) /\ p \in PlaceOf("radio/dead-lettered")
    BY <1>6 DEF Due, PlaceOf
  <2> QED
    BY <1>0, <1>1, <1>6, <2>1, <2>2 DEF EventTypes
<1>7. ASSUME NEW n \in pass.expired, p = "maintenance",
             after = [task EXCEPT !.state = "BLOCKED", !.question = None],
             writes = <<Event("decision/expired", n, "plain"), Put>>
      PROVE  Goal
  <2>1. after \in TaskRecords
    BY <1>0, <1>7 DEF TaskRecords, TaskStates
  <2>2. Due("decision/expired", n) /\ p \in PlaceOf("decision/expired")
    BY <1>7 DEF Due, PlaceOf
  <2> QED
    BY <1>0, <1>1, <1>7, <2>1, <2>2 DEF EventTypes
<1>8. ASSUME p = "command", kernel' = Host, spawn.at = "lease",
             spawn' = [spawn EXCEPT !.at = "start"],
             after = [task EXCEPT !.state = "EXECUTING", !.worker = spawn.by],
             \/ writes = <<Event("task/leased", spawn.by, "plain"), Put>>
             \/ writes = <<Event("task/resumed", None, task.state),
                           Event("task/leased", spawn.by, "plain"), Put>>
      PROVE  Goal
  <2>1. after \in TaskRecords
    BY <1>0, <1>8 DEF TaskRecords, TaskStates
  <2>2. /\ Due("task/leased", spawn.by) /\ p \in PlaceOf("task/leased")
        /\ Due("task/resumed", None) /\ p \in PlaceOf("task/resumed")
    BY <1>8 DEF Due, PlaceOf
  <2>3. CASE writes = <<Event("task/leased", spawn.by, "plain"), Put>>
    BY <1>0, <1>1, <1>8, <2>1, <2>2, <2>3 DEF EventTypes
  <2>4. CASE writes = <<Event("task/resumed", None, task.state),
                        Event("task/leased", spawn.by, "plain"), Put>>
    <3> DEFINE e == Event("task/resumed", None, task.state)
               f == Event("task/leased", spawn.by, "plain")
    <3>1. /\ e \in Events /\ e.type = "task/resumed" /\ e.of = None
          /\ f \in Events /\ f.type = "task/leased" /\ f.of = spawn.by
      BY <1>0 DEF Event, Events, EventTypes, Some
    <3> HIDE DEF e, f
    <3>2. writes = <<e, f, Put>>
      BY <2>4 DEF e, f
    <3>3. writes \in Seq(Events) \ {<<>>} /\ \A i \in DOMAIN writes : writes[i] \in {e, f, Put}
      BY <1>00, <3>1, <3>2
    <3> QED
      BY <1>00, <2>1, <2>2, <3>1, <3>3
  <2> QED
    BY <1>8, <2>3, <2>4
<1>9. ASSUME p = "acknowledgement", writes = <<Put>>,
             after = [task EXCEPT !.guidance = None] \/ after = [task EXCEPT !.answer = None]
      PROVE  Goal
  <2>1. after \in TaskRecords
    BY <1>0, <1>9 DEF TaskRecords, TaskStates
  <2>2. writes \in Seq(Events) \ {<<>>} /\ \A i \in DOMAIN writes : writes[i] = Put
    BY <1>00, <1>9
  <2> QED
    BY <1>00, <2>1, <2>2
<1>10. ASSUME NEW n \in Attempts, NEW state \in TaskStates, p = "command",
              after = [task EXCEPT !.state = state, !.worker = None],
              writes = <<Event("task/activation-settled", n, state), Put>>
       PROVE  Goal
  <2>1. after \in TaskRecords
    BY <1>0, <1>10 DEF TaskRecords
  <2>2. Due("task/activation-settled", n) /\ p \in PlaceOf("task/activation-settled")
    BY <1>10 DEF Due, PlaceOf
  <2> QED
    BY <1>0, <1>1, <1>10, <2>1, <2>2 DEF EventTypes
<1>11. ASSUME p = "command", after = task, writes = <<MissionCancelled>>
       PROVE  Goal
  <2>1. /\ MissionCancelled \in Events /\ MissionCancelled.type = "mission/cancelled"
        /\ Due("mission/cancelled", MissionCancelled.of) /\ p \in PlaceOf("mission/cancelled")
    BY <1>11 DEF MissionCancelled, Event, Events, EventTypes, Due, PlaceOf
  <2>2. writes \in Seq(Events) \ {<<>>} /\ \A i \in DOMAIN writes : writes[i] = MissionCancelled
    BY <1>11, <2>1
  <2> QED
    BY <1>0, <1>11, <2>1, <2>2
<1>12. ASSUME p = "command", writes = Cancellation,
              after = [task EXCEPT !.state = "CANCELLED", !.worker = None, !.request = None,
                                   !.question = None, !.guidance = None, !.answer = None]
       PROVE  Goal
  <2>1. after \in TaskRecords
    BY <1>0, <1>12 DEF TaskRecords, Some
  <2> DEFINE e == Event("task/cancelled", None, "plain")
  <2>2. /\ MissionCancelled \in Events /\ MissionCancelled.type = "mission/cancelled"
        /\ e \in Events /\ e.type = "task/cancelled"
        /\ Due("mission/cancelled", MissionCancelled.of) /\ p \in PlaceOf("mission/cancelled")
        /\ Due("task/cancelled", e.of) /\ p \in PlaceOf("task/cancelled")
    BY <1>12 DEF MissionCancelled, Event, Events, EventTypes, Due, PlaceOf
  <2>3. writes = <<e, Put, MissionCancelled>>
    BY <1>12 DEF Cancellation
  <2> HIDE DEF e
  <2>4. writes \in Seq(Events) \ {<<>>}
        /\ \A i \in DOMAIN writes : writes[i] \in {e, Put, MissionCancelled}
    BY <1>00, <2>2, <2>3
  <2> QED
    BY <1>00, <2>1, <2>2, <2>4
<1> HIDE DEF Goal
<1>13. Goal
  BY <1>2, <1>3, <1>4, <1>5, <1>6, <1>7, <1>8, <1>9, <1>10, <1>11, <1>12 DEF Begins
<1> QED
  BY <1>13 DEF Goal

\* The kernel runs the command of a caller.
LEMMA KernelTyped ==
  ASSUME WaitsTyped, Next
  PROVE  kernel' \in Callers \cup {None}
<1> USE DEF Callers
<1>0. kernel \in Callers \cup {None}
  BY DEF WaitsTyped, SavingTyped
<1>1. ASSUME NEW n \in Attempts, WorkerStep(n) PROVE kernel' \in Callers \cup {None}
  BY <1>0, <1>1 DEF WorkerStep, Call, Request, SubmitQuestion, WaitForDecision, SubmitBlocker,
     ReadGuidance, WorkerRefused, LeavesOpen, Command, savingVars
<1>2. ASSUME StaffStep PROVE kernel' \in Callers \cup {None}
  BY <1>0, <1>2 DEF StaffStep, StaffRefused, CallIssue, Issue, Poll, Deliver, Present,
     ApplyGuidance, ResolveDecision, Answer, Command, OutsideCommands, savingVars
<1>3. ASSUME MaintenanceStep PROVE kernel' \in Callers \cup {None}
  BY <1>0, <1>3 DEF MaintenanceStep, ReconcileRadio, ReconcileQuestions, DeadLetterGuidanceWait,
     ExpireDecisionWait, OutsideCommands, savingVars
<1>4. ASSUME HostStep PROVE kernel' \in Callers \cup {None}
  BY <1>0, <1>4 DEF HostStep, ReadPending, LeaseTask, Start, SpawnRefused, AcknowledgeRadio,
     AcknowledgeGuidance, AcknowledgeAnswer, ChildEnds, ReleaseTaskLease, CancelMission,
     Command, OutsideCommands, LeavesOpen, savingVars
<1>5. ASSUME NEW p \in Places, Writes(p) \/ Throw(p) PROVE kernel' \in Callers \cup {None}
  BY <1>0, <1>5 DEF Writes, AppendEvent, PutTask, Throw, Go
<1>6. ASSUME Crash PROVE kernel' \in Callers \cup {None}
  BY <1>0, <1>6 DEF Crash
<1> QED
  BY <1>1, <1>2, <1>3, <1>4, <1>5, <1>6 DEF Next

\* What is to be written was to be written before, or is due.
LEMMA PendingNext ==
  ASSUME WaitsTyped, Next
  PROVE  /\ SavingTyped'
         /\ \A q \in Places : \A type, n :
              Pending(q, type, n)' => Pending(q, type, n) \/ (Due(type, n) /\ q \in PlaceOf(type))
<1> DEFINE Goal == /\ SavingTyped'
                   /\ \A q \in Places : \A type, n : Pending(q, type, n)' =>
                        Pending(q, type, n) \/ (Due(type, n) /\ q \in PlaceOf(type))
<1>0. kernel' \in Callers \cup {None} /\ SavingTyped /\ SavingSteps
  BY KernelTyped, SavingStep DEF WaitsTyped
<1>1. ASSUME NEW p \in Places, NEW after, NEW writes, Beginning(p, after, writes)
      PROVE  Goal
  <2>1. /\ after \in TaskRecords /\ writes \in Seq(Events) \ {<<>>}
        /\ \A i \in DOMAIN writes :
             /\ writes[i].type = "task/activation-settled" => writes[i].as \in TaskStates
             /\ Due(writes[i].type, writes[i].of) /\ p \in PlaceOf(writes[i].type)
    BY <1>1, BeginsDue DEF Beginning
  <2>2. Load(p, after, writes)
    BY <1>1 DEF Beginning
  <2>3. SavingTyped'
    BY <1>0, <2>1, <2>2, LoadTyped
  <2>4. \A q \in Places : \A type, n : Pending(q, type, n)' =>
          IF q = p THEN \E i \in DOMAIN writes : writes[i].type = type /\ writes[i].of = n
          ELSE Pending(q, type, n)
    BY <1>0, <2>1, <2>2, LoadAdds
  <2> QED
    BY <2>1, <2>3, <2>4
<1>2. ASSUME NEW p \in Places, Writes(p)
      PROVE  Goal
  <2>1. Busy(p) /\ Go(p)
    BY <1>2 DEF Writes, AppendEvent, PutTask
  <2> QED
    BY <1>0, <2>1, GoLeaves
<1>3. ASSUME NEW over \in SUBSET Places,
             saving' = [p \in Places |-> IF p \in over THEN None ELSE saving[p]]
      PROVE  Goal
  <2>1. ASSUME NEW q \in Places, NEW type, NEW n, Pending(q, type, n)'
        PROVE  Pending(q, type, n)
    BY <1>3, <2>1 DEF Pending, Busy
  <2>2. SavingTyped'
    <3>1. saving' \in [Places -> Operations \cup {None}]
      BY <1>0, <1>3 DEF SavingTyped
    <3>2. \A p \in Places : Busy(p)' => Busy(p) /\ saving'[p] = saving[p]
      BY <1>3 DEF Busy
    <3> QED
      BY <1>0, <3>1, <3>2 DEF SavingTyped
  <2> QED
    BY <2>1, <2>2
<1> HIDE DEF Goal
<1>4. Goal
  BY <1>0, <1>1, <1>2, <1>3 DEF SavingSteps
<1> QED
  BY <1>4 DEF Goal

\* Only the writes of an operation change the record, the events and their
\* projection.
LEMMA LedgerStep ==
  ASSUME Next
  PROVE  \/ UNCHANGED ledgerVars
         \/ \E p \in Places : AppendEvent(p) \/ PutTask(p)
<1> USE DEF ledgerVars
<1>1. ASSUME NEW n \in Attempts, WorkerStep(n) PROVE UNCHANGED ledgerVars
  BY <1>1 DEF WorkerStep, Call, Request, SubmitQuestion, WaitForDecision, SubmitBlocker,
     ReadGuidance, WorkerRefused
<1>2. ASSUME StaffStep PROVE UNCHANGED ledgerVars
  BY <1>2 DEF StaffStep, StaffRefused, CallIssue, Issue, Poll, Deliver, Present,
     ApplyGuidance, ResolveDecision, Answer
<1>3. ASSUME MaintenanceStep PROVE UNCHANGED ledgerVars
  BY <1>3 DEF MaintenanceStep, ReconcileRadio, ReconcileQuestions, DeadLetterGuidanceWait,
     ExpireDecisionWait
<1>4. ASSUME HostStep PROVE UNCHANGED ledgerVars
  BY <1>4 DEF HostStep, ReadPending, LeaseTask, Start, SpawnRefused, AcknowledgeRadio,
     AcknowledgeGuidance, AcknowledgeAnswer, ChildEnds, ReleaseTaskLease, CancelMission
<1>5. ASSUME NEW p \in Places, Throw(p) PROVE UNCHANGED ledgerVars
  BY <1>5 DEF Throw
<1>6. ASSUME Crash PROVE UNCHANGED ledgerVars
  BY <1>6 DEF Crash
<1> QED
  BY <1>1, <1>2, <1>3, <1>4, <1>5, <1>6 DEF Next, Writes

\* An appended event was the next write of an operation.
LEMMA Appended ==
  ASSUME WaitsTyped, NEW p \in Places, AppendEvent(p)
  PROVE  /\ Coming(p) \in Events /\ Coming(p) # Put
         /\ Coming(p).type = "task/activation-settled" => Coming(p).as \in TaskStates
         /\ Pending(p, Coming(p).type, Coming(p).of)
         /\ stream' = stream \cup {Coming(p)}
         /\ folded' = IF Coming(p) \in stream THEN folded ELSE Fold(folded, Coming(p))
         /\ Busy(p) /\ Go(p) /\ UNCHANGED <<task, storeVars, callVars>>
<1>1. Busy(p)
  BY DEF AppendEvent
<1>2. /\ saving[p].writes \in Seq(Events) \ {<<>>} /\ Coming(p) \in Events
  BY <1>1, OperationsBusy DEF WaitsTyped
<1>3. 1 \in DOMAIN saving[p].writes /\ Coming(p) = saving[p].writes[1]
  BY <1>2 DEF Coming
<1>4. Coming(p).type = "task/activation-settled" => Coming(p).as \in TaskStates
  BY <1>1, <1>3 DEF WaitsTyped, SavingTyped
<1>5. Pending(p, Coming(p).type, Coming(p).of)
  BY <1>1, <1>3 DEF Pending
<1>6. /\ Coming(p) # Put
      /\ IF Coming(p) \in stream THEN UNCHANGED <<stream, folded>>
         ELSE stream' = stream \cup {Coming(p)} /\ folded' = Fold(folded, Coming(p))
      /\ Go(p) /\ UNCHANGED <<task, storeVars, callVars>>
  BY DEF AppendEvent, Coming
<1>7. /\ stream' = stream \cup {Coming(p)}
      /\ folded' = IF Coming(p) \in stream THEN folded ELSE Fold(folded, Coming(p))
  BY <1>6
<1> QED
  BY <1>1, <1>2, <1>4, <1>5, <1>6, <1>7

\* What is told has been known, and what is known was so before or is due.
LEMMA KnownNext ==
  ASSUME WaitsTyped, Next, NEW type, NEW n
  PROVE  /\ Told(type, n) => Told(type, n)'
         /\ Told(type, n)' => Told(type, n) \/ \E p \in Places :
              AppendEvent(p) /\ Coming(p).type = type /\ Coming(p).of = n
         /\ Told(type, n)' => Known(type, n)
         /\ Known(type, n)' => Known(type, n) \/ Due(type, n)
<1>1. \/ UNCHANGED stream
      \/ \E p \in Places : AppendEvent(p)
  BY LedgerStep DEF ledgerVars, PutTask
<1>2. Told(type, n)' => Told(type, n) \/ \E p \in Places :
        AppendEvent(p) /\ Coming(p).type = type /\ Coming(p).of = n
  BY <1>1, Appended DEF Told
<1>3. Told(type, n) => Told(type, n)'
  BY <1>1, Appended DEF Told
<1>4. Told(type, n)' => Known(type, n)
  BY <1>2, Appended DEF Known
<1>5. Known(type, n)' => Known(type, n) \/ Due(type, n)
  BY <1>4, PendingNext DEF Known
<1> QED
  BY <1>2, <1>3, <1>4, <1>5

\* The stores stay typed.
LEMMA StoresNext ==
  ASSUME WaitsTyped, Next
  PROVE  StoresTyped'
<1>1. RadioMoves /\ BrokerMoves
  BY RadioNext, BrokerNext DEF WaitsTyped
<1>2. task' \in TaskRecords /\ folded' \in TaskStates \cup {Broken} /\ stream' \in SUBSET Events
  <2>1. CASE UNCHANGED ledgerVars
    BY <2>1 DEF ledgerVars, WaitsTyped, StoresTyped
  <2>2. ASSUME NEW p \in Places, AppendEvent(p)
        PROVE  task' \in TaskRecords /\ folded' \in TaskStates \cup {Broken}
               /\ stream' \in SUBSET Events
    BY <2>2, Appended, FoldEnds DEF WaitsTyped, StoresTyped
  <2>3. ASSUME NEW p \in Places, PutTask(p)
        PROVE  task' \in TaskRecords /\ folded' \in TaskStates \cup {Broken}
               /\ stream' \in SUBSET Events
    BY <2>3, OperationsBusy DEF PutTask, WaitsTyped, StoresTyped
  <2> QED
    BY <2>1, <2>2, <2>3, LedgerStep
<1> QED
  BY <1>1, <1>2 DEF StoresTyped, RadioMoves, BrokerMoves

\* A worker comes to its next step.
LEMMA StepsTyped ==
  ASSUME NEW n \in Attempts, NEW step, WorkersTyped, NextStep(n, step)
  PROVE  steps' \in [Attempts -> Seq(Steps)]
<1>1. steps[n] \in Seq(Steps) /\ steps[n] # <<>>
  BY DEF WorkersTyped, NextStep
<1>2. Tail(steps[n]) \in Seq(Steps)
  BY <1>1
<1>3. steps' = [steps EXCEPT ![n] = Tail(steps[n])]
  BY DEF NextStep
<1> QED
  BY <1>2, <1>3 DEF WorkersTyped

\* The attempts and their tool calls stay typed.
LEMMA WorkersNext ==
  ASSUME WorkersTyped, SpawnTyped, Next
  PROVE  WorkersTyped'
<1>0. ASSUME UNCHANGED workerVars PROVE WorkersTyped'
  BY <1>0 DEF workerVars, WorkersTyped
<1>1. ASSUME NEW n \in Attempts, WorkerStep(n) PROVE WorkersTyped'
  <2>1. ASSUME NEW tool \in Tools, Call(n, tool) PROVE WorkersTyped'
    <3>1. tool \in Seq(Steps)
      <4>1. CASE tool = <<"request", "await-guidance">>
        BY <4>1 DEF Steps
      <4>2. CASE tool = <<"block">>
        BY <4>2 DEF Steps
      <4>3. CASE tool = <<"ask", "wait">>
        BY <4>3 DEF Steps
      <4>4. CASE tool = <<"block", "ask", "wait">>
        BY <4>4 DEF Steps
      <4> QED
        BY <4>1, <4>2, <4>3, <4>4 DEF Tools
    <3> QED
      BY <2>1, <3>1 DEF Call, WorkersTyped
  <2>2. CASE WorkerRefused(n)
    BY <2>2 DEF WorkerRefused, WorkersTyped
  <2>3. ASSUME NEW step, NextStep(n, step), life' = life PROVE WorkersTyped'
    BY <2>3, StepsTyped DEF WorkersTyped
  <2>4. ASSUME NEW of \in Attempts, NEW late \in BOOLEAN, ReadGuidance(n, of, late)
        PROVE  WorkersTyped'
    BY <1>0, <2>4 DEF ReadGuidance, callVars
  <2> QED
    BY <1>1, <2>1, <2>2, <2>3, <2>4 DEF WorkerStep, Request, SubmitQuestion, WaitForDecision,
       SubmitBlocker
<1>2. ASSUME StaffStep PROVE WorkersTyped'
  BY <1>0, <1>2 DEF StaffStep, StaffRefused, CallIssue, Issue, Poll, Deliver, Present,
     ApplyGuidance, ResolveDecision, Answer, callVars
<1>3. ASSUME MaintenanceStep PROVE WorkersTyped'
  BY <1>0, <1>3 DEF MaintenanceStep, ReconcileRadio, ReconcileQuestions, DeadLetterGuidanceWait,
     ExpireDecisionWait
<1>4. ASSUME HostStep PROVE WorkersTyped'
  <2>1. CASE Start \/ SpawnRefused
    BY <2>1 DEF Start, SpawnRefused, WorkersTyped
  <2>2. ASSUME NEW n \in Attempts, ChildEnds(n) PROVE WorkersTyped'
    BY <2>2 DEF ChildEnds, WorkersTyped
  <2> QED
    BY <1>0, <1>4, <2>1, <2>2 DEF HostStep, ReadPending, LeaseTask, AcknowledgeRadio,
       AcknowledgeGuidance, AcknowledgeAnswer, ReleaseTaskLease, CancelMission, callVars
<1>5. ASSUME NEW p \in Places, Writes(p) \/ Throw(p) PROVE WorkersTyped'
  <2>1. CASE Throw(p) /\ p = "command"
    <3>1. life' = [n \in Attempts |-> IF n = kernel THEN "live"
                     ELSE IF kernel = Host /\ n = spawn.by THEN "gone" ELSE life[n]]
      BY <2>1 DEF Throw
    <3>2. steps' = [n \in Attempts |-> IF n = kernel THEN <<>> ELSE steps[n]]
      BY <2>1 DEF Throw
    <3>3. <<>> \in Seq(Steps)
      OBVIOUS
    <3> QED
      BY <3>1, <3>2, <3>3 DEF WorkersTyped
  <2> QED
    BY <1>0, <1>5, <2>1 DEF Writes, AppendEvent, PutTask, Throw, callVars
<1>6. ASSUME Crash PROVE WorkersTyped'
  BY <1>6 DEF Crash, WorkersTyped
<1> QED
  BY <1>1, <1>2, <1>3, <1>4, <1>5, <1>6 DEF Next

\* The tool calls of the staff stay typed.
LEMMA AdviceNext ==
  ASSUME AdviceTyped, Next
  PROVE  AdviceTyped'
<1> USE DEF AdviceTyped
<1>0. ASSUME UNCHANGED advice PROVE AdviceTyped'
  BY <1>0
<1>01. Ready \in [at : {"idle"}, of : Some] /\ Attempts \subseteq Some /\ General \in Staff
  BY DEF Ready, Some, Staff
<1>1. ASSUME NEW n \in Attempts, WorkerStep(n) PROVE AdviceTyped'
  BY <1>0, <1>1 DEF WorkerStep, Call, Request, SubmitQuestion, WaitForDecision, SubmitBlocker,
     ReadGuidance, WorkerRefused, callVars
<1>2. ASSUME StaffStep PROVE AdviceTyped'
  <2>1. ASSUME NEW g \in Staff, advice' = [advice EXCEPT ![g] = Ready] PROVE AdviceTyped'
    BY <1>01, <2>1
  <2>2. ASSUME NEW g \in Staff, NEW n \in Attempts, NEW at \in {"issue", "resolve"},
               advice' = [advice EXCEPT ![g] = [at |-> at, of |-> n]]
        PROVE  AdviceTyped'
    BY <1>01, <2>2
  <2>3. ASSUME NEW g \in Staff, NEW at \in {"deliver", "apply"}, advice[g].at # "idle",
               advice' = [advice EXCEPT ![g] = [@ EXCEPT !.at = at]]
        PROVE  AdviceTyped'
    BY <1>01, <2>3
  <2>4. ASSUME NEW g \in Staff, StaffRefused(g) PROVE AdviceTyped'
    BY <2>1, <2>4 DEF StaffRefused
  <2>5. ASSUME NEW g \in Staff, NEW n \in Attempts, CallIssue(g, n) PROVE AdviceTyped'
    BY <2>2, <2>5 DEF CallIssue
  <2>6. ASSUME NEW g \in Staff, Issue(g) PROVE AdviceTyped'
    <3>1. CASE g = General
      <4>1. advice[g].at # "idle" /\ advice' = [advice EXCEPT ![g] = [@ EXCEPT !.at = "deliver"]]
        BY <2>6, <3>1 DEF Issue
      <4> QED
        BY <2>3, <4>1
    <3>2. CASE g # General
      <4>1. advice' = [advice EXCEPT ![g] = Ready]
        BY <2>6, <3>2 DEF Issue
      <4> QED
        BY <2>1, <4>1
    <3> QED
      BY <3>1, <3>2
  <2>7. ASSUME NEW late \in BOOLEAN, Deliver(late) PROVE AdviceTyped'
    <3>1. CASE late
      <4>1. advice' = [advice EXCEPT ![General] = Ready]
        BY <2>7, <3>1 DEF Deliver
      <4> QED
        BY <1>01, <2>1, <4>1
    <3>2. CASE ~late
      <4>1. /\ advice[General].at # "idle"
            /\ advice' = [advice EXCEPT ![General] = [@ EXCEPT !.at = "apply"]]
        BY <2>7, <3>2 DEF Deliver
      <4> QED
        BY <1>01, <2>3, <4>1
    <3> QED
      BY <3>1, <3>2
  <2>8. ASSUME NEW n \in Attempts, Answer(n) PROVE AdviceTyped'
    BY <1>01, <2>2, <2>8 DEF Answer
  <2>9. CASE ApplyGuidance \/ ResolveDecision
    BY <1>01, <2>1, <2>9 DEF ApplyGuidance, ResolveDecision
  <2> QED
    BY <1>0, <1>2, <2>4, <2>5, <2>6, <2>7, <2>8, <2>9 DEF StaffStep, Poll, Present, callVars
<1>3. ASSUME MaintenanceStep PROVE AdviceTyped'
  BY <1>0, <1>3 DEF MaintenanceStep, ReconcileRadio, ReconcileQuestions, DeadLetterGuidanceWait,
     ExpireDecisionWait
<1>4. ASSUME HostStep PROVE AdviceTyped'
  BY <1>0, <1>4 DEF HostStep, ReadPending, LeaseTask, Start, SpawnRefused, AcknowledgeRadio,
     AcknowledgeGuidance, AcknowledgeAnswer, ChildEnds, ReleaseTaskLease, CancelMission, callVars
<1>5. ASSUME NEW p \in Places, Writes(p) \/ Throw(p) PROVE AdviceTyped'
  BY <1>0, <1>5 DEF Writes, AppendEvent, PutTask, Throw, callVars
<1>6. ASSUME Crash PROVE AdviceTyped'
  BY <1>01, <1>6 DEF Crash
<1> QED
  BY <1>1, <1>2, <1>3, <1>4, <1>5, <1>6 DEF Next

\* The maintenance pass stays typed.
LEMMA PassNext ==
  ASSUME StoresTyped, PassTyped, Next
  PROVE  PassTyped'
<1> USE DEF PassTyped
<1>0. ASSUME UNCHANGED pass PROVE PassTyped'
  BY <1>0
<1>1. ASSUME NEW n \in Attempts, WorkerStep(n) PROVE PassTyped'
  BY <1>0, <1>1 DEF WorkerStep, Call, Request, SubmitQuestion, WaitForDecision, SubmitBlocker,
     ReadGuidance, WorkerRefused, callVars
<1>2. ASSUME StaffStep PROVE PassTyped'
  BY <1>0, <1>2 DEF StaffStep, StaffRefused, CallIssue, Issue, Poll, Deliver, Present,
     ApplyGuidance, ResolveDecision, Answer, callVars
<1>3. ASSUME MaintenanceStep PROVE PassTyped'
  <2>1. ASSUME NEW late \in SUBSET Attempts, ReconcileRadio(late) PROVE PassTyped'
    BY <2>1 DEF ReconcileRadio, GivenUp
  <2>2. ASSUME NEW n \in Attempts, DeadLetterGuidanceWait(n) PROVE PassTyped'
    BY <2>2 DEF DeadLetterGuidanceWait
  <2>3. ASSUME NEW expired \in SUBSET Attempts, pass' = Reporting(expired) PROVE PassTyped'
    BY <2>3 DEF Reporting, Resting
  <2> QED
    BY <1>3, <2>1, <2>2, <2>3 DEF MaintenanceStep, ReconcileQuestions, ExpireDecisionWait
<1>4. ASSUME HostStep PROVE PassTyped'
  BY <1>0, <1>4 DEF HostStep, ReadPending, LeaseTask, Start, SpawnRefused, AcknowledgeRadio,
     AcknowledgeGuidance, AcknowledgeAnswer, ChildEnds, ReleaseTaskLease, CancelMission, callVars
<1>5. ASSUME NEW p \in Places, Writes(p) \/ Throw(p) PROVE PassTyped'
  BY <1>0, <1>5 DEF Writes, AppendEvent, PutTask, Throw, callVars, Resting
<1>6. ASSUME Crash PROVE PassTyped'
  BY <1>6 DEF Crash, Resting
<1> QED
  BY <1>1, <1>2, <1>3, <1>4, <1>5, <1>6 DEF Next

\* The spawn call stays typed.
LEMMA SpawnNext ==
  ASSUME StoresTyped, SpawnTyped, Next
  PROVE  SpawnTyped'
<1> USE DEF SpawnTyped
<1>0. ASSUME UNCHANGED spawn PROVE SpawnTyped'
  BY <1>0
<1>01. ASSUME spawn' = NoSpawn PROVE SpawnTyped'
  BY <1>01, NoneAssumption DEF NoSpawn, Some, Callers
<1>1. ASSUME NEW n \in Attempts, WorkerStep(n) PROVE SpawnTyped'
  BY <1>0, <1>1 DEF WorkerStep, Call, Request, SubmitQuestion, WaitForDecision, SubmitBlocker,
     ReadGuidance, WorkerRefused, callVars
<1>2. ASSUME StaffStep PROVE SpawnTyped'
  BY <1>0, <1>2 DEF StaffStep, StaffRefused, CallIssue, Issue, Poll, Deliver, Present,
     ApplyGuidance, ResolveDecision, Answer, callVars
<1>3. ASSUME MaintenanceStep PROVE SpawnTyped'
  BY <1>0, <1>3 DEF MaintenanceStep, ReconcileRadio, ReconcileQuestions, DeadLetterGuidanceWait,
     ExpireDecisionWait
<1>4. ASSUME HostStep PROVE SpawnTyped'
  <2>1. CASE ReadPending
    <3>1. task.guidance \in Some /\ task.answer \in Some
      BY DEF StoresTyped, TaskRecords, Some
    <3> QED
      BY <2>1, <3>1 DEF ReadPending, New, Some
  <2>2. CASE LeaseTask
    BY <2>2 DEF LeaseTask
  <2>3. CASE Start
    BY <2>3 DEF Start
  <2>4. CASE AcknowledgeRadio
    BY <2>4 DEF AcknowledgeRadio
  <2>5. CASE AcknowledgeGuidance
    BY <2>5 DEF AcknowledgeGuidance
  <2> QED
    BY <1>0, <1>01, <1>4, <2>1, <2>2, <2>3, <2>4, <2>5 DEF HostStep, SpawnRefused,
       AcknowledgeAnswer, ChildEnds, ReleaseTaskLease, CancelMission, callVars
<1>5. ASSUME NEW p \in Places, Writes(p) \/ Throw(p) PROVE SpawnTyped'
  BY <1>0, <1>01, <1>5 DEF Writes, AppendEvent, PutTask, Throw, callVars
<1>6. ASSUME Crash PROVE SpawnTyped'
  BY <1>01, <1>6 DEF Crash
<1> QED
  BY <1>1, <1>2, <1>3, <1>4, <1>5, <1>6 DEF Next

\* The first strengthening: everything stays typed.
LEMMA TypedInit ==
  ASSUME Init
  PROVE  WaitsTyped
<1>1. StoresTyped
  BY AttemptsAssumption DEF Init, StoresTyped, TaskRecords, TaskStates, Unsent, Entries, RadioStates, Staff
<1>2. SavingTyped
  BY DEF Init, SavingTyped, Busy
<1>3. CallsTyped
  <2>1. <<>> \in Seq(Steps)
    OBVIOUS
  <2>2. None \notin Attempts
    BY NoneAssumption DEF Callers
  <2> QED
    BY <2>1, <2>2 DEF Init, CallsTyped, WorkersTyped, AdviceTyped, PassTyped, SpawnTyped, Ready,
       Resting, NoSpawn, Some
<1> QED
  BY <1>1, <1>2, <1>3 DEF WaitsTyped

\* Every variable keeps its type.
LEMMA TypedNext ==
  ASSUME WaitsTyped, [Next]_vars
  PROVE  WaitsTyped'
<1>1. CASE Next
  BY <1>1, StoresNext, PendingNext, WorkersNext, AdviceNext, PassNext, SpawnNext
     DEF WaitsTyped, CallsTyped
<1>2. CASE UNCHANGED vars
  <2> USE <1>2 DEF vars, ledgerVars, storeVars, savingVars, callVars, workerVars
  <2>1. StoresTyped'
    BY DEF WaitsTyped, StoresTyped
  <2>2. SavingTyped'
    BY DEF WaitsTyped, SavingTyped, Busy
  <2>3. CallsTyped'
    BY DEF WaitsTyped, CallsTyped, WorkersTyped, AdviceTyped, PassTyped, SpawnTyped
  <2> QED
    BY <2>1, <2>2, <2>3 DEF WaitsTyped
<1> QED
  BY <1>1, <1>2

-----------------------------------------------------------------------------
(* A wait comes to one end                                                 *)

\* The root agent goes on to deliver what it has just issued, and to resolve
\* what has been answered.
LEMMA AdviceMoves ==
  ASSUME WaitsTyped, Next, NEW n \in Attempts
  PROVE  /\ advice'[General].at \in {"deliver", "apply"} /\ advice'[General].of = n
              => \/ advice[General].at \in {"deliver", "apply"} /\ advice[General].of = n
                 \/ radio[n].state = "LEASED" /\ radio'[n].state = "GUIDANCE_READY"
         /\ advice'[General].at = "resolve" /\ advice'[General].of = n
              => \/ advice[General].at = "resolve" /\ advice[General].of = n
                 \/ broker'[n] = "ANSWERED"
<1> DEFINE Goal ==
      /\ advice'[General].at \in {"deliver", "apply"} /\ advice'[General].of = n
           => \/ advice[General].at \in {"deliver", "apply"} /\ advice[General].of = n
              \/ radio[n].state = "LEASED" /\ radio'[n].state = "GUIDANCE_READY"
      /\ advice'[General].at = "resolve" /\ advice'[General].of = n
           => \/ advice[General].at = "resolve" /\ advice[General].of = n
              \/ broker'[n] = "ANSWERED"
<1>0. General \in Staff /\ AdviceTyped /\ StoresTyped
  BY DEF WaitsTyped, CallsTyped, Staff
<1>01. ASSUME advice'[General] \in {advice[General], Ready} PROVE Goal
  BY <1>01 DEF Ready
<1>1. ASSUME NEW k \in Attempts, WorkerStep(k) PROVE Goal
  BY <1>01, <1>1 DEF WorkerStep, Call, Request, SubmitQuestion, WaitForDecision, SubmitBlocker,
     ReadGuidance, WorkerRefused, callVars
<1>2. ASSUME StaffStep PROVE Goal
  <2>1. ASSUME NEW g \in Staff, Issue(g) PROVE Goal
    <3>1. CASE g # General
      BY <1>0, <1>01, <2>1, <3>1 DEF Issue, AdviceTyped
    <3>2. CASE g = General
      <4> DEFINE k == advice[General].of
      <4>1. /\ advice[General].at = "issue" /\ k \in Attempts
            /\ radio[k].state = "LEASED" /\ radio'[k].state = "GUIDANCE_READY"
        <5>1. /\ advice[General].at = "issue" /\ radio[k].state = "LEASED"
              /\ radio' = [radio EXCEPT ![k].state = "GUIDANCE_READY", ![k].by = None]
          BY <2>1, <3>2 DEF Issue
        <5>2. k \in Attempts /\ radio[k] \in Entries
          BY <1>0, <5>1 DEF AdviceTyped, StoresTyped
        <5> HIDE DEF k
        <5>3. radio'[k] = [[radio[k] EXCEPT !.state = "GUIDANCE_READY"] EXCEPT !.by = None]
          BY <1>0, <5>1, <5>2 DEF StoresTyped
        <5> QED
          BY <5>1, <5>2, <5>3 DEF Entries
      <4>2. advice'[General].at = "deliver" /\ advice'[General].of = k
        BY <1>0, <2>1, <3>2 DEF Issue, AdviceTyped
      <4> QED
        BY <4>1, <4>2
    <3> QED
      BY <3>1, <3>2
  <2>2. ASSUME NEW late \in BOOLEAN, Deliver(late) PROVE Goal
    <3>1. \/ advice'[General] = Ready
          \/ advice'[General].at = "apply" /\ advice'[General].of = advice[General].of
      BY <1>0, <2>2 DEF Deliver, AdviceTyped
    <3>2. advice[General].at = "deliver"
      BY <2>2 DEF Deliver
    <3> QED
      BY <1>01, <3>1, <3>2
  <2>3. ASSUME NEW k \in Attempts, Answer(k) PROVE Goal
    <3>1. broker'[k] = "ANSWERED"
      BY <1>0, <2>3 DEF Answer, StoresTyped
    <3>2. advice'[General] = [at |-> "resolve", of |-> k]
      BY <1>0, <2>3 DEF Answer, AdviceTyped
    <3> QED
      BY <3>1, <3>2
  <2>4. ASSUME NEW g \in Staff, NEW k \in Attempts, CallIssue(g, k) PROVE Goal
    <3>1. advice'[General] \in {advice[General], [at |-> "issue", of |-> k]}
      BY <1>0, <2>4 DEF CallIssue, AdviceTyped
    <3> QED
      BY <1>01, <3>1
  <2>5. ASSUME NEW g \in Staff, StaffRefused(g) PROVE Goal
    BY <1>0, <1>01, <2>5 DEF StaffRefused, AdviceTyped
  <2>6. CASE ApplyGuidance \/ ResolveDecision
    BY <1>0, <1>01, <2>6 DEF ApplyGuidance, ResolveDecision, AdviceTyped
  <2> HIDE DEF Goal
  <2>7. CASE UNCHANGED advice
    BY <1>01, <2>7
  <2> QED
    BY <1>2, <2>1, <2>2, <2>3, <2>4, <2>5, <2>6, <2>7 DEF StaffStep, Poll, Present, callVars
<1>3. ASSUME MaintenanceStep PROVE Goal
  BY <1>01, <1>3 DEF MaintenanceStep, ReconcileRadio, ReconcileQuestions, DeadLetterGuidanceWait,
     ExpireDecisionWait
<1>4. ASSUME HostStep PROVE Goal
  BY <1>01, <1>4 DEF HostStep, ReadPending, LeaseTask, Start, SpawnRefused, AcknowledgeRadio,
     AcknowledgeGuidance, AcknowledgeAnswer, ChildEnds, ReleaseTaskLease, CancelMission, callVars
<1>5. ASSUME NEW p \in Places, Writes(p) \/ Throw(p) PROVE Goal
  BY <1>01, <1>5 DEF Writes, AppendEvent, PutTask, Throw, callVars
<1>6. ASSUME Crash PROVE Goal
  BY <1>0, <1>01, <1>6 DEF Crash
<1> HIDE DEF Goal
<1>7. Goal
  BY <1>1, <1>2, <1>3, <1>4, <1>5, <1>6 DEF Next
<1> QED
  BY <1>7 DEF Goal

\* The maintenance pass lists what it has given up, or expired, itself.
LEMMA PassMoves ==
  ASSUME WaitsTyped, Next, NEW n \in Attempts
  PROVE  /\ n \in pass'.dead
              => n \in pass.dead \/ (radio[n].state \notin Final /\ radio'[n].state = "DEAD_LETTERED")
         /\ n \in pass'.expired => n \in pass.expired \/ broker'[n] = "EXPIRED"
<1> DEFINE Goal ==
      /\ n \in pass'.dead
           => n \in pass.dead \/ (radio[n].state \notin Final /\ radio'[n].state = "DEAD_LETTERED")
      /\ n \in pass'.expired => n \in pass.expired \/ broker'[n] = "EXPIRED"
<1>0. PassTyped /\ StoresTyped
  BY DEF WaitsTyped, CallsTyped
<1>01. ASSUME pass' \in {pass, Resting} PROVE Goal
  BY <1>01 DEF Resting
<1>1. ASSUME NEW k \in Attempts, WorkerStep(k) PROVE Goal
  BY <1>01, <1>1 DEF WorkerStep, Call, Request, SubmitQuestion, WaitForDecision, SubmitBlocker,
     ReadGuidance, WorkerRefused, callVars
<1>2. ASSUME StaffStep PROVE Goal
  BY <1>01, <1>2 DEF StaffStep, StaffRefused, CallIssue, Issue, Poll, Deliver, Present,
     ApplyGuidance, ResolveDecision, Answer, callVars
<1>3. ASSUME MaintenanceStep PROVE Goal
  <2>1. ASSUME NEW late \in SUBSET Attempts, ReconcileRadio(late) PROVE Goal
    <3>1. /\ radio' = Recovered(late)
          /\ pass'.dead = GivenUp(radio') \ GivenUp(radio) /\ pass'.expired = {}
      BY <2>1 DEF ReconcileRadio
    <3>2. radio[n].state \in Final => radio'[n] = radio[n]
      BY <1>0, <3>1, RecoveredMoves
    <3> QED
      BY <3>1, <3>2 DEF GivenUp
  <2>2. ASSUME NEW k \in Attempts, DeadLetterGuidanceWait(k) PROVE Goal
    BY <1>0, <2>2 DEF DeadLetterGuidanceWait, PassTyped
  <2>3. ASSUME NEW late \in SUBSET Attempts, ReconcileQuestions(late) PROVE Goal
    <3>1. broker'[n] = IF n \in late /\ broker[n] = "QUEUED" THEN "EXPIRED" ELSE broker[n]
      BY <2>3 DEF ReconcileQuestions, Expired
    <3>2. /\ pass'.dead = {}
          /\ n \in pass'.expired => broker'[n] # broker[n]
      BY <2>3 DEF ReconcileQuestions, Reporting, Resting
    <3> QED
      BY <3>1, <3>2
  <2>4. ASSUME NEW k \in Attempts, ExpireDecisionWait(k) PROVE Goal
    BY <1>0, <2>4 DEF ExpireDecisionWait, Reporting, Resting, PassTyped
  <2> QED
    BY <1>3, <2>1, <2>2, <2>3, <2>4 DEF MaintenanceStep
<1>4. ASSUME HostStep PROVE Goal
  BY <1>01, <1>4 DEF HostStep, ReadPending, LeaseTask, Start, SpawnRefused, AcknowledgeRadio,
     AcknowledgeGuidance, AcknowledgeAnswer, ChildEnds, ReleaseTaskLease, CancelMission, callVars
<1>5. ASSUME NEW p \in Places, Writes(p) \/ Throw(p) PROVE Goal
  BY <1>01, <1>5 DEF Writes, AppendEvent, PutTask, Throw, callVars
<1>6. ASSUME Crash PROVE Goal
  BY <1>01, <1>6 DEF Crash
<1> HIDE DEF Goal
<1>7. Goal
  BY <1>1, <1>2, <1>3, <1>4, <1>5, <1>6 DEF Next
<1> QED
  BY <1>7 DEF Goal

\* Every step keeps what the stores decided and what is told of it together.
LEMMA EndsNext ==
  ASSUME WaitsTyped, EndsInv, Next
  PROVE  EndsInv'
<1> SUFFICES ASSUME NEW n \in Attempts
             PROVE  /\ Issued(n)' => radio'[n].state \in Final
                    /\ n \in pass'.dead \/ Known("radio/dead-lettered", n)'
                       => radio'[n].state = "DEAD_LETTERED" /\ ~Issued(n)'
                    /\ \/ advice'[General].at = "resolve" /\ advice'[General].of = n
                       \/ Known("task/decision-resolved", n)'
                       => broker'[n] = "ANSWERED"
                    /\ n \in pass'.expired \/ Known("decision/expired", n)'
                       => broker'[n] = "EXPIRED"
  BY DEF EndsInv, Final
<1>1. /\ radio[n].state = "DEAD_LETTERED" => radio'[n].state = "DEAD_LETTERED"
      /\ radio[n].state \in Final => radio'[n].state \in Final
      /\ broker[n] \in {"ANSWERED", "EXPIRED"} => broker'[n] = broker[n]
  BY RadioNext, BrokerNext DEF WaitsTyped, RadioMoves, BrokerMoves
<1>2. /\ Known("radio/guidance-delivered", n)' => Issued(n)
      /\ Known("radio/dead-lettered", n)' => Known("radio/dead-lettered", n) \/ n \in pass.dead
      /\ Known("task/decision-resolved", n)' =>
           \/ Known("task/decision-resolved", n)
           \/ advice[General].at = "resolve" /\ advice[General].of = n
      /\ Known("decision/expired", n)' => Known("decision/expired", n) \/ n \in pass.expired
  BY KnownNext DEF Due, Issued
<1>3. Issued(n)' => Issued(n) \/ (radio[n].state = "LEASED" /\ radio'[n].state = "GUIDANCE_READY")
  BY <1>2, AdviceMoves DEF Issued
<1>4. Issued(n)' => radio'[n].state \in Final
  BY <1>1, <1>3 DEF EndsInv, Final
<1>5. n \in pass'.dead \/ Known("radio/dead-lettered", n)'
      => radio'[n].state = "DEAD_LETTERED" /\ ~Issued(n)'
  BY <1>1, <1>2, <1>3, PassMoves DEF EndsInv, Final
<1>6. \/ advice'[General].at = "resolve" /\ advice'[General].of = n
      \/ Known("task/decision-resolved", n)'
      => broker'[n] = "ANSWERED"
  BY <1>1, <1>2, AdviceMoves DEF EndsInv
<1>7. n \in pass'.expired \/ Known("decision/expired", n)' => broker'[n] = "EXPIRED"
  BY <1>1, <1>2, PassMoves DEF EndsInv
<1> QED
  BY <1>4, <1>5, <1>6, <1>7

-----------------------------------------------------------------------------
(* Cancellation                                                            *)

\* An operation takes a Task out of nothing but cancellation into CANCELLED.
LEMMA BeginsCancel ==
  ASSUME WaitsTyped, NEW p \in Places, NEW after, NEW writes, Begins(p, after, writes),
         after.state = "CANCELLED" \/ \E i \in DOMAIN writes : writes[i] = MissionCancelled
  PROVE  task.state = "CANCELLED" \/ Head(writes).type = "task/cancelled"
<1> DEFINE Goal == task.state = "CANCELLED" \/ Head(writes).type = "task/cancelled"
<1>0. task \in TaskRecords
  BY DEF WaitsTyped, StoresTyped
<1>01. MissionCancelled.type = "mission/cancelled" /\ Put.type = "put"
  BY DEF MissionCancelled, Put, Event
<1>02. ASSUME NEW type \in EventTypes \ {"mission/cancelled"}, NEW n, NEW as,
              writes = <<Event(type, n, as), Put>>
       PROVE  after.state = "CANCELLED"
  <2> DEFINE e == Event(type, n, as)
  <2>1. e.type # "mission/cancelled"
    BY <1>02 DEF Event
  <2>2. writes = <<e, Put>>
    BY <1>02
  <2> HIDE DEF e
  <2>3. \A i \in DOMAIN writes : writes[i] \in {e, Put}
    BY <2>2, Pair
  <2> QED
    BY <1>01, <2>1, <2>3
<1>1. ASSUME NEW n \in Attempts, NEW how \in {"block", "await-guidance"},
             after = [task EXCEPT !.state = "BLOCKED",
                              !.request = IF how = "await-guidance" THEN n ELSE @],
             writes = <<Event("task/blocker-submitted", n, how), Put>>
      PROVE  Goal
  <2>1. after.state = "BLOCKED"
    BY <1>0, <1>1 DEF TaskRecords
  <2>2. after.state = "CANCELLED"
    BY <1>02, <1>1 DEF EventTypes
  <2> QED
    BY <2>1, <2>2
<1>2. ASSUME NEW n \in Attempts,
             after = [task EXCEPT !.state = "WAITING_DECISION", !.question = n],
             writes = <<Event("task/decision-waiting", n, "plain"), Put>>
      PROVE  Goal
  <2>1. after.state = "WAITING_DECISION"
    BY <1>0, <1>2 DEF TaskRecords
  <2>2. after.state = "CANCELLED"
    BY <1>02, <1>2 DEF EventTypes
  <2> QED
    BY <2>1, <2>2
<1>3. ASSUME NEW n \in Attempts,
             after = [task EXCEPT !.state = "READY", !.guidance = n, !.request = None],
             writes = <<Event("radio/guidance-delivered", n, "plain"), Put>>
      PROVE  Goal
  <2>1. after.state = "READY"
    BY <1>0, <1>3 DEF TaskRecords
  <2>2. after.state = "CANCELLED"
    BY <1>02, <1>3 DEF EventTypes
  <2> QED
    BY <2>1, <2>2
<1>4. ASSUME NEW n \in Attempts,
             after = [task EXCEPT !.state = "READY", !.question = None, !.answer = n],
             writes = <<Event("task/decision-resolved", n, "plain"), Put>>
      PROVE  Goal
  <2>1. after.state = "READY"
    BY <1>0, <1>4 DEF TaskRecords
  <2>2. after.state = "CANCELLED"
    BY <1>02, <1>4 DEF EventTypes
  <2> QED
    BY <2>1, <2>2
<1>5. ASSUME NEW n, after = [task EXCEPT !.request = None],
             writes = <<Event("radio/dead-lettered", n, "plain"), Put>>
      PROVE  Goal
  <2>1. after.state = task.state
    BY <1>0, <1>5 DEF TaskRecords
  <2>2. after.state = "CANCELLED"
    BY <1>02, <1>5 DEF EventTypes
  <2> QED
    BY <2>1, <2>2
<1>6. ASSUME NEW n, after = [task EXCEPT !.state = "BLOCKED", !.question = None],
             writes = <<Event("decision/expired", n, "plain"), Put>>
      PROVE  Goal
  <2>1. after.state = "BLOCKED"
    BY <1>0, <1>6 DEF TaskRecords
  <2>2. after.state = "CANCELLED"
    BY <1>02, <1>6 DEF EventTypes
  <2> QED
    BY <2>1, <2>2
<1>7. ASSUME after = [task EXCEPT !.state = "EXECUTING", !.worker = spawn.by],
             \/ writes = <<Event("task/leased", spawn.by, "plain"), Put>>
             \/ writes = <<Event("task/resumed", None, task.state),
                           Event("task/leased", spawn.by, "plain"), Put>>
      PROVE  Goal
  <2>1. after.state = "EXECUTING"
    BY <1>0, <1>7 DEF TaskRecords
  <2>2. \E i \in DOMAIN writes : writes[i] = MissionCancelled
    BY <2>1
  <2> DEFINE e == Event("task/resumed", None, task.state)
             f == Event("task/leased", spawn.by, "plain")
  <2>3. e.type = "task/resumed" /\ f.type = "task/leased"
    BY DEF Event
  <2>4. writes = <<f, Put>> \/ writes = <<e, f, Put>>
    BY <1>7
  <2> HIDE DEF e, f
  <2>5. \A i \in DOMAIN writes : writes[i] \in {e, f, Put}
    BY <2>4
  <2> QED
    BY <1>01, <2>2, <2>3, <2>5
<1>8. ASSUME writes = <<Put>>,
             after = [task EXCEPT !.guidance = None] \/ after = [task EXCEPT !.answer = None]
      PROVE  Goal
  <2>1. after.state = task.state
    BY <1>0, <1>8 DEF TaskRecords
  <2>2. \A i \in DOMAIN writes : writes[i] = Put
    BY <1>8
  <2> QED
    BY <1>01, <2>1, <2>2
<1>9. ASSUME NEW n \in Attempts, NEW state \in TaskStates,
             state = IF task.state \in Held THEN "RECOVERY_REQUIRED" ELSE task.state,
             after = [task EXCEPT !.state = state, !.worker = None],
             writes = <<Event("task/activation-settled", n, state), Put>>
      PROVE  Goal
  <2>1. after.state = state
    BY <1>0, <1>9 DEF TaskRecords
  <2>2. after.state = "CANCELLED"
    BY <1>02, <1>9 DEF EventTypes
  <2> QED
    BY <1>9, <2>1, <2>2
<1>10. ASSUME writes = Cancellation PROVE Goal
  <2> DEFINE e == Event("task/cancelled", None, "plain")
  <2>1. e.type = "task/cancelled" /\ writes = <<e, Put, MissionCancelled>>
    BY <1>10 DEF Cancellation, Event
  <2> HIDE DEF e
  <2> QED
    BY <2>1
<1> HIDE DEF Goal
<1>11. task.state = "CANCELLED" => Goal
  BY DEF Goal
<1>12. Goal
  BY <1>1, <1>2, <1>3, <1>4, <1>5, <1>6, <1>7, <1>8, <1>9, <1>10, <1>11 DEF Begins
<1> QED
  BY <1>12 DEF Goal

\* What an operation announces the Mission's end with.
Closing(p) == \E i \in DOMAIN saving[p].writes : saving[p].writes[i] = MissionCancelled

\* What cancels the Mission is told before it counts.
LEMMA CancelNext ==
  ASSUME WaitsTyped, CancelInv, Next
  PROVE  CancelInv'
<1>0. folded \in TaskStates \cup {Broken} /\ SavingTyped
  BY DEF WaitsTyped, StoresTyped
<1>1. ASSUME NEW p \in Places, AppendEvent(p)
      PROVE  /\ Gone => Gone'
             /\ (\E e \in stream' : e.type = "task/cancelled") => Gone'
             /\ Closed' => Gone'
             /\ Coming(p).type = "task/cancelled" => Gone'
  <2>1. /\ Coming(p) \in Events /\ Busy(p)
        /\ Coming(p).type = "task/activation-settled" => Coming(p).as \in TaskStates
        /\ stream' = stream \cup {Coming(p)}
        /\ folded' = IF Coming(p) \in stream THEN folded ELSE Fold(folded, Coming(p))
    BY <1>1, Appended
  <2>2. Gone => Gone'
    BY <2>1, FoldStaysGone DEF Gone
  <2>3. Coming(p).type = "task/cancelled" => Gone'
    BY <2>1, <2>2, FoldCancels DEF CancelInv, Gone
  <2>4. Coming(p) = MissionCancelled => Gone
    <3>1. ASSUME Coming(p) = MissionCancelled PROVE Closing(p)
      <4>1. 1 \in DOMAIN saving[p].writes /\ Coming(p) = saving[p].writes[1]
        BY <1>0, <2>1, OperationsBusy DEF Coming
      <4> QED
        BY <3>1, <4>1 DEF Closing
    <3>2. MissionCancelled.type # "task/cancelled"
      BY DEF MissionCancelled, Event
    <3> QED
      BY <2>1, <3>1, <3>2 DEF CancelInv, Closing
  <2> QED
    BY <2>1, <2>2, <2>3, <2>4 DEF CancelInv, Closed
<1>2. ASSUME NEW p \in Places, PutTask(p)
      PROVE  /\ UNCHANGED <<folded, stream>> /\ Coming(p) = Put /\ Busy(p) /\ Go(p)
             /\ task'.state = "CANCELLED" => Gone
  <2>1. Put.type # "task/cancelled"
    BY DEF Put, Event
  <2> QED
    BY <1>2, <2>1 DEF PutTask, CancelInv, Coming
<1>3. Gone => Gone'
  BY <1>1, <1>2, LedgerStep DEF Gone, ledgerVars
<1>4. (\E e \in stream' : e.type = "task/cancelled") => Gone'
  BY <1>1, <1>2, LedgerStep DEF Gone, ledgerVars, CancelInv
<1>5. task'.state = "CANCELLED" \/ Closed' => Gone'
  <2>1. ASSUME NEW p \in Places, AppendEvent(p) PROVE task'.state = "CANCELLED" \/ Closed' => Gone'
    <3>1. task' = task
      BY <2>1 DEF AppendEvent
    <3> QED
      BY <1>1, <1>3, <2>1, <3>1 DEF CancelInv
  <2>2. ASSUME NEW p \in Places, PutTask(p) PROVE task'.state = "CANCELLED" \/ Closed' => Gone'
    BY <1>2, <1>3, <2>2 DEF CancelInv, Closed
  <2>3. CASE UNCHANGED ledgerVars
    BY <1>3, <2>3 DEF CancelInv, Closed, ledgerVars
  <2> QED
    BY <2>1, <2>2, <2>3, LedgerStep
<1>6. ASSUME NEW q \in Places, Busy(q)', saving'[q].task.state = "CANCELLED" \/ Closing(q)'
      PROVE  Gone' \/ Coming(q)'.type = "task/cancelled"
  <2> DEFINE Goal == Gone' \/ Coming(q)'.type = "task/cancelled"
  <2>1. ASSUME Busy(q), saving'[q] = saving[q] PROVE Goal
    BY <1>3, <1>6, <2>1 DEF CancelInv, Closing, Coming
  <2>2. ASSUME NEW p \in Places, NEW after, NEW writes, Beginning(p, after, writes)
        PROVE  Goal
    <3>1. /\ after \in TaskRecords /\ writes \in Seq(Events) \ {<<>>} /\ Load(p, after, writes)
          /\ Begins(p, after, writes)
      BY <2>2, BeginsDue DEF Beginning
    <3>2. /\ saving'[p] = [task |-> after, writes |-> writes]
          /\ \A r \in Places \ {p} : saving'[r] = saving[r] /\ (Busy(r)' <=> Busy(r))
      BY <1>0, <3>1, LoadAdds
    <3>3. CASE q = p
      <4>1. /\ after.state = "CANCELLED" \/ \E i \in DOMAIN writes : writes[i] = MissionCancelled
            /\ Coming(q)' = Head(writes)
        BY <1>6, <3>2, <3>3 DEF Closing, Coming
      <4>2. task.state = "CANCELLED" \/ Head(writes).type = "task/cancelled"
        BY <3>1, <4>1, BeginsCancel
      <4> QED
        BY <1>3, <4>1, <4>2 DEF CancelInv
    <3>4. CASE q # p
      BY <1>6, <2>1, <3>2, <3>4
    <3> QED
      BY <3>3, <3>4
  <2>3. ASSUME NEW p \in Places, AppendEvent(p) \/ PutTask(p) PROVE Goal
    <3>1. Busy(p) /\ Go(p)
      BY <2>3 DEF AppendEvent, PutTask
    <3>2. /\ \A r \in Places \ {p} : saving'[r] = saving[r] /\ (Busy(r)' <=> Busy(r))
          /\ Busy(p)' => saving'[p].task = saving[p].task
                        /\ saving'[p].writes = Tail(saving[p].writes)
      BY <1>0, <3>1, GoLeaves
    <3>3. CASE q = p
      <4>1. saving[p].writes \in Seq(Events) \ {<<>>}
        BY <1>0, <3>1, OperationsBusy
      <4>2. Closing(p)' => Closing(p)
        <5>1. ASSUME NEW i \in DOMAIN Tail(saving[p].writes)
              PROVE  i + 1 \in DOMAIN saving[p].writes
                     /\ Tail(saving[p].writes)[i] = saving[p].writes[i + 1]
          BY <4>1
        <5> QED
          BY <1>6, <3>2, <3>3, <5>1 DEF Closing
      <4>3. Gone \/ Coming(p).type = "task/cancelled"
        BY <1>6, <3>1, <3>2, <3>3, <4>2 DEF CancelInv, Closing
      <4>4. Put.type # "task/cancelled"
        BY DEF Put, Event
      <4> QED
        BY <1>1, <1>2, <1>3, <2>3, <4>3, <4>4
    <3>4. CASE q # p
      BY <1>6, <2>1, <3>2, <3>4
    <3> QED
      BY <3>3, <3>4
  <2>4. ASSUME NEW over \in SUBSET Places,
               saving' = [p \in Places |-> IF p \in over THEN None ELSE saving[p]]
        PROVE  Goal
    <3>1. saving'[q] = saving[q] /\ Busy(q)
      BY <1>6, <2>4 DEF Busy
    <3> QED
      BY <2>1, <3>1
  <2> HIDE DEF Goal
  <2>5. SavingSteps
    BY SavingStep
  <2>6. Goal
    BY <2>2, <2>3, <2>4, <2>5 DEF SavingSteps, Writes
  <2> QED
    BY <2>6 DEF Goal
<1> QED
  BY <1>4, <1>5, <1>6 DEF CancelInv, Closing

-----------------------------------------------------------------------------
(* Whose operations are under way                                          *)

\* What an operation that begins writes, by its place and its caller.
BeginsWith(p, after, writes) ==
  /\ \/ after.worker \in {task.worker, None}
     \/ /\ p = "command" /\ kernel' = Host /\ spawn.at = "lease"
        /\ after.worker = spawn.by
  /\ \/ after.request \in {task.request, None}
     \/ \E n \in Attempts : after.request = n /\ steps[n] # <<>>
  /\ p = "command" => kernel' # None
  /\ p = "command" /\ kernel' \in Attempts =>
       /\ steps[kernel'] # <<>> /\ after.state \in {"BLOCKED", "WAITING_DECISION"}
       /\ after.worker = kernel' /\ PutLast(writes)
  /\ p = "command" /\ kernel' = Host =>
       /\ spawn.at = "lease" /\ spawn' = [spawn EXCEPT !.at = "start"]
       /\ task.state \in {"READY", "RECOVERY_REQUIRED"} /\ after.state = "EXECUTING"
       /\ after.worker = spawn.by /\ PutLast(writes)
  /\ p = "command" =>
       IF kernel' = General THEN Gives(Head(writes))
       ELSE /\ Blank(task) => Blank(after)
            /\ after.state \notin Stop => task.state \notin Stop
            /\ after.state \in {"READY", "RECOVERY_REQUIRED"} => after.worker = None
  /\ p = "guidance" => Gives(Head(writes)) /\ task.state \in Stop
  /\ p = "maintenance" =>
       (Blank(task) => Blank(after)) /\ after.state = "BLOCKED" /\ task.state \in Stop
  /\ p = "acknowledgement" => ~Blank(spawn)

\* The put is the last write of an operation that ends with it.
LEMMA PutsLast ==
  ASSUME NEW e, NEW f, e.type # "put", f.type # "put"
  PROVE  PutLast(<<e, Put>>) /\ PutLast(<<e, f, Put>>)
<1>1. e # Put /\ f # Put
  BY DEF Put, Event
<1>2. \A i \in 1..2 : i = 1 \/ i = 2
  OBVIOUS
<1>3. \A i \in 1..3 : i = 1 \/ i = 2 \/ i = 3
  OBVIOUS
<1>4. PutLast(<<e, Put>>)
  BY <1>1, <1>2 DEF PutLast
<1>5. PutLast(<<e, f, Put>>)
  BY <1>1, <1>3 DEF PutLast
<1> QED
  BY <1>4, <1>5

\* An operation begins with what its place and caller ask for.
LEMMA BeginsSound ==
  ASSUME WaitsTyped, NEW p \in Places, NEW after, NEW writes, Begins(p, after, writes)
  PROVE  BeginsWith(p, after, writes)
<1> DEFINE Goal == BeginsWith(p, after, writes)
<1>0. /\ task \in TaskRecords /\ None \notin Callers
      /\ Host \notin Attempts /\ General \notin Attempts
      /\ Cleanup \notin Attempts \cup {Host, General} /\ Operator \notin Attempts \cup {Host, General}
      /\ General # Host
  BY CallersAssumption, NoneAssumption DEF WaitsTyped, StoresTyped
<1>01. ASSUME NEW type \in EventTypes \ {"put"}, NEW n, NEW as,
              writes = <<Event(type, n, as), Put>>
       PROVE  Head(writes).type = type /\ Head(writes).of = n /\ PutLast(writes)
  <2> DEFINE e == Event(type, n, as)
  <2>1. writes = <<e, Put>> /\ e.type = type /\ e.of = n
    BY <1>01 DEF Event
  <2> HIDE DEF e
  <2>2. PutLast(<<e, Put>>)
    BY <2>1, PutsLast
  <2> QED
    BY <2>1, <2>2
<1>1. ASSUME NEW n \in Attempts, NEW how \in {"block", "await-guidance"},
             p = "command", kernel' = n, steps[n] # <<>>, task.worker = n,
             after = [task EXCEPT !.state = "BLOCKED",
                              !.request = IF how = "await-guidance" THEN n ELSE @],
             writes = <<Event("task/blocker-submitted", n, how), Put>>
      PROVE  Goal
  <2>1. /\ after.state = "BLOCKED" /\ after.worker = n /\ after.request \in {task.request, n}
        /\ after.guidance = task.guidance /\ after.answer = task.answer
    BY <1>0, <1>1 DEF TaskRecords
  <2>2. PutLast(writes)
    BY <1>01, <1>1 DEF EventTypes
  <2> QED
    BY <1>0, <1>1, <2>1, <2>2 DEF BeginsWith, Blank, Stop, Callers
<1>2. ASSUME NEW n \in Attempts, p = "command", kernel' = n, steps[n] # <<>>, task.worker = n,
             after = [task EXCEPT !.state = "WAITING_DECISION", !.question = n],
             writes = <<Event("task/decision-waiting", n, "plain"), Put>>
      PROVE  Goal
  <2>1. /\ after.state = "WAITING_DECISION" /\ after.worker = n /\ after.request = task.request
        /\ after.guidance = task.guidance /\ after.answer = task.answer
    BY <1>0, <1>2 DEF TaskRecords
  <2>2. PutLast(writes)
    BY <1>01, <1>2 DEF EventTypes
  <2> QED
    BY <1>0, <1>2, <2>1, <2>2 DEF BeginsWith, Blank, Stop, Callers
<1>3. ASSUME NEW n \in Attempts, p = "guidance", task.state = "BLOCKED",
             after = [task EXCEPT !.state = "READY", !.guidance = n, !.request = None],
             writes = <<Event("radio/guidance-delivered", n, "plain"), Put>>
      PROVE  Goal
  <2>1. after.worker = task.worker /\ after.request = None
    BY <1>0, <1>3 DEF TaskRecords
  <2>2. Gives(Head(writes))
    BY <1>01, <1>3 DEF EventTypes, Gives
  <2> QED
    BY <1>3, <2>1, <2>2 DEF BeginsWith, Stop
<1>4. ASSUME NEW n \in Attempts, p = "command", kernel' = General,
             after = [task EXCEPT !.state = "READY", !.question = None, !.answer = n],
             writes = <<Event("task/decision-resolved", n, "plain"), Put>>
      PROVE  Goal
  <2>1. after.worker = task.worker /\ after.request = task.request
    BY <1>0, <1>4 DEF TaskRecords
  <2>2. Gives(Head(writes))
    BY <1>01, <1>4 DEF EventTypes, Gives
  <2> QED
    BY <1>0, <1>4, <2>1, <2>2 DEF BeginsWith, Callers
<1>5. ASSUME p = "maintenance", task.state = "BLOCKED", after = [task EXCEPT !.request = None]
      PROVE  Goal
  <2>1. /\ after.state = "BLOCKED" /\ after.worker = task.worker /\ after.request = None
        /\ after.guidance = task.guidance /\ after.answer = task.answer
    BY <1>0, <1>5 DEF TaskRecords
  <2> QED
    BY <1>5, <2>1 DEF BeginsWith, Blank, Stop
<1>6. ASSUME p = "maintenance", task.state = "WAITING_DECISION",
             after = [task EXCEPT !.state = "BLOCKED", !.question = None]
      PROVE  Goal
  <2>1. /\ after.state = "BLOCKED" /\ after.worker = task.worker /\ after.request = task.request
        /\ after.guidance = task.guidance /\ after.answer = task.answer
    BY <1>0, <1>6 DEF TaskRecords
  <2> QED
    BY <1>6, <2>1 DEF BeginsWith, Blank, Stop
<1>7. ASSUME p = "command", kernel' = Host, spawn.at = "lease",
             spawn' = [spawn EXCEPT !.at = "start"], task.state \in {"READY", "RECOVERY_REQUIRED"},
             after = [task EXCEPT !.state = "EXECUTING", !.worker = spawn.by],
             \/ writes = <<Event("task/leased", spawn.by, "plain"), Put>>
             \/ writes = <<Event("task/resumed", None, task.state),
                           Event("task/leased", spawn.by, "plain"), Put>>
      PROVE  Goal
  <2>1. /\ after.state = "EXECUTING" /\ after.worker = spawn.by /\ after.request = task.request
        /\ after.guidance = task.guidance /\ after.answer = task.answer
    BY <1>0, <1>7 DEF TaskRecords
  <2> DEFINE e == Event("task/resumed", None, task.state)
             f == Event("task/leased", spawn.by, "plain")
  <2>2. e.type = "task/resumed" /\ f.type = "task/leased"
    BY DEF Event
  <2>3. writes = <<f, Put>> \/ writes = <<e, f, Put>>
    BY <1>7
  <2> HIDE DEF e, f
  <2>4. PutLast(writes)
    BY <2>2, <2>3, PutsLast
  <2>5. task.state \notin Stop
    BY <1>7 DEF Stop
  <2> QED
    BY <1>0, <1>7, <2>1, <2>4, <2>5 DEF BeginsWith, Blank, Callers
<1>8. ASSUME p = "acknowledgement",
             \/ after = [task EXCEPT !.guidance = None] /\ spawn.guidance # None
             \/ after = [task EXCEPT !.answer = None] /\ spawn.answer # None
      PROVE  Goal
  <2>1. after.worker = task.worker /\ after.request = task.request
    BY <1>0, <1>8 DEF TaskRecords
  <2> QED
    BY <1>8, <2>1 DEF BeginsWith, Blank
<1>9. ASSUME NEW state \in TaskStates, p = "command", kernel' = Cleanup,
             state = IF task.state \in Held THEN "RECOVERY_REQUIRED" ELSE task.state,
             after = [task EXCEPT !.state = state, !.worker = None]
      PROVE  Goal
  <2>1. /\ after.state = state /\ after.worker = None /\ after.request = task.request
        /\ after.guidance = task.guidance /\ after.answer = task.answer
    BY <1>0, <1>9 DEF TaskRecords
  <2>2. state \notin Stop => task.state \notin Stop
    BY <1>9 DEF Held, Stop
  <2> QED
    BY <1>0, <1>9, <2>1, <2>2 DEF BeginsWith, Blank, Callers
<1>10. ASSUME p = "command", kernel' = Operator, task.state = "CANCELLED", after = task
       PROVE  Goal
  BY <1>0, <1>10 DEF BeginsWith, Stop, Callers
<1>11. ASSUME p = "command", kernel' = Operator,
              after = [task EXCEPT !.state = "CANCELLED", !.worker = None, !.request = None,
                                   !.question = None, !.guidance = None, !.answer = None]
       PROVE  Goal
  <2>1. /\ after.state = "CANCELLED" /\ after.worker = None /\ after.request = None
        /\ after.guidance = None /\ after.answer = None
    BY <1>0, <1>11 DEF TaskRecords
  <2> QED
    BY <1>0, <1>11, <2>1 DEF BeginsWith, Blank, Stop, Callers
<1> HIDE DEF Goal
<1>12. Goal
  BY <1>1, <1>2, <1>3, <1>4, <1>5, <1>6, <1>7, <1>8, <1>9, <1>10, <1>11 DEF Begins
<1> QED
  BY <1>12 DEF Goal

\* A command ends with its last write, or stays open.
LEMMA KernelMoves ==
  ASSUME WaitsTyped, Next, kernel # None
  PROVE  kernel' = kernel \/ (kernel' = None /\ Writes("command"))
<1> DEFINE Goal == kernel' = kernel \/ (kernel' = None /\ Writes("command"))
<1>1. ASSUME NEW n \in Attempts, WorkerStep(n) PROVE Goal
  BY <1>1 DEF WorkerStep, Call, Request, SubmitQuestion, WaitForDecision, SubmitBlocker,
     ReadGuidance, WorkerRefused, LeavesOpen, Command, savingVars
<1>2. ASSUME StaffStep PROVE Goal
  BY <1>2 DEF StaffStep, StaffRefused, CallIssue, Issue, Poll, Deliver, Present,
     ApplyGuidance, ResolveDecision, Answer, Command, OutsideCommands, savingVars
<1>3. ASSUME MaintenanceStep PROVE Goal
  BY <1>3 DEF MaintenanceStep, ReconcileRadio, ReconcileQuestions, DeadLetterGuidanceWait,
     ExpireDecisionWait, OutsideCommands, savingVars
<1>4. ASSUME HostStep PROVE Goal
  <2>1. ASSUME NEW caller, NEW after, NEW writes, Command(caller, after, writes) PROVE Goal
    BY <2>1 DEF Command
  <2>2. CASE LeaseTask \/ CancelMission
    BY <2>1, <2>2 DEF LeaseTask, CancelMission
  <2>3. ASSUME NEW n \in Attempts, ChildEnds(n) \/ ReleaseTaskLease(n) PROVE Goal
    BY <2>1, <2>3 DEF ChildEnds, ReleaseTaskLease, savingVars
  <2> QED
    BY <1>4, <2>2, <2>3 DEF HostStep, ReadPending, Start, SpawnRefused, AcknowledgeRadio,
       AcknowledgeGuidance, AcknowledgeAnswer, OutsideCommands, LeavesOpen, savingVars
<1>5. ASSUME NEW p \in Places, Writes(p) PROVE Goal
  <2>1. kernel' = kernel \/ (p = "command" /\ kernel' = None)
    BY <1>5 DEF Writes, AppendEvent, PutTask, Go
  <2> QED
    BY <1>5, <2>1
<1>6. ASSUME NEW p \in Places, Throw(p) PROVE Goal
  BY <1>6 DEF Throw
<1>7. ASSUME Crash PROVE Goal
  BY <1>7 DEF Crash
<1> HIDE DEF Goal
<1>8. Goal
  BY <1>1, <1>2, <1>3, <1>4, <1>5, <1>6, <1>7 DEF Next
<1> QED
  BY <1>8 DEF Goal

\* A command that runs has just begun, or comes to its next write, or is as
\* it was.
LEMMA CommandMoves ==
  ASSUME WaitsTyped, CommandInv, Next, Busy("command")'
  PROVE  \/ \E after, writes : Beginning("command", after, writes)
         \/ /\ Busy("command") /\ Writes("command") /\ UNCHANGED <<kernel, callVars>>
            /\ saving'["command"].task = saving["command"].task
            /\ saving'["command"].writes = Tail(saving["command"].writes)
         \/ Busy("command") /\ UNCHANGED kernel /\ saving'["command"] = saving["command"]
<1>0. "command" \in Places /\ SavingTyped
  BY DEF Places, WaitsTyped
<1>1. ASSUME Writes("command")
      PROVE  /\ Busy("command") /\ UNCHANGED <<kernel, callVars>>
             /\ saving'["command"].task = saving["command"].task
             /\ saving'["command"].writes = Tail(saving["command"].writes)
  <2>1. Busy("command") /\ Go("command") /\ UNCHANGED callVars
    BY <1>1 DEF Writes, AppendEvent, PutTask
  <2> QED
    BY <1>0, <2>1, GoLeaves
<1>2. ASSUME Busy("command"), saving'["command"] = saving["command"], ~Writes("command")
      PROVE  UNCHANGED kernel
  BY <1>2, KernelMoves DEF CommandInv
<1>3. ASSUME NEW p \in Places \ {"command"}, NEW after, NEW writes, Beginning(p, after, writes)
      PROVE  Busy("command") /\ saving'["command"] = saving["command"]
  <2>1. /\ after \in TaskRecords /\ writes \in Seq(Events) \ {<<>>} /\ Load(p, after, writes)
    BY <1>3, BeginsDue DEF Beginning
  <2> QED
    BY <1>0, <2>1, LoadAdds
<1>4. ASSUME NEW p \in Places \ {"command"}, Writes(p)
      PROVE  Busy("command") /\ saving'["command"] = saving["command"]
  <2>1. Busy(p) /\ Go(p)
    BY <1>4 DEF Writes, AppendEvent, PutTask
  <2> QED
    BY <1>0, <2>1, GoLeaves
<1>5. ASSUME NEW over \in SUBSET Places,
             saving' = [p \in Places |-> IF p \in over THEN None ELSE saving[p]]
      PROVE  Busy("command") /\ saving'["command"] = saving["command"]
  BY <1>0, <1>5 DEF Busy
<1>6. SavingSteps
  BY SavingStep
<1> QED
  BY <1>1, <1>2, <1>3, <1>4, <1>5, <1>6 DEF SavingSteps

\* While its command runs, a worker waits for it, and so does the spawn call.
LEMMA CallerWaits ==
  ASSUME WaitsTyped, CommandInv, LifeInv, Next, Busy("command"), Busy("command")'
  PROVE  /\ kernel \in Attempts => life'[kernel] = "concluding"
         /\ kernel = Host => spawn' = spawn
<1> DEFINE Goal == /\ kernel \in Attempts => life'[kernel] = "concluding"
                   /\ kernel = Host => spawn' = spawn
<1>0. /\ kernel \in Attempts => life[kernel] = "concluding"
      /\ kernel = Host => spawn.at = "start"
      /\ WorkersTyped /\ Host \notin Attempts /\ kernel # None
  BY CallersAssumption DEF CommandInv, WaitsTyped, CallsTyped
<1>01. ASSUME UNCHANGED <<life, spawn>> PROVE Goal
  BY <1>0, <1>01
<1>02. spawn.at = "start" => spawn.by \in Attempts /\ life[spawn.by] = "new"
  BY DEF LifeInv, WaitsTyped, CallsTyped, SpawnTyped
<1>1. ASSUME NEW n \in Attempts, WorkerStep(n) PROVE Goal
  <2>1. ASSUME NEW tool \in Tools, Call(n, tool) PROVE Goal
    BY <1>0, <2>1 DEF Call, WorkersTyped
  <2>2. CASE WorkerRefused(n)
    BY <1>0, <2>2 DEF WorkerRefused, WorkersTyped
  <2> QED
    BY <1>01, <1>1, <2>1, <2>2 DEF WorkerStep, Request, SubmitQuestion, WaitForDecision,
       SubmitBlocker, ReadGuidance, callVars, workerVars
<1>2. ASSUME StaffStep PROVE Goal
  BY <1>01, <1>2 DEF StaffStep, StaffRefused, CallIssue, Issue, Poll, Deliver, Present,
     ApplyGuidance, ResolveDecision, Answer, callVars, workerVars
<1>3. ASSUME MaintenanceStep PROVE Goal
  BY <1>01, <1>3 DEF MaintenanceStep, ReconcileRadio, ReconcileQuestions, DeadLetterGuidanceWait,
     ExpireDecisionWait, callVars, workerVars
<1>4. ASSUME HostStep PROVE Goal
  <2>1. CASE Start
    BY <1>0, <1>02, <2>1 DEF Start, WorkersTyped
  <2>2. ASSUME spawn.at # "start", UNCHANGED life PROVE Goal
    BY <1>0, <2>2
  <2>3. CASE SpawnRefused
    <3>1. spawn.at = "lease" /\ life' = [life EXCEPT ![spawn.by] = "gone"]
      BY <2>3 DEF SpawnRefused
    <3>2. spawn.by \in Attempts /\ life[spawn.by] = "new"
      BY <3>1 DEF LifeInv, WaitsTyped, CallsTyped, SpawnTyped
    <3> QED
      BY <1>0, <3>1, <3>2 DEF WorkersTyped
  <2>4. ASSUME NEW n \in Attempts, ChildEnds(n) PROVE Goal
    BY <1>0, <2>4 DEF ChildEnds, WorkersTyped
  <2>5. CASE ReadPending \/ LeaseTask \/ AcknowledgeRadio \/ AcknowledgeGuidance \/ AcknowledgeAnswer
    <3>1. spawn.at # "start" /\ UNCHANGED life
      BY <2>5 DEF ReadPending, LeaseTask, AcknowledgeRadio, AcknowledgeGuidance,
         AcknowledgeAnswer, callVars, workerVars
    <3> QED
      BY <2>2, <3>1
  <2> QED
    BY <1>01, <1>4, <2>1, <2>3, <2>4, <2>5 DEF HostStep, ReleaseTaskLease, CancelMission,
       callVars, workerVars
<1>5. ASSUME NEW p \in Places, Writes(p) PROVE Goal
  BY <1>01, <1>5 DEF Writes, AppendEvent, PutTask, callVars, workerVars
<1>6. ASSUME NEW p \in Places, Throw(p) PROVE Goal
  <2>1. p # "command"
    BY <1>6 DEF Throw, Busy, WaitsTyped, SavingTyped
  <2> QED
    BY <1>01, <1>6, <2>1 DEF Throw, workerVars
<1>7. ASSUME Crash PROVE Goal
  <2>1. ~Busy("command")'
    BY <1>7 DEF Crash, Busy, Places
  <2> QED
    BY <2>1
<1> HIDE DEF Goal
<1>8. Goal
  BY <1>1, <1>2, <1>3, <1>4, <1>5, <1>6, <1>7 DEF Next
<1> QED
  BY <1>8 DEF Goal

\* An operation that ends with its put comes to it last.
LEMMA PutStaysLast ==
  ASSUME NEW w \in Seq(Events) \ {<<>>}, PutLast(w)
  PROVE  PutLast(Tail(w)) /\ (Head(w) = Put <=> Tail(w) = <<>>)
<1>1. /\ Len(w) \in Nat \ {0} /\ Len(Tail(w)) = Len(w) - 1 /\ Tail(w) \in Seq(Events)
      /\ Head(w) = w[1] /\ 1 \in DOMAIN w
  OBVIOUS
<1>2. ASSUME NEW i \in DOMAIN Tail(w)
      PROVE  i \in Nat /\ i + 1 \in DOMAIN w /\ Tail(w)[i] = w[i + 1]
  BY <1>1
<1>3. PutLast(Tail(w))
  BY <1>1, <1>2 DEF PutLast
<1>4. Tail(w) = <<>> <=> Len(Tail(w)) = 0
  BY <1>1
<1>5. Head(w) = Put <=> 1 = Len(w)
  BY <1>1 DEF PutLast
<1> QED
  BY <1>1, <1>3, <1>4, <1>5

\* The command that runs stays its caller's.
LEMMA CommandNext ==
  ASSUME WaitsTyped, CommandInv, LifeInv, Next
  PROVE  CommandInv'
<1>0. /\ "command" \in Places /\ SavingTyped /\ None \notin Callers
      /\ Attempts \subseteq Callers /\ Host \in Callers /\ Host \notin Attempts
  BY NoneAssumption, CallersAssumption DEF Places, WaitsTyped, Callers
<1>1. ASSUME NEW after, NEW writes, Beginning("command", after, writes)
      PROVE  /\ ~Busy("command") /\ kernel' # None /\ UNCHANGED life
             /\ saving'["command"] = [task |-> after, writes |-> writes]
             /\ kernel' \in Attempts =>
                  /\ after.state \in {"BLOCKED", "WAITING_DECISION"} /\ after.worker = kernel'
                  /\ PutLast(writes) /\ life[kernel'] = "concluding"
             /\ kernel' = Host =>
                  /\ spawn'.at = "start" /\ spawn'.by = spawn.by
                  /\ after.state = "EXECUTING" /\ after.worker = spawn.by /\ PutLast(writes)
  <2>1. /\ after \in TaskRecords /\ writes \in Seq(Events) \ {<<>>}
        /\ Load("command", after, writes) /\ UNCHANGED life
        /\ BeginsWith("command", after, writes)
    BY <1>0, <1>1, BeginsDue, BeginsSound DEF Beginning
  <2>2. saving'["command"] = [task |-> after, writes |-> writes]
    BY <1>0, <2>1, LoadAdds
  <2>3. spawn' = [spawn EXCEPT !.at = "start"] => spawn'.at = "start" /\ spawn'.by = spawn.by
    BY DEF WaitsTyped, CallsTyped, SpawnTyped
  <2> QED
    BY <2>1, <2>2, <2>3 DEF BeginsWith, LifeInv, Load
<1>2. ASSUME Busy("command")', Busy("command") PROVE UNCHANGED kernel
  BY <1>1, <1>2, CommandMoves
<1>3. Busy("command")' => kernel' # None
  BY <1>1, CommandMoves DEF CommandInv
<1>4. ASSUME NEW n \in Attempts, Busy("command")', kernel' = n
      PROVE  /\ saving'["command"].task.state \in {"BLOCKED", "WAITING_DECISION"}
             /\ saving'["command"].task.worker = n
             /\ PutLast(saving'["command"].writes)
             /\ life'[n] = "concluding"
  <2>1. ASSUME NEW after, NEW writes, Beginning("command", after, writes)
        PROVE  /\ saving'["command"].task.state \in {"BLOCKED", "WAITING_DECISION"}
               /\ saving'["command"].task.worker = n
               /\ PutLast(saving'["command"].writes)
               /\ life'[n] = "concluding"
    <3>1. /\ saving'["command"] = [task |-> after, writes |-> writes] /\ UNCHANGED life
          /\ after.state \in {"BLOCKED", "WAITING_DECISION"} /\ after.worker = n
          /\ PutLast(writes) /\ life[n] = "concluding"
      BY <1>1, <1>4, <2>1
    <3>2. saving'["command"].task = after /\ saving'["command"].writes = writes
      BY <3>1
    <3> QED
      BY <3>1, <3>2
  <2>2. CASE Busy("command")
    <3>1. kernel = n /\ life'[n] = "concluding"
      BY <1>2, <1>4, <2>2, CallerWaits
    <3>2. /\ saving["command"].task.state \in {"BLOCKED", "WAITING_DECISION"}
          /\ saving["command"].task.worker = n /\ PutLast(saving["command"].writes)
      BY <2>2, <3>1 DEF CommandInv
    <3>3. saving["command"].writes \in Seq(Events) \ {<<>>}
      BY <1>0, <2>2, OperationsBusy
    <3>4. PutLast(Tail(saving["command"].writes))
      BY <3>2, <3>3, PutStaysLast
    <3>5. /\ saving'["command"].task = saving["command"].task
          /\ saving'["command"].writes \in {saving["command"].writes, Tail(saving["command"].writes)}
      BY <1>1, <1>4, <2>2, CommandMoves
    <3> QED
      BY <3>1, <3>2, <3>4, <3>5
  <2> QED
    BY <1>4, <2>1, <2>2, CommandMoves
<1>5. ASSUME Busy("command")', kernel' = Host
      PROVE  /\ spawn'.at = "start"
             /\ saving'["command"].task.state = "EXECUTING"
             /\ saving'["command"].task.worker = spawn'.by
             /\ PutLast(saving'["command"].writes)
  <2>1. ASSUME NEW after, NEW writes, Beginning("command", after, writes)
        PROVE  /\ spawn'.at = "start"
               /\ saving'["command"].task.state = "EXECUTING"
               /\ saving'["command"].task.worker = spawn'.by
               /\ PutLast(saving'["command"].writes)
    <3>1. /\ saving'["command"] = [task |-> after, writes |-> writes]
          /\ spawn'.at = "start" /\ spawn'.by = spawn.by
          /\ after.state = "EXECUTING" /\ after.worker = spawn.by /\ PutLast(writes)
      BY <1>0, <1>1, <1>5, <2>1
    <3>2. saving'["command"].task = after /\ saving'["command"].writes = writes
      BY <3>1
    <3> QED
      BY <3>1, <3>2
  <2>2. CASE Busy("command")
    <3>1. kernel = Host /\ spawn' = spawn
      BY <1>2, <1>5, <2>2, CallerWaits
    <3>2. /\ saving["command"].task.state = "EXECUTING" /\ spawn.at = "start"
          /\ saving["command"].task.worker = spawn.by /\ PutLast(saving["command"].writes)
      BY <2>2, <3>1 DEF CommandInv
    <3>3. saving["command"].writes \in Seq(Events) \ {<<>>}
      BY <1>0, <2>2, OperationsBusy
    <3>4. PutLast(Tail(saving["command"].writes))
      BY <3>2, <3>3, PutStaysLast
    <3>5. /\ saving'["command"].task = saving["command"].task
          /\ saving'["command"].writes \in {saving["command"].writes, Tail(saving["command"].writes)}
      BY <1>1, <1>5, <2>2, CommandMoves
    <3> QED
      BY <3>1, <3>2, <3>4, <3>5
  <2> QED
    BY <1>5, <2>1, <2>2, CommandMoves
<1>6. ASSUME NEW n \in Attempts, NEW p \in Places, Pending(p, "task/leased", n)'
      PROVE  p = "command" /\ kernel' = Host /\ spawn'.by = n
  <2>1. CASE Pending(p, "task/leased", n)
    <3>1. p = "command" /\ kernel = Host /\ spawn.by = n /\ Busy("command") /\ Busy("command")'
      BY <1>6, <2>1 DEF CommandInv, Pending
    <3> QED
      BY <1>2, <3>1, CallerWaits
  <2>2. CASE Due("task/leased", n) /\ p \in PlaceOf("task/leased")
    <3>1. p = "command" /\ kernel' = Host /\ spawn' = [spawn EXCEPT !.at = "start"] /\ spawn.by = n
      BY <2>2 DEF Due, PlaceOf
    <3> QED
      BY <3>1 DEF WaitsTyped, CallsTyped, SpawnTyped
  <2> QED
    BY <1>6, <2>1, <2>2, PendingNext
<1>7. ASSUME NEW n \in Attempts, NEW p \in Places,
             NEW type \in {"task/blocker-submitted", "task/decision-waiting"}, Pending(p, type, n)'
      PROVE  p = "command" /\ kernel' = n
  <2>1. CASE Pending(p, type, n)
    <3>1. p = "command" /\ kernel = n /\ Busy("command") /\ Busy("command")'
      BY <1>7, <2>1 DEF CommandInv, Pending
    <3> QED
      BY <1>2, <3>1
  <2>2. CASE Due(type, n) /\ p \in PlaceOf(type)
    BY <2>2 DEF Due, PlaceOf
  <2> QED
    BY <1>7, <2>1, <2>2, PendingNext
<1> QED
  BY <1>3, <1>4, <1>5, <1>6, <1>7 DEF CommandInv

-----------------------------------------------------------------------------
(* The life of the attempts                                                *)

LifeShape ==
  /\ \A n \in Attempts :
       /\ steps[n] # <<>> => life[n] = "concluding"
       /\ \A m \in Attempts : life[n] # "new" /\ life[m] = "new" => n < m
       /\ spawn.by = n => (life[n] = "new" <=> spawn.at \in {"lease", "start"})
  /\ spawn.at \in {"lease", "start"} => \A m \in New : spawn.by <= m

LifeMoves ==
  /\ \A n \in Attempts :
       /\ life'[n] \in {"live", "concluding"} =>
            \/ life[n] \in {"live", "concluding"}
            \/ spawn.at = "start" /\ spawn.by = n /\ kernel # Host
       /\ life[n] # "new" \/ (spawn.at = "start" /\ spawn.by = n)
            => life'[n] # "new" \/ (spawn'.at = "start" /\ spawn'.by = n)
  /\ spawn'.at = "start" =>
       \/ spawn' = spawn
       \/ spawn'.by = spawn.by /\ kernel' = Host /\ Pending("command", "task/leased", spawn.by)'
  /\ LifeShape'

\* What a step does to the attempts: one is started only by a spawn call that
\* leased the Task.
LEMMA LifeStep ==
  ASSUME WaitsTyped, CommandInv, LifeInv, Next
  PROVE  LifeMoves
<1>0. /\ WorkersTyped /\ SpawnTyped /\ LifeShape
      /\ None \notin Callers /\ Host \notin Attempts /\ Attempts \subseteq Callers
      /\ Attempts \subseteq Nat
  BY NoneAssumption, CallersAssumption, AttemptsAssumption
     DEF WaitsTyped, CallsTyped, LifeInv, LifeShape, Callers
<1>01. ASSUME UNCHANGED <<life, steps, spawn>> PROVE LifeMoves
  BY <1>0, <1>01 DEF LifeMoves, LifeShape, New
<1>1. ASSUME NEW n \in Attempts, WorkerStep(n) PROVE LifeMoves
  <2>1. ASSUME NEW tool \in Tools, Call(n, tool) PROVE LifeMoves
    <3>1. /\ life[n] = "live" /\ life' = [life EXCEPT ![n] = "concluding"]
          /\ steps' = [steps EXCEPT ![n] = tool] /\ UNCHANGED spawn
      BY <2>1 DEF Call
    <3> QED
      BY <1>0, <3>1 DEF LifeMoves, LifeShape, New, WorkersTyped
  <2>2. CASE WorkerRefused(n)
    <3>1. /\ steps[n] # <<>> /\ life' = [life EXCEPT ![n] = "live"]
          /\ steps' = [steps EXCEPT ![n] = <<>>] /\ UNCHANGED spawn
      BY <2>2 DEF WorkerRefused
    <3> QED
      BY <1>0, <3>1 DEF LifeMoves, LifeShape, New, WorkersTyped
  <2>3. ASSUME NEW step, NextStep(n, step), UNCHANGED <<life, spawn>> PROVE LifeMoves
    <3>1. steps[n] # <<>> /\ steps' = [steps EXCEPT ![n] = Tail(steps[n])]
      BY <2>3 DEF NextStep
    <3> QED
      BY <1>0, <2>3, <3>1 DEF LifeMoves, LifeShape, New, WorkersTyped
  <2>4. ASSUME NEW of \in Attempts, NEW late \in BOOLEAN, ReadGuidance(n, of, late)
        PROVE  LifeMoves
    BY <1>01, <2>4 DEF ReadGuidance, callVars, workerVars
  <2> QED
    BY <1>1, <2>1, <2>2, <2>3, <2>4 DEF WorkerStep, Request, SubmitQuestion, WaitForDecision,
       SubmitBlocker
<1>2. ASSUME StaffStep PROVE LifeMoves
  BY <1>01, <1>2 DEF StaffStep, StaffRefused, CallIssue, Issue, Poll, Deliver, Present,
     ApplyGuidance, ResolveDecision, Answer, callVars, workerVars
<1>3. ASSUME MaintenanceStep PROVE LifeMoves
  BY <1>01, <1>3 DEF MaintenanceStep, ReconcileRadio, ReconcileQuestions, DeadLetterGuidanceWait,
     ExpireDecisionWait, workerVars
<1>4. ASSUME HostStep PROVE LifeMoves
  <2>1. CASE ReadPending
    <3>1. PICK n \in New :
            /\ \A m \in New : n <= m
            /\ spawn' = [at |-> "lease", by |-> n, guidance |-> task.guidance, answer |-> task.answer]
      BY <2>1 DEF ReadPending
    <3>2. spawn.at = "idle" /\ UNCHANGED <<life, steps>>
      BY <2>1 DEF ReadPending, workerVars
    <3>3. spawn'.at = "lease" /\ spawn'.by = n /\ n \in Attempts /\ life[n] = "new"
      BY <3>1 DEF New
    <3> QED
      BY <1>0, <3>1, <3>2, <3>3 DEF LifeMoves, LifeShape, New
  <2>2. CASE LeaseTask
    <3>1. /\ spawn.at = "lease" /\ spawn' = [spawn EXCEPT !.at = "start"] /\ kernel' = Host
          /\ UNCHANGED <<life, steps>>
      BY <2>2 DEF LeaseTask, Command, workerVars
    <3>2. spawn'.at = "start" /\ spawn'.by = spawn.by /\ spawn.by \in Attempts
      BY <1>0, <3>1 DEF SpawnTyped
    <3>3. Pending("command", "task/leased", spawn.by)'
      <4> DEFINE e == Event("task/resumed", None, task.state)
                 f == Event("task/leased", spawn.by, "plain")
      <4>0. <<e>> \o <<f, Put>> = <<e, f, Put>>
        BY Joined
      <4>1. f.type = "task/leased" /\ f.of = spawn.by
        BY DEF Event
      <4>2. PICK writes \in {<<f, Put>>, <<e, f, Put>>} :
              saving' = [saving EXCEPT !["command"] =
                          [task |-> [task EXCEPT !.state = "EXECUTING", !.worker = spawn.by],
                           writes |-> writes]]
        BY <2>2, <4>0 DEF LeaseTask, Command, Load
      <4> HIDE DEF e, f
      <4>3. saving'["command"].writes = writes
        BY <4>2 DEF WaitsTyped, SavingTyped, Places
      <4>4. \E i \in DOMAIN writes : writes[i] = f
        <5>1. CASE writes = <<f, Put>>
          <6>1. 1 \in DOMAIN writes /\ writes[1] = f
            BY <5>1
          <6> QED
            BY <6>1
        <5>2. CASE writes = <<e, f, Put>>
          <6>1. 2 \in DOMAIN writes /\ writes[2] = f
            BY <5>2
          <6> QED
            BY <6>1
        <5> QED
          BY <4>2, <5>1, <5>2
      <4>5. Busy("command")'
        <5>3. saving'["command"] = [task |-> [task EXCEPT !.state = "EXECUTING", !.worker = spawn.by],
                                    writes |-> writes]
          BY <4>2 DEF WaitsTyped, SavingTyped, Places
        <5>4. writes \in Seq(Events)
          <6>1. spawn.by \in Some /\ None \in Some /\ task.state \in TaskStates
            BY <3>2 DEF Some, WaitsTyped, StoresTyped, TaskRecords
          <6>2. e \in Events /\ f \in Events /\ Put \in Events
            BY <6>1 DEF e, f, Put, Event, Events, EventTypes, Some
          <6>3. <<f, Put>> \in Seq(Events) /\ <<e, f, Put>> \in Seq(Events)
            BY <6>2
          <6> QED
            BY <4>2, <6>3
        <5>5. [task EXCEPT !.state = "EXECUTING", !.worker = spawn.by] \in TaskRecords
          BY <3>2 DEF WaitsTyped, StoresTyped, TaskRecords, TaskStates
        <5> QED
          BY <5>3, <5>4, <5>5, NoneAssumption DEF Busy, Operations
      <4>6. PICK i \in DOMAIN writes : writes[i] = f
        BY <4>4
      <4>7. i \in DOMAIN saving'["command"].writes /\ saving'["command"].writes[i] = f
        BY <4>3, <4>6
      <4> QED
        BY <3>2, <4>1, <4>5, <4>7 DEF Pending
    <3> QED
      BY <1>0, <3>1, <3>2, <3>3 DEF LifeMoves, LifeShape, New
  <2>3. CASE Start
    <3>1. /\ spawn.at = "start" /\ kernel # Host /\ UNCHANGED steps
          /\ life' = [life EXCEPT ![spawn.by] = "live"]
          /\ spawn' = [spawn EXCEPT !.at = IF spawn.guidance # None THEN "guidance" ELSE "answer"]
      BY <2>3 DEF Start
    <3>2. spawn'.at \in {"guidance", "answer"} /\ spawn'.by = spawn.by /\ spawn.by \in Attempts
      BY <1>0, <3>1 DEF SpawnTyped
    <3>3. life[spawn.by] = "new" /\ steps[spawn.by] = <<>>
      BY <1>0, <3>1, <3>2 DEF LifeShape
    <3> QED
      BY <1>0, <3>1, <3>2, <3>3 DEF LifeMoves, LifeShape, New, WorkersTyped
  <2>4. CASE SpawnRefused
    <3>1. /\ spawn.at = "lease" /\ spawn' = NoSpawn /\ UNCHANGED steps
          /\ life' = [life EXCEPT ![spawn.by] = "gone"]
      BY <2>4 DEF SpawnRefused
    <3>2. spawn.by \in Attempts
      BY <1>0, <3>1 DEF SpawnTyped
    <3>3. life[spawn.by] = "new" /\ steps[spawn.by] = <<>>
      BY <1>0, <3>1, <3>2 DEF LifeShape
    <3> QED
      BY <1>0, <3>1, <3>2, <3>3 DEF LifeMoves, LifeShape, New, NoSpawn, WorkersTyped
  <2>5. ASSUME spawn.at \in {"guidance", "radio", "answer"}, UNCHANGED <<life, steps>>,
               \/ spawn' = NoSpawn
               \/ \E at \in {"radio", "answer"} : spawn' = [spawn EXCEPT !.at = at]
        PROVE  LifeMoves
    <3>1. \/ spawn'.at = "idle" /\ spawn'.by = None
          \/ spawn'.at \in {"radio", "answer"} /\ spawn'.by = spawn.by
      BY <1>0, <2>5 DEF NoSpawn, SpawnTyped
    <3> QED
      BY <1>0, <2>5, <3>1 DEF LifeMoves, LifeShape, New
  <2>6. CASE AcknowledgeRadio \/ AcknowledgeGuidance \/ AcknowledgeAnswer
    BY <2>5, <2>6 DEF AcknowledgeRadio, AcknowledgeGuidance, AcknowledgeAnswer, workerVars
  <2>7. ASSUME NEW n \in Attempts, ChildEnds(n) PROVE LifeMoves
    <3>1. /\ life[n] \in {"live", "concluding"} /\ life' = [life EXCEPT ![n] = "gone"]
          /\ steps[n] = <<>> /\ UNCHANGED <<steps, spawn>>
      BY <2>7 DEF ChildEnds
    <3> QED
      BY <1>0, <3>1 DEF LifeMoves, LifeShape, New, WorkersTyped
  <2> QED
    BY <1>01, <1>4, <2>1, <2>2, <2>3, <2>4, <2>6, <2>7 DEF HostStep, ReleaseTaskLease,
       CancelMission, callVars, workerVars
<1>5. ASSUME NEW p \in Places, Writes(p) PROVE LifeMoves
  BY <1>01, <1>5 DEF Writes, AppendEvent, PutTask, callVars, workerVars
<1>6. ASSUME NEW p \in Places, Throw(p) PROVE LifeMoves
  <2>1. CASE p = "command"
    <3>1. /\ Busy("command")
          /\ steps' = [n \in Attempts |-> IF n = kernel THEN <<>> ELSE steps[n]]
          /\ spawn' = IF kernel = Host THEN NoSpawn ELSE spawn
          /\ life' = [n \in Attempts |-> IF n = kernel THEN "live"
                        ELSE IF kernel = Host /\ n = spawn.by THEN "gone" ELSE life[n]]
      BY <1>6, <2>1 DEF Throw
    <3>2. CASE kernel = Host
      <4>1. /\ spawn.at = "start" /\ spawn.by \in Attempts /\ spawn'.at = "idle" /\ spawn'.by = None
            /\ UNCHANGED steps
            /\ life' = [life EXCEPT ![spawn.by] = "gone"]
        BY <1>0, <3>1, <3>2 DEF CommandInv, SpawnTyped, NoSpawn, WorkersTyped
      <4>2. life[spawn.by] = "new" /\ steps[spawn.by] = <<>>
        BY <1>0, <4>1 DEF LifeShape
      <4> QED
        BY <1>0, <4>1, <4>2 DEF LifeMoves, LifeShape, New, WorkersTyped
    <3>3. CASE kernel \in Attempts
      <4>1. /\ life[kernel] = "concluding" /\ UNCHANGED spawn
            /\ steps' = [steps EXCEPT ![kernel] = <<>>]
            /\ life' = [life EXCEPT ![kernel] = "live"]
        BY <1>0, <3>1, <3>3 DEF CommandInv, WorkersTyped
      <4> QED
        BY <1>0, <3>3, <4>1 DEF LifeMoves, LifeShape, New, WorkersTyped
    <3>4. CASE kernel \notin Attempts \cup {Host}
      <4>1. UNCHANGED <<life, steps, spawn>>
        BY <1>0, <3>1, <3>4 DEF WorkersTyped
      <4> QED
        BY <1>01, <4>1
    <3> QED
      BY <3>2, <3>3, <3>4
  <2>2. CASE p # "command"
    BY <1>01, <1>6, <2>2 DEF Throw, workerVars
  <2> QED
    BY <2>1, <2>2
<1>7. ASSUME Crash PROVE LifeMoves
  <2>1. /\ life' = [n \in Attempts |-> IF life[n] = "new" /\ spawn.by # n THEN "new" ELSE "gone"]
        /\ steps' = [n \in Attempts |-> <<>>] /\ spawn' = NoSpawn
    BY <1>7 DEF Crash
  <2>2. spawn'.at = "idle" /\ spawn'.by = None
    BY <2>1 DEF NoSpawn
  <2>3. ASSUME NEW n \in Attempts, NEW m \in Attempts, life'[n] # "new", life'[m] = "new"
        PROVE  n < m
    <3>1. life[m] = "new" /\ spawn.by # m /\ (life[n] # "new" \/ spawn.by = n)
      BY <2>1, <2>3
    <3>2. CASE life[n] # "new"
      BY <1>0, <3>1, <3>2 DEF LifeShape
    <3>3. CASE life[n] = "new" /\ spawn.by = n
      <4>1. n <= m /\ n # m
        BY <1>0, <3>1, <3>3 DEF LifeShape, New
      <4> QED
        BY <1>0, <4>1
    <3> QED
      BY <3>1, <3>2, <3>3
  <2> QED
    BY <1>0, <2>1, <2>2, <2>3 DEF LifeMoves, LifeShape, New
<1> QED
  BY <1>1, <1>2, <1>3, <1>4, <1>5, <1>6, <1>7 DEF Next

\* What is behind the first write stays among the writes.
LEMMA TailShifts ==
  ASSUME NEW w \in Seq(Events) \ {<<>>}, NEW i \in DOMAIN w, i # 1
  PROVE  /\ Tail(w) # <<>> /\ i - 1 \in DOMAIN Tail(w) /\ Tail(w)[i - 1] = w[i]
<1>1. /\ i \in 2..Len(w) /\ Len(w) \in Nat /\ Tail(w) \in Seq(Events)
      /\ Len(Tail(w)) = Len(w) - 1
  OBVIOUS
<1>2. i - 1 \in 1..Len(Tail(w)) /\ DOMAIN Tail(w) = 1..Len(Tail(w))
  BY <1>1
<1>3. \A k \in 1..Len(Tail(w)) : Tail(w)[k] = w[k + 1]
  OBVIOUS
<1>4. Tail(w)[i - 1] = w[i]
  BY <1>1, <1>2, <1>3
<1>5. Tail(w) # <<>>
  BY <1>1, <1>2
<1> QED
  BY <1>2, <1>4, <1>5

\* Of a lease to be told, either it is told now, or it is still to be.
LEMMA LeaseComes ==
  ASSUME WaitsTyped, CommandInv, LifeInv, Next, spawn.at = "start", spawn' = spawn
  PROVE  Leased(spawn.by)' \/ Leasing(spawn.by)'
<1> DEFINE n == spawn.by
<1>0. /\ "command" \in Places /\ SavingTyped /\ n \in Attempts /\ spawn'.by = n
      /\ spawn # NoSpawn /\ None \notin Callers /\ Host \in Callers
  BY NoneAssumption DEF Places, WaitsTyped, CallsTyped, SpawnTyped, NoSpawn, Callers
<1>1. CASE Leased(n)
  BY <1>0, <1>1, KnownNext DEF Leased
<1>2. CASE Leasing(n)
  <2>1. /\ kernel = Host /\ Busy("command")
        /\ saving["command"].writes \in Seq(Events) \ {<<>>}
    BY <1>0, <1>2, OperationsBusy DEF Leasing, Pending
  <2>2. PICK i \in DOMAIN saving["command"].writes :
          /\ saving["command"].writes[i].type = "task/leased"
          /\ saving["command"].writes[i].of = n
    BY <1>2 DEF Leasing, Pending
  <2>3. ASSUME saving'["command"] = saving["command"], kernel' = Host PROVE Leasing(n)'
    BY <1>0, <2>1, <2>2, <2>3 DEF Leasing, Pending, Busy
  <2>4. ASSUME NEW p \in Places, NEW after, NEW writes, Beginning(p, after, writes)
        PROVE  Leasing(n)'
    <3>1. /\ after \in TaskRecords /\ writes \in Seq(Events) \ {<<>>} /\ Load(p, after, writes)
          /\ IF p = "command" THEN TRUE ELSE UNCHANGED kernel
      BY <2>4, BeginsDue DEF Beginning
    <3>2. p # "command" /\ kernel' = Host
      BY <2>1, <3>1 DEF Load
    <3>3. \A q \in Places \ {p} : saving'[q] = saving[q]
      BY <1>0, <3>1, LoadAdds
    <3> QED
      BY <1>0, <2>3, <3>2, <3>3
  <2>5. ASSUME NEW p \in Places, Writes(p)
        PROVE  Leased(n)' \/ Leasing(n)'
    <3>1. /\ Busy(p) /\ Go(p)
          /\ AppendEvent(p) \/ Coming(p) = Put
      BY <2>5 DEF Writes, AppendEvent, PutTask, Coming
    <3>2. /\ p # "command" => saving'["command"] = saving["command"]
          /\ Busy(p)' <=> Tail(saving[p].writes) # <<>>
          /\ Busy(p)' => saving'[p].writes = Tail(saving[p].writes)
          /\ kernel' = IF ~Busy(p)' /\ p = "command" THEN None ELSE kernel
      BY <1>0, <3>1, GoLeaves
    <3>3. CASE p # "command"
      BY <2>1, <2>3, <3>2, <3>3
    <3>4. CASE p = "command" /\ i = 1
      <4>1. Coming(p) = saving["command"].writes[1]
        BY <2>1, <3>4 DEF Coming
      <4>2. Put.type # "task/leased"
        BY DEF Put, Event
      <4>3. AppendEvent(p) /\ Coming(p).type = "task/leased" /\ Coming(p).of = n
        BY <2>2, <3>1, <3>4, <4>1, <4>2
      <4>4. Coming(p) \in stream'
        BY <4>3, Appended
      <4> QED
        BY <1>0, <4>3, <4>4 DEF Leased, Told
    <3>5. CASE p = "command" /\ i # 1
      <4>1. /\ Tail(saving["command"].writes) # <<>>
            /\ i - 1 \in DOMAIN Tail(saving["command"].writes)
            /\ Tail(saving["command"].writes)[i - 1] = saving["command"].writes[i]
        BY <2>1, <3>5, TailShifts
      <4>2. /\ Busy("command")' /\ kernel' = Host
            /\ saving'["command"].writes = Tail(saving["command"].writes)
        BY <2>1, <3>2, <3>5, <4>1
      <4> QED
        BY <1>0, <2>2, <4>1, <4>2 DEF Leasing, Pending
    <3> QED
      BY <3>3, <3>4, <3>5
  <2>6. ASSUME NEW over \in SUBSET Places,
               saving' = [p \in Places |-> IF p \in over THEN None ELSE saving[p]],
               "command" \in over /\ kernel = Host => spawn' = NoSpawn
        PROVE  Leasing(n)'
    <3>1. "command" \notin over
      BY <1>0, <2>1, <2>6
    <3>2. saving'["command"] = saving["command"]
      BY <1>0, <2>6, <3>1
    <3>3. Busy("command")'
      BY <2>1, <3>2 DEF Busy
    <3>4. kernel' = Host
      <4>1. ~(\E after, writes : Beginning("command", after, writes))
        BY <2>1 DEF Beginning, Load
      <4> QED
        BY <2>1, <3>3, <4>1, CommandMoves
    <3> QED
      BY <2>3, <3>2, <3>4
  <2> QED
    BY <1>0, <2>4, <2>5, <2>6, SavingStep DEF SavingSteps
<1> QED
  BY <1>1, <1>2 DEF LifeInv

\* Attempts stay in their order, and only who has leased the Task lives.
LEMMA LifeNext ==
  ASSUME WaitsTyped, CommandInv, LifeInv, Next
  PROVE  LifeInv'
<1>1. ASSUME NEW n \in Attempts
      PROVE  /\ Leased(n) => Leased(n)'
             /\ Leased(n)' => \/ Leased(n)
                              \/ spawn.at = "start" /\ spawn.by = n
  <2>1. ASSUME NEW p \in Places, AppendEvent(p), Coming(p).type = "task/leased", Coming(p).of = n
        PROVE  spawn.at = "start" /\ spawn.by = n
    <3>1. Pending(p, "task/leased", n) /\ Busy(p)
      BY <2>1, Appended
    <3> QED
      BY <3>1 DEF CommandInv
  <2> QED
    BY <2>1, KnownNext DEF Leased
<1>2. LifeMoves
  BY LifeStep
<1>3. ASSUME NEW n \in Attempts, life'[n] \in {"live", "concluding"} PROVE Leased(n)'
  <2>1. ASSUME spawn.at = "start", spawn.by = n, kernel # Host PROVE Leased(n)
    BY <2>1 DEF LifeInv, Leasing
  <2> QED
    BY <1>1, <1>2, <1>3, <2>1 DEF LifeMoves, LifeInv
<1>4. ASSUME NEW n \in Attempts, Leased(n)'
      PROVE  life'[n] # "new" \/ (spawn'.at = "start" /\ spawn'.by = n)
  BY <1>1, <1>2, <1>4 DEF LifeMoves, LifeInv
<1>5. spawn'.at = "start" => Leased(spawn.by)' \/ Leasing(spawn.by)'
  <2>1. CASE spawn' = spawn /\ spawn'.at = "start"
    BY <2>1, LeaseComes
  <2>2. CASE /\ spawn'.by = spawn.by /\ kernel' = Host
             /\ Pending("command", "task/leased", spawn.by)'
    BY <2>2 DEF Leasing
  <2> QED
    BY <1>2, <2>1, <2>2 DEF LifeMoves
<1> QED
  BY <1>2, <1>3, <1>4, <1>5 DEF LifeMoves, LifeShape, LifeInv

\* The staff works on what was asked.
LEMMA AdviceAsked ==
  ASSUME WaitsTyped, Next, NEW g \in Staff, advice'[g].at # "idle"
  PROVE  \/ advice[g].at # "idle" /\ advice'[g].of = advice[g].of
         \/ radio[advice'[g].of].state # "UNSENT" \/ broker[advice'[g].of] # "UNASKED"
<1> DEFINE Goal ==
      advice'[g].at # "idle" =>
        \/ advice[g].at # "idle" /\ advice'[g].of = advice[g].of
        \/ radio[advice'[g].of].state # "UNSENT" \/ broker[advice'[g].of] # "UNASKED"
<1>0. AdviceTyped /\ General \in Staff /\ Ready.at = "idle"
  BY DEF WaitsTyped, CallsTyped, Staff, Ready
<1>01. ASSUME advice'[g] \in {advice[g], Ready} PROVE Goal
  BY <1>0, <1>01
<1>1. ASSUME NEW n \in Attempts, WorkerStep(n) PROVE Goal
  BY <1>01, <1>1 DEF WorkerStep, Call, Request, SubmitQuestion, WaitForDecision, SubmitBlocker,
     ReadGuidance, WorkerRefused, callVars
<1>2. ASSUME StaffStep PROVE Goal
  <2>1. ASSUME NEW k \in Staff, advice' = [advice EXCEPT ![k] = Ready] PROVE Goal
    BY <1>0, <1>01, <2>1 DEF AdviceTyped
  <2>2. ASSUME NEW k \in Staff, NEW at \in {"deliver", "apply"}, advice[k].at # "idle",
               advice' = [advice EXCEPT ![k] = [@ EXCEPT !.at = at]]
        PROVE  Goal
    BY <1>0, <2>2 DEF AdviceTyped
  <2>3. ASSUME NEW k \in Staff, Issue(k) PROVE Goal
    <3>1. CASE k = General
      <4>1. advice[k].at # "idle" /\ advice' = [advice EXCEPT ![k] = [@ EXCEPT !.at = "deliver"]]
        BY <2>3, <3>1 DEF Issue
      <4> QED
        BY <2>2, <4>1
    <3>2. CASE k # General
      <4>1. advice' = [advice EXCEPT ![k] = Ready]
        BY <2>3, <3>2 DEF Issue
      <4> QED
        BY <2>1, <4>1
    <3> QED
      BY <3>1, <3>2
  <2>4. ASSUME NEW late \in BOOLEAN, Deliver(late) PROVE Goal
    <3>1. CASE late
      <4>1. advice' = [advice EXCEPT ![General] = Ready]
        BY <2>4, <3>1 DEF Deliver
      <4> QED
        BY <1>0, <2>1, <4>1
    <3>2. CASE ~late
      <4>1. /\ advice[General].at # "idle"
            /\ advice' = [advice EXCEPT ![General] = [@ EXCEPT !.at = "apply"]]
        BY <2>4, <3>2 DEF Deliver
      <4> QED
        BY <1>0, <2>2, <4>1
    <3> QED
      BY <3>1, <3>2
  <2>5. ASSUME NEW k \in Staff, NEW n \in Attempts, CallIssue(k, n) PROVE Goal
    <3>1. /\ radio[n].state = "LEASED"
          /\ advice' = [advice EXCEPT ![k] = [at |-> "issue", of |-> n]]
      BY <2>5 DEF CallIssue
    <3>2. advice'[g] \in {advice[g], [at |-> "issue", of |-> n]}
      BY <1>0, <3>1 DEF AdviceTyped
    <3> QED
      BY <1>01, <3>1, <3>2
  <2>6. ASSUME NEW n \in Attempts, Answer(n) PROVE Goal
    <3>1. /\ broker[n] \in {"QUEUED", "ANSWERED"}
          /\ advice' = [advice EXCEPT ![General] = [at |-> "resolve", of |-> n]]
      BY <2>6 DEF Answer
    <3>2. advice'[g] \in {advice[g], [at |-> "resolve", of |-> n]}
      BY <1>0, <3>1 DEF AdviceTyped
    <3> QED
      BY <1>01, <3>1, <3>2
  <2>7. CASE ApplyGuidance \/ ResolveDecision
    BY <1>0, <2>1, <2>7 DEF ApplyGuidance, ResolveDecision
  <2>8. ASSUME NEW k \in Staff, StaffRefused(k) PROVE Goal
    BY <2>1, <2>8 DEF StaffRefused
  <2> HIDE DEF Goal
  <2>9. CASE UNCHANGED advice
    BY <1>01, <2>9
  <2> QED
    BY <1>2, <2>3, <2>4, <2>5, <2>6, <2>7, <2>8, <2>9 DEF StaffStep, Poll, Present, callVars
<1>3. ASSUME MaintenanceStep PROVE Goal
  BY <1>01, <1>3 DEF MaintenanceStep, ReconcileRadio, ReconcileQuestions, DeadLetterGuidanceWait,
     ExpireDecisionWait
<1>4. ASSUME HostStep PROVE Goal
  BY <1>01, <1>4 DEF HostStep, ReadPending, LeaseTask, Start, SpawnRefused, AcknowledgeRadio,
     AcknowledgeGuidance, AcknowledgeAnswer, ChildEnds, ReleaseTaskLease, CancelMission, callVars
<1>5. ASSUME NEW p \in Places, Writes(p) \/ Throw(p) PROVE Goal
  BY <1>01, <1>5 DEF Writes, AppendEvent, PutTask, Throw, callVars
<1>6. ASSUME Crash PROVE Goal
  BY <1>01, <1>6 DEF Crash
<1> HIDE DEF Goal
<1>7. Goal
  BY <1>1, <1>2, <1>3, <1>4, <1>5, <1>6 DEF Next
<1> QED
  BY <1>7 DEF Goal

\* Only who has leased the Task asks, is answered and waits.
LEMMA AskedNext ==
  ASSUME WaitsTyped, LifeInv, AskedInv, Next
  PROVE  AskedInv'
<1>0. ASSUME NEW n \in Attempts, Leased(n) PROVE Leased(n)'
  BY <1>0, KnownNext DEF Leased
<1>1. ASSUME NEW n \in Attempts, steps[n] # <<>> PROVE Leased(n)
  BY <1>1 DEF LifeInv
<1>2. ASSUME NEW n \in Attempts, radio'[n].state # "UNSENT" \/ broker'[n] # "UNASKED"
      PROVE  Leased(n)'
  BY <1>0, <1>1, <1>2, RadioNext, BrokerNext DEF AskedInv, RadioMoves, BrokerMoves, WaitsTyped
<1>3. ASSUME NEW n \in Attempts, NEW type \in {"radio/guidance-delivered", "task/decision-resolved"},
             Known(type, n)'
      PROVE  Leased(n)'
  <2>1. Known(type, n) \/ Due(type, n)
    BY <1>3, KnownNext
  <2>2. Due(type, n) => advice[General].at # "idle" /\ advice[General].of = n /\ General \in Staff
    BY <1>3 DEF Due, Staff
  <2> QED
    BY <1>0, <1>3, <2>1, <2>2 DEF AskedInv
<1>4. ASSUME NEW n \in Attempts, task'.request = n PROVE Leased(n)'
  <2>1. Leased(n)
    BY <1>4, LedgerStep DEF AskedInv, ledgerVars, AppendEvent, PutTask
  <2> QED
    BY <1>0, <2>1
<1>5. ASSUME NEW n \in Attempts, NEW q \in Places, Busy(q)', saving'[q].task.request = n
      PROVE  Leased(n)'
  <2>0. SavingTyped
    BY DEF WaitsTyped
  <2>1. ASSUME Busy(q), saving'[q].task = saving[q].task PROVE Leased(n)
    BY <1>5, <2>1 DEF AskedInv
  <2>2. ASSUME NEW p \in Places, NEW after, NEW writes, Beginning(p, after, writes)
        PROVE  Leased(n)
    <3>1. /\ after \in TaskRecords /\ writes \in Seq(Events) \ {<<>>} /\ Load(p, after, writes)
          /\ BeginsWith(p, after, writes)
      BY <2>2, BeginsDue, BeginsSound DEF Beginning
    <3>2. /\ saving'[p] = [task |-> after, writes |-> writes]
          /\ \A r \in Places \ {p} : saving'[r] = saving[r] /\ (Busy(r)' <=> Busy(r))
      BY <2>0, <3>1, LoadAdds
    <3>3. CASE q = p
      <4>1. after.request = n
        BY <1>5, <3>2, <3>3
      <4>2. n # None
        BY NoneAssumption DEF Callers
      <4> QED
        BY <1>1, <3>1, <4>1, <4>2 DEF BeginsWith, AskedInv
    <3>4. CASE q # p
      BY <1>5, <2>1, <3>2, <3>4
    <3> QED
      BY <3>3, <3>4
  <2>3. ASSUME NEW p \in Places, Writes(p) PROVE Leased(n)
    <3>1. Busy(p) /\ Go(p)
      BY <2>3 DEF Writes, AppendEvent, PutTask
    <3>2. /\ \A r \in Places \ {p} : saving'[r] = saving[r] /\ (Busy(r)' <=> Busy(r))
          /\ Busy(p)' => saving'[p].task = saving[p].task
      BY <2>0, <3>1, GoLeaves
    <3> QED
      BY <1>5, <2>1, <3>1, <3>2
  <2>4. ASSUME NEW over \in SUBSET Places,
               saving' = [p \in Places |-> IF p \in over THEN None ELSE saving[p]]
        PROVE  Leased(n)
    <3>1. saving'[q] = saving[q] /\ Busy(q)
      BY <1>5, <2>4 DEF Busy
    <3> QED
      BY <2>1, <3>1
  <2> QED
    BY <1>0, <2>2, <2>3, <2>4, SavingStep DEF SavingSteps
<1>6. ASSUME NEW g \in Staff, NEW n \in Attempts, advice'[g].at # "idle", advice'[g].of = n
      PROVE  Leased(n)'
  <2>1. advice[g].at # "idle" => advice[g].of \in Attempts
    BY DEF WaitsTyped, CallsTyped, AdviceTyped
  <2>2. Leased(n)
    BY <1>6, <2>1, AdviceAsked DEF AskedInv
  <2> QED
    BY <1>0, <2>2
<1>7. ASSUME NEW g \in Staff, advice'[g].at # "idle" PROVE Leased(advice[g].of)'
  <2>1. advice'[g].of \in Attempts
    BY <1>7, AdviceNext DEF WaitsTyped, CallsTyped, AdviceTyped
  <2> QED
    BY <1>6, <1>7, <2>1 DEF Leased, Told
<1> QED
  BY <1>2, <1>3, <1>4, <1>5, <1>7 DEF AskedInv

-----------------------------------------------------------------------------
(* An attempt follows one that stopped only after the Task was given       *)
(* something                                                               *)

\* An attempt becomes the worker of the record when it leases the Task.
LEMMA MayBeWorkerNext ==
  ASSUME WaitsTyped, Next, NEW n \in Attempts, MayBeWorker(n)'
  PROVE  MayBeWorker(n) \/ (spawn.at = "lease" /\ spawn.by = n)
<1>0. SavingTyped /\ n # None
  BY NoneAssumption DEF WaitsTyped, Callers
<1>1. ASSUME NEW p \in Places, Busy(p), saving[p].task.worker = n PROVE MayBeWorker(n)
  BY <1>1 DEF MayBeWorker
<1>2. CASE task'.worker = n
  <2>1. ASSUME UNCHANGED task PROVE MayBeWorker(n)
    BY <1>2, <2>1 DEF MayBeWorker
  <2>2. ASSUME NEW p \in Places, PutTask(p) PROVE MayBeWorker(n)
    BY <1>1, <1>2, <2>2 DEF PutTask
  <2> QED
    BY <2>1, <2>2, LedgerStep DEF ledgerVars, AppendEvent
<1>3. ASSUME NEW q \in Places, Busy(q)', saving'[q].task.worker = n
      PROVE  MayBeWorker(n) \/ (spawn.at = "lease" /\ spawn.by = n)
  <2>1. ASSUME NEW p \in Places, NEW after, NEW writes, Beginning(p, after, writes)
        PROVE  MayBeWorker(n) \/ (spawn.at = "lease" /\ spawn.by = n)
    <3>1. /\ after \in TaskRecords /\ writes \in Seq(Events) \ {<<>>} /\ Load(p, after, writes)
          /\ BeginsWith(p, after, writes)
      BY <2>1, BeginsDue, BeginsSound DEF Beginning
    <3>2. /\ saving'[p] = [task |-> after, writes |-> writes]
          /\ \A r \in Places \ {p} : saving'[r] = saving[r] /\ (Busy(r)' <=> Busy(r))
      BY <1>0, <3>1, LoadAdds
    <3>3. CASE q = p
      <4>1. after.worker = n
        BY <1>3, <3>2, <3>3
      <4> QED
        BY <1>0, <3>1, <4>1 DEF BeginsWith, MayBeWorker
    <3>4. CASE q # p
      BY <1>1, <1>3, <3>2, <3>4
    <3> QED
      BY <3>3, <3>4
  <2>2. ASSUME NEW p \in Places, Writes(p) PROVE MayBeWorker(n)
    <3>1. Busy(p) /\ Go(p)
      BY <2>2 DEF Writes, AppendEvent, PutTask
    <3>2. /\ \A r \in Places \ {p} : saving'[r] = saving[r] /\ (Busy(r)' <=> Busy(r))
          /\ Busy(p)' => saving'[p].task = saving[p].task
      BY <1>0, <3>1, GoLeaves
    <3> QED
      BY <1>1, <1>3, <3>1, <3>2
  <2>3. ASSUME NEW over \in SUBSET Places,
               saving' = [p \in Places |-> IF p \in over THEN None ELSE saving[p]]
        PROVE  MayBeWorker(n)
    <3>1. saving'[q] = saving[q] /\ Busy(q)
      BY <1>3, <2>3 DEF Busy
    <3> QED
      BY <1>1, <1>3, <3>1
  <2> QED
    BY <2>1, <2>2, <2>3, SavingStep DEF SavingSteps
<1> QED
  BY <1>2, <1>3 DEF MayBeWorker

\* While the Host leases a Task that was given nothing, no attempt waits and
\* none may be its worker but the one it leases for.
LEMMA LeaseIsAlone ==
  ASSUME WaitsTyped, CommandInv, QuietInv, Quiet, Busy("command"), kernel = Host
  PROVE  \A n \in Attempts : ~Waited(n) /\ (MayBeWorker(n) => n = spawn.by)
<1>0. /\ kernel \notin Attempts /\ kernel # General
      /\ saving["command"].task.state = "EXECUTING"
      /\ saving["command"].task.worker = spawn.by
  BY CallersAssumption DEF CommandInv
<1>1. "EXECUTING" \notin Stop
  BY DEF Stop
<1>2. task.state \notin Stop /\ task.worker = None
  BY <1>0, <1>1 DEF QuietInv
<1>3. /\ ~Busy("acknowledgement") /\ ~Busy("guidance") /\ ~Busy("maintenance")
      /\ \A n \in Attempts : ~Waited(n)
  BY <1>0, <1>2 DEF QuietInv
<1>4. \A p \in Places : Busy(p) => p = "command"
  BY <1>3 DEF Places
<1> QED
  BY <1>0, <1>2, <1>3, <1>4, NoneAssumption DEF MayBeWorker, Callers

\* What was heard is not forgotten.
LEMMA HeardStays ==
  ASSUME WaitsTyped, Next, NEW n \in Attempts
  PROVE  Heard(n) => Heard(n)'
BY KnownNext DEF Heard

\* While nobody was heard, nobody follows who stopped; then whoever follows
\* has been preceded by one who was heard.
LEMMA OrderNext ==
  ASSUME WaitsTyped, LifeInv, AskedInv, CommandInv, OrderInv, QuietInv, Next
  PROVE  OrderInv'
<1> SUFFICES ASSUME NEW n \in Attempts, NEW m \in Attempts, n < m, Leased(m)',
                    Waited(n)' \/ MayBeWorker(n)'
             PROVE  EndedFor(n)
  <2>1. ASSUME NEW n \in Attempts, EndedFor(n) PROVE EndedFor(n)'
    BY <2>1, HeardStays DEF EndedFor
  <2> QED
    BY <2>1 DEF OrderInv
<1>0. n \in Nat /\ m \in Nat /\ Attempts \subseteq Nat
  BY AttemptsAssumption
<1>1. ASSUME NEW p \in Places, AppendEvent(p)
      PROVE  Pending(p, Coming(p).type, Coming(p).of) /\ Busy(p)
  BY <1>1, Appended
<1>2. ASSUME Waited(n)', ~Waited(n)
      PROVE  MayBeWorker(n) /\ kernel = n
  <2>1. PICK p \in Places :
          /\ AppendEvent(p) /\ Coming(p).of = n
          /\ Coming(p).type \in {"task/blocker-submitted", "task/decision-waiting"}
    BY <1>2, KnownNext DEF Waited
  <2>2. Busy(p) /\ p = "command" /\ kernel = n
    BY <1>1, <2>1 DEF CommandInv
  <2> QED
    BY <2>2 DEF CommandInv, MayBeWorker, Places
<1>3. CASE Leased(m)
  <2>1. ASSUME spawn.at = "lease", spawn.by = n PROVE FALSE
    <3>1. life[m] # "new" /\ life[n] = "new"
      BY <1>3, <2>1 DEF LifeInv
    <3>2. m < n
      BY <3>1 DEF LifeInv
    <3> QED
      BY <1>0, <3>2
  <2>2. Waited(n) \/ MayBeWorker(n)
    BY <1>2, <2>1, MayBeWorkerNext
  <2> QED
    BY <1>3, <2>2 DEF OrderInv
<1>4. CASE ~Leased(m)
  <2>1. PICK p \in Places : AppendEvent(p) /\ Coming(p).type = "task/leased" /\ Coming(p).of = m
    BY <1>4, KnownNext DEF Leased
  <2>2. p = "command" /\ kernel = Host /\ spawn.by = m /\ Busy("command") /\ spawn.at = "start"
    BY <1>1, <2>1 DEF CommandInv
  <2>3. Waited(n) \/ MayBeWorker(n)
    BY <1>2, <2>2, MayBeWorkerNext, CallersAssumption
  <2>4. ~Quiet
    BY <1>0, <2>2, <2>3, LeaseIsAlone
  <2>5. PICK k \in Attempts : Heard(k)
    BY <2>4 DEF Quiet
  <2>6. Leased(k)
    BY <2>5 DEF Heard, AskedInv, Known
  <2>7. CASE k <= n
    BY <2>5, <2>7 DEF EndedFor
  <2>8. CASE n < k
    BY <2>3, <2>6, <2>8 DEF OrderInv
  <2> QED
    BY <1>0, <2>7, <2>8
<1> QED
  BY <1>3, <1>4

-----------------------------------------------------------------------------
(* Before the Task has been given anything                                 *)

\* What a step does to the operation under way at one place.
LEMMA PlaceMoves ==
  ASSUME WaitsTyped, Next, NEW q \in Places, Busy(q)'
  PROVE  \/ \E after, writes :
              /\ Beginning(q, after, writes) /\ BeginsWith(q, after, writes)
              /\ saving'[q] = [task |-> after, writes |-> writes]
         \/ /\ Busy(q) /\ Writes(q)
            /\ saving'[q].task = saving[q].task
            /\ saving'[q].writes = Tail(saving[q].writes)
         \/ Busy(q) /\ saving'[q] = saving[q]
<1>0. SavingTyped
  BY DEF WaitsTyped
<1>1. ASSUME NEW p \in Places, NEW after, NEW writes, Beginning(p, after, writes)
      PROVE  /\ BeginsWith(p, after, writes)
             /\ saving'[p] = [task |-> after, writes |-> writes]
             /\ q # p => Busy(q) /\ saving'[q] = saving[q]
  <2>1. /\ after \in TaskRecords /\ writes \in Seq(Events) \ {<<>>} /\ Load(p, after, writes)
        /\ BeginsWith(p, after, writes)
    BY <1>1, BeginsDue, BeginsSound DEF Beginning
  <2> QED
    BY <1>0, <2>1, LoadAdds
<1>2. ASSUME NEW p \in Places, Writes(p)
      PROVE  IF q = p
             THEN /\ Busy(q) /\ saving'[q].task = saving[q].task
                  /\ saving'[q].writes = Tail(saving[q].writes)
             ELSE Busy(q) /\ saving'[q] = saving[q]
  <2>1. Busy(p) /\ Go(p)
    BY <1>2 DEF Writes, AppendEvent, PutTask
  <2> QED
    BY <1>0, <2>1, GoLeaves
<1>3. ASSUME NEW over \in SUBSET Places,
             saving' = [p \in Places |-> IF p \in over THEN None ELSE saving[p]]
      PROVE  Busy(q) /\ saving'[q] = saving[q]
  BY <1>0, <1>3 DEF Busy
<1> DEFINE Goal ==
      \/ \E after, writes :
           /\ Beginning(q, after, writes) /\ BeginsWith(q, after, writes)
           /\ saving'[q] = [task |-> after, writes |-> writes]
      \/ /\ Busy(q) /\ Writes(q)
         /\ saving'[q].task = saving[q].task
         /\ saving'[q].writes = Tail(saving[q].writes)
      \/ Busy(q) /\ saving'[q] = saving[q]
<1>4. ASSUME NEW p \in Places, NEW after, NEW writes, Beginning(p, after, writes) PROVE Goal
  <2>1. CASE q = p
    BY <1>1, <1>4, <2>1
  <2>2. CASE q # p
    BY <1>1, <1>4, <2>2
  <2> QED
    BY <2>1, <2>2
<1>5. ASSUME NEW p \in Places, Writes(p) PROVE Goal
  BY <1>2, <1>5
<1> HIDE DEF Goal
<1>6. ASSUME NEW over \in SUBSET Places,
             saving' = [p \in Places |-> IF p \in over THEN None ELSE saving[p]]
      PROVE  Goal
  BY <1>3, <1>6 DEF Goal
<1>7. Goal
  BY <1>4, <1>5, <1>6, SavingStep DEF SavingSteps
<1> QED
  BY <1>7 DEF Goal

\* The spawn call has nothing but what it read from the Task.
LEMMA SpawnStaysBlank ==
  ASSUME WaitsTyped, Next, Blank(task), Blank(spawn)
  PROVE  Blank(spawn)'
<1>0. SpawnTyped
  BY DEF WaitsTyped, CallsTyped
<1>01. ASSUME UNCHANGED spawn PROVE Blank(spawn)'
  BY <1>01 DEF Blank
<1>02. ASSUME spawn' = NoSpawn PROVE Blank(spawn)'
  BY <1>02 DEF Blank, NoSpawn
<1>03. ASSUME NEW at, spawn' = [spawn EXCEPT !.at = at] PROVE Blank(spawn)'
  BY <1>0, <1>03 DEF Blank, SpawnTyped
<1>1. ASSUME NEW n \in Attempts, WorkerStep(n) PROVE Blank(spawn)'
  BY <1>01, <1>1 DEF WorkerStep, Call, Request, SubmitQuestion, WaitForDecision, SubmitBlocker,
     ReadGuidance, WorkerRefused, callVars
<1>2. ASSUME StaffStep PROVE Blank(spawn)'
  BY <1>01, <1>2 DEF StaffStep, StaffRefused, CallIssue, Issue, Poll, Deliver, Present,
     ApplyGuidance, ResolveDecision, Answer, callVars
<1>3. ASSUME MaintenanceStep PROVE Blank(spawn)'
  BY <1>01, <1>3 DEF MaintenanceStep, ReconcileRadio, ReconcileQuestions, DeadLetterGuidanceWait,
     ExpireDecisionWait
<1>4. ASSUME HostStep PROVE Blank(spawn)'
  <2>1. CASE ReadPending
    BY <2>1 DEF ReadPending, Blank
  <2>2. CASE LeaseTask \/ Start \/ AcknowledgeRadio \/ AcknowledgeGuidance
    BY <1>03, <2>2 DEF LeaseTask, Start, AcknowledgeRadio, AcknowledgeGuidance
  <2>3. CASE AcknowledgeAnswer \/ SpawnRefused
    BY <1>02, <2>3 DEF AcknowledgeAnswer, SpawnRefused
  <2> QED
    BY <1>01, <1>4, <2>1, <2>2, <2>3 DEF HostStep, ChildEnds, ReleaseTaskLease, CancelMission,
       callVars
<1>5. ASSUME NEW p \in Places, Writes(p) \/ Throw(p) PROVE Blank(spawn)'
  BY <1>01, <1>02, <1>5 DEF Writes, AppendEvent, PutTask, Throw, callVars
<1>6. ASSUME Crash PROVE Blank(spawn)'
  BY <1>02, <1>6 DEF Crash
<1> QED
  BY <1>1, <1>2, <1>3, <1>4, <1>5, <1>6 DEF Next

\* What a step makes of the record of a Task that was given nothing.
LEMMA TaskStaysBlank ==
  ASSUME WaitsTyped, QuietInv, Quiet, Next
  PROVE  /\ \/ UNCHANGED task
            \/ \E p \in {"command", "maintenance"} :
                 /\ PutTask(p) /\ Busy(p) /\ Coming(p) = Put /\ task' = saving[p].task
                 /\ p = "command" => kernel # General
         /\ Blank(task')
         /\ task.state \in Stop => task'.state \in Stop
         /\ task'.state \in {"READY", "RECOVERY_REQUIRED"} => task'.worker = None
<1>1. ASSUME UNCHANGED task
      PROVE  /\ Blank(task') /\ (task.state \in Stop => task'.state \in Stop)
             /\ task'.state \in {"READY", "RECOVERY_REQUIRED"} => task'.worker = None
  BY <1>1 DEF QuietInv
<1>2. ASSUME NEW p \in Places, PutTask(p)
      PROVE  /\ p \in {"command", "maintenance"} /\ Busy(p) /\ Coming(p) = Put
             /\ task' = saving[p].task /\ (p = "command" => kernel # General)
             /\ Blank(task') /\ (task.state \in Stop => task'.state \in Stop)
             /\ task'.state \in {"READY", "RECOVERY_REQUIRED"} => task'.worker = None
  <2>1. Busy(p) /\ Coming(p) = Put /\ task' = saving[p].task
    BY <1>2 DEF PutTask, Coming
  <2>2. ~Gives(Put)
    BY DEF Gives, Put, Event
  <2>3. p # "guidance" /\ p # "acknowledgement" /\ (p = "command" => kernel # General)
    BY <2>1, <2>2 DEF QuietInv
  <2>4. CASE p = "command"
    BY <2>1, <2>3, <2>4 DEF QuietInv
  <2>5. CASE p = "maintenance"
    BY <2>1, <2>5 DEF QuietInv, Stop
  <2> QED
    BY <2>1, <2>3, <2>4, <2>5 DEF Places
<1>3. UNCHANGED task \/ \E p \in Places : PutTask(p)
  BY LedgerStep DEF ledgerVars, AppendEvent
<1> QED
  BY <1>1, <1>2, <1>3

\* An attempt that stopped to wait has its command end with the Task stopped.
LEMMA KernelStaysAsker ==
  ASSUME WaitsTyped, CommandInv, Next, kernel \in Attempts
  PROVE  kernel' = kernel \/ task'.state \in Stop
<1>1. SUFFICES ASSUME kernel' = None, Writes("command") PROVE task'.state \in Stop
  BY KernelMoves, NoneAssumption DEF Callers
<1>2. Busy("command") /\ Go("command") /\ "command" \in Places /\ SavingTyped
  BY <1>1 DEF Writes, AppendEvent, PutTask, Places, WaitsTyped
<1>3. saving["command"].writes \in Seq(Events) \ {<<>>}
  BY <1>2, OperationsBusy
<1>4. Tail(saving["command"].writes) = <<>>
  BY <1>1, <1>2, GoLeaves, NoneAssumption DEF Callers
<1>5. /\ saving["command"].task.state \in {"BLOCKED", "WAITING_DECISION"}
      /\ PutLast(saving["command"].writes)
  BY <1>2 DEF CommandInv
<1>6. Head(saving["command"].writes) = Put
  BY <1>3, <1>4, <1>5, PutStaysLast
<1>7. PutTask("command")
  BY <1>1, <1>6 DEF Writes, AppendEvent
<1> QED
  BY <1>5, <1>7 DEF PutTask, Stop

\* Until something is heard, what is under way was begun by those who go on
\* without it.
LEMMA QuietNext ==
  ASSUME WaitsTyped, CommandInv, QuietInv, Next
  PROVE  QuietInv'
<1> SUFFICES ASSUME Quiet' PROVE QuietInv'
  BY DEF QuietInv
<1>0. Quiet /\ "command" \in Places /\ "guidance" \in Places /\ "maintenance" \in Places
      /\ "acknowledgement" \in Places /\ Host \notin Attempts /\ General # Host
      /\ None # General /\ None # Host
  BY HeardStays, CallersAssumption, NoneAssumption DEF Quiet, Places, Callers
<1>1. Blank(task) /\ Blank(spawn) /\ ~Busy("acknowledgement")
  BY <1>0 DEF QuietInv
<1>2. /\ \/ UNCHANGED task
         \/ \E p \in {"command", "maintenance"} :
              /\ PutTask(p) /\ Busy(p) /\ Coming(p) = Put /\ task' = saving[p].task
              /\ p = "command" => kernel # General
      /\ Blank(task') /\ (task.state \in Stop => task'.state \in Stop)
      /\ task'.state \in {"READY", "RECOVERY_REQUIRED"} => task'.worker = None
  BY <1>0, TaskStaysBlank
<1>3. ASSUME NEW p \in Places, Writes(p), Gives(Coming(p)) PROVE FALSE
  <2>1. AppendEvent(p)
    BY <1>3 DEF Writes, PutTask, Coming, Gives, Put, Event
  <2>2. Coming(p) \in stream'
    BY <2>1, Appended
  <2>3. ASSUME NEW n \in Attempts, Coming(p).of = n PROVE Heard(n)'
    BY <1>3, <2>2, <2>3 DEF Gives, Heard, Told
  <2>4. Coming(p).of \in Attempts
    BY <1>3 DEF Gives
  <2> QED
    BY <2>3, <2>4 DEF Quiet
<1>4. Blank(spawn)'
  BY <1>1, SpawnStaysBlank
<1>5. ~Busy("acknowledgement")'
  <2>1. ASSUME NEW after, NEW writes, BeginsWith("acknowledgement", after, writes) PROVE FALSE
    BY <1>1, <2>1 DEF BeginsWith
  <2> QED
    BY <1>0, <1>1, <2>1, PlaceMoves
<1>6. ASSUME Busy("guidance")' PROVE Gives(Coming("guidance")') /\ task'.state \in Stop
  <2>1. ASSUME NEW after, NEW writes, Beginning("guidance", after, writes),
               BeginsWith("guidance", after, writes),
               saving'["guidance"] = [task |-> after, writes |-> writes]
        PROVE  Gives(Coming("guidance")') /\ task'.state \in Stop
    <3>1. Coming("guidance")' = Head(writes)
      BY <2>1 DEF Coming
    <3> QED
      BY <1>2, <2>1, <3>1 DEF BeginsWith
  <2>2. ASSUME Busy("guidance"), saving'["guidance"] = saving["guidance"]
        PROVE  Gives(Coming("guidance")') /\ task'.state \in Stop
    <3>1. Coming("guidance")' = Coming("guidance")
      BY <2>2 DEF Coming
    <3> QED
      BY <1>0, <1>2, <2>2, <3>1 DEF QuietInv
  <2>3. ASSUME Busy("guidance"), Writes("guidance") PROVE FALSE
    BY <1>0, <1>3, <2>3 DEF QuietInv
  <2> QED
    BY <1>0, <1>6, <2>1, <2>2, <2>3, PlaceMoves
<1>7. ASSUME Busy("maintenance")'
      PROVE  /\ Blank(saving["maintenance"].task)' /\ saving'["maintenance"].task.state = "BLOCKED"
             /\ task'.state \in Stop
  <2>1. ASSUME NEW after, NEW writes, BeginsWith("maintenance", after, writes),
               saving'["maintenance"] = [task |-> after, writes |-> writes]
        PROVE  /\ Blank(saving'["maintenance"].task)
               /\ saving'["maintenance"].task.state = "BLOCKED" /\ task'.state \in Stop
    BY <1>1, <1>2, <2>1 DEF BeginsWith
  <2>2. ASSUME Busy("maintenance"), saving'["maintenance"].task = saving["maintenance"].task
        PROVE  /\ Blank(saving'["maintenance"].task)
               /\ saving'["maintenance"].task.state = "BLOCKED" /\ task'.state \in Stop
    BY <1>0, <1>2, <2>2 DEF QuietInv
  <2> QED
    BY <1>0, <1>7, <2>1, <2>2, PlaceMoves DEF Blank
<1>8. ASSUME NEW n \in Attempts, Waited(n)' PROVE task'.state \in Stop \/ kernel' \in Attempts
  <2>1. ASSUME ~Waited(n) PROVE kernel \in Attempts
    <3>1. PICK p \in Places :
            /\ AppendEvent(p) /\ Coming(p).of = n
            /\ Coming(p).type \in {"task/blocker-submitted", "task/decision-waiting"}
      BY <1>8, <2>1, KnownNext DEF Waited
    <3>2. Pending(p, Coming(p).type, Coming(p).of)
      BY <3>1, Appended
    <3> QED
      BY <3>1, <3>2 DEF CommandInv
  <2>2. task.state \in Stop \/ kernel \in Attempts
    BY <1>0, <2>1 DEF QuietInv
  <2> QED
    BY <1>2, <2>2, KernelStaysAsker
<1> DEFINE CommandCalm ==
      IF kernel = General THEN Gives(Coming("command"))
      ELSE /\ Blank(saving["command"].task)
           /\ saving["command"].task.state \notin Stop => task.state \notin Stop
           /\ saving["command"].task.state \in {"READY", "RECOVERY_REQUIRED"}
              => saving["command"].task.worker = None
           /\ kernel = Host => task.worker = None
<1>9. ASSUME Busy("command")' PROVE CommandCalm'
  <2>1. ASSUME NEW after, NEW writes, Beginning("command", after, writes) PROVE CommandCalm'
    <3>1. /\ BeginsWith("command", after, writes) /\ UNCHANGED task
          /\ saving'["command"] = [task |-> after, writes |-> writes]
      <4>1. /\ after \in TaskRecords /\ writes \in Seq(Events) \ {<<>>}
            /\ Load("command", after, writes) /\ BeginsWith("command", after, writes)
        BY <1>0, <2>1, BeginsDue, BeginsSound DEF Beginning
      <4>2. saving'["command"] = [task |-> after, writes |-> writes]
        BY <1>0, <4>1, LoadAdds DEF WaitsTyped
      <4> QED
        BY <2>1, <4>1, <4>2 DEF Beginning, ledgerVars
    <3>2. Coming("command")' = Head(writes)
      BY <3>1 DEF Coming
    <3>3. task.state \in {"READY", "RECOVERY_REQUIRED"} => task.worker = None
      BY <1>0 DEF QuietInv
    <3> QED
      BY <1>0, <1>1, <3>1, <3>2, <3>3 DEF BeginsWith, Blank
  <2>2. ASSUME Busy("command"), kernel' = kernel,
               saving'["command"].task = saving["command"].task,
               kernel = General => Coming("command")' = Coming("command"),
               kernel = Host => ~PutTask("command")
        PROVE  CommandCalm'
    <3>1. CommandCalm
      BY <1>0, <2>2 DEF QuietInv
    <3>2. CASE kernel = General
      BY <2>2, <3>1, <3>2
    <3>3. CASE kernel # General
      <4>1. Blank(saving["command"].task)' /\ (saving'["command"].task.state
              \in {"READY", "RECOVERY_REQUIRED"} => saving'["command"].task.worker = None)
        BY <2>2, <3>1, <3>3 DEF Blank
      <4>2. saving["command"].task.state \notin Stop => task'.state \notin Stop
        <5>1. ASSUME PutTask("maintenance") PROVE task.state \in Stop
          BY <1>0, <5>1 DEF QuietInv, PutTask
        <5> QED
          BY <1>2, <3>1, <3>3, <5>1
      <4>3. kernel = Host => task'.worker = None
        <5>1. ASSUME kernel = Host, PutTask("maintenance") PROVE FALSE
          <6>1. task.state \in Stop
            BY <1>0, <5>1 DEF QuietInv, PutTask
          <6>2. saving["command"].task.state = "EXECUTING"
            BY <2>2, <5>1 DEF CommandInv
          <6> QED
            BY <3>1, <3>3, <6>1, <6>2 DEF Stop
        <5> QED
          BY <1>2, <2>2, <3>1, <3>3, <5>1
      <4> QED
        BY <2>2, <3>3, <4>1, <4>2, <4>3
    <3> QED
      BY <3>2, <3>3
  <2>3. ASSUME Busy("command"), Writes("command"), UNCHANGED kernel,
               saving'["command"].task = saving["command"].task
        PROVE  CommandCalm'
    <3>1. kernel # General
      BY <1>0, <1>3, <2>3 DEF QuietInv
    <3>2. ASSUME kernel = Host, PutTask("command") PROVE FALSE
      <4>1. PutLast(saving["command"].writes) /\ SavingTyped
        BY <2>3, <3>2 DEF CommandInv, WaitsTyped
      <4>2. saving["command"].writes \in Seq(Events) \ {<<>>}
        BY <1>0, <2>3, <4>1, OperationsBusy
      <4>3. Head(saving["command"].writes) = Put /\ Go("command")
        BY <3>2 DEF PutTask
      <4>4. Tail(saving["command"].writes) = <<>>
        BY <4>1, <4>2, <4>3, PutStaysLast
      <4> QED
        BY <1>0, <1>9, <2>3, <4>1, <4>3, <4>4, GoLeaves
    <3> QED
      BY <2>2, <2>3, <3>1, <3>2
  <2>4. ASSUME Busy("command"), UNCHANGED kernel, saving'["command"] = saving["command"]
        PROVE  CommandCalm'
    <3>1. Coming("command")' = Coming("command")
      BY <2>4 DEF Coming
    <3>2. ASSUME PutTask("command") PROVE FALSE
      <4>1. Go("command") /\ SavingTyped
        BY <3>2 DEF PutTask, WaitsTyped
      <4>2. saving'["command"].writes = Tail(saving["command"].writes)
        BY <1>0, <1>9, <2>4, <4>1, GoLeaves
      <4>3. saving["command"].writes \in Seq(Events) \ {<<>>}
        BY <1>0, <2>4, <4>1, OperationsBusy
      <4>4. \A w \in Seq(Events) \ {<<>>} : Len(Tail(w)) # Len(w)
        OBVIOUS
      <4> QED
        BY <2>4, <4>2, <4>3, <4>4
    <3> QED
      BY <2>2, <2>4, <3>1, <3>2
  <2> HIDE DEF CommandCalm
  <2> QED
    BY <1>9, <2>1, <2>3, <2>4, CommandMoves
<1>10. Blank(task)'
  BY <1>2 DEF Blank
<1> QED
  BY <1>2, <1>4, <1>5, <1>6, <1>7, <1>8, <1>9, <1>10 DEF QuietInv

-----------------------------------------------------------------------------
(* The theorems                                                            *)

\* Nothing was asked, leased or written at first.
LEMMA WaitsInit ==
  ASSUME Init
  PROVE  WaitsInv
<1>1. WaitsTyped
  BY TypedInit
<1>2. /\ stream = {} /\ kernel = None /\ spawn = NoSpawn /\ pass = Resting
      /\ task.state = "READY" /\ task.worker = None /\ task.request = None
      /\ task.guidance = None /\ task.answer = None
      /\ \A p \in Places : ~Busy(p)
      /\ \A n \in Attempts : /\ radio[n].state = "UNSENT" /\ broker[n] = "UNASKED"
                             /\ life[n] = "new" /\ steps[n] = <<>>
      /\ \A g \in Staff : advice[g].at = "idle"
      /\ General \in Staff
  BY DEF Init, Busy, Unsent, Ready, Staff
<1>3. \A type, n : ~Told(type, n) /\ ~Known(type, n)
  BY <1>2 DEF Told, Known, Pending
<1>4. EndsInv
  BY <1>2, <1>3 DEF EndsInv, Issued, Resting
<1>5. CancelInv
  BY <1>2 DEF CancelInv, Closed
<1>6. LifeInv
  BY <1>2, <1>3, NoneAssumption DEF LifeInv, Leased, NoSpawn, Callers
<1>7. AskedInv
  BY <1>2, <1>3, NoneAssumption DEF AskedInv, Callers
<1>8. CommandInv
  BY <1>2 DEF CommandInv, Pending, Places
<1>9. OrderInv
  BY <1>3 DEF OrderInv, Leased
<1>10. QuietInv
  BY <1>2, <1>3 DEF QuietInv, Places, Blank, NoSpawn, Waited
<1> QED
  BY <1>1, <1>4, <1>5, <1>6, <1>7, <1>8, <1>9, <1>10 DEF WaitsInv

\* A step that changes nothing keeps everything.
LEMMA WaitsStay ==
  ASSUME WaitsInv, UNCHANGED vars
  PROVE  WaitsInv'
<1> USE DEF vars, ledgerVars, storeVars, savingVars, workerVars, callVars
<1>1. \A type, n : (Told(type, n)' <=> Told(type, n)) /\ (Known(type, n)' <=> Known(type, n))
  BY DEF Told, Known, Pending, Busy
<1>2. \A p \in Places : Busy(p)' <=> Busy(p)
  BY DEF Busy
<1>3. \A p \in Places : \A type, n : Pending(p, type, n)' <=> Pending(p, type, n)
  BY DEF Pending, Busy
<1>4. WaitsTyped'
  BY <1>2 DEF WaitsInv, WaitsTyped, StoresTyped, SavingTyped, CallsTyped, WorkersTyped,
     AdviceTyped, PassTyped, SpawnTyped
<1>5. EndsInv'
  BY <1>1 DEF WaitsInv, EndsInv, Issued
<1>6. CancelInv'
  BY <1>2 DEF WaitsInv, CancelInv, Closed, Gone, Coming
<1>7. LifeInv'
  <2>1. /\ Leased(spawn.by)' <=> Leased(spawn.by)
        /\ Leasing(spawn.by)' <=> Leasing(spawn.by)
    BY DEF Leased, Leasing, Told, Pending, Busy
  <2>2. \A n \in Attempts : Leased(n)' <=> Leased(n)
    BY <1>1 DEF Leased
  <2> QED
    BY <2>1, <2>2 DEF WaitsInv, LifeInv, New
<1>8. AskedInv'
  BY <1>1, <1>2 DEF WaitsInv, AskedInv, Leased
<1>9. CommandInv'
  BY <1>2, <1>3 DEF WaitsInv, CommandInv, Places
<1>10. OrderInv'
  BY <1>1, <1>2 DEF WaitsInv, OrderInv, Leased, Waited, MayBeWorker, EndedFor, Heard
<1>11. QuietInv'
  BY <1>1, <1>2 DEF WaitsInv, QuietInv, Quiet, Heard, Waited, Coming, Blank, Places
<1> QED
  BY <1>4, <1>5, <1>6, <1>7, <1>8, <1>9, <1>10, <1>11 DEF WaitsInv

\* The invariant holds throughout.
THEOREM WaitsInvariant == Spec => []WaitsInv
<1>1. Init => WaitsInv
  BY WaitsInit
<1>2. WaitsInv /\ [Next]_vars => WaitsInv'
  <2>1. ASSUME WaitsInv, Next PROVE WaitsInv'
    BY <2>1, TypedNext, EndsNext, CancelNext, LifeNext, AskedNext, CommandNext, OrderNext,
       QuietNext DEF WaitsInv
  <2> QED
    BY <2>1, WaitsStay
<1> QED
  BY <1>1, <1>2, PTL DEF Spec

\* Every variable has its type: the record, the projection, the requests with
\* their leases counted, the question sets and the attempts.
THEOREM TypeCorrect == Spec => []TypeOK
<1>1. WaitsInv => TypeOK
  BY DEF WaitsInv, WaitsTyped, StoresTyped, CallsTyped, WorkersTyped, TypeOK, Entries, RadioStates
<1> QED
  BY <1>1, WaitsInvariant, PTL

\* The Mission's events tell of a wait the end that its store decided
\* (radio-repository.ts, decision-repository.ts), and only one.
THEOREM EndsAreOne == Spec => []OneEnd
<1>1. WaitsInv => OneEnd
  BY DEF WaitsInv, EndsInv, Issued, Known, OneEnd
<1> QED
  BY <1>1, WaitsInvariant, PTL

\* A cancelled Task stays cancelled in the projection, whatever a putTask of
\* an older record writes over it (runtime.ts).
THEOREM CancellationStays == Spec => []CancellationIsProjected
<1>1. WaitsInv => CancellationIsProjected
  BY DEF WaitsInv, CancelInv, Gone, CancellationIsProjected
<1> QED
  BY <1>1, WaitsInvariant, PTL

\* No attempt follows one that stopped to wait before the Task was given the
\* guidance or the answer that one, or an earlier one, asked for.
THEOREM WaitsEndFirst == Spec => []WaitsAreEnded
<1>1. WaitsInv => WaitsAreEnded
  BY DEF WaitsInv, LifeInv, OrderInv, EndedFor, WaitsAreEnded
<1> QED
  BY <1>1, WaitsInvariant, PTL
=============================================================================

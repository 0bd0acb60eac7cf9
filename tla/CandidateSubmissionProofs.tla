---------------------- MODULE CandidateSubmissionProofs ----------------------
(***************************************************************************)
(* Proofs about the submission of Candidates.  The runtime's part comes    *)
(* first: what an open command has still to append takes the projection of *)
(* the events to the record it stores, because every event but two belongs *)
(* to one command.  The tool's part follows: the record's verification is  *)
(* never replaced by another Candidate's, and a Candidate that has been    *)
(* left behind is never the Task's again.                                  *)
(***************************************************************************)
EXTENDS CandidateSubmission, TLAPS

(* The commands a host or a tool sends.                                    *)
OfAttempts == {"lease", "release"}
Orders ==
  { op \in Commands :
      /\ op.of \in IF op.do \in OfAttempts THEN Agents \X {None} ELSE Candidates
      /\ op.do = "release" => op.as \in Reasons
      /\ op.do = "record" => op.as \in Verdicts /\ op.nr \in 1..MaxReceipts
      /\ op.do = "fail" => op.as = "REWORK"
      /\ op.do = "deliver" => op.as \in {"APPLIED", "CONFLICT"}
      /\ op.do = "specs" => op.as = "APPLIED"
      /\ op.do \in {"lease", "submit", "queue"} => op.as = "plain"
      /\ op.do # "record" => op.nr = 0 }

(* What is left of some events that are appended once: where a fold that   *)
(* has come to s goes.                                                     *)
FoldOnce(s, e, log) == IF e \in log THEN s ELSE Fold(s, e)
Ahead(s, es, log) ==
  CASE Len(es) = 0 -> s
    [] Len(es) = 1 -> FoldOnce(s, es[1], log)
    [] OTHER -> FoldOnce(FoldOnce(s, es[1], log), es[2], log)

(* The command that appends an event; what is resumed or settled may have  *)
(* several.                                                                *)
Owned(e, begun) ==
  /\ e.type = "task/leased" => Command("lease", e.of, "plain", 0) \in begun
  /\ e.type = "task/candidate-submitted" => Submit(e.of) \in begun
  /\ e.type = "verification/completed" =>
       Command(IF e.nr = 0 THEN "fail" ELSE "record", e.of, e.as, e.nr) \in begun
  /\ e.type = "task/integrated" => Command("deliver", e.of, "APPLIED", 0) \in begun
  /\ e.type = "task/integration-failed" => Command("deliver", e.of, "CONFLICT", 0) \in begun
  /\ e.type = "task/accepted" =>
       Command(IF e.as = "specs" THEN "specs" ELSE "deliver", e.of, "APPLIED", 0) \in begun
  /\ e.type = "specs/commit-recorded" => Command("specs", e.of, "APPLIED", 0) \in begun

-----------------------------------------------------------------------------
(* The fold                                                                *)

\* Walk ends where its path ends, or the fold is broken (task-reducer.ts).
LEMMA WalkEnds ==
  ASSUME NEW s, NEW path
  PROVE  /\ Walk(s, path) \in {path[Len(path)], Broken}
         /\ Walk(Broken, path) = Broken
BY DEF Walk

\* A Task is under verification only after it was submitted.
LEMMA VerifiedFromSubmitted ==
  ASSUME NEW s, NEW end, s \notin {"CANDIDATE_SUBMITTED", "VERIFYING"}
  PROVE  Walk(s, <<"VERIFYING", end>>) = Broken
<1>1. EnteredFrom["VERIFYING"] = {"CANDIDATE_SUBMITTED"}
  BY DEF EnteredFrom
<1>2. ~CanMove(s, "VERIFYING")
  BY <1>1 DEF CanMove
<1>3. /\ 1 \in DOMAIN <<"VERIFYING", end>>
      /\ (<<s>> \o <<"VERIFYING", end>>)[1] = s
      /\ <<"VERIFYING", end>>[1] = "VERIFYING"
  OBVIOUS
<1> QED
  BY <1>2, <1>3 DEF Walk

\* Where each event takes the fold.
LEMMA FoldEnds ==
  ASSUME NEW s, NEW e
  PROVE  /\ e.type = "task/leased" => Fold(s, e) \in {"EXECUTING", Broken}
         /\ e.type = "task/candidate-submitted" => Fold(s, e) \in {"CANDIDATE_SUBMITTED", Broken}
         /\ e.type = "verification/completed" => Fold(s, e) = Walk(s, <<"VERIFYING", Verdict[e.as]>>)
         /\ e.type = "task/accepted" => Fold(s, e) \in {"ACCEPTED", Broken}
         /\ e.type = "task/integrated" => Fold(s, e) = AfterIntegration(s, "ACCEPTED")
         /\ e.type = "task/integration-failed" =>
              Fold(s, e) = AfterIntegration(s, "INTEGRATION_FAILED")
         /\ e.type = "task/activation-settled" => Fold(s, e) \in {e.as, Broken}
         /\ e.type = "task/resumed" => Fold(s, e) \in {"READY", Broken}
         /\ e.type = "specs/commit-recorded" =>
              Fold(s, e) = IF s \in Range(Delivery) THEN "ACCEPTED" ELSE s
<1>1. CASE e.type = "task/leased"
  <2> DEFINE first == IF s = "CREATED" THEN <<"READY">> ELSE <<>>
             path == first \o <<"LEASED", "EXECUTING">>
  <2>1. Fold(s, e) = Walk(s, path)
    BY <1>1 DEF Fold
  <2>2. path[Len(path)] = "EXECUTING"
    <3>1. CASE s = "CREATED"
      <4>1. path = <<"READY">> \o <<"LEASED", "EXECUTING">>
        BY <3>1
      <4> QED
        BY <4>1
    <3>2. CASE s # "CREATED"
      <4>1. path = << >> \o <<"LEASED", "EXECUTING">>
        BY <3>2
      <4> QED
        BY <4>1
    <3> QED
      BY <3>1, <3>2
  <2> HIDE DEF path
  <2> QED
    BY <1>1, <2>1, <2>2, WalkEnds
<1>2. e.type = "task/candidate-submitted" => Fold(s, e) \in {"CANDIDATE_SUBMITTED", Broken}
  BY WalkEnds DEF Fold
<1>3. e.type = "verification/completed" => Fold(s, e) = Walk(s, <<"VERIFYING", Verdict[e.as]>>)
  BY DEF Fold
<1>4. e.type = "task/accepted" => Fold(s, e) \in {"ACCEPTED", Broken}
  BY WalkEnds DEF Fold
<1>5. /\ e.type = "task/integrated" => Fold(s, e) = AfterIntegration(s, "ACCEPTED")
      /\ e.type = "task/integration-failed" =>
           Fold(s, e) = AfterIntegration(s, "INTEGRATION_FAILED")
  BY DEF Fold
<1>6. e.type = "task/activation-settled" => Fold(s, e) \in {e.as, Broken}
  BY WalkEnds DEF Fold
<1>7. e.type = "task/resumed" => Fold(s, e) \in {"READY", Broken}
  BY WalkEnds DEF Fold
<1>8. e.type = "specs/commit-recorded" =>
        Fold(s, e) = IF s \in Range(Delivery) THEN "ACCEPTED" ELSE s
  BY DEF Fold
<1> QED
  BY <1>1, <1>2, <1>3, <1>4, <1>5, <1>6, <1>7, <1>8


States == TaskStates \cup {Broken}
Readable(e) ==
  /\ e \in EventRecords
  /\ e.type = "verification/completed" => e.as \in Verdicts
  /\ e.type = "task/activation-settled" => e.as \in TaskStates

LEMMA FoldTypes ==
  ASSUME NEW s \in States, NEW e, Readable(e)
  PROVE  Fold(s, e) \in States
<1>1. /\ {"EXECUTING", "CANDIDATE_SUBMITTED", "ACCEPTED", "INTEGRATION_FAILED", "READY",
          "INTEGRATING", Broken} \subseteq States
      /\ \A v \in Verdicts : Verdict[v] \in States
  BY DEF States, TaskStates, Verdict, Verdicts
<1>2. CASE e.type = "verification/completed"
  <2>1. Fold(s, e) = Walk(s, <<"VERIFYING", Verdict[e.as]>>)
    BY <1>2, FoldEnds
  <2>2. <<"VERIFYING", Verdict[e.as]>>[Len(<<"VERIFYING", Verdict[e.as]>>)] = Verdict[e.as]
    OBVIOUS
  <2>3. Fold(s, e) \in {Verdict[e.as], Broken}
    BY <2>1, <2>2, WalkEnds
  <2>4. e.as \in Verdicts
    BY <1>2 DEF Readable
  <2> QED
    BY <1>1, <2>3, <2>4
<1>3. CASE e.type \in {"task/integrated", "task/integration-failed"}
  <2>1. \A end : AfterIntegration(s, end) \in {s, end, Broken}
    <3> TAKE end
    <3>1. <<"INTEGRATING", end>>[Len(<<"INTEGRATING", end>>)] = end
      OBVIOUS
    <3> QED
      BY <3>1, WalkEnds DEF AfterIntegration
  <2> QED
    BY <1>1, <1>3, <2>1, FoldEnds
<1>4. CASE e.type = "specs/commit-recorded"
  BY <1>1, <1>4, FoldEnds
<1>5. CASE e.type = "task/activation-settled"
  BY <1>5, FoldEnds DEF Readable, States
<1>6. CASE e.type \in {"task/leased", "task/candidate-submitted", "task/accepted", "task/resumed"}
  BY <1>1, <1>6, FoldEnds
<1>7. e.type \in EventTypes
  BY DEF Readable, EventRecords
<1> QED
  BY <1>2, <1>3, <1>4, <1>5, <1>6, <1>7 DEF EventTypes

-----------------------------------------------------------------------------
(* The operations                                                          *)

LEMMA OperationIs ==
  ASSUME NEW op
  PROVE  /\ op.do = "lease" => Operation(op) = LeaseTask(op)
         /\ op.do = "release" => Operation(op) = ReleaseTaskLease(op)
         /\ op.do = "submit" => Operation(op) = SubmitCandidate(op)
         /\ op.do = "record" => Operation(op) = RecordCandidateVerification(op)
         /\ op.do = "fail" => Operation(op) = RecordCandidateVerificationFailure(op)
         /\ op.do = "queue" => Operation(op) = QueueIntegration(op)
         /\ op.do = "deliver" => Operation(op) = RecordIntegration(op)
         /\ op.do = "specs" => Operation(op) = RecordSpecsCommit(op)
BY DEF Operation

LEMMA OrdersAre ==
  ASSUME NEW op \in Orders
  PROVE  /\ op.do \in {"lease", "release", "submit", "record", "fail", "queue", "deliver", "specs"}
         /\ op.do \in OfAttempts => \E a \in Agents : op.of = <<a, None>>
         /\ op.do \notin OfAttempts => op.of \in Candidates
         /\ op = Command(op.do, op.of, op.as, op.nr)
         /\ op.nr \in 0..MaxReceipts
<1>1. op \in Commands
  BY DEF Orders
<1>2. /\ op.do \in {"lease", "release", "submit", "record", "fail", "queue", "deliver", "specs"}
      /\ op = Command(op.do, op.of, op.as, op.nr)
      /\ op.nr \in 0..MaxReceipts
  BY <1>1 DEF Commands, Command
<1>3. op.of \in IF op.do \in OfAttempts THEN Agents \X {None} ELSE Candidates
  BY DEF Orders
<1> QED
  BY <1>2, <1>3

\* The events an operation appends: at most two, of different types.
Mine(e, op) == Readable(e) /\ Owned(e, {op})
Short(es, op) ==
  \/ es = <<>>
  \/ \E e : Mine(e, op) /\ es = <<e>>
  \/ \E e, f : Mine(e, op) /\ Mine(f, op) /\ e.type # f.type /\ es = <<e, f>>

Ofs == (Agents \cup {None}) \X (Drafts \cup {None})
Ass == TaskStates \cup {"plain", "specs"}

LEMMA EventsAreShort ==
  ASSUME NEW op \in Orders, task \in TaskRecords
  PROVE  Short(Operation(op).events, op)
<1> USE ReceiptsAssumption
<1>1. /\ op.of \in Ofs /\ Nobody \in Ofs /\ 0 \in 0..MaxReceipts
      /\ op.nr \in 0..MaxReceipts
  BY OrdersAre DEF Candidates, Nobody, OfAttempts, Ofs
<1>2. /\ Verdicts \subseteq TaskStates /\ TaskStates \subseteq Ass /\ "plain" \in Ass /\ "specs" \in Ass
      /\ "plain" \notin TaskStates
  BY DEF TaskStates, Verdicts, Ass
<1>3. task.state \in TaskStates
  BY DEF TaskRecords
<1>4. op = Command(op.do, op.of, op.as, op.nr)
  BY OrdersAre
<1>21. /\ {"task/leased", "task/resumed", "task/activation-settled"} \subseteq EventTypes
       /\ {"task/candidate-submitted", "verification/completed"} \subseteq EventTypes
       /\ {"task/integrated", "task/accepted", "task/integration-failed"} \subseteq EventTypes
       /\ "specs/commit-recorded" \in EventTypes
  BY DEF EventTypes
<1>20. "EXECUTING" \in Ass
  BY DEF Ass, TaskStates
<1>5. CASE op.do = "lease"
  <2> DEFINE e == Event("task/resumed", Nobody, task.state, 0)
             f == Event("task/leased", op.of, "EXECUTING", 0)
  <2>1. /\ e \in EventRecords /\ e.type = "task/resumed"
    BY <1>1, <1>2, <1>3, <1>21 DEF Event, EventRecords, Ofs, Ass
  <2>2. /\ f \in EventRecords /\ f.type = "task/leased" /\ f.of = op.of
    BY <1>1, <1>2, <1>20, <1>21 DEF Event, EventRecords, Ofs, Ass
  <2>3. Leased(op.of[1]) = f
    <3>1. PICK a \in Agents : op.of = <<a, None>>
      BY <1>5, OrdersAre DEF OfAttempts
    <3> QED
      BY <3>1 DEF Leased
  <2>4. Command("lease", op.of, "plain", 0) = op
    BY <1>4, <1>5 DEF Orders
  <2> HIDE DEF e, f
  <2>5. Mine(e, op) /\ Mine(f, op)
    BY <2>1, <2>2, <2>4 DEF Mine, Owned, Readable
  <2>6. Operation(op).events \in {<<e, f>>, <<f>>}
    <3>1. Operation(op) = LeaseTask(op)
      BY <1>5, OperationIs
    <3> QED
      BY <3>1, <2>3 DEF LeaseTask, e
  <2> QED
    BY <2>1, <2>2, <2>5, <2>6 DEF Short
<1>6. CASE op.do = "release"
  <2> DEFINE e == Event("task/activation-settled", op.of, Settled(op.as), 0)
  <2>1. Settled(op.as) \in TaskStates
    BY <1>3 DEF Settled, TaskStates
  <2>2. e \in EventRecords /\ e.type = "task/activation-settled" /\ e.as = Settled(op.as)
    BY <1>1, <1>2, <2>1, <1>21 DEF Event, EventRecords, Ofs, Ass
  <2>3. Operation(op).events = <<e>>
    <3>1. Operation(op) = ReleaseTaskLease(op)
      BY <1>6, OperationIs
    <3> QED
      BY <3>1 DEF ReleaseTaskLease
  <2> HIDE DEF e
  <2>4. Mine(e, op)
    BY <2>1, <2>2 DEF Mine, Owned, Readable
  <2> QED
    BY <2>3, <2>4 DEF Short
<1>7. CASE op.do = "submit"
  <2> DEFINE e == Event("task/candidate-submitted", op.of, "plain", 0)
  <2>2. e \in EventRecords /\ e.type = "task/candidate-submitted" /\ e.of = op.of
    BY <1>1, <1>2, <1>21 DEF Event, EventRecords, Ofs, Ass
  <2>3. Operation(op).events = <<e>>
    <3>1. Operation(op) = SubmitCandidate(op)
      BY <1>7, OperationIs
    <3>2. SubmitCandidate(op).events = <<e>>
      BY DEF SubmitCandidate
    <3> QED
      BY <3>1, <3>2
  <2>5. Submit(op.of) = op
    BY <1>4, <1>7 DEF Orders, Submit
  <2> HIDE DEF e
  <2>4. Mine(e, op)
    BY <2>2, <2>5 DEF Mine, Owned, Readable
  <2> QED
    BY <2>3, <2>4 DEF Short
<1>8. CASE op.do \in {"record", "fail"}
  <2> DEFINE e == Event("verification/completed", op.of, op.as, op.nr)
  <2>1. op.as \in Verdicts /\ (op.nr = 0 <=> op.do = "fail")
    <3>1. op.do = "record" => op.as \in Verdicts /\ op.nr \in 1..MaxReceipts
      BY DEF Orders
    <3>2. op.do = "fail" => op.as = "REWORK" /\ op.nr = 0
      BY DEF Orders
    <3> QED
      BY <1>8, <3>1, <3>2 DEF Verdicts
  <2>2. /\ e \in EventRecords /\ e.type = "verification/completed"
        /\ e.of = op.of /\ e.as = op.as /\ e.nr = op.nr
    BY <1>1, <1>2, <2>1, <1>21 DEF Event, EventRecords, Ofs, Ass
  <2>3. Operation(op).events = <<e>>
    <3>1. CASE op.do = "record"
      <4>1. Operation(op) = RecordCandidateVerification(op)
        BY <3>1, OperationIs
      <4> QED
        BY <4>1 DEF RecordCandidateVerification
    <3>2. CASE op.do = "fail"
      <4>1. Operation(op) = RecordCandidateVerificationFailure(op)
        BY <3>2, OperationIs
      <4> QED
        BY <4>1 DEF RecordCandidateVerificationFailure
    <3> QED
      BY <1>8, <3>1, <3>2
  <2>5. Command(IF op.nr = 0 THEN "fail" ELSE "record", op.of, op.as, op.nr) = op
    BY <1>4, <1>8, <2>1
  <2> HIDE DEF e
  <2>4. Mine(e, op)
    BY <2>1, <2>2, <2>5 DEF Mine, Owned, Readable
  <2> QED
    BY <2>3, <2>4 DEF Short
<1>9. CASE op.do = "queue"
  <2>1. Operation(op) = QueueIntegration(op)
    BY <1>9, OperationIs
  <2> QED
    BY <2>1 DEF QueueIntegration, Short
<1>10. CASE op.do = "deliver"
  <2> DEFINE e == Event("task/integrated", op.of, "plain", 0)
             f == Event("task/accepted", op.of, "plain", 0)
             g == Event("task/integration-failed", op.of, "plain", 0)
  <2>1. e \in EventRecords /\ e.type = "task/integrated" /\ e.of = op.of
    BY <1>1, <1>2, <1>21 DEF Event, EventRecords, Ofs, Ass
  <2>2. f \in EventRecords /\ f.type = "task/accepted" /\ f.of = op.of /\ f.as = "plain"
    BY <1>1, <1>2, <1>21 DEF Event, EventRecords, Ofs, Ass
  <2>3. g \in EventRecords /\ g.type = "task/integration-failed" /\ g.of = op.of
    BY <1>1, <1>2, <1>21 DEF Event, EventRecords, Ofs, Ass
  <2>4. /\ op.as = "APPLIED" => Operation(op).events = <<e, f>>
        /\ op.as = "CONFLICT" => Operation(op).events = <<g>>
    <3>1. Operation(op) = RecordIntegration(op)
      BY <1>10, OperationIs
    <3>2. RecordIntegration(op).events = IF op.as = "APPLIED" THEN <<e, f>> ELSE <<g>>
      BY DEF RecordIntegration
    <3> QED
      BY <3>1, <3>2
  <2>5. /\ op.as \in {"APPLIED", "CONFLICT"}
        /\ Command("deliver", op.of, op.as, 0) = op
    BY <1>4, <1>10 DEF Orders
  <2> HIDE DEF e, f, g
  <2>6. CASE op.as = "APPLIED"
    <3>1. Mine(e, op) /\ Mine(f, op)
      BY <2>1, <2>2, <2>5, <2>6 DEF Mine, Owned, Readable
    <3> QED
      BY <2>1, <2>2, <2>4, <2>6, <3>1 DEF Short
  <2>7. CASE op.as = "CONFLICT"
    <3>1. Mine(g, op)
      BY <2>3, <2>5, <2>7 DEF Mine, Owned, Readable
    <3> QED
      BY <2>4, <2>7, <3>1 DEF Short
  <2> QED
    BY <2>5, <2>6, <2>7
<1>11. CASE op.do = "specs"
  <2> DEFINE e == Event("specs/commit-recorded", op.of, "plain", 0)
             f == Event("task/accepted", op.of, "specs", 0)
  <2>1. e \in EventRecords /\ e.type = "specs/commit-recorded" /\ e.of = op.of
    BY <1>1, <1>2, <1>21 DEF Event, EventRecords, Ofs, Ass
  <2>2. f \in EventRecords /\ f.type = "task/accepted" /\ f.of = op.of /\ f.as = "specs"
    BY <1>1, <1>2, <1>21 DEF Event, EventRecords, Ofs, Ass
  <2>4. Operation(op).events \in {<<e, f>>, <<e>>}
    <3>1. Operation(op) = RecordSpecsCommit(op)
      BY <1>11, OperationIs
    <3>2. RecordSpecsCommit(op).events = IF task.state = "EXECUTING" THEN <<e, f>> ELSE <<e>>
      BY DEF RecordSpecsCommit
    <3> QED
      BY <3>1, <3>2
  <2>5. Command("specs", op.of, "APPLIED", 0) = op
    BY <1>4, <1>11 DEF Orders
  <2> HIDE DEF e, f
  <2>6. Mine(e, op) /\ Mine(f, op)
    BY <2>1, <2>2, <2>5 DEF Mine, Owned, Readable
  <2> QED
    BY <2>1, <2>2, <2>4, <2>6 DEF Short
<1> QED
  BY OrdersAre, <1>5, <1>6, <1>7, <1>8, <1>9, <1>10, <1>11

\* What the record and the projection say decides what an operation does.
LEMMA SameOperation ==
  ASSUME NEW op, UNCHANGED <<task, frozen, stream>>
  PROVE  Operation(op)' = Operation(op)
BY DEF Operation, LeaseTask, ReleaseTaskLease, SubmitCandidate, RecordCandidateVerification,
       RecordCandidateVerificationFailure, QueueIntegration, RecordIntegration,
       RecordSpecsCommit, Settled, Delivered, IsCurrent, VerificationOf, IntegrationOf

LEMMA AllowedIs ==
  ASSUME NEW op \in Orders
  PROVE  /\ op.do = "lease" =>
              (Operation(op).allowed <=>
                 op.of[1] \notin frozen /\ task.state \in Resumable \cup {"READY"})
         /\ op.do = "release" => (Operation(op).allowed <=> task.worker = op.of[1])
         /\ op.do = "submit" =>
              (Operation(op).allowed <=>
                 /\ task.worker = op.of[1] /\ op.of[1] \notin frozen
                 /\ CanMove(task.state, "CANDIDATE_SUBMITTED"))
         /\ op.do = "record" =>
              (Operation(op).allowed <=>
                 task.candidate = op.of /\ task.state \in UnderVerification)
         /\ op.do = "fail" => (Operation(op).allowed <=> task.candidate = op.of)
         /\ op.do = "deliver" => (Operation(op).allowed <=> task.state = "WAITING_INTEGRATION")
         /\ op.do = "specs" =>
              (Operation(op).allowed <=>
                 \/ task.state = "EXECUTING"
                 \/ /\ task.state = "ACCEPTED" /\ task.integrated # None
                    /\ task.integrated.as = "APPLIED")
<1>1. ASSUME op.do = "lease"
      PROVE  Operation(op).allowed <=>
                 op.of[1] \notin frozen /\ task.state \in Resumable \cup {"READY"}
  <2>1. Operation(op) = LeaseTask(op)
    BY <1>1, OperationIs
  <2>2. LeaseTask(op).allowed <=>
                 op.of[1] \notin frozen /\ task.state \in Resumable \cup {"READY"}
    BY DEF LeaseTask
  <2> QED
    BY <2>1, <2>2
<1>2. ASSUME op.do = "release"
      PROVE  Operation(op).allowed <=> task.worker = op.of[1]
  <2>1. Operation(op) = ReleaseTaskLease(op)
    BY <1>2, OperationIs
  <2>2. ReleaseTaskLease(op).allowed <=> task.worker = op.of[1]
    BY DEF ReleaseTaskLease
  <2> QED
    BY <2>1, <2>2
<1>3. ASSUME op.do = "submit"
      PROVE  Operation(op).allowed <=>
                 /\ task.worker = op.of[1] /\ op.of[1] \notin frozen
                 /\ CanMove(task.state, "CANDIDATE_SUBMITTED")
  <2>1. Operation(op) = SubmitCandidate(op)
    BY <1>3, OperationIs
  <2>2. SubmitCandidate(op).allowed <=>
                 /\ task.worker = op.of[1] /\ op.of[1] \notin frozen
                 /\ CanMove(task.state, "CANDIDATE_SUBMITTED")
    BY DEF SubmitCandidate
  <2> QED
    BY <2>1, <2>2
<1>4. ASSUME op.do = "record"
      PROVE  Operation(op).allowed <=>
                 task.candidate = op.of /\ task.state \in UnderVerification
  <2>1. Operation(op) = RecordCandidateVerification(op)
    BY <1>4, OperationIs
  <2>2. RecordCandidateVerification(op).allowed <=>
                 task.candidate = op.of /\ task.state \in UnderVerification
    BY DEF RecordCandidateVerification, IsCurrent
  <2> QED
    BY <2>1, <2>2
<1>5. ASSUME op.do = "fail"
      PROVE  Operation(op).allowed <=> task.candidate = op.of
  <2>1. Operation(op) = RecordCandidateVerificationFailure(op)
    BY <1>5, OperationIs
  <2>2. RecordCandidateVerificationFailure(op).allowed <=> task.candidate = op.of
    BY DEF RecordCandidateVerificationFailure, IsCurrent
  <2> QED
    BY <2>1, <2>2
<1>6. ASSUME op.do = "deliver"
      PROVE  Operation(op).allowed <=> task.state = "WAITING_INTEGRATION"
  <2>1. Operation(op) = RecordIntegration(op)
    BY <1>6, OperationIs
  <2>2. RecordIntegration(op).allowed <=> task.state = "WAITING_INTEGRATION"
    BY DEF RecordIntegration
  <2> QED
    BY <2>1, <2>2
<1>7. ASSUME op.do = "specs"
      PROVE  Operation(op).allowed <=>
                 \/ task.state = "EXECUTING"
                 \/ /\ task.state = "ACCEPTED" /\ task.integrated # None
                    /\ task.integrated.as = "APPLIED"
  <2>1. Operation(op) = RecordSpecsCommit(op)
    BY <1>7, OperationIs
  <2>2. RecordSpecsCommit(op).allowed <=>
                 \/ task.state = "EXECUTING"
                 \/ /\ task.state = "ACCEPTED" /\ task.integrated # None
                    /\ task.integrated.as = "APPLIED"
    BY DEF RecordSpecsCommit
  <2> QED
    BY <2>1, <2>2
<1> QED
  BY <1>1, <1>2, <1>3, <1>4, <1>5, <1>6, <1>7

\* What has been carried out.
LEMMA ReplayedIs ==
  ASSUME NEW op \in Orders
  PROVE  /\ op.do = "lease" => (Operation(op).replayed <=> (/\ op.of[1] \notin frozen /\ Leased(op.of[1]) \in stream
                                     /\ task.state = "EXECUTING" /\ task.worker = op.of[1]))
         /\ op.do = "release" => (Operation(op).replayed <=> FALSE)
         /\ op.do = "submit" => (Operation(op).replayed <=> FALSE)
         /\ op.do = "record" => (Operation(op).replayed <=> (/\ task.candidate = op.of /\ task.state \notin UnderVerification
                                     /\ task.verified = VerificationOf(op)))
         /\ op.do = "fail" => (Operation(op).replayed <=> FALSE)
         /\ op.do = "queue" => (Operation(op).replayed <=> FALSE)
         /\ op.do = "deliver" => (Operation(op).replayed <=> (task.integrated = IntegrationOf(op)))
         /\ op.do = "specs" => (Operation(op).replayed <=> (task.specs = op.of /\ task.state = "ACCEPTED"))
<1>1. ASSUME op.do = "lease"
      PROVE  Operation(op).replayed <=> (/\ op.of[1] \notin frozen /\ Leased(op.of[1]) \in stream
                                     /\ task.state = "EXECUTING" /\ task.worker = op.of[1])
  <2>1. Operation(op) = LeaseTask(op)
    BY <1>1, OperationIs
  <2>2. LeaseTask(op).replayed <=> (/\ op.of[1] \notin frozen /\ Leased(op.of[1]) \in stream
                                     /\ task.state = "EXECUTING" /\ task.worker = op.of[1])
    BY DEF LeaseTask
  <2> QED
    BY <2>1, <2>2
<1>2. ASSUME op.do = "release"
      PROVE  Operation(op).replayed <=> FALSE
  <2>1. Operation(op) = ReleaseTaskLease(op)
    BY <1>2, OperationIs
  <2>2. ReleaseTaskLease(op).replayed <=> FALSE
    BY DEF ReleaseTaskLease
  <2> QED
    BY <2>1, <2>2
<1>3. ASSUME op.do = "submit"
      PROVE  Operation(op).replayed <=> FALSE
  <2>1. Operation(op) = SubmitCandidate(op)
    BY <1>3, OperationIs
  <2>2. SubmitCandidate(op).replayed <=> FALSE
    BY DEF SubmitCandidate
  <2> QED
    BY <2>1, <2>2
<1>4. ASSUME op.do = "record"
      PROVE  Operation(op).replayed <=> (/\ task.candidate = op.of /\ task.state \notin UnderVerification
                                     /\ task.verified = VerificationOf(op))
  <2>1. Operation(op) = RecordCandidateVerification(op)
    BY <1>4, OperationIs
  <2>2. RecordCandidateVerification(op).replayed <=> (/\ task.candidate = op.of /\ task.state \notin UnderVerification
                                     /\ task.verified = VerificationOf(op))
    BY DEF RecordCandidateVerification, IsCurrent
  <2> QED
    BY <2>1, <2>2
<1>5. ASSUME op.do = "fail"
      PROVE  Operation(op).replayed <=> FALSE
  <2>1. Operation(op) = RecordCandidateVerificationFailure(op)
    BY <1>5, OperationIs
  <2>2. RecordCandidateVerificationFailure(op).replayed <=> FALSE
    BY DEF RecordCandidateVerificationFailure
  <2> QED
    BY <2>1, <2>2
<1>6. ASSUME op.do = "queue"
      PROVE  Operation(op).replayed <=> FALSE
  <2>1. Operation(op) = QueueIntegration(op)
    BY <1>6, OperationIs
  <2>2. QueueIntegration(op).replayed <=> FALSE
    BY DEF QueueIntegration
  <2> QED
    BY <2>1, <2>2
<1>7. ASSUME op.do = "deliver"
      PROVE  Operation(op).replayed <=> (task.integrated = IntegrationOf(op))
  <2>1. Operation(op) = RecordIntegration(op)
    BY <1>7, OperationIs
  <2>2. RecordIntegration(op).replayed <=> (task.integrated = IntegrationOf(op))
    BY DEF RecordIntegration, Delivered
  <2> QED
    BY <2>1, <2>2
<1>8. ASSUME op.do = "specs"
      PROVE  Operation(op).replayed <=> (task.specs = op.of /\ task.state = "ACCEPTED")
  <2>1. Operation(op) = RecordSpecsCommit(op)
    BY <1>8, OperationIs
  <2>2. RecordSpecsCommit(op).replayed <=> (task.specs = op.of /\ task.state = "ACCEPTED")
    BY DEF RecordSpecsCommit
  <2> QED
    BY <2>1, <2>2
<1> QED
  BY <1>1, <1>2, <1>3, <1>4, <1>5, <1>6, <1>7, <1>8

\* The record an operation stores.
LEMMA AfterIs ==
  ASSUME NEW op \in Orders
  PROVE  /\ op.do = "lease" => (Operation(op).after = [task EXCEPT !.state = "EXECUTING", !.worker = op.of[1]])
         /\ op.do = "release" => (Operation(op).after = [task EXCEPT !.state = Settled(op.as), !.worker = None])
         /\ op.do = "submit" => (Operation(op).after = [task EXCEPT !.state = "CANDIDATE_SUBMITTED", !.candidate = op.of])
         /\ op.do = "record" => (Operation(op).after = [task EXCEPT !.state = Verdict[op.as], !.verified = VerificationOf(op)])
         /\ op.do = "fail" => (Operation(op).after = [task EXCEPT !.state = IF @ \in UnderVerification THEN "REWORK" ELSE @])
         /\ op.do = "queue" => (Operation(op).after = task)
         /\ op.do = "deliver" => (Operation(op).after = [task EXCEPT !.integrated = IntegrationOf(op),
                                      !.state = IF op.as = "APPLIED" THEN "ACCEPTED"
                                                ELSE "INTEGRATION_FAILED"])
         /\ op.do = "specs" => (Operation(op).after = [task EXCEPT !.state = "ACCEPTED", !.specs = op.of])
<1>1. ASSUME op.do = "lease"
      PROVE  Operation(op).after = [task EXCEPT !.state = "EXECUTING", !.worker = op.of[1]]
  <2>1. Operation(op) = LeaseTask(op)
    BY <1>1, OperationIs
  <2>2. LeaseTask(op).after = [task EXCEPT !.state = "EXECUTING", !.worker = op.of[1]]
    BY DEF LeaseTask
  <2> QED
    BY <2>1, <2>2
<1>2. ASSUME op.do = "release"
      PROVE  Operation(op).after = [task EXCEPT !.state = Settled(op.as), !.worker = None]
  <2>1. Operation(op) = ReleaseTaskLease(op)
    BY <1>2, OperationIs
  <2>2. ReleaseTaskLease(op).after = [task EXCEPT !.state = Settled(op.as), !.worker = None]
    BY DEF ReleaseTaskLease
  <2> QED
    BY <2>1, <2>2
<1>3. ASSUME op.do = "submit"
      PROVE  Operation(op).after = [task EXCEPT !.state = "CANDIDATE_SUBMITTED", !.candidate = op.of]
  <2>1. Operation(op) = SubmitCandidate(op)
    BY <1>3, OperationIs
  <2>2. SubmitCandidate(op).after = [task EXCEPT !.state = "CANDIDATE_SUBMITTED", !.candidate = op.of]
    BY DEF SubmitCandidate
  <2> QED
    BY <2>1, <2>2
<1>4. ASSUME op.do = "record"
      PROVE  Operation(op).after = [task EXCEPT !.state = Verdict[op.as], !.verified = VerificationOf(op)]
  <2>1. Operation(op) = RecordCandidateVerification(op)
    BY <1>4, OperationIs
  <2>2. RecordCandidateVerification(op).after = [task EXCEPT !.state = Verdict[op.as], !.verified = VerificationOf(op)]
    BY DEF RecordCandidateVerification
  <2> QED
    BY <2>1, <2>2
<1>5. ASSUME op.do = "fail"
      PROVE  Operation(op).after = [task EXCEPT !.state = IF @ \in UnderVerification THEN "REWORK" ELSE @]
  <2>1. Operation(op) = RecordCandidateVerificationFailure(op)
    BY <1>5, OperationIs
  <2>2. RecordCandidateVerificationFailure(op).after = [task EXCEPT !.state = IF @ \in UnderVerification THEN "REWORK" ELSE @]
    BY DEF RecordCandidateVerificationFailure
  <2> QED
    BY <2>1, <2>2
<1>6. ASSUME op.do = "queue"
      PROVE  Operation(op).after = task
  <2>1. Operation(op) = QueueIntegration(op)
    BY <1>6, OperationIs
  <2>2. QueueIntegration(op).after = task
    BY DEF QueueIntegration
  <2> QED
    BY <2>1, <2>2
<1>7. ASSUME op.do = "deliver"
      PROVE  Operation(op).after = [task EXCEPT !.integrated = IntegrationOf(op),
                                      !.state = IF op.as = "APPLIED" THEN "ACCEPTED"
                                                ELSE "INTEGRATION_FAILED"]
  <2>1. Operation(op) = RecordIntegration(op)
    BY <1>7, OperationIs
  <2>2. RecordIntegration(op).after = [task EXCEPT !.integrated = IntegrationOf(op),
                                      !.state = IF op.as = "APPLIED" THEN "ACCEPTED"
                                                ELSE "INTEGRATION_FAILED"]
    BY DEF RecordIntegration
  <2> QED
    BY <2>1, <2>2
<1>8. ASSUME op.do = "specs"
      PROVE  Operation(op).after = [task EXCEPT !.state = "ACCEPTED", !.specs = op.of]
  <2>1. Operation(op) = RecordSpecsCommit(op)
    BY <1>8, OperationIs
  <2>2. RecordSpecsCommit(op).after = [task EXCEPT !.state = "ACCEPTED", !.specs = op.of]
    BY DEF RecordSpecsCommit
  <2> QED
    BY <2>1, <2>2
<1> QED
  BY <1>1, <1>2, <1>3, <1>4, <1>5, <1>6, <1>7, <1>8

LEMMA AfterTypes ==
  ASSUME NEW op \in Orders, task \in TaskRecords
  PROVE  Operation(op).after \in TaskRecords
<1> DEFINE after == Operation(op).after
<1>1. /\ {"EXECUTING", "CANDIDATE_SUBMITTED", "REWORK", "ACCEPTED", "INTEGRATION_FAILED",
          "PAUSED", "RECOVERY_REQUIRED"} \subseteq TaskStates
      /\ \A v \in Verdicts : Verdict[v] \in TaskStates
  BY DEF TaskStates, Verdict, Verdicts
<1>2. task.state \in TaskStates
  BY DEF TaskRecords
<1>3. Settled(op.as) \in TaskStates
  BY <1>1, <1>2 DEF Settled
<1>4. CASE op.do \in OfAttempts
  <2>1. op.of[1] \in Agents
    BY <1>4, OrdersAre
  <2>2. CASE op.do = "lease"
    <3>9. Operation(op).after = [task EXCEPT !.state = "EXECUTING", !.worker = op.of[1]]
      BY <2>2, AfterIs
    <3> QED
      BY <1>1, <2>1, <3>9 DEF TaskRecords
  <2>3. CASE op.do = "release"
    <3>9. Operation(op).after = [task EXCEPT !.state = Settled(op.as), !.worker = None]
      BY <2>3, AfterIs
    <3> QED
      BY <1>3, <3>9 DEF TaskRecords
  <2> QED
    BY <1>4, <2>2, <2>3 DEF OfAttempts
<1>5. CASE op.do \notin OfAttempts
  <2>1. op.of \in Candidates
    BY <1>5, OrdersAre
  <2>2. CASE op.do = "submit"
    <3>9. Operation(op).after = [task EXCEPT !.state = "CANDIDATE_SUBMITTED", !.candidate = op.of]
      BY <2>2, AfterIs
    <3> QED
      BY <1>1, <2>1, <3>9 DEF TaskRecords
  <2>3. CASE op.do = "record"
    <3>1. op.as \in Verdicts /\ op.nr \in 1..MaxReceipts
      BY <2>3 DEF Orders
    <3>2. VerificationOf(op) \in Verifications
      BY <2>1, <3>1 DEF VerificationOf, Verifications
    <3>9. Operation(op).after = [task EXCEPT !.state = Verdict[op.as], !.verified = VerificationOf(op)]
      BY <2>3, AfterIs
    <3> QED
      BY <1>1, <3>1, <3>2, <3>9 DEF TaskRecords
  <2>4. CASE op.do = "fail"
    <3>9. Operation(op).after = [task EXCEPT !.state = IF @ \in UnderVerification THEN "REWORK" ELSE @]
      BY <2>4, AfterIs
    <3> QED
      BY <1>1, <3>9 DEF TaskRecords
  <2>5. CASE op.do = "queue"
    BY <2>5, AfterIs
  <2>6. CASE op.do = "deliver"
    <3>1. op.as \in {"APPLIED", "CONFLICT"}
      BY <2>6 DEF Orders
    <3>2. IntegrationOf(op) \in Integrations
      BY <2>1, <3>1 DEF IntegrationOf, Integrations
    <3>9. Operation(op).after = [task EXCEPT !.integrated = IntegrationOf(op),
                                     !.state = IF op.as = "APPLIED" THEN "ACCEPTED"
                                               ELSE "INTEGRATION_FAILED"]
      BY <2>6, AfterIs
    <3> QED
      BY <1>1, <3>2, <3>9 DEF TaskRecords
  <2>7. CASE op.do = "specs"
    <3>9. Operation(op).after = [task EXCEPT !.state = "ACCEPTED", !.specs = op.of]
      BY <2>7, AfterIs
    <3> QED
      BY <1>1, <2>1, <3>9 DEF TaskRecords
  <2> QED
    BY <1>5, <2>2, <2>3, <2>4, <2>5, <2>6, <2>7, OrdersAre DEF OfAttempts
<1> QED
  BY <1>4, <1>5

\* The events an operation appends.
LEMMA EventsAre ==
  ASSUME NEW op \in Orders
  PROVE  /\ op.do = "lease" => (Operation(op).events = IF task.state \in Resumable
                     THEN <<Event("task/resumed", Nobody, task.state, 0), Leased(op.of[1])>>
                     ELSE <<Leased(op.of[1])>>)
         /\ op.do = "release" => (Operation(op).events = <<Event("task/activation-settled", op.of, Settled(op.as), 0)>>)
         /\ op.do = "submit" => (Operation(op).events = <<Event("task/candidate-submitted", op.of, "plain", 0)>>)
         /\ op.do = "record" => (Operation(op).events = <<Event("verification/completed", op.of, op.as, op.nr)>>)
         /\ op.do = "fail" => (Operation(op).events = <<Event("verification/completed", op.of, op.as, op.nr)>>)
         /\ op.do = "queue" => (Operation(op).events = <<>>)
         /\ op.do = "deliver" => (Operation(op).events = IF op.as = "APPLIED"
                     THEN <<Event("task/integrated", op.of, "plain", 0), Event("task/accepted", op.of, "plain", 0)>>
                     ELSE <<Event("task/integration-failed", op.of, "plain", 0)>>)
         /\ op.do = "specs" => (Operation(op).events = IF task.state = "EXECUTING"
                     THEN <<Event("specs/commit-recorded", op.of, "plain", 0), Event("task/accepted", op.of, "specs", 0)>>
                     ELSE <<Event("specs/commit-recorded", op.of, "plain", 0)>>)
<1>1. ASSUME op.do = "lease"
      PROVE  Operation(op).events = IF task.state \in Resumable
                     THEN <<Event("task/resumed", Nobody, task.state, 0), Leased(op.of[1])>>
                     ELSE <<Leased(op.of[1])>>
  <2>1. Operation(op) = LeaseTask(op)
    BY <1>1, OperationIs
  <2>2. LeaseTask(op).events = IF task.state \in Resumable
                     THEN <<Event("task/resumed", Nobody, task.state, 0), Leased(op.of[1])>>
                     ELSE <<Leased(op.of[1])>>
    BY DEF LeaseTask
  <2> QED
    BY <2>1, <2>2
<1>2. ASSUME op.do = "release"
      PROVE  Operation(op).events = <<Event("task/activation-settled", op.of, Settled(op.as), 0)>>
  <2>1. Operation(op) = ReleaseTaskLease(op)
    BY <1>2, OperationIs
  <2>2. ReleaseTaskLease(op).events = <<Event("task/activation-settled", op.of, Settled(op.as), 0)>>
    BY DEF ReleaseTaskLease
  <2> QED
    BY <2>1, <2>2
<1>3. ASSUME op.do = "submit"
      PROVE  Operation(op).events = <<Event("task/candidate-submitted", op.of, "plain", 0)>>
  <2>1. Operation(op) = SubmitCandidate(op)
    BY <1>3, OperationIs
  <2>2. SubmitCandidate(op).events = <<Event("task/candidate-submitted", op.of, "plain", 0)>>
    BY DEF SubmitCandidate
  <2> QED
    BY <2>1, <2>2
<1>4. ASSUME op.do = "record"
      PROVE  Operation(op).events = <<Event("verification/completed", op.of, op.as, op.nr)>>
  <2>1. Operation(op) = RecordCandidateVerification(op)
    BY <1>4, OperationIs
  <2>2. RecordCandidateVerification(op).events = <<Event("verification/completed", op.of, op.as, op.nr)>>
    BY DEF RecordCandidateVerification
  <2> QED
    BY <2>1, <2>2
<1>5. ASSUME op.do = "fail"
      PROVE  Operation(op).events = <<Event("verification/completed", op.of, op.as, op.nr)>>
  <2>1. Operation(op) = RecordCandidateVerificationFailure(op)
    BY <1>5, OperationIs
  <2>2. RecordCandidateVerificationFailure(op).events = <<Event("verification/completed", op.of, op.as, op.nr)>>
    BY DEF RecordCandidateVerificationFailure
  <2> QED
    BY <2>1, <2>2
<1>6. ASSUME op.do = "queue"
      PROVE  Operation(op).events = <<>>
  <2>1. Operation(op) = QueueIntegration(op)
    BY <1>6, OperationIs
  <2>2. QueueIntegration(op).events = <<>>
    BY DEF QueueIntegration
  <2> QED
    BY <2>1, <2>2
<1>7. ASSUME op.do = "deliver"
      PROVE  Operation(op).events = IF op.as = "APPLIED"
                     THEN <<Event("task/integrated", op.of, "plain", 0), Event("task/accepted", op.of, "plain", 0)>>
                     ELSE <<Event("task/integration-failed", op.of, "plain", 0)>>
  <2>1. Operation(op) = RecordIntegration(op)
    BY <1>7, OperationIs
  <2>2. RecordIntegration(op).events = IF op.as = "APPLIED"
                     THEN <<Event("task/integrated", op.of, "plain", 0), Event("task/accepted", op.of, "plain", 0)>>
                     ELSE <<Event("task/integration-failed", op.of, "plain", 0)>>
    BY DEF RecordIntegration
  <2> QED
    BY <2>1, <2>2
<1>8. ASSUME op.do = "specs"
      PROVE  Operation(op).events = IF task.state = "EXECUTING"
                     THEN <<Event("specs/commit-recorded", op.of, "plain", 0), Event("task/accepted", op.of, "specs", 0)>>
                     ELSE <<Event("specs/commit-recorded", op.of, "plain", 0)>>
  <2>1. Operation(op) = RecordSpecsCommit(op)
    BY <1>8, OperationIs
  <2>2. RecordSpecsCommit(op).events = IF task.state = "EXECUTING"
                     THEN <<Event("specs/commit-recorded", op.of, "plain", 0), Event("task/accepted", op.of, "specs", 0)>>
                     ELSE <<Event("specs/commit-recorded", op.of, "plain", 0)>>
    BY DEF RecordSpecsCommit
  <2> QED
    BY <2>1, <2>2
<1> QED
  BY <1>1, <1>2, <1>3, <1>4, <1>5, <1>6, <1>7, <1>8

-----------------------------------------------------------------------------
(* What is left to append                                                  *)

LEMMA AheadIs ==
  ASSUME NEW s, NEW es, NEW log
  PROVE  /\ es = << >> => Ahead(s, es, log) = s
         /\ \A e : es = <<e>> => Ahead(s, es, log) = FoldOnce(s, e, log)
         /\ \A e, f : es = <<e, f>> =>
              Ahead(s, es, log) = FoldOnce(FoldOnce(s, e, log), f, log)
<1>1. Len(<< >>) = 0 /\ (\A e : Len(<<e>>) = 1 /\ <<e>>[1] = e)
  OBVIOUS
<1>2. \A e, f : Len(<<e, f>>) = 2 /\ <<e, f>>[1] = e /\ <<e, f>>[2] = f
  OBVIOUS
<1> QED
  BY <1>1, <1>2 DEF Ahead

\* The events of a command that has not begun are not in the stream, and take
\* the fold of the record's state to the one the operation stores.
LEMMA FreshEnds ==
  ASSUME NEW op \in Orders, task \in TaskRecords, Operation(op).allowed,
         NEW begun, op \notin begun, \A e \in stream : Owned(e, begun),
         op.do = "release" =>
           \A e \in stream : e.type = "task/activation-settled" => e.of # op.of
  PROVE  Ahead(task.state, Operation(op).events, stream) \in {Operation(op).after.state, Broken}
<1> DEFINE after == Operation(op).after
           events == Operation(op).events
<1>0. op = Command(op.do, op.of, op.as, op.nr)
  BY OrdersAre
<1>1. CASE op.do = "lease"
  <2> DEFINE e == Event("task/resumed", Nobody, task.state, 0)
             f == Leased(op.of[1])
  <2>1. f.type = "task/leased" /\ f.of = op.of
    <3>1. PICK a \in Agents : op.of = <<a, None>>
      BY <1>1, OrdersAre DEF OfAttempts
    <3> QED
      BY <3>1 DEF Leased, Event
  <2>2. events \in {<<e, f>>, <<f>>}
    BY <1>1, EventsAre
  <2>3. after.state = "EXECUTING"
    <3>1. after = [task EXCEPT !.state = "EXECUTING", !.worker = op.of[1]]
      BY <1>1, AfterIs
    <3> QED
      BY <3>1 DEF TaskRecords
  <2>4. Command("lease", op.of, "plain", 0) = op
    BY <1>0, <1>1 DEF Orders
  <2> HIDE DEF e, f, after, events
  <2>5. f \notin stream
    BY <2>1, <2>4 DEF Owned
  <2>6. \A s : FoldOnce(s, f, stream) \in {"EXECUTING", Broken}
    BY <2>1, <2>5, FoldEnds DEF FoldOnce
  <2>7. Ahead(task.state, events, stream) \in {"EXECUTING", Broken}
    BY <2>2, <2>6, AheadIs
  <2> QED
    BY <2>3, <2>7 DEF after, events
<1>2. CASE op.do = "release"
  <2> DEFINE e == Event("task/activation-settled", op.of, Settled(op.as), 0)
  <2>1. e.type = "task/activation-settled" /\ e.of = op.of /\ e.as = Settled(op.as)
    BY DEF Event
  <2>2. events = <<e>>
    BY <1>2, EventsAre
  <2>3. after.state = Settled(op.as)
    <3>1. after = [task EXCEPT !.state = Settled(op.as), !.worker = None]
      BY <1>2, AfterIs
    <3> QED
      BY <3>1 DEF TaskRecords
  <2> HIDE DEF e, after, events
  <2>4. e \notin stream
    BY <1>2, <2>1
  <2>6. FoldOnce(task.state, e, stream) \in {Settled(op.as), Broken}
    BY <2>1, <2>4, FoldEnds DEF FoldOnce
  <2>5. Ahead(task.state, events, stream) \in {Settled(op.as), Broken}
    BY <2>2, <2>6, AheadIs
  <2> QED
    BY <2>3, <2>5 DEF after, events
<1>3. CASE op.do = "submit"
  <2> DEFINE e == Event("task/candidate-submitted", op.of, "plain", 0)
  <2>1. e.type = "task/candidate-submitted" /\ e.of = op.of
    BY DEF Event
  <2>2. events = <<e>>
    BY <1>3, EventsAre
  <2>3. after.state = "CANDIDATE_SUBMITTED"
    <3>1. after = [task EXCEPT !.state = "CANDIDATE_SUBMITTED", !.candidate = op.of]
      BY <1>3, AfterIs
    <3> QED
      BY <3>1 DEF TaskRecords
  <2>4. Submit(op.of) = op
    BY <1>0, <1>3 DEF Orders, Submit
  <2> HIDE DEF e, after, events
  <2>5. e \notin stream
    BY <2>1, <2>4 DEF Owned
  <2>7. FoldOnce(task.state, e, stream) \in {"CANDIDATE_SUBMITTED", Broken}
    BY <2>1, <2>5, FoldEnds DEF FoldOnce
  <2>6. Ahead(task.state, events, stream) \in {"CANDIDATE_SUBMITTED", Broken}
    BY <2>2, <2>7, AheadIs
  <2> QED
    BY <2>3, <2>6 DEF after, events
<1>4. CASE op.do \in {"record", "fail"}
  <2> DEFINE e == Event("verification/completed", op.of, op.as, op.nr)
  <2>1. e.type = "verification/completed" /\ e.of = op.of /\ e.as = op.as /\ e.nr = op.nr
    BY DEF Event
  <2>2. events = <<e>>
    <3>1. CASE op.do = "record"
      BY <3>1, EventsAre
    <3>2. CASE op.do = "fail"
      BY <3>2, EventsAre
    <3> QED
      BY <1>4, <3>1, <3>2
  <2>3. after.state = Verdict[op.as] \/ (after.state = task.state /\ task.state \notin UnderVerification)
    <3>1. CASE op.do = "record"
      <4>1. after = [task EXCEPT !.state = Verdict[op.as], !.verified = VerificationOf(op)]
        BY <3>1, AfterIs
      <4> QED
        BY <4>1 DEF TaskRecords
    <3>2. CASE op.do = "fail"
      <4>1. after = [task EXCEPT !.state = IF @ \in UnderVerification THEN "REWORK" ELSE @]
        BY <3>2, AfterIs
      <4>2. op.as = "REWORK"
        BY <3>2 DEF Orders
      <4> QED
        BY <4>1, <4>2 DEF TaskRecords, Verdict
    <3> QED
      BY <1>4, <3>1, <3>2
  <2>4. Command(IF op.nr = 0 THEN "fail" ELSE "record", op.of, op.as, op.nr) = op
    <3>1. op.nr = 0 <=> op.do = "fail"
      <4>1. op.do = "record" => op.nr \in 1..MaxReceipts
        BY DEF Orders
      <4>2. op.do = "fail" => op.nr = 0
        BY DEF Orders
      <4> QED
        BY <1>4, <4>1, <4>2
    <3> QED
      BY <1>0, <1>4, <3>1
  <2> HIDE DEF e, after, events
  <2>5. e \notin stream
    BY <2>1, <2>4 DEF Owned
  <2>6. Ahead(task.state, events, stream) = Walk(task.state, <<"VERIFYING", Verdict[op.as]>>)
    BY <2>1, <2>2, <2>5, AheadIs, FoldEnds DEF FoldOnce
  <2>7. CASE after.state = Verdict[op.as]
    <3>1. <<"VERIFYING", Verdict[op.as]>>[Len(<<"VERIFYING", Verdict[op.as]>>)] = Verdict[op.as]
      OBVIOUS
    <3> QED
      BY <2>6, <2>7, <3>1, WalkEnds DEF after, events
  <2>8. CASE task.state \notin UnderVerification
    BY <2>6, <2>8, VerifiedFromSubmitted DEF UnderVerification, after, events
  <2> QED
    BY <2>3, <2>7, <2>8
<1>5. CASE op.do = "queue"
  <2>1. Operation(op).events = << >> /\ Operation(op).after = task
    BY <1>5, EventsAre, AfterIs
  <2> QED
    BY <2>1, AheadIs
<1>6. CASE op.do = "deliver"
  <2> DEFINE e == Event("task/integrated", op.of, "plain", 0)
             f == Event("task/accepted", op.of, "plain", 0)
             g == Event("task/integration-failed", op.of, "plain", 0)
  <2>1. /\ f.type = "task/accepted" /\ f.of = op.of /\ f.as = "plain"
        /\ g.type = "task/integration-failed" /\ g.of = op.of
    BY DEF Event
  <2>2. events = IF op.as = "APPLIED" THEN <<e, f>> ELSE <<g>>
    BY <1>6, EventsAre
  <2>3. after.state = IF op.as = "APPLIED" THEN "ACCEPTED" ELSE "INTEGRATION_FAILED"
    <3>1. after = [task EXCEPT !.integrated = IntegrationOf(op),
                     !.state = IF op.as = "APPLIED" THEN "ACCEPTED" ELSE "INTEGRATION_FAILED"]
      BY <1>6, AfterIs
    <3> QED
      BY <3>1 DEF TaskRecords
  <2>4. op.as \in {"APPLIED", "CONFLICT"} /\ Command("deliver", op.of, op.as, 0) = op
    BY <1>0, <1>6 DEF Orders
  <2>5. task.state = "WAITING_INTEGRATION"
    BY <1>6, AllowedIs
  <2> HIDE DEF e, f, g, after, events
  <2>6. CASE op.as = "APPLIED"
    <3>1. f \notin stream
      BY <2>1, <2>4, <2>6 DEF Owned
    <3>2. \A s : FoldOnce(s, f, stream) \in {"ACCEPTED", Broken}
      BY <2>1, <3>1, FoldEnds DEF FoldOnce
    <3>3. Ahead(task.state, events, stream) \in {"ACCEPTED", Broken}
      BY <2>2, <2>6, <3>2, AheadIs
    <3> QED
      BY <2>3, <2>6, <3>3 DEF after, events
  <2>7. CASE op.as = "CONFLICT"
    <3>1. g \notin stream
      BY <2>1, <2>4, <2>7 DEF Owned
    <3>5. FoldOnce(task.state, g, stream) = AfterIntegration(task.state, "INTEGRATION_FAILED")
      BY <2>1, <3>1, FoldEnds DEF FoldOnce
    <3>6. events = <<g>>
      BY <2>2, <2>7
    <3>2. Ahead(task.state, events, stream) = AfterIntegration(task.state, "INTEGRATION_FAILED")
      BY <3>5, <3>6, AheadIs
    <3>3. <<"INTEGRATING", "INTEGRATION_FAILED">>[Len(<<"INTEGRATING", "INTEGRATION_FAILED">>)]
            = "INTEGRATION_FAILED"
      OBVIOUS
    <3>4. Ahead(task.state, events, stream) \in {"INTEGRATION_FAILED", Broken}
      BY <2>5, <3>2, <3>3, WalkEnds DEF AfterIntegration
    <3> QED
      BY <2>3, <2>7, <3>4 DEF after, events
  <2> QED
    BY <2>4, <2>6, <2>7
<1>7. CASE op.do = "specs"
  <2> DEFINE e == Event("specs/commit-recorded", op.of, "plain", 0)
             f == Event("task/accepted", op.of, "specs", 0)
  <2>1. /\ e.type = "specs/commit-recorded" /\ e.of = op.of
        /\ f.type = "task/accepted" /\ f.of = op.of /\ f.as = "specs"
    BY DEF Event
  <2>2. events = IF task.state = "EXECUTING" THEN <<e, f>> ELSE <<e>>
    BY <1>7, EventsAre
  <2>3. after.state = "ACCEPTED"
    <3>1. after = [task EXCEPT !.state = "ACCEPTED", !.specs = op.of]
      BY <1>7, AfterIs
    <3> QED
      BY <3>1 DEF TaskRecords
  <2>4. Command("specs", op.of, "APPLIED", 0) = op
    BY <1>0, <1>7 DEF Orders
  <2>5. task.state \in {"EXECUTING", "ACCEPTED"}
    BY <1>7, AllowedIs
  <2> HIDE DEF e, f, after, events
  <2>6. e \notin stream /\ f \notin stream
    BY <2>1, <2>4 DEF Owned
  <2>7. CASE task.state = "EXECUTING"
    <3>1. \A s : FoldOnce(s, f, stream) \in {"ACCEPTED", Broken}
      BY <2>1, <2>6, FoldEnds DEF FoldOnce
    <3>2. Ahead(task.state, events, stream) \in {"ACCEPTED", Broken}
      BY <2>2, <2>7, <3>1, AheadIs
    <3> QED
      BY <2>3, <3>2 DEF after, events
  <2>8. CASE task.state = "ACCEPTED"
    <3>1. Ahead(task.state, events, stream) = FoldOnce(task.state, e, stream)
      BY <2>2, <2>8, AheadIs
    <3>2. FoldOnce("ACCEPTED", e, stream) = "ACCEPTED"
      BY <2>1, FoldEnds DEF FoldOnce
    <3> QED
      BY <2>3, <2>8, <3>1, <3>2 DEF after, events
  <2> QED
    BY <2>5, <2>7, <2>8
<1> QED
  BY <1>1, <1>2, <1>3, <1>4, <1>5, <1>6, <1>7, OrdersAre

-----------------------------------------------------------------------------
(* The runtime's invariant                                                 *)

Run == Operation(open)
Running == effect # None /\ effect.at = "running"
Applied == effect # None /\ effect.at = "applied"
Begun == committed \cup ({open} \ {None})
Agrees == folded \in {task.state, Broken}
AllIn(es, log) == \A i \in DOMAIN es : es[i] \in log

\* An operation that has stored its record is recognised when it runs again,
\* or stores the same once more; but a release is neither.
Rerunnable(op) ==
  \/ op.do = "release" /\ task.worker = None
  \/ Operation(op).replayed
  \/ /\ Operation(op).allowed /\ Operation(op).after = task
     /\ AllIn(Operation(op).events, stream)

AtRest == open = None => effect = None /\ Agrees

\* What a running effect has still to do is the rest of its operation.
EffectFollows ==
  Running =>
    /\ ~Run.replayed /\ Run.allowed /\ effect.task = Run.after
    /\ \/ effect.events = Run.events
       \/ \E x, y : Run.events = <<x, y>> /\ effect.events = <<y>> /\ x \in stream
       \/ effect.events = << >> /\ AllIn(Run.events, stream)

AppliedAgrees == Applied => Agrees /\ effect.events = << >> /\ Rerunnable(open)

\* An open command that will still run takes the projection to the record.
OpenEnds ==
  open # None /\ ~Applied =>
    /\ Run.replayed => Agrees
    /\ ~Run.replayed /\ Run.allowed => Ahead(folded, Run.events, stream) \in {Run.after.state, Broken}

StreamIsOwned == \A e \in stream : Owned(e, Begun)

RuntimeInv ==
  /\ RuntimeTypeOK
  /\ open \in Orders \cup {None} /\ open \notin committed
  /\ AtRest /\ EffectFollows /\ AppliedAgrees /\ OpenEnds /\ StreamIsOwned

LEMMA OwnedGrows ==
  ASSUME NEW e, NEW S, NEW T, S \subseteq T, Owned(e, S)
  PROVE  Owned(e, T)
BY DEF Owned

LEMMA AllInEnds ==
  ASSUME NEW op \in Orders, task \in TaskRecords, NEW s, AllIn(Operation(op).events, stream)
  PROVE  Ahead(s, Operation(op).events, stream) = s
<1> DEFINE es == Operation(op).events
<1>1. Short(es, op)
  BY EventsAreShort
<1> HIDE DEF es
<1>2. CASE es = << >>
  BY <1>2, AheadIs DEF es
<1>3. ASSUME NEW e, es = <<e>>
      PROVE  Ahead(s, es, stream) = s
  <2>1. e \in stream
    <3>1. 1 \in DOMAIN es /\ es[1] = e
      BY <1>3
    <3> QED
      BY <3>1 DEF AllIn, es
  <2>2. Ahead(s, es, stream) = FoldOnce(s, e, stream)
    BY <1>3, AheadIs
  <2> QED
    BY <2>1, <2>2 DEF FoldOnce
<1>4. ASSUME NEW e, NEW f, es = <<e, f>>
      PROVE  Ahead(s, es, stream) = s
  <2>1. e \in stream /\ f \in stream
    <3>1. {1, 2} \subseteq DOMAIN es /\ es[1] = e /\ es[2] = f
      BY <1>4
    <3> QED
      BY <3>1 DEF AllIn, es
  <2>2. Ahead(s, es, stream) = FoldOnce(FoldOnce(s, e, stream), f, stream)
    BY <1>4, AheadIs
  <2> QED
    BY <2>1, <2>2 DEF FoldOnce
<1> QED
  BY <1>1, <1>2, <1>3, <1>4 DEF Short, es

LEMMA EventsTyped ==
  ASSUME NEW op \in Orders, task \in TaskRecords
  PROVE  Operation(op).events \in Seq(EventRecords)
<1>1. Short(Operation(op).events, op)
  BY EventsAreShort
<1>2. << >> \in Seq(EventRecords)
  OBVIOUS
<1>3. \A e \in EventRecords : <<e>> \in Seq(EventRecords)
  OBVIOUS
<1>4. \A e, f \in EventRecords : <<e, f>> \in Seq(EventRecords)
  OBVIOUS
<1>5. \A e : Mine(e, op) => e \in EventRecords
  BY DEF Mine, Readable
<1> QED
  BY <1>1, <1>2, <1>3, <1>4, <1>5 DEF Short

LEMMA RuntimeInitially == RuntimeInit => RuntimeInv
<1> SUFFICES ASSUME RuntimeInit PROVE RuntimeInv
  OBVIOUS
<1> USE NoneAssumption, ReceiptsAssumption
<1>1. "READY" \in TaskStates
  BY DEF TaskStates
<1>2. task \in TaskRecords
  BY <1>1 DEF RuntimeInit, TaskRecords
<1>3. RuntimeTypeOK
  BY <1>1, <1>2 DEF RuntimeInit, RuntimeTypeOK
<1>4. Agrees
  BY DEF RuntimeInit, Agrees
<1> QED
  BY <1>3, <1>4 DEF RuntimeInit, RuntimeInv, AtRest, EffectFollows, AppliedAgrees, OpenEnds,
     StreamIsOwned, Running, Applied

LEMMA BeginKeeps ==
  ASSUME RuntimeInv, NEW op \in Orders, Begin(op),
         op.do = "release" =>
           \A e \in stream : e.type = "task/activation-settled" => e.of # op.of
  PROVE  RuntimeInv'
<1> USE NoneAssumption
<1> DEFINE run == Operation(op)
<1>1. /\ UNCHANGED <<task, folded, stream, frozen, committed>>
      /\ open' = op /\ open \in {None, op} /\ op \notin committed
      /\ effect = None /\ folded # Broken
  BY DEF Begin, Answers, Locked
<1>2. Operation(op)' = Operation(op)
  BY <1>1, SameOperation
<1>3. op # None /\ op \in Commands
  BY DEF Orders
<1>4. /\ RuntimeTypeOK /\ AtRest /\ OpenEnds /\ StreamIsOwned
      /\ task \in TaskRecords
  BY DEF RuntimeInv, RuntimeTypeOK
<1>5. run.replayed \/ run.allowed
  BY DEF Begin, Throws
<1>6. run.replayed => Agrees
  <2>1. CASE open = None
    BY <1>4, <2>1 DEF AtRest
  <2>2. CASE open = op
    BY <1>1, <1>3, <1>4, <2>2 DEF OpenEnds, Applied, Run
  <2> QED
    BY <1>1, <2>1, <2>2
<1>7. ~run.replayed /\ run.allowed => Ahead(folded, run.events, stream) \in {run.after.state, Broken}
  <2>1. CASE open = None
    <3>1. folded = task.state
      BY <1>1, <1>4, <2>1 DEF AtRest, Agrees
    <3>2. op \notin Begun /\ \A e \in stream : Owned(e, Begun)
      BY <1>1, <1>4, <2>1 DEF Begun, StreamIsOwned
    <3> QED
      BY <1>4, <3>1, <3>2, FreshEnds
  <2>2. CASE open = op
    BY <1>1, <1>3, <1>4, <2>2 DEF OpenEnds, Applied, Run
  <2> QED
    BY <1>1, <2>1, <2>2
<1>8. effect' = IF run.replayed THEN [at |-> "applied", events |-> << >>, task |-> task]
                ELSE [at |-> "running", events |-> run.events, task |-> run.after]
  BY DEF Begin
<1>9. effect' \in Effects
  <2>1. run.after \in TaskRecords
    BY <1>4, AfterTypes
  <2>2. run.events \in Seq(EventRecords)
    BY <1>4, EventsTyped
  <2> HIDE DEF run
  <2> QED
    BY <1>4, <1>8, <2>1, <2>2 DEF Effects
<1>10. RuntimeTypeOK'
  BY <1>1, <1>3, <1>4, <1>9 DEF RuntimeTypeOK
<1>11. Agrees' = Agrees /\ Run' = run
  BY <1>1, <1>2 DEF Agrees, Run
<1>12. StreamIsOwned'
  <2>1. Begun \subseteq Begun'
    BY <1>1, <1>3 DEF Begun
  <2> QED
    BY <1>1, <1>4, <2>1, OwnedGrows DEF StreamIsOwned
<1>13. effect' # None
  BY <1>9
<1> HIDE DEF run
<1>14. CASE run.replayed
  <2>1. /\ effect' = [at |-> "applied", events |-> << >>, task |-> task]
        /\ ~Running' /\ Applied' /\ (effect.events)' = << >>
    BY <1>8, <1>13, <1>14 DEF Running, Applied
  <2>2. AppliedAgrees'
    <3>1. Rerunnable(op)'
      BY <1>2, <1>14 DEF Rerunnable, run
    <3> QED
      BY <1>1, <1>6, <1>11, <1>14, <2>1, <3>1 DEF AppliedAgrees
  <2> QED
    BY <1>1, <1>3, <1>10, <1>12, <2>1, <2>2 DEF RuntimeInv, AtRest, EffectFollows, OpenEnds
<1>15. CASE ~run.replayed
  <2>1. effect' = [at |-> "running", events |-> run.events, task |-> run.after]
    BY <1>8, <1>15
  <2>2. Running' /\ ~Applied' /\ (effect.events)' = run.events /\ (effect.task)' = run.after
    BY <1>13, <2>1 DEF Running, Applied
  <2>3. EffectFollows'
    BY <1>5, <1>11, <1>15, <2>2 DEF EffectFollows
  <2>4. OpenEnds'
    BY <1>1, <1>5, <1>7, <1>11, <1>15 DEF OpenEnds
  <2> QED
    BY <1>1, <1>3, <1>10, <1>12, <2>2, <2>3, <2>4 DEF RuntimeInv, AtRest, AppliedAgrees
<1> QED
  BY <1>14, <1>15

LEMMA RefuseKeeps ==
  ASSUME RuntimeInv, NEW op \in Orders, Refuse(op)
  PROVE  RuntimeInv'
<1> USE NoneAssumption
<1>1. /\ UNCHANGED <<task, folded, stream, frozen, committed, effect>>
      /\ open' = op /\ open \in {None, op} /\ op \notin committed
      /\ effect = None
  BY DEF Refuse, Answers, Locked
<1>2. Run' = Operation(op)
  BY <1>1, SameOperation DEF Run
<1>3. op # None /\ op \in Commands
  BY DEF Orders
<1>4. ~Operation(op).replayed /\ ~Operation(op).allowed
  BY DEF Refuse, Throws
<1>5. RuntimeTypeOK'
  BY <1>1, <1>3 DEF RuntimeTypeOK, RuntimeInv
<1>6. StreamIsOwned'
  <2>1. Begun \subseteq Begun'
    BY <1>1, <1>3 DEF Begun
  <2> QED
    BY <1>1, <2>1, OwnedGrows DEF StreamIsOwned, RuntimeInv
<1>7. ~Running' /\ ~Applied'
  BY <1>1 DEF Running, Applied
<1> QED
  BY <1>1, <1>2, <1>3, <1>4, <1>5, <1>6, <1>7
     DEF RuntimeInv, AtRest, EffectFollows, AppliedAgrees, OpenEnds

\* What is left to append is the same before and after a step of it.
LEMMA AppendedOnce ==
  ASSUME NEW es, NEW s, NEW x, NEW log,
         \/ es = <<x>>
         \/ \E y : es = <<x, y>> /\ x # y
         \/ \E y : es = <<y, x>> /\ y \in log
  PROVE  Ahead(FoldOnce(s, x, log), es, log \cup {x}) = Ahead(s, es, log)
<1> DEFINE t == FoldOnce(s, x, log)
           next == log \cup {x}
<1>1. FoldOnce(t, x, next) = t
  BY DEF FoldOnce
<1> HIDE DEF t
<1>2. CASE es = <<x>>
  BY <1>1, <1>2, AheadIs DEF t
<1>3. ASSUME NEW y, es = <<x, y>>, x # y
      PROVE  Ahead(t, es, next) = Ahead(s, es, log)
  <2>1. FoldOnce(t, y, next) = FoldOnce(t, y, log)
    BY <1>3 DEF FoldOnce
  <2>2. /\ Ahead(t, es, next) = FoldOnce(FoldOnce(t, x, next), y, next)
        /\ Ahead(s, es, log) = FoldOnce(t, y, log)
    BY <1>3, AheadIs DEF t
  <2> QED
    BY <1>1, <2>1, <2>2
<1>4. ASSUME NEW y, es = <<y, x>>, y \in log
      PROVE  Ahead(t, es, next) = Ahead(s, es, log)
  <2>1. FoldOnce(t, y, next) = t /\ FoldOnce(s, y, log) = s
    BY <1>4 DEF FoldOnce
  <2>2. /\ Ahead(t, es, next) = FoldOnce(FoldOnce(t, y, next), x, next)
        /\ Ahead(s, es, log) = FoldOnce(FoldOnce(s, y, log), x, log)
    BY <1>4, AheadIs
  <2> QED
    BY <1>1, <2>1, <2>2 DEF t
<1> QED
  BY <1>2, <1>3, <1>4 DEF t

\* Of an operation's choices only a lease's looks at the events.
LEMMA StillAllowed ==
  ASSUME NEW op \in Orders, UNCHANGED <<task, frozen>>
  PROVE  /\ (Operation(op).allowed)' <=> Operation(op).allowed
         /\ (Operation(op).after)' = Operation(op).after
         /\ (Operation(op).events)' = Operation(op).events
         /\ Operation(op).allowed /\ ~Operation(op).replayed => ~(Operation(op).replayed)'
<1>1. CASE op.do = "lease"
  <2>1. Operation(op) = LeaseTask(op) /\ Operation(op)' = LeaseTask(op)'
    BY <1>1 DEF Operation
  <2>2. /\ (LeaseTask(op).allowed)' <=> LeaseTask(op).allowed
        /\ (LeaseTask(op).after)' = LeaseTask(op).after
        /\ (LeaseTask(op).events)' = LeaseTask(op).events
    BY DEF LeaseTask
  <2>3. (LeaseTask(op).replayed)' => task.state = "EXECUTING"
    BY DEF LeaseTask
  <2>4. Operation(op).allowed => task.state \in Resumable \cup {"READY"}
    BY <1>1, AllowedIs
  <2> QED
    BY <2>1, <2>2, <2>3, <2>4 DEF Resumable
<1>2. CASE op.do # "lease"
  <2>1. Operation(op)' = Operation(op)
    BY <1>2, OrdersAre DEF Operation, ReleaseTaskLease, SubmitCandidate,
       RecordCandidateVerification, RecordCandidateVerificationFailure, QueueIntegration,
       RecordIntegration, RecordSpecsCommit, Settled, Delivered, IsCurrent, VerificationOf,
       IntegrationOf
  <2> QED
    BY <2>1
<1> QED
  BY <1>1, <1>2

LEMMA AppendKeeps ==
  ASSUME RuntimeInv, AppendEvent
  PROVE  RuntimeInv'
<1> USE NoneAssumption
<1>1. /\ UNCHANGED <<task, frozen, open, committed>>
      /\ effect # None /\ effect.events # << >> /\ folded # Broken
      /\ effect' = [effect EXCEPT !.events = Tail(@)]
  BY DEF AppendEvent
<1>2. /\ RuntimeTypeOK /\ AtRest /\ EffectFollows /\ AppliedAgrees /\ OpenEnds /\ StreamIsOwned
      /\ task \in TaskRecords /\ open \notin committed
      /\ open \in Orders \cup {None} /\ effect \in Effects
  BY <1>1 DEF RuntimeInv, RuntimeTypeOK
<1>3. open # None /\ open \in Orders
  BY <1>1, <1>2 DEF AtRest
<1>4. ~Applied /\ Running
  <2>1. effect.at \in {"running", "applied"}
    BY <1>2 DEF Effects
  <2> QED
    BY <1>1, <1>2, <2>1 DEF AppliedAgrees, Applied, Running
<1> DEFINE x == Head(effect.events)
           es == Run.events
<1>5. /\ ~Run.replayed /\ Run.allowed /\ effect.task = Run.after
      /\ Short(es, open)
  BY <1>2, <1>3, <1>4, EventsAreShort DEF EffectFollows, Run
<1>6. /\ Mine(x, open)
      /\ \/ es = <<x>> /\ Tail(effect.events) = << >>
         \/ \E y : es = <<x, y>> /\ x # y /\ Tail(effect.events) = <<y>>
         \/ \E y : es = <<y, x>> /\ y \in stream /\ Tail(effect.events) = << >>
  <2> HIDE DEF es
  <2>1. CASE effect.events = es
    <3>1. ASSUME NEW e, Mine(e, open), es = <<e>>
          PROVE  Mine(x, open) /\ es = <<x>> /\ Tail(effect.events) = << >>
      BY <2>1, <3>1
    <3>2. ASSUME NEW e, NEW f, Mine(e, open), e.type # f.type, es = <<e, f>>
          PROVE  Mine(x, open) /\ es = <<x, f>> /\ x # f /\ Tail(effect.events) = <<f>>
      <4>1. x = e /\ Tail(effect.events) = <<f>>
        BY <2>1, <3>2
      <4> QED
        BY <3>2, <4>1
    <3> QED
      BY <1>1, <1>5, <2>1, <3>1, <3>2 DEF Short
  <2>2. ASSUME NEW y, NEW z, es = <<y, z>>, effect.events = <<z>>, y \in stream
        PROVE  Mine(x, open) /\ es = <<y, x>> /\ Tail(effect.events) = << >>
    <3>1. x = z /\ Tail(effect.events) = << >>
      BY <2>2
    <3>2. Mine(z, open)
      <4>1. PICK e, f : Mine(e, open) /\ Mine(f, open) /\ es = <<e, f>>
        <5>1. es # << >> /\ \A e : es # <<e>>
          BY <2>2
        <5> QED
          BY <1>5, <5>1 DEF Short
      <4>2. f = z
        <5>1. <<e, f>>[2] = <<y, z>>[2]
          BY <2>2, <4>1
        <5> QED
          BY <5>1
      <4> QED
        BY <4>1, <4>2
    <3> QED
      BY <2>2, <3>1, <3>2
  <2> HIDE DEF x
  <2> QED
    BY <1>1, <1>2, <1>4, <2>1, <2>2 DEF EffectFollows, es
<1> HIDE DEF x, es
<1>7. /\ stream' = stream \cup {x}
      /\ folded' = FoldOnce(folded, x, stream)
  BY DEF AppendEvent, FoldOnce, x
<1>8. /\ Run'.after = Run.after /\ Run'.allowed /\ ~Run'.replayed /\ Run'.events = es
  BY <1>1, <1>3, <1>5, StillAllowed DEF Run, es
<1>9. PICK rest : rest = Tail(effect.events)
  OBVIOUS
<1>10. /\ effect'.events = rest /\ effect'.at = "running" /\ effect'.task = effect.task
       /\ rest \in Seq(EventRecords) => effect' \in Effects
  <2>1. effect' = [effect EXCEPT !.events = rest]
    BY <1>1, <1>9
  <2> QED
    BY <1>2, <1>4, <2>1 DEF Effects, Running
<1>11. rest \in Seq(EventRecords)
  <2>1. effect.events \in Seq(EventRecords)
    BY <1>2 DEF Effects
  <2> QED
    BY <1>1, <1>9, <2>1
<1>12. effect' # None /\ Running' /\ ~Applied'
  BY <1>10, <1>11 DEF Running, Applied
<1>13. RuntimeTypeOK'
  <2>1. folded' \in TaskStates \cup {Broken}
    <3>1. folded \in States
      BY <1>2 DEF RuntimeTypeOK, States
    <3> QED
      BY <1>6, <1>7, <3>1, FoldTypes DEF FoldOnce, Mine, States
  <2>2. stream' \subseteq EventRecords
    BY <1>2, <1>6, <1>7 DEF RuntimeTypeOK, Mine, Readable
  <2> QED
    BY <1>1, <1>2, <1>10, <1>11, <2>1, <2>2 DEF RuntimeTypeOK
<1>14. EffectFollows'
  <2>1. \/ \E y, z : es = <<y, z>> /\ rest = <<z>> /\ y \in stream'
        \/ rest = << >> /\ AllIn(es, stream')
    <3>1. CASE es = <<x>> /\ rest = << >>
      BY <1>7, <3>1 DEF AllIn
    <3>2. ASSUME NEW y, es = <<x, y>>, rest = <<y>>
          PROVE  \E u, z : es = <<u, z>> /\ rest = <<z>> /\ u \in stream'
      BY <1>7, <3>2
    <3>3. ASSUME NEW y, es = <<y, x>>, y \in stream
          PROVE  AllIn(es, stream')
      BY <1>7, <3>3 DEF AllIn
    <3> QED
      BY <1>6, <1>9, <3>1, <3>2, <3>3
  <2> QED
    BY <1>5, <1>8, <1>10, <2>1 DEF EffectFollows
<1>15. OpenEnds'
  <2>1. Ahead(folded', es, stream') = Ahead(folded, es, stream)
    BY <1>6, <1>7, AppendedOnce
  <2>2. Ahead(folded, es, stream) \in {Run.after.state, Broken}
    BY <1>2, <1>3, <1>4, <1>5 DEF OpenEnds, es
  <2> QED
    BY <1>8, <2>1, <2>2 DEF OpenEnds
<1>16. StreamIsOwned'
  <2>1. Owned(x, Begun) /\ Begun' = Begun
    <3>1. {open} \subseteq Begun /\ Owned(x, {open})
      BY <1>3, <1>6 DEF Begun, Mine
    <3> QED
      BY <1>1, <3>1, OwnedGrows DEF Begun
  <2> QED
    BY <1>2, <1>7, <2>1 DEF StreamIsOwned
<1> QED
  BY <1>1, <1>2, <1>3, <1>12, <1>13, <1>14, <1>15, <1>16 DEF RuntimeInv, AtRest, AppliedAgrees

\* What has been stored is recognised, or stored once more.
LEMMA StoredIsRerunnable ==
  ASSUME RuntimeInv, NEW op \in Orders, op = open, Running, effect.events = << >>, Store
  PROVE  Rerunnable(op)'
<1> USE NoneAssumption
<1>1. /\ UNCHANGED <<stream, open, committed>>
      /\ task' = Operation(op).after /\ Operation(op).allowed
      /\ task \in TaskRecords
      /\ op.do # "record" => frozen' = frozen
  BY DEF Store, RuntimeInv, EffectFollows, RuntimeTypeOK, Run
<1>2. AllIn(Operation(op).events, stream)
  <2>1. \A x, y : << >> # <<y>>
    OBVIOUS
  <2>2. AllIn(<< >>, stream)
    BY DEF AllIn
  <2> QED
    BY <2>1, <2>2 DEF RuntimeInv, EffectFollows, Run
<1>3. task' \in TaskRecords
  BY <1>1, AfterTypes
<1>4. CASE op.do = "lease"
  <2> DEFINE w == op.of[1]
  <2>1. task' = [task EXCEPT !.state = "EXECUTING", !.worker = w]
    BY <1>1, <1>4, AfterIs
  <2>2. task'.state = "EXECUTING" /\ task'.worker = w
    BY <1>1, <2>1 DEF TaskRecords
  <2>3. w \notin frozen' /\ frozen' = frozen
    BY <1>1, <1>4, AllowedIs
  <2>4. Leased(w) \in stream
    <3>1. Operation(op).events = IF task.state \in Resumable
                     THEN <<Event("task/resumed", Nobody, task.state, 0), Leased(w)>>
                     ELSE <<Leased(w)>>
      BY <1>4, EventsAre
    <3>2. CASE task.state \in Resumable
      <4>1. 2 \in DOMAIN Operation(op).events /\ Operation(op).events[2] = Leased(w)
        BY <3>1, <3>2
      <4> QED
        BY <1>2, <4>1 DEF AllIn
    <3>3. CASE task.state \notin Resumable
      <4>1. 1 \in DOMAIN Operation(op).events /\ Operation(op).events[1] = Leased(w)
        BY <3>1, <3>3
      <4> QED
        BY <1>2, <4>1 DEF AllIn
    <3> QED
      BY <3>2, <3>3
  <2>5. (LeaseTask(op).replayed)'
    BY <1>1, <2>2, <2>3, <2>4 DEF LeaseTask, Leased, Event
  <2>6. Operation(op)' = LeaseTask(op)'
    BY <1>4 DEF Operation
  <2> QED
    BY <2>5, <2>6 DEF Rerunnable
<1>5. CASE op.do = "release"
  <2>1. task' = [task EXCEPT !.state = Settled(op.as), !.worker = None]
    BY <1>1, <1>5, AfterIs
  <2> QED
    BY <1>1, <1>5, <2>1 DEF TaskRecords, Rerunnable
<1>6. CASE op.do = "submit"
  <2>1. task' = [task EXCEPT !.state = "CANDIDATE_SUBMITTED", !.candidate = op.of]
    BY <1>1, <1>6, AfterIs
  <2>2. /\ task'.state = "CANDIDATE_SUBMITTED" /\ task'.candidate = op.of
        /\ task'.worker = task.worker
    BY <1>1, <2>1 DEF TaskRecords
  <2>3. task'.worker = op.of[1] /\ op.of[1] \notin frozen'
    BY <1>1, <1>6, <2>2, AllowedIs
  <2>4. Operation(op)' = SubmitCandidate(op)'
    BY <1>6 DEF Operation
  <2>5. (SubmitCandidate(op).allowed)'
    BY <2>2, <2>3 DEF SubmitCandidate, CanMove
  <2>6. (SubmitCandidate(op).after)' = task'
    <3>1. (SubmitCandidate(op).after)' =
            [task' EXCEPT !.state = "CANDIDATE_SUBMITTED", !.candidate = op.of]
      BY DEF SubmitCandidate
    <3>2. PICK t \in TaskRecords : t = task'
      BY <1>3
    <3>3. [t EXCEPT !.state = t.state] = t /\ [t EXCEPT !.candidate = t.candidate] = t
      BY DEF TaskRecords
    <3> QED
      BY <2>2, <3>1, <3>2, <3>3
  <2>7. (SubmitCandidate(op).events)' = Operation(op).events
    <3>1. (SubmitCandidate(op).events)' = <<Event("task/candidate-submitted", op.of, "plain", 0)>>
      BY DEF SubmitCandidate, Event
    <3> QED
      BY <1>6, <3>1, EventsAre
  <2> QED
    BY <1>1, <1>2, <2>4, <2>5, <2>6, <2>7 DEF Rerunnable
<1>7. CASE op.do = "record"
  <2>1. task' = [task EXCEPT !.state = Verdict[op.as], !.verified = VerificationOf(op)]
    BY <1>1, <1>7, AfterIs
  <2>2. /\ task'.state = Verdict[op.as] /\ task'.verified = VerificationOf(op)
        /\ task'.candidate = task.candidate
    BY <1>1, <2>1 DEF TaskRecords
  <2>3. task'.candidate = op.of
    BY <1>1, <1>7, <2>2, AllowedIs
  <2>4. task'.state \notin UnderVerification
    <3>1. op.as \in Verdicts
      BY <1>7 DEF Orders
    <3> QED
      BY <2>2, <3>1 DEF UnderVerification, Verdict, Verdicts
  <2>5. (RecordCandidateVerification(op).replayed)'
    BY <2>2, <2>3, <2>4 DEF RecordCandidateVerification, IsCurrent, VerificationOf
  <2>6. Operation(op)' = RecordCandidateVerification(op)'
    BY <1>7 DEF Operation
  <2> QED
    BY <2>5, <2>6 DEF Rerunnable
<1>8. CASE op.do = "fail"
  <2>1. task' = [task EXCEPT !.state = IF @ \in UnderVerification THEN "REWORK" ELSE @]
    BY <1>1, <1>8, AfterIs
  <2>2. task'.state \notin UnderVerification /\ task'.candidate = task.candidate
    BY <1>1, <2>1 DEF TaskRecords, UnderVerification
  <2>3. Operation(op)' = RecordCandidateVerificationFailure(op)'
    BY <1>8 DEF Operation
  <2>4. (RecordCandidateVerificationFailure(op).allowed)'
    BY <1>1, <1>8, <2>2, AllowedIs DEF RecordCandidateVerificationFailure, IsCurrent
  <2>5. (RecordCandidateVerificationFailure(op).after)' = task'
    <3>1. (RecordCandidateVerificationFailure(op).after)' =
            [task' EXCEPT !.state = IF @ \in UnderVerification THEN "REWORK" ELSE @]
      BY DEF RecordCandidateVerificationFailure
    <3> QED
      BY <1>3, <2>2, <3>1 DEF TaskRecords
  <2>6. (RecordCandidateVerificationFailure(op).events)' = Operation(op).events
    <3>1. (RecordCandidateVerificationFailure(op).events)' =
            <<Event("verification/completed", op.of, op.as, op.nr)>>
      BY DEF RecordCandidateVerificationFailure, Event
    <3> QED
      BY <1>8, <3>1, EventsAre
  <2> QED
    BY <1>1, <1>2, <2>3, <2>4, <2>5, <2>6 DEF Rerunnable
<1>9. CASE op.do = "queue"
  <2>1. Operation(op)' = QueueIntegration(op)'
    BY <1>9 DEF Operation
  <2>2. (QueueIntegration(op).allowed)' /\ (QueueIntegration(op).after)' = task'
        /\ (QueueIntegration(op).events)' = << >>
    BY DEF QueueIntegration
  <2>3. AllIn(<< >>, stream')
    BY DEF AllIn
  <2> QED
    BY <2>1, <2>2, <2>3 DEF Rerunnable
<1>10. CASE op.do = "deliver"
  <2>1. task' = [task EXCEPT !.integrated = IntegrationOf(op),
                   !.state = IF op.as = "APPLIED" THEN "ACCEPTED" ELSE "INTEGRATION_FAILED"]
    BY <1>1, <1>10, AfterIs
  <2>2. task'.integrated = IntegrationOf(op)
    BY <1>1, <2>1 DEF TaskRecords
  <2>3. (RecordIntegration(op).replayed)'
    BY <2>2 DEF RecordIntegration, Delivered, IntegrationOf
  <2>4. Operation(op)' = RecordIntegration(op)'
    BY <1>10 DEF Operation
  <2> QED
    BY <2>3, <2>4 DEF Rerunnable
<1>11. CASE op.do = "specs"
  <2>1. task' = [task EXCEPT !.state = "ACCEPTED", !.specs = op.of]
    BY <1>1, <1>11, AfterIs
  <2>2. task'.state = "ACCEPTED" /\ task'.specs = op.of
    BY <1>1, <2>1 DEF TaskRecords
  <2>3. (RecordSpecsCommit(op).replayed)'
    BY <2>2 DEF RecordSpecsCommit
  <2>4. Operation(op)' = RecordSpecsCommit(op)'
    BY <1>11 DEF Operation
  <2> QED
    BY <2>3, <2>4 DEF Rerunnable
<1> QED
  BY <1>4, <1>5, <1>6, <1>7, <1>8, <1>9, <1>10, <1>11, OrdersAre

LEMMA StoreKeeps ==
  ASSUME RuntimeInv, Store
  PROVE  RuntimeInv'
<1> USE NoneAssumption
<1>1. /\ UNCHANGED <<folded, stream, open, committed>>
      /\ effect # None /\ effect.at = "running" /\ effect.events = << >>
      /\ task' = effect.task
      /\ effect' = [effect EXCEPT !.at = "applied"]
  BY DEF Store
<1>2. /\ RuntimeTypeOK /\ AtRest /\ EffectFollows /\ OpenEnds /\ StreamIsOwned
      /\ task \in TaskRecords /\ open \notin committed
      /\ open \in Orders \cup {None} /\ effect \in Effects
  BY <1>1 DEF RuntimeInv, RuntimeTypeOK
<1>3. open # None /\ open \in Orders /\ Running /\ ~Applied
  BY <1>1, <1>2 DEF AtRest, Running, Applied
<1>4. /\ ~Run.replayed /\ Run.allowed /\ task' = Run.after /\ AllIn(Run.events, stream)
  <2>1. \A x, y : << >> # <<y>>
    OBVIOUS
  <2>2. AllIn(<< >>, stream)
    BY DEF AllIn
  <2> QED
    BY <1>1, <1>2, <1>3, <2>1, <2>2 DEF EffectFollows
<1>5. Agrees'
  <2>1. Ahead(folded, Run.events, stream) = folded
    BY <1>2, <1>3, <1>4, AllInEnds DEF Run
  <2>2. folded \in {Run.after.state, Broken}
    BY <1>2, <1>3, <1>4, <2>1 DEF OpenEnds
  <2> QED
    BY <1>1, <1>4, <2>2 DEF Agrees
<1>6. Rerunnable(open)'
  <2>1. PICK op \in Orders : op = open
    BY <1>3
  <2>2. Rerunnable(op)'
    BY <1>1, <1>3, <2>1, StoredIsRerunnable
  <2>3. op = open'
    BY <1>1, <2>1
  <2> QED
    BY <2>2, <2>3 DEF Rerunnable
<1>7. effect' \in Effects /\ effect'.at = "applied" /\ effect'.events = << >>
  BY <1>1, <1>2 DEF Effects
<1>8. effect' # None /\ ~Running' /\ Applied'
  BY <1>7 DEF Running, Applied
<1>9. RuntimeTypeOK'
  <2>1. task' \in TaskRecords
    BY <1>2, <1>3, <1>4, AfterTypes DEF Run
  <2>2. frozen' \subseteq Agents
    <3>1. open.do = "record" => open.of[1] \in Agents
      BY <1>3, OrdersAre DEF Candidates, OfAttempts
    <3> QED
      BY <1>2, <3>1 DEF Store, RuntimeTypeOK
  <2> QED
    BY <1>1, <1>2, <1>7, <2>1, <2>2 DEF RuntimeTypeOK
<1>10. StreamIsOwned'
  BY <1>1, <1>2 DEF StreamIsOwned, Begun
<1> QED
  BY <1>1, <1>2, <1>3, <1>5, <1>6, <1>7, <1>8, <1>9, <1>10
     DEF RuntimeInv, AtRest, EffectFollows, AppliedAgrees, OpenEnds

LEMMA CommitKeeps ==
  ASSUME RuntimeInv, Commit
  PROVE  RuntimeInv'
<1> USE NoneAssumption
<1>1. /\ UNCHANGED <<task, folded, stream, frozen>>
      /\ effect # None /\ effect.at = "applied"
      /\ committed' = committed \cup {open} /\ open' = None /\ effect' = None
  BY DEF Commit
<1>2. open # None /\ open \in Commands /\ Agrees
  BY <1>1 DEF RuntimeInv, AtRest, AppliedAgrees, Applied, Orders
<1>3. RuntimeTypeOK'
  BY <1>1, <1>2 DEF RuntimeInv, RuntimeTypeOK
<1>4. StreamIsOwned'
  <2>1. Begun \subseteq Begun'
    BY <1>1 DEF Begun, RuntimeInv, RuntimeTypeOK
  <2> QED
    BY <1>1, <2>1, OwnedGrows DEF StreamIsOwned, RuntimeInv
<1>5. None \notin committed'
  BY <1>1, <1>2 DEF RuntimeInv, RuntimeTypeOK
<1> QED
  BY <1>1, <1>2, <1>3, <1>4, <1>5
     DEF RuntimeInv, AtRest, Agrees, EffectFollows, AppliedAgrees, OpenEnds, Running, Applied

LEMMA AbortKeeps ==
  ASSUME RuntimeInv, Abort
  PROVE  RuntimeInv'
<1>1. /\ UNCHANGED <<task, folded, stream, frozen, open, committed>> /\ effect' = None
  BY DEF Abort
<1>2. Run' = Run
  BY <1>1, SameOperation DEF Run, Operation
<1>3. ~Running' /\ ~Applied' /\ Agrees' = Agrees /\ StreamIsOwned' = StreamIsOwned
  BY <1>1 DEF Running, Applied, Agrees, StreamIsOwned, Begun
<1>4. RuntimeTypeOK'
  BY <1>1 DEF RuntimeInv, RuntimeTypeOK
<1>5. OpenEnds'
  <2>1. CASE ~Applied
    BY <1>1, <1>2, <1>3, <2>1 DEF RuntimeInv, OpenEnds
  <2>2. CASE Applied /\ open # None
    <3>1. open \in Orders /\ Agrees /\ Rerunnable(open) /\ task \in TaskRecords
      BY <2>2 DEF RuntimeInv, AppliedAgrees, RuntimeTypeOK
    <3>2. ASSUME ~Run.replayed, Run.allowed
          PROVE  Ahead(folded, Run.events, stream) \in {Run.after.state, Broken}
      <4>1. open.do # "release" \/ task.worker # None
        <5>1. ASSUME open.do = "release" PROVE task.worker # None
          <6>1. task.worker = open.of[1]
            BY <3>1, <3>2, <5>1, AllowedIs DEF Run
          <6>2. open.of[1] \in Agents
            BY <3>1, <5>1, OrdersAre DEF OfAttempts
          <6> QED
            BY <6>1, <6>2, NoneAssumption
        <5> QED
          BY <5>1
      <4>2. Run.after = task /\ AllIn(Run.events, stream)
        BY <3>1, <3>2, <4>1 DEF Rerunnable, Run
      <4>3. Ahead(folded, Run.events, stream) = folded
        BY <3>1, <4>2, AllInEnds DEF Run
      <4> QED
        BY <3>1, <4>2, <4>3 DEF Agrees
    <3> QED
      BY <1>1, <1>2, <1>3, <3>1, <3>2 DEF OpenEnds
  <2> QED
    BY <1>1, <2>1, <2>2 DEF OpenEnds
<1> QED
  BY <1>1, <1>3, <1>4, <1>5 DEF RuntimeInv, AtRest, EffectFollows, AppliedAgrees

LEMMA RuntimeStays ==
  ASSUME RuntimeInv, UNCHANGED runtimeVars
  PROVE  RuntimeInv'
<1>1. UNCHANGED <<task, folded, stream, frozen, open, committed, effect>>
  BY DEF runtimeVars
<1>2. Run' = Run
  BY <1>1, SameOperation DEF Run, Operation
<1>3. Rerunnable(open)' <=> Rerunnable(open)
  BY <1>1, <1>2 DEF Run, Rerunnable, AllIn
<1> QED
  BY <1>1, <1>2, <1>3 DEF RuntimeInv, RuntimeTypeOK, AtRest, EffectFollows, AppliedAgrees, OpenEnds,
     StreamIsOwned, Agrees, Running, Applied, Begun

-----------------------------------------------------------------------------
(* The hosts and the tools send only such commands                         *)

HostTypes == [Agents -> [at : HostStages, why : Reasons \cup {Staying}]]
ToolTypes == [Agents -> [at : ToolStages, of : Candidates \cup {Nobody},
                         v : Verifications \cup {None}, r : Integrations \cup {None}]]
StagesTyped ==
  /\ host \in HostTypes /\ tool \in ToolTypes
  /\ returned \subseteq Candidates /\ granted \subseteq Candidates
  /\ receipts \in 0..MaxReceipts
  /\ merged \in [Candidates -> {None, "APPLIED", "CONFLICT"}]

Orderly(t) ==
  /\ t.at # "idle" => t.of \in Candidates
  /\ t.at = "record" => t.v \in Verifications /\ t.v.of = t.of
  /\ t.at \in {"deliver", "specs"} => t.r \in Integrations /\ t.r.of = t.of
  /\ t.at = "specs" => t.r.as = "APPLIED"

LedgerInv ==
  /\ RuntimeInv /\ StagesTyped
  /\ \A a \in Agents : host[a].at = "leaving" => host[a].why \in Reasons
  /\ \A a \in Agents : Orderly(tool[a])

LEMMA TypesAre == RuntimeTypeOK /\ StagesTyped => TypeOK
<1> SUFFICES ASSUME RuntimeTypeOK, StagesTyped PROVE TypeOK
  OBVIOUS
<1>1. [host |-> host, tool |-> tool] \in Stages
  BY DEF StagesTyped, Stages, HostTypes, ToolTypes
<1> QED
  BY <1>1 DEF TypeOK, StagesTyped

LEMMA MakesOrder ==
  ASSUME NEW op, op = [do |-> op.do, of |-> op.of, as |-> op.as, nr |-> op.nr],
         op.do \in {"lease", "release", "submit", "record", "fail", "queue", "deliver", "specs"},
         op.of \in IF op.do \in OfAttempts THEN Agents \X {None} ELSE Candidates,
         op.do = "release" => op.as \in Reasons,
         op.do = "record" => op.as \in Verdicts /\ op.nr \in 1..MaxReceipts,
         op.do = "fail" => op.as = "REWORK",
         op.do = "deliver" => op.as \in {"APPLIED", "CONFLICT"},
         op.do = "specs" => op.as = "APPLIED",
         op.do \in {"lease", "submit", "queue"} => op.as = "plain",
         op.do # "record" => op.nr = 0
  PROVE  op \in Orders
<1>1. op.of \in Agents \X (Drafts \cup {None})
  BY DEF Candidates
<1>2. op.as \in Reasons \cup Verdicts \cup {"plain", "APPLIED", "CONFLICT"}
  BY DEF Verdicts
<1>3. op.nr \in 0..MaxReceipts
  BY ReceiptsAssumption
<1>4. op \in Commands
  BY <1>1, <1>2, <1>3 DEF Commands
<1> QED
  BY <1>4 DEF Orders

LEMMA HostOrders ==
  ASSUME LedgerInv, NEW a \in Agents, HostCalls(a)
  PROVE  /\ HostCommand(a) \in Orders
         /\ HostCommand(a).do = "release" => HostAt(a, "leaving") /\ HostCommand(a).of = <<a, None>>
<1>0. <<a, None>> \in Agents \X {None}
  OBVIOUS
<1>1. CASE HostAt(a, "leasing")
  <2>1. PICK op : op = [do |-> "lease", of |-> <<a, None>>, as |-> "plain", nr |-> 0] /\ op = HostCommand(a)
    BY <1>1 DEF HostCommand, LeaseBy, Command
  <2>2. op.do = "lease" /\ op.of = <<a, None>> /\ op.as = "plain" /\ op.nr = 0
    BY <2>1
  <2>3. op = [do |-> op.do, of |-> op.of, as |-> op.as, nr |-> op.nr]
    BY <2>1
  <2>4. op \in Orders
    BY <1>0, <2>2, <2>3, MakesOrder DEF OfAttempts
  <2> QED
    BY <2>1, <2>2, <2>4
<1>2. CASE ~HostAt(a, "leasing")
  <2>1. HostAt(a, "leaving") /\ host[a].why \in Reasons
    BY <1>2 DEF HostCalls, HostAt, LedgerInv
  <2>2. PICK op : /\ op = [do |-> "release", of |-> <<a, None>>, as |-> host[a].why, nr |-> 0]
                   /\ op = HostCommand(a)
    BY <1>2 DEF HostCommand, ReleaseBy, Command
  <2>3. op.do = "release" /\ op.of = <<a, None>> /\ op.as = host[a].why /\ op.nr = 0
    BY <2>2
  <2>4. op = [do |-> op.do, of |-> op.of, as |-> op.as, nr |-> op.nr]
    BY <2>2
  <2>5. op \in Orders
    BY <1>0, <2>1, <2>3, <2>4, MakesOrder DEF OfAttempts
  <2> QED
    BY <2>1, <2>2, <2>3, <2>5
<1> QED
  BY <1>1, <1>2

LEMMA ToolOrders ==
  ASSUME LedgerInv, NEW a \in Agents, ToolCalls(a)
  PROVE  /\ ToolCommand(a) \in Orders
         /\ ToolCommand(a).do = tool[a].at /\ ToolCommand(a).of = tool[a].of
         /\ tool[a].at = "record" => ToolCommand(a).as = tool[a].v.as /\ ToolCommand(a).nr = tool[a].v.nr
         /\ tool[a].at \in {"deliver", "specs"} => ToolCommand(a).as = tool[a].r.as
<1> DEFINE t == tool[a]
<1>1. /\ t \in [at : ToolStages, of : Candidates \cup {Nobody},
                v : Verifications \cup {None}, r : Integrations \cup {None}]
      /\ Orderly(t)
  BY DEF LedgerInv, StagesTyped, ToolTypes
<1>2. t.at \in {"submit", "record", "fail", "queue", "deliver", "specs"} /\ t.of \in Candidates
  BY <1>1 DEF ToolCalls, ToolStages, Orderly
<1>3. CASE t.at = "submit"
  <2>1. PICK op : op = [do |-> "submit", of |-> t.of, as |-> "plain", nr |-> 0] /\ op = ToolCommand(a)
    BY <1>3 DEF ToolCommand, Submit, Command
  <2>2. op.do = "submit" /\ op.of = t.of /\ op.as = "plain" /\ op.nr = 0
    BY <2>1
  <2>3. op = [do |-> op.do, of |-> op.of, as |-> op.as, nr |-> op.nr]
    BY <2>1
  <2>4. op \in Orders
    BY <1>2, <2>2, <2>3, MakesOrder DEF OfAttempts
  <2> QED
    BY <1>3, <2>1, <2>2, <2>4
<1>4. CASE t.at = "record"
  <2>1. t.v \in Verifications /\ t.v.of = t.of
    BY <1>1, <1>4 DEF Orderly
  <2>2. PICK op : op = [do |-> "record", of |-> t.of, as |-> t.v.as, nr |-> t.v.nr] /\ op = ToolCommand(a)
    BY <1>4, <2>1 DEF ToolCommand, Record, Command
  <2>3. t.v.as \in Verdicts /\ t.v.nr \in 1..MaxReceipts
    BY <2>1 DEF Verifications
  <2>4. op.do = "record" /\ op.of = t.of /\ op.as = t.v.as /\ op.nr = t.v.nr
    BY <2>2
  <2>5. op = [do |-> op.do, of |-> op.of, as |-> op.as, nr |-> op.nr]
    BY <2>2
  <2>6. op \in Orders
    BY <1>2, <2>3, <2>4, <2>5, MakesOrder DEF OfAttempts
  <2> QED
    BY <1>4, <2>2, <2>4, <2>6
<1>5. CASE t.at = "fail"
  <2>1. PICK op : op = [do |-> "fail", of |-> t.of, as |-> "REWORK", nr |-> 0] /\ op = ToolCommand(a)
    BY <1>5 DEF ToolCommand, RecordFailure, Command
  <2>2. op.do = "fail" /\ op.of = t.of /\ op.as = "REWORK" /\ op.nr = 0
    BY <2>1
  <2>3. op = [do |-> op.do, of |-> op.of, as |-> op.as, nr |-> op.nr]
    BY <2>1
  <2>4. op \in Orders
    BY <1>2, <2>2, <2>3, MakesOrder DEF OfAttempts
  <2> QED
    BY <1>5, <2>1, <2>2, <2>4
<1>6. CASE t.at = "queue"
  <2>1. PICK op : op = [do |-> "queue", of |-> t.of, as |-> "plain", nr |-> 0] /\ op = ToolCommand(a)
    BY <1>6 DEF ToolCommand, Queue, Command
  <2>2. op.do = "queue" /\ op.of = t.of /\ op.as = "plain" /\ op.nr = 0
    BY <2>1
  <2>3. op = [do |-> op.do, of |-> op.of, as |-> op.as, nr |-> op.nr]
    BY <2>1
  <2>4. op \in Orders
    BY <1>2, <2>2, <2>3, MakesOrder DEF OfAttempts
  <2> QED
    BY <1>6, <2>1, <2>2, <2>4
<1>7. CASE t.at \in {"deliver", "specs"}
  <2>1. /\ t.r \in Integrations /\ t.r.of = t.of
        /\ t.at = "specs" => t.r.as = "APPLIED"
    BY <1>1, <1>7 DEF Orderly
  <2>2. PICK op : op = [do |-> t.at, of |-> t.of, as |-> t.r.as, nr |-> 0] /\ op = ToolCommand(a)
    <3>1. CASE t.at = "deliver"
      BY <2>1, <3>1 DEF ToolCommand, Deliver, Command
    <3>2. CASE t.at = "specs"
      BY <2>1, <3>2 DEF ToolCommand, RecordSpecs, Command
    <3> QED
      BY <1>7, <3>1, <3>2
  <2>3. t.r.as \in {"APPLIED", "CONFLICT"}
    BY <2>1 DEF Integrations
  <2>4. op.do = t.at /\ op.of = t.of /\ op.as = t.r.as /\ op.nr = 0
    BY <2>2
  <2>5. op = [do |-> op.do, of |-> op.of, as |-> op.as, nr |-> op.nr]
    BY <2>2
  <2>6. op \in Orders
    BY <1>2, <1>7, <2>1, <2>3, <2>4, <2>5, MakesOrder DEF OfAttempts
  <2> QED
    BY <1>7, <2>2, <2>4, <2>6
<1> QED
  BY <1>2, <1>3, <1>4, <1>5, <1>6, <1>7

LEMMA LedgerInitially == Init => LedgerInv
<1> SUFFICES ASSUME Init PROVE LedgerInv
  OBVIOUS
<1> USE ReceiptsAssumption
<1>1. RuntimeInv
  BY RuntimeInitially DEF Init
<1>2. StagesTyped
  BY DEF Init, StagesTyped, HostTypes, ToolTypes, HostStages, ToolStages, Idle
<1>3. \A a \in Agents : host[a].at = "new" /\ tool[a].at = "idle"
  BY DEF Init, Idle
<1> QED
  BY <1>1, <1>2, <1>3 DEF LedgerInv, Orderly

\* What every step does to the runtime.
LEMMA RuntimeNext ==
  ASSUME LedgerInv, [Next]_vars
  PROVE  RuntimeInv'
<1>0. RuntimeInv
  BY DEF LedgerInv
<1>1. CASE UNCHANGED runtimeVars
  BY <1>0, <1>1, RuntimeStays
<1>2. ASSUME NEW a \in Agents, HostBegins(a)
      PROVE  RuntimeInv'
  <2>1. HostCalls(a) /\ Begin(HostCommand(a)) /\ (HostAt(a, "leaving") => ~SettledBefore(a))
    BY <1>2 DEF HostBegins, MustAsk
  <2>2. PICK op \in Orders : op = HostCommand(a)
    BY <2>1, HostOrders
  <2>3. op.do = "release" =>
          \A e \in stream : e.type = "task/activation-settled" => e.of # op.of
    <3>1. op.do = "release" => op.of = <<a, None>> /\ ~SettledBefore(a)
      BY <2>1, <2>2, HostOrders
    <3> QED
      BY <3>1 DEF SettledBefore
  <2> QED
    BY <1>0, <2>1, <2>2, <2>3, BeginKeeps
<1>3. ASSUME NEW a \in Agents, HostFails(a)
      PROVE  RuntimeInv'
  <2>1. CASE Refuse(HostCommand(a))
    <3>1. PICK op \in Orders : op = HostCommand(a)
      BY <1>3, HostOrders DEF HostFails, MustAsk
    <3> QED
      BY <1>0, <2>1, <3>1, RefuseKeeps
  <2>2. CASE TurnAway(HostCommand(a))
    BY <1>0, <2>2, RuntimeStays DEF TurnAway
  <2> QED
    BY <1>3, <2>1, <2>2 DEF HostFails
<1>4. ASSUME NEW a \in Agents, ToolBegins(a)
      PROVE  RuntimeInv'
  <2>1. PICK op \in Orders : op = ToolCommand(a)
    BY <1>4, ToolOrders DEF ToolBegins
  <2>2. op.do # "release"
    BY <1>4, <2>1, ToolOrders DEF ToolBegins, ToolCalls, LedgerInv, StagesTyped, ToolTypes, ToolStages
  <2> QED
    BY <1>0, <1>4, <2>1, <2>2, BeginKeeps DEF ToolBegins
<1>5. ASSUME NEW a \in Agents, ToolFails(a)
      PROVE  RuntimeInv'
  <2>1. CASE Refuse(ToolCommand(a))
    <3>1. PICK op \in Orders : op = ToolCommand(a)
      BY <1>5, ToolOrders DEF ToolFails
    <3> QED
      BY <1>0, <2>1, <3>1, RefuseKeeps
  <2>2. CASE TurnAway(ToolCommand(a))
    BY <1>0, <2>2, RuntimeStays DEF TurnAway
  <2> QED
    BY <1>5, <2>1, <2>2 DEF ToolFails
<1>6. CASE EffectStep
  BY <1>0, <1>6, AppendKeeps, StoreKeeps, CommitKeeps DEF EffectStep
<1>7. CASE Crash
  BY <1>0, <1>7, AbortKeeps DEF Crash
<1>8. ASSUME NEW a \in Agents,
             \/ Reserve(a) \/ HostCommits(a) \/ HostSkips(a)
             \/ \E why \in Reasons : Leave(a, why)
             \/ \E d \in Drafts : Call(a, d)
             \/ ToolCommits(a) \/ Read(a) \/ Verify(a) \/ Integrate(a)
      PROVE  UNCHANGED runtimeVars
  BY <1>8 DEF Reserve, HostCommits, HostSkips, Leave, Call, ToolCommits, Read, Verify, Integrate
<1>9. CASE UNCHANGED vars
  BY <1>1, <1>9 DEF vars
<1> QED
  BY <1>1, <1>2, <1>3, <1>4, <1>5, <1>6, <1>7, <1>8, <1>9 DEF Next, HostStep, ToolStep

-----------------------------------------------------------------------------
(* The stages of the hosts and the tools                                    *)

HostRecords == [at : HostStages, why : Reasons \cup {Staying}]
ToolRecords == [at : ToolStages, of : Candidates \cup {Nobody},
                v : Verifications \cup {None}, r : Integrations \cup {None}]
Leaving(h) == h.at = "leaving" => h.why \in Reasons

LEMMA HostBecomes ==
  ASSUME host \in HostTypes, \A b \in Agents : Leaving(host[b]),
         NEW a \in Agents, NEW h \in HostRecords, Leaving(h),
         host' = [host EXCEPT ![a] = h]
  PROVE  host' \in HostTypes /\ \A b \in Agents : Leaving(host'[b])
<1>1. host \in [Agents -> HostRecords]
  BY DEF HostTypes, HostRecords
<1>2. host' \in [Agents -> HostRecords]
  BY <1>1
<1>3. \A b \in Agents : host'[b] = IF b = a THEN h ELSE host[b]
  BY <1>1
<1> QED
  BY <1>2, <1>3 DEF HostTypes, HostRecords

\* One tool has moved: the others are where they were.
Moved(a, t) == tool' = [tool EXCEPT ![a] = t]

LEMMA ToolBecomes ==
  ASSUME tool \in ToolTypes, NEW a \in Agents, NEW t \in ToolRecords, Moved(a, t)
  PROVE  /\ tool' \in ToolTypes /\ tool'[a] = t
         /\ \A b \in Agents \ {a} : tool'[b] = tool[b]
<1>1. tool \in [Agents -> ToolRecords]
  BY DEF ToolTypes, ToolRecords
<1>2. tool' \in [Agents -> ToolRecords]
  BY <1>1 DEF Moved
<1> QED
  BY <1>1, <1>2 DEF ToolTypes, ToolRecords, Moved

\* Where a tool's steps take it.
LEMMA ToolIs ==
  ASSUME tool \in ToolTypes, NEW a \in Agents
  PROVE  /\ tool[a] \in ToolRecords
         /\ Drops(a) => Moved(a, Idle)
         /\ \A stage : ToolTo(a, stage) => Moved(a, [tool[a] EXCEPT !.at = stage])
<1>1. tool \in [Agents -> ToolRecords]
  BY DEF ToolTypes, ToolRecords
<1>2. tool[a] \in ToolRecords
  BY <1>1
<1>3. ASSUME NEW stage, ToolTo(a, stage)
      PROVE  Moved(a, [tool[a] EXCEPT !.at = stage])
  BY <1>1, <1>3 DEF ToolTo, Moved
<1> QED
  BY <1>2, <1>3 DEF Drops, Moved

\* What a tool has become when one of its calls takes a step, and what the
\* step is about.
Called(a, t) == t.at = "submit" /\ t.of \in Candidates
Went(a, t) ==
  LET s == tool[a] IN
  /\ t.of = s.of /\ t.r = s.r
  /\ \/ /\ t.v = s.v /\ ToolCalls(a) /\ effect = None /\ ToolCommand(a) \in committed
        /\ \/ s.at = "submit" /\ t.at = "read"
           \/ s.at = "record" /\ s.v.as = "ACCEPTED" /\ t.at = "queue"
           \/ s.at = "queue" /\ t.at = "integrate"
           \/ s.at = "deliver" /\ s.r.as = "APPLIED" /\ t.at = "specs"
     \/ /\ t.v = s.v /\ s.at = "read" /\ t.at = "verify"
        /\ task.candidate = s.of /\ task.verified = None
     \/ /\ t.v = task.verified /\ s.at = "read" /\ t.at = "queue"
        /\ task.candidate = s.of /\ task.verified # None
     \/ t.v = s.v /\ s.at = "verify" /\ t.at = "fail"
Verified(a, t) ==
  LET s == tool[a] IN
  /\ s.at = "verify" /\ t.at = "record" /\ t.of = s.of /\ t.r = s.r
  /\ t.v \in Verifications /\ t.v.of = t.of
  /\ granted' = IF t.v.as = "ACCEPTED" THEN granted \cup {t.of} ELSE granted
Integrated(a, t) ==
  LET s == tool[a] IN
  /\ s.at = "integrate" /\ t.at = "deliver" /\ t.of = s.of /\ t.v = s.v
  /\ t.r \in Integrations /\ t.r.of = t.of
  /\ merged' = [merged EXCEPT ![s.of] = t.r.as]
  /\ merged[s.of] \in IF t.r.as = "APPLIED" THEN {None} ELSE {None, t.r.as}
ToolMoves(a, t) ==
  /\ t \in ToolRecords /\ Moved(a, t)
  /\ \/ t = Idle /\ UNCHANGED <<granted, merged>>
     \/ Called(a, t) /\ UNCHANGED <<granted, merged>>
     \/ Went(a, t) /\ UNCHANGED <<granted, merged>>
     \/ Verified(a, t) /\ UNCHANGED merged
     \/ Integrated(a, t) /\ UNCHANGED granted

LEMMA ToolStepMoves ==
  ASSUME LedgerInv, NEW a \in Agents, ToolStep(a), ~ToolBegins(a)
  PROVE  /\ \E t : ToolMoves(a, t)
         /\ returned' \subseteq Candidates /\ granted' \subseteq Candidates
         /\ receipts' \in 0..MaxReceipts
         /\ merged' \in [Candidates -> {None, "APPLIED", "CONFLICT"}]
<1> DEFINE s == tool[a]
<1>1. /\ tool \in ToolTypes /\ s \in ToolRecords /\ Orderly(s)
      /\ returned \subseteq Candidates /\ granted \subseteq Candidates
      /\ receipts \in 0..MaxReceipts
      /\ merged \in [Candidates -> {None, "APPLIED", "CONFLICT"}]
  BY ToolIs DEF LedgerInv, StagesTyped
<1>2. Idle \in ToolRecords
  BY DEF Idle, ToolRecords, ToolStages
<1>3. ASSUME Drops(a), UNCHANGED <<granted, merged>>
      PROVE  \E t : ToolMoves(a, t)
  BY <1>1, <1>2, <1>3, ToolIs DEF ToolMoves
<1>4. ASSUME Returns(a), s.at # "idle"
      PROVE  Drops(a) /\ returned' \subseteq Candidates
  BY <1>1, <1>4 DEF Returns, Orderly
<1>5. ASSUME NEW stage \in ToolStages, ToolTo(a, stage)
      PROVE  \E t \in ToolRecords : /\ Moved(a, t)
                                    /\ t.at = stage /\ t.of = s.of /\ t.v = s.v /\ t.r = s.r
  <2>1. PICK t : t = [s EXCEPT !.at = stage] /\ Moved(a, t)
    BY <1>1, <1>5, ToolIs
  <2>2. t \in ToolRecords /\ t.at = stage /\ t.of = s.of /\ t.v = s.v /\ t.r = s.r
    BY <1>1, <2>1 DEF ToolRecords
  <2> QED
    BY <2>1, <2>2
<1>6. ASSUME NEW d \in Drafts, Call(a, d)
      PROVE  /\ \E t : ToolMoves(a, t)
             /\ UNCHANGED <<returned, granted, receipts, merged>>
  <2>1. PICK t : t = [Idle EXCEPT !.at = "submit", !.of = <<a, d>>] /\ Moved(a, t)
    BY <1>6 DEF Call, Moved
  <2>2. t \in ToolRecords /\ Called(a, t)
    BY <2>1 DEF ToolRecords, ToolStages, Called, Candidates, Idle
  <2> QED
    BY <1>6, <2>1, <2>2 DEF ToolMoves, Call
<1>7. ASSUME ToolFails(a)
      PROVE  /\ \E t : ToolMoves(a, t)
             /\ UNCHANGED <<returned, granted, receipts, merged>>
  BY <1>3, <1>7 DEF ToolFails
<1>8. ASSUME ToolCommits(a)
      PROVE  /\ \E t : ToolMoves(a, t)
             /\ returned' \subseteq Candidates /\ UNCHANGED <<granted, receipts, merged>>
  <2>1. /\ ToolCalls(a) /\ effect = None /\ ToolCommand(a) \in committed
        /\ UNCHANGED <<granted, receipts, merged>>
    BY <1>8 DEF ToolCommits
  <2>2. s.at \in {"submit", "record", "fail", "queue", "deliver", "specs"}
    BY <1>1, <2>1 DEF ToolCalls, ToolRecords, ToolStages
  <2>3. ASSUME NEW stage \in ToolStages, ToolTo(a, stage),
               \/ s.at = "submit" /\ stage = "read"
               \/ s.at = "record" /\ s.v.as = "ACCEPTED" /\ stage = "queue"
               \/ s.at = "queue" /\ stage = "integrate"
               \/ s.at = "deliver" /\ s.r.as = "APPLIED" /\ stage = "specs"
        PROVE  \E t : ToolMoves(a, t)
    BY <1>5, <2>1, <2>3 DEF ToolMoves, Went
  <2>4. {"read", "queue", "integrate", "specs"} \subseteq ToolStages
    BY DEF ToolStages
  <2>5. CASE s.at = "submit"
    <3>1. ToolTo(a, "read") /\ UNCHANGED returned
      BY <1>8, <2>5 DEF ToolCommits
    <3> QED
      BY <1>1, <2>1, <2>3, <2>4, <2>5, <3>1
  <2>6. CASE s.at = "record"
    <3>1. \/ s.v.as = "ACCEPTED" /\ ToolTo(a, "queue") /\ UNCHANGED returned
          \/ Returns(a)
      BY <1>8, <2>6 DEF ToolCommits
    <3> QED
      BY <1>1, <1>3, <1>4, <2>1, <2>3, <2>4, <2>6, <3>1
  <2>7. CASE s.at = "fail"
    <3>1. Drops(a) /\ UNCHANGED returned
      BY <1>8, <2>7 DEF ToolCommits
    <3> QED
      BY <1>1, <1>3, <2>1, <3>1
  <2>8. CASE s.at = "queue"
    <3>1. ToolTo(a, "integrate") /\ UNCHANGED returned
      BY <1>8, <2>8 DEF ToolCommits
    <3> QED
      BY <1>1, <2>1, <2>3, <2>4, <2>8, <3>1
  <2>9. CASE s.at = "deliver"
    <3>1. \/ s.r.as = "APPLIED" /\ ToolTo(a, "specs") /\ UNCHANGED returned
          \/ Returns(a)
      BY <1>8, <2>9 DEF ToolCommits
    <3> QED
      BY <1>1, <1>3, <1>4, <2>1, <2>3, <2>4, <2>9, <3>1
  <2>10. CASE s.at = "specs"
    <3>1. Returns(a)
      BY <1>8, <2>10 DEF ToolCommits
    <3> QED
      BY <1>3, <1>4, <2>1, <2>10, <3>1
  <2> QED
    BY <2>1, <2>2, <2>5, <2>6, <2>7, <2>8, <2>9, <2>10
<1>9. ASSUME Read(a)
      PROVE  /\ \E t : ToolMoves(a, t)
             /\ returned' \subseteq Candidates /\ UNCHANGED <<granted, receipts, merged>>
  <2>1. s.at = "read" /\ UNCHANGED <<granted, receipts, merged>>
    BY <1>9 DEF Read, ToolAt
  <2>2. \/ Drops(a) /\ UNCHANGED returned
        \/ /\ task.candidate = s.of /\ task.verified = None
           /\ ToolTo(a, "verify") /\ UNCHANGED returned
        \/ /\ task.candidate = s.of /\ task.verified # None
           /\ tool' = [tool EXCEPT ![a].at = "queue", ![a].v = task.verified]
           /\ UNCHANGED returned
        \/ Returns(a)
    BY <1>9 DEF Read, ToolAt
  <2>3. CASE Drops(a) /\ UNCHANGED returned
    BY <1>1, <1>3, <2>1, <2>3
  <2>4. CASE /\ task.candidate = s.of /\ task.verified = None
             /\ ToolTo(a, "verify") /\ UNCHANGED returned
    <3>1. "verify" \in ToolStages
      BY DEF ToolStages
    <3> QED
      BY <1>1, <1>5, <2>1, <2>4, <3>1 DEF ToolMoves, Went
  <2>5. CASE /\ task.candidate = s.of /\ task.verified # None
             /\ tool' = [tool EXCEPT ![a].at = "queue", ![a].v = task.verified]
             /\ UNCHANGED returned
    <3>1. PICK t : t = [s EXCEPT !.at = "queue", !.v = task.verified]
      OBVIOUS
    <3>2. task.verified \in Verifications \cup {None}
      BY DEF LedgerInv, RuntimeInv, RuntimeTypeOK, TaskRecords
    <3>3. t \in ToolRecords /\ t.at = "queue" /\ t.of = s.of /\ t.v = task.verified /\ t.r = s.r
      BY <1>1, <3>1, <3>2 DEF ToolRecords, ToolStages
    <3>4. Moved(a, t)
      BY <2>5, <3>1, <1>1 DEF Moved, ToolTypes
    <3> QED
      BY <1>1, <2>1, <2>5, <3>3, <3>4 DEF ToolMoves, Went
  <2>6. CASE Returns(a)
    BY <1>3, <1>4, <2>1, <2>6
  <2> QED
    BY <2>2, <2>3, <2>4, <2>5, <2>6
<1>10. ASSUME Verify(a)
       PROVE  /\ \E t : ToolMoves(a, t)
              /\ granted' \subseteq Candidates /\ receipts' \in 0..MaxReceipts
              /\ UNCHANGED <<returned, merged>>
  <2>1. s.at = "verify" /\ s.of \in Candidates /\ UNCHANGED <<returned, merged>>
    BY <1>1, <1>10 DEF Verify, ToolAt, Orderly
  <2>2. CASE ToolTo(a, "fail") /\ UNCHANGED <<receipts, granted>>
    <3>1. "fail" \in ToolStages
      BY DEF ToolStages
    <3> QED
      BY <1>1, <1>5, <2>1, <2>2, <3>1 DEF ToolMoves, Went
  <2>3. ASSUME NEW verdict \in Verdicts,
               receipts < MaxReceipts, receipts' = receipts + 1,
               tool' = [tool EXCEPT ![a].at = "record", ![a].v =
                          [of |-> s.of, as |-> verdict, nr |-> receipts + 1]],
               granted' = IF verdict = "ACCEPTED" THEN granted \cup {s.of} ELSE granted
        PROVE  (\E t : ToolMoves(a, t)) /\ granted' \subseteq Candidates /\ receipts' \in 0..MaxReceipts
    <3>1. PICK v : v = [of |-> s.of, as |-> verdict, nr |-> receipts + 1]
      OBVIOUS
    <3>2. receipts + 1 \in 1..MaxReceipts /\ receipts' \in 0..MaxReceipts
      BY <1>1, <2>3, ReceiptsAssumption
    <3>3. v \in Verifications /\ v.of = s.of /\ v.as = verdict
      BY <2>1, <3>1, <3>2 DEF Verifications
    <3>4. PICK t : t = [s EXCEPT !.at = "record", !.v = v]
      OBVIOUS
    <3>5. t \in ToolRecords /\ t.at = "record" /\ t.of = s.of /\ t.v = v /\ t.r = s.r
      BY <1>1, <3>3, <3>4 DEF ToolRecords, ToolStages
    <3>6. Moved(a, t)
      BY <2>3, <3>1, <3>4, <1>1 DEF Moved, ToolTypes
    <3>7. Verified(a, t)
      BY <2>1, <2>3, <3>3, <3>5 DEF Verified
    <3> QED
      BY <1>1, <2>1, <2>3, <3>2, <3>5, <3>6, <3>7 DEF ToolMoves
  <2> QED
    BY <1>1, <1>10, <2>1, <2>2, <2>3 DEF Verify
<1>11. ASSUME Integrate(a)
       PROVE  /\ \E t : ToolMoves(a, t)
              /\ merged' \in [Candidates -> {None, "APPLIED", "CONFLICT"}]
              /\ UNCHANGED <<returned, granted, receipts>>
  <2>1. s.at = "integrate" /\ s.of \in Candidates /\ UNCHANGED <<returned, granted, receipts>>
    BY <1>1, <1>11 DEF Integrate, ToolAt, Orderly
  <2>2. CASE Drops(a) /\ UNCHANGED merged
    BY <1>1, <1>3, <2>1, <2>2
  <2>3. ASSUME NEW end \in {"APPLIED", "CONFLICT"},
               merged[s.of] \in IF end = "APPLIED" THEN {None} ELSE {None, end},
               merged' = [merged EXCEPT ![s.of] = end],
               tool' = [tool EXCEPT ![a].at = "deliver", ![a].r = [of |-> s.of, as |-> end]]
        PROVE  (\E t : ToolMoves(a, t)) /\ merged' \in [Candidates -> {None, "APPLIED", "CONFLICT"}]
    <3>1. PICK r : r = [of |-> s.of, as |-> end]
      OBVIOUS
    <3>2. r \in Integrations /\ r.of = s.of /\ r.as = end
      BY <2>1, <3>1 DEF Integrations
    <3>3. PICK t : t = [s EXCEPT !.at = "deliver", !.r = r]
      OBVIOUS
    <3>4. t \in ToolRecords /\ t.at = "deliver" /\ t.of = s.of /\ t.v = s.v /\ t.r = r
      BY <1>1, <3>2, <3>3 DEF ToolRecords, ToolStages
    <3>5. Moved(a, t)
      BY <2>3, <3>1, <3>3, <1>1 DEF Moved, ToolTypes
    <3>6. Integrated(a, t)
      BY <2>1, <2>3, <3>2, <3>4 DEF Integrated
    <3> QED
      BY <1>1, <2>1, <2>3, <3>4, <3>5, <3>6 DEF ToolMoves
  <2> QED
    BY <1>1, <1>11, <2>1, <2>2, <2>3 DEF Integrate
<1> QED
  BY <1>1, <1>6, <1>7, <1>8, <1>9, <1>10, <1>11 DEF ToolStep

LEMMA MovedIsOrderly ==
  ASSUME LedgerInv, NEW a \in Agents, NEW t, ToolMoves(a, t)
  PROVE  Orderly(t)
<1>1. tool[a] \in ToolRecords /\ Orderly(tool[a])
  BY ToolIs DEF LedgerInv, StagesTyped
<1>2. CASE t = Idle
  BY <1>2 DEF Orderly, Idle
<1>3. CASE Called(a, t)
  BY <1>3 DEF Orderly, Called
<1>4. CASE Went(a, t)
  BY <1>1, <1>4 DEF Orderly, Went
<1>5. CASE Verified(a, t)
  BY <1>1, <1>5 DEF Orderly, Verified
<1>6. CASE Integrated(a, t)
  BY <1>1, <1>6 DEF Orderly, Integrated
<1> QED
  BY <1>2, <1>3, <1>4, <1>5, <1>6 DEF ToolMoves

\* Host steps leave what the tools and git know alone.
LEMMA HostStepKeeps ==
  ASSUME LedgerInv, NEW a \in Agents, HostStep(a)
  PROVE  /\ host' \in HostTypes /\ \A b \in Agents : Leaving(host'[b])
         /\ UNCHANGED <<tool, returned, receipts, granted, merged>>
<1>1. host \in HostTypes /\ \A b \in Agents : Leaving(host[b])
  BY DEF LedgerInv, StagesTyped, Leaving
<1>2. ASSUME NEW stage \in HostStages \ {"leaving"}, HostTo(a, stage)
      PROVE  host' \in HostTypes /\ \A b \in Agents : Leaving(host'[b])
  <2>1. PICK h : h = [at |-> stage, why |-> Staying] /\ host' = [host EXCEPT ![a] = h]
    BY <1>2 DEF HostTo
  <2>2. h \in HostRecords /\ Leaving(h)
    BY <2>1 DEF HostRecords, Leaving
  <2> QED
    BY <1>1, <2>1, <2>2, HostBecomes
<1>3. {"leasing", "working", "gone"} \subseteq HostStages \ {"leaving"}
  BY DEF HostStages
<1>4. ASSUME NEW why \in Reasons, Leave(a, why)
      PROVE  host' \in HostTypes /\ \A b \in Agents : Leaving(host'[b])
  <2>1. PICK h : h = [at |-> "leaving", why |-> why] /\ host' = [host EXCEPT ![a] = h]
    BY <1>4 DEF Leave
  <2>2. h \in HostRecords /\ Leaving(h)
    BY <2>1 DEF HostRecords, Leaving, HostStages
  <2> QED
    BY <1>1, <2>1, <2>2, HostBecomes
<1>5. CASE Reserve(a)
  BY <1>2, <1>3, <1>5 DEF Reserve
<1>6. CASE HostBegins(a)
  BY <1>1, <1>6 DEF HostBegins, hostVars
<1>7. CASE HostCommits(a)
  BY <1>2, <1>3, <1>7 DEF HostCommits
<1>8. CASE HostFails(a)
  BY <1>2, <1>3, <1>8 DEF HostFails
<1>9. CASE HostSkips(a)
  BY <1>2, <1>3, <1>9 DEF HostSkips
<1>10. CASE \E why \in Reasons : Leave(a, why)
  BY <1>4, <1>10 DEF Leave
<1> QED
  BY <1>5, <1>6, <1>7, <1>8, <1>9, <1>10 DEF HostStep

LEMMA LedgerNext ==
  ASSUME LedgerInv, [Next]_vars
  PROVE  LedgerInv'
<1>0. RuntimeInv'
  BY RuntimeNext
<1>1. CASE UNCHANGED hostVars
  BY <1>0, <1>1 DEF hostVars, LedgerInv, StagesTyped, Orderly
<1>2. ASSUME NEW a \in Agents, HostStep(a)
      PROVE  LedgerInv'
  BY <1>0, <1>2, HostStepKeeps DEF LedgerInv, StagesTyped, Leaving, Orderly
<1>3. ASSUME NEW a \in Agents, ToolStep(a), ~ToolBegins(a)
      PROVE  LedgerInv'
  <2>1. PICK t : ToolMoves(a, t)
    BY <1>3, ToolStepMoves
  <2>2. Orderly(t) /\ t \in ToolRecords /\ Moved(a, t)
    BY <2>1, MovedIsOrderly DEF ToolMoves
  <2>3. /\ tool \in ToolTypes /\ host \in HostTypes
        /\ \A b \in Agents : Leaving(host[b])
        /\ \A b \in Agents : Orderly(tool[b])
    BY DEF LedgerInv, StagesTyped, Leaving
  <2>4. tool' \in ToolTypes /\ \A b \in Agents : Orderly(tool'[b])
    BY <2>2, <2>3, ToolBecomes
  <2>5. UNCHANGED host
    BY <1>3 DEF ToolStep, Call, ToolFails, ToolCommits, Read, Verify, Integrate
  <2>6. StagesTyped'
    BY <1>3, <2>3, <2>4, <2>5, ToolStepMoves DEF StagesTyped
  <2> QED
    BY <1>0, <2>3, <2>4, <2>5, <2>6 DEF LedgerInv, Leaving, Orderly
<1>4. CASE Crash
  <2>1. /\ tool' = [a \in Agents |-> Idle]
        /\ UNCHANGED <<returned, receipts, granted, merged>>
        /\ host' = [a \in Agents |-> IF host[a].at \in {"working", "leaving"}
                                       THEN [at |-> "dead", why |-> Staying] ELSE host[a]]
    BY <1>4 DEF Crash
  <2>2. host \in [Agents -> HostRecords] /\ \A b \in Agents : Leaving(host[b])
    BY DEF LedgerInv, StagesTyped, HostTypes, HostRecords, Leaving
  <2>3. PICK h : h = [at |-> "dead", why |-> Staying]
    OBVIOUS
  <2>4. h \in HostRecords /\ Leaving(h)
    BY <2>3 DEF HostRecords, HostStages, Leaving
  <2>5. host' \in [Agents -> HostRecords] /\ \A b \in Agents : Leaving(host'[b])
    BY <2>1, <2>2, <2>3, <2>4
  <2>6. Idle \in ToolRecords /\ Orderly(Idle)
    BY DEF Idle, ToolRecords, ToolStages, Orderly
  <2>7. tool' \in ToolTypes /\ \A b \in Agents : Orderly(tool'[b])
    BY <2>1, <2>6 DEF ToolTypes, ToolRecords
  <2>8. StagesTyped'
    BY <2>1, <2>5, <2>7 DEF StagesTyped, LedgerInv, HostTypes, HostRecords
  <2> QED
    BY <1>0, <2>5, <2>7, <2>8 DEF LedgerInv, Leaving, Orderly
<1>5. ASSUME NEW a \in Agents, ToolBegins(a)
      PROVE  UNCHANGED hostVars
  BY <1>5 DEF ToolBegins
<1>6. EffectStep \/ UNCHANGED vars => UNCHANGED hostVars
  BY DEF EffectStep, vars
<1> QED
  BY <1>1, <1>2, <1>3, <1>4, <1>5, <1>6 DEF Next

LEMMA LedgerIsKept == Spec => []LedgerInv
<1>1. Init => LedgerInv
  BY LedgerInitially
<1>2. LedgerInv /\ [Next]_vars => LedgerInv'
  BY LedgerNext
<1> QED
  BY <1>1, <1>2, PTL DEF Spec

\* The stored Task, the event stream, the kernel's commands and the stages of
\* hosts and tools stay in their types (runtime.ts, worker.ts).
THEOREM CandidateTypeCorrectness == Spec => []TypeOK
<1>1. LedgerInv => TypeOK
  BY TypesAre DEF LedgerInv, RuntimeInv
<1> QED
  BY <1>1, LedgerIsKept, PTL

\* Whatever crashes and refusals came before, the stored Task and the projection
\* of the Mission's events agree as soon as no command is open, unless the
\* projection cannot be computed (runtime.ts and task-reducer.ts).
THEOREM RecordAndProjectionAgree == Spec => []RecordFollowsLedger
<1>1. LedgerInv => RecordFollowsLedger
  BY DEF LedgerInv, RuntimeInv, AtRest, Agrees, RecordFollowsLedger
<1> QED
  BY <1>1, LedgerIsKept, PTL

\* An effect that was applied and runs again, because its receipt was lost with
\* the process, is recognised or stores the same record and appends nothing, a
\* release apart (runtime.ts, the early returns and #append).
THEOREM AppliedEffectsMayRunAgain == Spec => []RerunsAreIdempotent
<1>1. ASSUME LedgerInv PROVE RerunsAreIdempotent
  <2>1. SUFFICES ASSUME effect # None, effect.at = "applied", open.do # "release"
                 PROVE  \/ Run.replayed
                        \/ /\ Run.allowed /\ Run.after = task
                           /\ \A e \in Range(Run.events) : e \in stream
    BY DEF RerunsAreIdempotent, Run
  <2>2. Rerunnable(open)
    BY <1>1, <2>1 DEF LedgerInv, RuntimeInv, AppliedAgrees, Applied
  <2>3. ASSUME AllIn(Run.events, stream)
        PROVE  \A e \in Range(Run.events) : e \in stream
    BY <2>3 DEF AllIn, Range
  <2> QED
    BY <2>1, <2>2, <2>3 DEF Rerunnable, Run
<1> QED
  BY <1>1, LedgerIsKept, PTL

-----------------------------------------------------------------------------
(* What the record, the tools and git know of the Candidates               *)

\* If the record's verification is the current Candidate's, v is that Candidate.
Tip(v) == task.candidate = task.verified.of => v = task.candidate
IsApplied(r) == r # None /\ r.as = "APPLIED"

RecordIsProven ==
  /\ task.state \in {"WAITING_INTEGRATION", "ACCEPTED", "INTEGRATION_FAILED"} =>
       /\ task.verified # None /\ task.verified.as = "ACCEPTED"
       /\ task.verified.of = task.candidate /\ task.candidate \in granted
  /\ task.state = "ACCEPTED" =>
       /\ merged[task.candidate] = "APPLIED"
       /\ task.integrated # None /\ task.integrated.of = task.candidate
  /\ IsApplied(task.integrated) => task.state = "ACCEPTED"
  /\ task.verified # None => Submit(task.verified.of) \in committed

\* A tool's call: its Candidate was submitted; what it verifies has no other
\* Candidate's verification in the record; what it integrates is not behind.
Fine(t) ==
  /\ t.at \notin {"idle", "submit"} => Submit(t.of) \in committed
  /\ t.at \in {"verify", "record", "fail"} /\ t.of = task.candidate =>
       task.verified = None \/ task.verified.of = t.of
  /\ t.at = "record" /\ t.v.as = "ACCEPTED" => t.of \in granted
  /\ t.at \in {"queue", "integrate", "deliver", "specs"} => task.verified # None /\ Tip(t.of)
  /\ t.at \in {"deliver", "specs"} /\ t.r.as = "APPLIED" => merged[t.of] = "APPLIED"
  /\ t.at = "specs" => task.state = "ACCEPTED"

\* What a running operation relies on, and what one that has stored its record
\* leaves behind for good.
Due(op) ==
  /\ op.do = "record" =>
       /\ op.as = "ACCEPTED" => op.of \in granted
       /\ Submit(op.of) \in committed
       /\ task.verified = None \/ task.verified.of = op.of
  /\ op.do = "deliver" =>
       /\ op.as = "APPLIED" => merged[op.of] = "APPLIED"
       /\ op.of = task.candidate
  /\ op.do = "specs" => task.state = "ACCEPTED"
Done(op) ==
  /\ op.do = "record" => task.verified # None /\ Tip(op.of)
  /\ op.do = "deliver" /\ op.as = "APPLIED" => task.state = "ACCEPTED"

ProvenInv ==
  /\ RecordIsProven
  /\ \A a \in Agents : Fine(tool[a])
  /\ Running => Due(open)
  /\ Applied => Done(open)
  /\ \A op \in committed : Done(op)

LEMMA ProvenInitially == Init => ProvenInv
<1> SUFFICES ASSUME Init PROVE ProvenInv
  OBVIOUS
<1>1. \A a \in Agents : tool[a].at = "idle"
  BY DEF Init, Idle
<1>2. /\ task.state = "READY" /\ task.verified = None /\ task.integrated = None
      /\ committed = {} /\ effect = None
  BY DEF Init, RuntimeInit
<1> QED
  BY <1>1, <1>2 DEF ProvenInv, RecordIsProven, IsApplied, Fine, Running, Applied

\* The record stays what it is, but for a state that is neither new to the
\* proof nor lost to it.
LEMMA StateOnly ==
  ASSUME ProvenInv,
         UNCHANGED <<tool, granted, merged>>, committed \subseteq committed',
         task'.candidate = task.candidate, task'.verified = task.verified,
         task'.integrated = task.integrated,
         task.state = "ACCEPTED" => task'.state = "ACCEPTED",
         task'.state \in {"WAITING_INTEGRATION", "ACCEPTED", "INTEGRATION_FAILED"} =>
           task'.state = task.state
  PROVE  /\ RecordIsProven' /\ \A a \in Agents : Fine(tool[a])'
         /\ \A op : Done(op) => Done(op)'
<1>1. RecordIsProven'
  BY DEF ProvenInv, RecordIsProven, IsApplied
<1>2. \A a \in Agents : Fine(tool[a])'
  BY DEF ProvenInv, Fine, Tip
<1>3. \A op : Done(op) => Done(op)'
  BY DEF Done, Tip
<1> QED
  BY <1>1, <1>2, <1>3

\* An operation that begins relies on what its sender knows.
LEMMA BegunIsDue ==
  ASSUME LedgerInv, ProvenInv, NEW op \in Orders, Begin(op),
         op.do = "record" =>
           /\ op.as = "ACCEPTED" => op.of \in granted
           /\ Submit(op.of) \in committed
           /\ op.of = task.candidate => task.verified = None \/ task.verified.of = op.of,
         op.do = "deliver" =>
           /\ op.as = "APPLIED" => merged[op.of] = "APPLIED"
           /\ task.verified # None /\ Tip(op.of),
         op.do = "specs" => task.state = "ACCEPTED",
         UNCHANGED hostVars
  PROVE  ProvenInv'
<1>1. /\ UNCHANGED <<task, folded, stream, frozen, committed, tool, granted, merged>>
      /\ open' = op /\ ~Throws(op)
      /\ LET run == Operation(op) IN
           effect' = IF run.replayed
                       THEN [at |-> "applied", events |-> <<>>, task |-> task]
                       ELSE [at |-> "running", events |-> run.events, task |-> run.after]
  BY DEF Begin, hostVars
<1>2. ASSUME Running' PROVE Due(op)
  <2>1. ~Operation(op).replayed /\ Operation(op).allowed
    BY <1>1, <1>2 DEF Running, Throws
  <2>2. ASSUME op.do = "record" PROVE op.of = task.candidate
    BY <2>1, <2>2, AllowedIs
  <2>3. ASSUME op.do = "deliver" PROVE op.of = task.candidate
    <3>1. task.state = "WAITING_INTEGRATION"
      BY <2>1, <2>3, AllowedIs
    <3> QED
      BY <2>3, <3>1 DEF ProvenInv, RecordIsProven, Tip
  <2> QED
    BY <2>2, <2>3 DEF Due
<1>3. ASSUME Applied' PROVE Done(op)
  <2>1. Operation(op).replayed
    BY <1>1, <1>3 DEF Applied
  <2>2. ASSUME op.do = "record" PROVE task.verified # None /\ Tip(op.of)
    <3>1. op.of = task.candidate /\ task.verified = VerificationOf(op)
      BY <2>1, <2>2, ReplayedIs
    <3>2. VerificationOf(op) \in Verifications
      BY <2>2, OrdersAre DEF Orders, VerificationOf, Verifications, OfAttempts
    <3> QED
      BY <3>1, <3>2, NoneAssumption DEF Tip
  <2>3. ASSUME op.do = "deliver", op.as = "APPLIED" PROVE task.state = "ACCEPTED"
    <3>1. task.integrated = IntegrationOf(op)
      BY <2>1, <2>3, ReplayedIs
    <3>2. IntegrationOf(op) \in Integrations /\ IntegrationOf(op).as = "APPLIED"
      BY <2>3, OrdersAre DEF IntegrationOf, Integrations, OfAttempts
    <3> QED
      BY <3>1, <3>2, NoneAssumption DEF ProvenInv, RecordIsProven, IsApplied
  <2> QED
    BY <2>2, <2>3 DEF Done
<1>4. RecordIsProven' /\ (\A a \in Agents : Fine(tool[a])') /\ (\A o : Done(o) => Done(o)')
  BY <1>1, StateOnly
<1>5. Due(op) => Due(op)'
  BY <1>1 DEF Due
<1> QED
  BY <1>1, <1>2, <1>3, <1>4, <1>5 DEF ProvenInv

\* Storing the record of an operation that may be carried out.
LEMMA StoreProves ==
  ASSUME LedgerInv, ProvenInv, Store, UNCHANGED hostVars
  PROVE  RecordIsProven' /\ (\A a \in Agents : Fine(tool[a])') /\ Done(open)'
         /\ \A op \in committed : Done(op)'
<1> USE NoneAssumption
<1>1. /\ UNCHANGED <<folded, stream, open, committed, tool, granted, merged>>
      /\ effect # None /\ effect.at = "running" /\ task' = effect.task
  BY DEF Store, hostVars
<1>2. /\ open # None /\ open \in Orders /\ open \notin committed
      /\ Running /\ Due(open) /\ task \in TaskRecords
      /\ RecordIsProven /\ (\A a \in Agents : Fine(tool[a])) /\ \A op \in committed : Done(op)
  BY <1>1 DEF LedgerInv, RuntimeInv, RuntimeTypeOK, AtRest, Running, ProvenInv
<1>3. /\ ~Operation(open).replayed /\ Operation(open).allowed
      /\ task' = Operation(open).after
  BY <1>1, <1>2 DEF LedgerInv, RuntimeInv, EffectFollows, Run
<1>4. PICK op \in Orders : op = open
  BY <1>2
<1>5. ASSUME task'.candidate = task.candidate, task'.verified = task.verified,
             task'.integrated = task.integrated,
             task.state = "ACCEPTED" => task'.state = "ACCEPTED",
             task'.state \in {"WAITING_INTEGRATION", "ACCEPTED", "INTEGRATION_FAILED"} =>
               task'.state = task.state,
             op.do \notin {"record", "deliver"}
      PROVE  RecordIsProven' /\ (\A a \in Agents : Fine(tool[a])') /\ Done(open)'
             /\ \A o \in committed : Done(o)'
  <2>1. /\ RecordIsProven' /\ (\A a \in Agents : Fine(tool[a])')
        /\ \A o : Done(o) => Done(o)'
    BY <1>1, <1>5, StateOnly
  <2>2. Done(open)'
    BY <1>1, <1>4, <1>5 DEF Done
  <2> QED
    BY <1>2, <2>1, <2>2
<1>6. CASE op.do = "lease"
  <2>1. task' = [task EXCEPT !.state = "EXECUTING", !.worker = op.of[1]]
    BY <1>3, <1>4, <1>6, AfterIs
  <2>2. task.state # "ACCEPTED"
    BY <1>3, <1>4, <1>6, AllowedIs DEF Resumable
  <2>3. /\ task'.candidate = task.candidate /\ task'.verified = task.verified
        /\ task'.integrated = task.integrated /\ task'.state = "EXECUTING"
    BY <1>2, <2>1 DEF TaskRecords
  <2> QED
    BY <1>5, <1>6, <2>2, <2>3
<1>7. CASE op.do = "release"
  <2>1. task' = [task EXCEPT !.state = Settled(op.as), !.worker = None]
    BY <1>3, <1>4, <1>7, AfterIs
  <2>2. Settled(op.as) \in {task.state, "PAUSED", "RECOVERY_REQUIRED"}
        /\ (task.state = "ACCEPTED" => Settled(op.as) = task.state)
    BY DEF Settled, Held
  <2>3. /\ task'.candidate = task.candidate /\ task'.verified = task.verified
        /\ task'.integrated = task.integrated /\ task'.state = Settled(op.as)
    BY <1>2, <2>1 DEF TaskRecords
  <2> QED
    BY <1>5, <1>7, <2>2, <2>3
<1>8. CASE op.do = "submit"
  <2>1. task' = [task EXCEPT !.state = "CANDIDATE_SUBMITTED", !.candidate = op.of]
    BY <1>3, <1>4, <1>8, AfterIs
  <2>2. /\ task'.candidate = op.of /\ task'.verified = task.verified
        /\ task'.integrated = task.integrated /\ task'.state = "CANDIDATE_SUBMITTED"
    BY <1>2, <2>1 DEF TaskRecords
  <2>3. task.state # "ACCEPTED"
    <3>1. CanMove(task.state, "CANDIDATE_SUBMITTED")
      BY <1>3, <1>4, <1>8, AllowedIs
    <3> QED
      BY <3>1 DEF CanMove, EnteredFrom
  <2>4. Submit(op.of) \notin committed
    <3>1. op = Command(op.do, op.of, op.as, op.nr) /\ op.as = "plain" /\ op.nr = 0
      BY <1>8, OrdersAre DEF Orders
    <3>2. op = Submit(op.of)
      BY <1>8, <3>1 DEF Submit, Command
    <3> QED
      BY <1>2, <1>4, <3>2
  <2>5. task.verified # None => task.verified.of # op.of
    BY <1>2, <2>4 DEF RecordIsProven
  <2>6. RecordIsProven'
    BY <1>1, <1>2, <2>2, <2>3 DEF RecordIsProven, IsApplied
  <2>7. ASSUME NEW a \in Agents PROVE Fine(tool[a])'
    <3>1. Fine(tool[a])
      BY <1>2
    <3>2. tool[a].at \notin {"idle", "submit"} => tool[a].of # op.of
      BY <2>4, <3>1 DEF Fine
    <3> QED
      BY <1>1, <2>2, <2>3, <2>5, <3>1, <3>2 DEF Fine, Tip
  <2>8. \A o \in committed : Done(o)'
    BY <1>2, <2>2, <2>3, <2>5 DEF Done, Tip
  <2> QED
    BY <1>4, <1>8, <1>1, <2>6, <2>7, <2>8 DEF Done
<1>9. CASE op.do = "record"
  <2>1. task' = [task EXCEPT !.state = Verdict[op.as], !.verified = VerificationOf(op)]
    BY <1>3, <1>4, <1>9, AfterIs
  <2>2. /\ task'.candidate = task.candidate /\ task'.verified = VerificationOf(op)
        /\ task'.integrated = task.integrated /\ task'.state = Verdict[op.as]
    BY <1>2, <2>1 DEF TaskRecords
  <2>3. VerificationOf(op).of = op.of /\ VerificationOf(op).as = op.as
    BY DEF VerificationOf
  <2>4. VerificationOf(op) \in Verifications /\ op.as \in Verdicts
    BY <1>9, OrdersAre DEF Orders, VerificationOf, Verifications, OfAttempts
  <2>5. task.candidate = op.of /\ task.state \in {"CANDIDATE_SUBMITTED", "VERIFYING"}
    BY <1>3, <1>4, <1>9, AllowedIs DEF UnderVerification
  <2>6. /\ op.as = "ACCEPTED" => op.of \in granted
        /\ Submit(op.of) \in committed
        /\ task.verified = None \/ task.verified.of = op.of
    BY <1>2, <1>4, <1>9 DEF Due
  <2>7. Verdict[op.as] \in {"WAITING_INTEGRATION", "ACCEPTED", "INTEGRATION_FAILED"}
           => op.as = "ACCEPTED" /\ Verdict[op.as] = "WAITING_INTEGRATION"
    BY <2>4 DEF Verdict, Verdicts
  <2>8. task'.verified # None /\ task'.verified.of = op.of /\ task'.verified.as = op.as
    BY <2>2, <2>3, <2>4
  <2>9. RecordIsProven'
    <3>1. ~IsApplied(task.integrated)
      BY <1>2, <2>5 DEF RecordIsProven
    <3> QED
      BY <1>1, <2>2, <2>5, <2>6, <2>7, <2>8, <3>1 DEF RecordIsProven, IsApplied
  <2>10. \A c : task.verified # None /\ Tip(c) => Tip(c)'
    BY <2>2, <2>5, <2>6 DEF Tip
  <2>11. ASSUME NEW a \in Agents PROVE Fine(tool[a])'
    <3>1. Fine(tool[a])
      BY <1>2
    <3> QED
      BY <1>1, <2>2, <2>5, <2>8, <2>10, <3>1 DEF Fine
  <2>12. \A o \in committed : Done(o)'
    BY <1>2, <2>5, <2>8, <2>10 DEF Done
  <2>13. Done(open)'
    BY <1>1, <1>4, <1>9, <2>2, <2>5, <2>8 DEF Done, Tip
  <2> QED
    BY <2>9, <2>11, <2>12, <2>13
<1>10. CASE op.do = "fail"
  <2>1. task' = [task EXCEPT !.state = IF @ \in UnderVerification THEN "REWORK" ELSE @]
    BY <1>3, <1>4, <1>10, AfterIs
  <2>2. /\ task'.candidate = task.candidate /\ task'.verified = task.verified
        /\ task'.integrated = task.integrated
        /\ task'.state = IF task.state \in UnderVerification THEN "REWORK" ELSE task.state
    BY <1>2, <2>1 DEF TaskRecords
  <2> QED
    BY <1>5, <1>10, <2>2 DEF UnderVerification
<1>11. CASE op.do = "queue"
  <2>1. task' = task
    BY <1>3, <1>4, <1>11, AfterIs
  <2> QED
    BY <1>5, <1>11, <2>1
<1>12. CASE op.do = "deliver"
  <2>1. task' = [task EXCEPT !.integrated = IntegrationOf(op),
                             !.state = IF op.as = "APPLIED" THEN "ACCEPTED"
                                       ELSE "INTEGRATION_FAILED"]
    BY <1>3, <1>4, <1>12, AfterIs
  <2>2. /\ task'.candidate = task.candidate /\ task'.verified = task.verified
        /\ task'.integrated = IntegrationOf(op)
        /\ task'.state = IF op.as = "APPLIED" THEN "ACCEPTED" ELSE "INTEGRATION_FAILED"
    BY <1>2, <2>1 DEF TaskRecords
  <2>3. IntegrationOf(op) \in Integrations /\ IntegrationOf(op).of = op.of
        /\ IntegrationOf(op).as = op.as
    BY <1>12, OrdersAre DEF Orders, IntegrationOf, Integrations, OfAttempts
  <2>4. task.state = "WAITING_INTEGRATION"
    BY <1>3, <1>4, <1>12, AllowedIs
  <2>5. op.of = task.candidate /\ (op.as = "APPLIED" => merged[op.of] = "APPLIED")
    BY <1>2, <1>4, <1>12 DEF Due
  <2>6. task'.integrated # None /\ task'.integrated.of = op.of /\ task'.integrated.as = op.as
    BY <2>2, <2>3
  <2>7. RecordIsProven'
    BY <1>1, <1>2, <2>2, <2>4, <2>5, <2>6 DEF RecordIsProven, IsApplied
  <2>8. ASSUME NEW a \in Agents PROVE Fine(tool[a])'
    <3>1. Fine(tool[a])
      BY <1>2
    <3> QED
      BY <1>1, <2>2, <2>4, <3>1 DEF Fine, Tip
  <2>9. \A o \in committed : Done(o)'
    BY <1>2, <2>2, <2>4 DEF Done, Tip
  <2>10. Done(open)'
    BY <1>1, <1>4, <1>12, <2>2 DEF Done
  <2> QED
    BY <2>7, <2>8, <2>9, <2>10
<1>13. CASE op.do = "specs"
  <2>1. task' = [task EXCEPT !.state = "ACCEPTED", !.specs = op.of]
    BY <1>3, <1>4, <1>13, AfterIs
  <2>2. /\ task'.candidate = task.candidate /\ task'.verified = task.verified
        /\ task'.integrated = task.integrated /\ task'.state = "ACCEPTED"
    BY <1>2, <2>1 DEF TaskRecords
  <2>3. task.state = "ACCEPTED"
    BY <1>2, <1>4, <1>13 DEF Due
  <2> QED
    BY <1>5, <1>13, <2>2, <2>3
<1> QED
  BY <1>6, <1>7, <1>8, <1>9, <1>10, <1>11, <1>12, <1>13, OrdersAre

\* What a tool knows after it has moved, and what the others still know.
LEMMA MoveProves ==
  ASSUME LedgerInv, ProvenInv, NEW a \in Agents, NEW t, ToolMoves(a, t),
         UNCHANGED <<task, committed>>
  PROVE  /\ RecordIsProven' /\ \A b \in Agents : Fine(tool[b])'
         /\ \A op : Due(op) => Due(op)'
<1> USE NoneAssumption
<1> DEFINE s == tool[a]
<1>1. /\ tool \in ToolTypes /\ s \in ToolRecords /\ Orderly(s) /\ Fine(s) /\ RecordIsProven
      /\ merged \in [Candidates -> {None, "APPLIED", "CONFLICT"}]
      /\ \A b \in Agents : Fine(tool[b])
      /\ \A op \in committed : Done(op)
  BY ToolIs DEF LedgerInv, StagesTyped, ProvenInv
<1>2. t \in ToolRecords /\ Moved(a, t)
  BY DEF ToolMoves
<1>3. tool'[a] = t /\ \A b \in Agents \ {a} : tool'[b] = tool[b]
  BY <1>1, <1>2, ToolBecomes
<1>4. granted \subseteq granted'
  BY DEF ToolMoves, Verified
<1>5. \A c : merged[c] = "APPLIED" => merged'[c] = "APPLIED"
  <2>1. CASE UNCHANGED merged
    BY <2>1
  <2>2. CASE Integrated(a, t)
    <3>1. /\ merged' = [merged EXCEPT ![s.of] = t.r.as] /\ t.r \in Integrations
          /\ merged[s.of] \in IF t.r.as = "APPLIED" THEN {None} ELSE {None, t.r.as}
      BY <2>2 DEF Integrated
    <3>2. merged[s.of] # "APPLIED"
      BY <3>1 DEF Integrations
    <3> QED
      BY <1>1, <3>1, <3>2
  <2> QED
    BY <2>1, <2>2 DEF ToolMoves
<1>6. RecordIsProven'
  BY <1>1, <1>4, <1>5 DEF RecordIsProven, IsApplied
<1>7. \A op : Due(op) => Due(op)'
  BY <1>4, <1>5 DEF Due
<1>8. ASSUME NEW b \in Agents \ {a} PROVE Fine(tool[b])'
  <2>1. Fine(tool[b]) /\ tool'[b] = tool[b]
    BY <1>1, <1>3
  <2> QED
    BY <1>4, <1>5, <2>1 DEF Fine, Tip
<1>9. Fine(t)'
  <2>1. CASE t = Idle
    BY <2>1 DEF Fine, Idle
  <2>2. CASE Called(a, t)
    BY <2>2 DEF Fine, Called
  <2>3. CASE Went(a, t) /\ UNCHANGED <<granted, merged>>
    <3>1. t.of = s.of /\ t.r = s.r
      BY <2>3 DEF Went
    <3>2. ASSUME ToolCalls(a), ToolCommand(a) \in committed, t.v = s.v,
                 \/ s.at = "submit" /\ t.at = "read"
                 \/ s.at = "record" /\ s.v.as = "ACCEPTED" /\ t.at = "queue"
                 \/ s.at = "queue" /\ t.at = "integrate"
                 \/ s.at = "deliver" /\ s.r.as = "APPLIED" /\ t.at = "specs"
          PROVE  Fine(t)'
      <4>1. /\ Done(ToolCommand(a)) /\ ToolCommand(a).do = s.at /\ ToolCommand(a).of = s.of
            /\ s.at \in {"deliver", "specs"} => ToolCommand(a).as = s.r.as
        BY <1>1, <3>2, ToolOrders
      <4>2. s.at = "submit" => Submit(s.of) \in committed
        BY <3>2 DEF ToolCommand
      <4>3. s.at = "record" => task.verified # None /\ Tip(s.of)
        BY <4>1 DEF Done
      <4>4. s.at = "deliver" /\ s.r.as = "APPLIED" => task.state = "ACCEPTED"
        BY <4>1 DEF Done
      <4> QED
        BY <1>1, <2>3, <3>1, <3>2, <4>2, <4>3, <4>4 DEF Fine, Tip
    <3>3. CASE s.at = "read" /\ t.at = "verify" /\ task.candidate = s.of /\ task.verified = None
      BY <1>1, <2>3, <3>1, <3>3 DEF Fine, Tip
    <3>4. CASE s.at = "read" /\ t.at = "queue" /\ task.candidate = s.of /\ task.verified # None
      BY <1>1, <2>3, <3>1, <3>4 DEF Fine, Tip
    <3>5. CASE t.v = s.v /\ s.at = "verify" /\ t.at = "fail"
      BY <1>1, <2>3, <3>1, <3>5 DEF Fine, Tip
    <3> QED
      BY <2>3, <3>2, <3>3, <3>4, <3>5 DEF Went
  <2>4. CASE Verified(a, t) /\ UNCHANGED merged
    <3>1. /\ s.at = "verify" /\ t.at = "record" /\ t.of = s.of
          /\ t.v.as = "ACCEPTED" => t.of \in granted'
      BY <2>4 DEF Verified
    <3> QED
      BY <1>1, <3>1 DEF Fine, Tip
  <2>5. CASE Integrated(a, t) /\ UNCHANGED granted
    <3>1. /\ s.at = "integrate" /\ t.at = "deliver" /\ t.of = s.of /\ s.of \in Candidates
          /\ merged' = [merged EXCEPT ![s.of] = t.r.as]
      BY <1>1, <2>5 DEF Integrated, Orderly
    <3>2. merged'[t.of] = t.r.as
      BY <1>1, <3>1
    <3> QED
      BY <1>1, <3>1, <3>2 DEF Fine, Tip
  <2> QED
    BY <2>1, <2>2, <2>3, <2>4, <2>5 DEF ToolMoves
<1>10. Fine(tool[a])'
  BY <1>3, <1>9 DEF Fine, Tip
<1> QED
  BY <1>6, <1>7, <1>8, <1>10

\* What a command has to know when it begins, a tool knows.
LEMMA ToolBeginProves ==
  ASSUME LedgerInv, ProvenInv, NEW a \in Agents, ToolBegins(a)
  PROVE  ProvenInv'
<1> DEFINE t == tool[a]
<1>1. ToolCalls(a) /\ Begin(ToolCommand(a)) /\ UNCHANGED hostVars
  BY DEF ToolBegins
<1>2. PICK op \in Orders : op = ToolCommand(a)
  BY <1>1, ToolOrders
<1>3. /\ op.do = t.at /\ op.of = t.of
      /\ t.at = "record" => op.as = t.v.as
      /\ t.at \in {"deliver", "specs"} => op.as = t.r.as
  BY <1>1, <1>2, ToolOrders
<1>4. Fine(t)
  BY DEF ProvenInv
<1>5. op.do = "record" =>
        /\ op.as = "ACCEPTED" => op.of \in granted
        /\ Submit(op.of) \in committed
        /\ op.of = task.candidate => task.verified = None \/ task.verified.of = op.of
  BY <1>3, <1>4 DEF Fine
<1>6. op.do = "deliver" =>
        /\ op.as = "APPLIED" => merged[op.of] = "APPLIED"
        /\ task.verified # None /\ Tip(op.of)
  BY <1>3, <1>4 DEF Fine
<1>7. op.do = "specs" => task.state = "ACCEPTED"
  BY <1>3, <1>4 DEF Fine
<1> QED
  BY <1>1, <1>2, <1>5, <1>6, <1>7, BegunIsDue

LEMMA ProvenNext ==
  ASSUME LedgerInv, ProvenInv, [Next]_vars
  PROVE  ProvenInv'
<1> USE NoneAssumption
<1>1. ASSUME UNCHANGED <<task, tool, granted, merged, committed>>,
             Running' => Running /\ open' = open, Applied' => Applied /\ open' = open
      PROVE  ProvenInv'
  <2>1. /\ RecordIsProven' /\ (\A a \in Agents : Fine(tool[a])')
        /\ \A op : Done(op) => Done(op)'
    BY <1>1, StateOnly
  <2>2. Running' => Due(open)'
    BY <1>1 DEF ProvenInv, Due
  <2>3. Applied' => Done(open)'
    BY <1>1 DEF ProvenInv, Done, Tip
  <2> QED
    BY <1>1, <2>1, <2>2, <2>3 DEF ProvenInv
<1>2. CASE UNCHANGED vars
  BY <1>1, <1>2 DEF vars, runtimeVars, hostVars, Running, Applied
<1>3. ASSUME NEW a \in Agents, HostStep(a)
      PROVE  ProvenInv'
  <2>0. UNCHANGED <<tool, granted, merged>>
    BY <1>3, HostStepKeeps
  <2>1. CASE HostBegins(a)
    <3>1. HostCalls(a) /\ Begin(HostCommand(a)) /\ UNCHANGED hostVars
      BY <2>1 DEF HostBegins, MustAsk
    <3>2. PICK op \in Orders : op = HostCommand(a)
      BY <3>1, HostOrders
    <3>3. op.do \in {"lease", "release"}
      BY <3>2 DEF HostCommand, LeaseBy, ReleaseBy, Command
    <3> QED
      BY <3>1, <3>2, <3>3, BegunIsDue
  <2>2. CASE ~HostBegins(a)
    <3>1. /\ UNCHANGED <<task, committed, effect>>
          /\ open' = open \/ effect = None
      BY <1>3, <2>2 DEF HostStep, Reserve, HostCommits, HostFails, HostSkips, Leave, Refuse, TurnAway,
         Answers, runtimeVars
    <3> QED
      BY <1>1, <2>0, <3>1 DEF Running, Applied
  <2> QED
    BY <2>1, <2>2
<1>4. ASSUME NEW a \in Agents, ToolStep(a), ~ToolBegins(a)
      PROVE  ProvenInv'
  <2>1. PICK t : ToolMoves(a, t)
    BY <1>4, ToolStepMoves
  <2>2. /\ UNCHANGED <<task, committed, effect>>
        /\ open' = open \/ effect = None
    BY <1>4 DEF ToolStep, Call, ToolFails, ToolCommits, Read, Verify, Integrate, Refuse, TurnAway,
       Answers, runtimeVars
  <2>3. /\ RecordIsProven' /\ (\A b \in Agents : Fine(tool[b])')
        /\ \A op : Due(op) => Due(op)'
    BY <2>1, <2>2, MoveProves
  <2>4. \A op : Done(op) => Done(op)'
    BY <2>2 DEF Done, Tip
  <2>5. Running' => Due(open)'
    <3>1. SUFFICES ASSUME Running' PROVE Due(open)'
      OBVIOUS
    <3>2. Running /\ open' = open
      BY <2>2, <3>1 DEF Running
    <3>3. PICK op : op = open
      OBVIOUS
    <3>4. Due(op)'
      BY <2>3, <3>2, <3>3 DEF ProvenInv
    <3> QED
      BY <3>2, <3>3, <3>4 DEF Due
  <2>6. Applied' => Done(open)'
    BY <2>2 DEF ProvenInv, Applied, Done, Tip
  <2> QED
    BY <2>2, <2>3, <2>4, <2>5, <2>6 DEF ProvenInv
<1>5. CASE EffectStep
  <2>0. UNCHANGED <<tool, granted, merged>>
    BY <1>5 DEF EffectStep, hostVars
  <2>1. CASE AppendEvent
    <3>1. /\ UNCHANGED <<task, committed, open>>
          /\ effect # None /\ effect' = [effect EXCEPT !.events = Tail(effect.events)]
      BY <2>1 DEF AppendEvent
    <3>2. effect \in Effects
      BY <3>1 DEF LedgerInv, RuntimeInv, RuntimeTypeOK
    <3>3. effect'.at = effect.at
      BY <3>1, <3>2 DEF Effects
    <3> QED
      BY <1>1, <2>0, <3>1, <3>3 DEF Running, Applied
  <2>2. CASE Store
    <3>1. /\ RecordIsProven' /\ (\A a \in Agents : Fine(tool[a])') /\ Done(open)'
          /\ \A op \in committed : Done(op)'
      BY <1>5, <2>2, StoreProves DEF EffectStep
    <3>2. UNCHANGED committed /\ ~Running'
      <4>1. /\ UNCHANGED committed /\ effect # None
            /\ effect' = [effect EXCEPT !.at = "applied"]
        BY <2>2 DEF Store
      <4>2. effect \in Effects
        BY <4>1 DEF LedgerInv, RuntimeInv, RuntimeTypeOK
      <4>3. effect'.at = "applied"
        BY <4>1, <4>2 DEF Effects
      <4> QED
        BY <4>1, <4>3 DEF Running
    <3> QED
      BY <3>1, <3>2 DEF ProvenInv
  <2>3. CASE Commit
    <3>1. /\ UNCHANGED task /\ Applied /\ effect' = None
          /\ committed' = committed \cup {open}
      BY <2>3 DEF Commit, Applied
    <3>2. /\ RecordIsProven' /\ (\A a \in Agents : Fine(tool[a])')
          /\ \A op : Done(op) => Done(op)'
      BY <2>0, <3>1, StateOnly
    <3> QED
      BY <3>1, <3>2 DEF ProvenInv, Running, Applied
  <2> QED
    BY <1>5, <2>1, <2>2, <2>3 DEF EffectStep
<1>6. CASE Crash
  <2>1. /\ UNCHANGED <<task, committed, granted, merged>> /\ effect' = None
        /\ tool' = [a \in Agents |-> Idle]
    BY <1>6 DEF Crash, Abort
  <2>2. RecordIsProven' /\ \A op : Done(op) => Done(op)'
    BY <2>1 DEF ProvenInv, RecordIsProven, Done, Tip
  <2>3. \A a \in Agents : Fine(tool[a])'
    BY <2>1 DEF Fine, Idle
  <2> QED
    BY <2>1, <2>2, <2>3 DEF ProvenInv, Running, Applied
<1> QED
  BY <1>2, <1>3, <1>4, <1>5, <1>6, ToolBeginProves DEF Next

LEMMA ProvenIsKept == Spec => []ProvenInv
<1>1. Init => ProvenInv
  BY ProvenInitially
<1>2. LedgerInv /\ ProvenInv /\ [Next]_vars => ProvenInv'
  BY ProvenNext
<1> QED
  BY <1>1, <1>2, LedgerIsKept, PTL DEF Spec

\* A Task that waits for integration, or is past it, is there for the Candidate
\* it names: a verification accepted that very Candidate, and when the Task is
\* ACCEPTED its patch is in main, however crashes, takeovers of the Task and
\* late calls are interleaved (runtime.ts:718-758, 851-897, worker.ts).
THEOREM AcceptedIsProven == Spec => []ProvenStates
<1>1. ProvenInv => ProvenStates
  BY DEF ProvenInv, RecordIsProven, ProvenStates
<1> QED
  BY <1>1, ProvenIsKept, PTL

=============================================================================

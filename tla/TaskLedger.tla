----------------------------- MODULE TaskLedger -----------------------------
(***************************************************************************)
(* The states of a Task, the moves the contracts allow between them, and   *)
(* the fold that rebuilds a Task's state from the Mission's event stream.  *)
(* An event is [type, of, as, nr]: of (an Agent or a Candidate) and nr (a  *)
(* receipt) stand for what its idempotency key is made of, as carries the  *)
(* verdict or state it names.                                              *)
(***************************************************************************)
EXTENDS Sequences, Functions

TaskStates ==
  { "CREATED", "READY", "LEASED", "EXECUTING", "CANDIDATE_SUBMITTED",
    "VERIFYING", "WAITING_INTEGRATION", "INTEGRATING", "INTEGRATION_FAILED",
    "REWORK", "BLOCKED", "GUIDANCE_PENDING", "WAITING_DECISION", "PAUSED",
    "RECOVERY_REQUIRED", "FROZEN", "ACCEPTED", "CANCELLED", "FAILED" }

(* taskTransitions, turned round: the states a Task may enter a state from.*)
EnteredFrom ==
  LET held    == {"LEASED", "EXECUTING", "CANDIDATE_SUBMITTED", "VERIFYING"}
      waiting == {"BLOCKED", "GUIDANCE_PENDING", "WAITING_DECISION"}
      stopped == {"PAUSED", "RECOVERY_REQUIRED"}
  IN [ CREATED             |-> {},
       READY               |-> {"CREATED", "LEASED", "EXECUTING", "REWORK",
                                "INTEGRATION_FAILED", "FROZEN"}
                               \cup waiting \cup stopped,
       LEASED              |-> {"READY"},
       EXECUTING           |-> {"LEASED"},
       CANDIDATE_SUBMITTED |-> {"EXECUTING", "REWORK"},
       VERIFYING           |-> {"CANDIDATE_SUBMITTED"},
       WAITING_INTEGRATION |-> {"VERIFYING"},
       INTEGRATING         |-> {"WAITING_INTEGRATION"},
       INTEGRATION_FAILED  |-> {"INTEGRATING"},
       REWORK              |-> {"VERIFYING", "WAITING_INTEGRATION",
                                "INTEGRATION_FAILED"},
       BLOCKED             |-> {"EXECUTING", "VERIFYING", "GUIDANCE_PENDING",
                                "WAITING_DECISION"},
       GUIDANCE_PENDING    |-> {"BLOCKED"},
       WAITING_DECISION    |-> {"EXECUTING", "BLOCKED"},
       PAUSED              |-> {"READY", "WAITING_INTEGRATION", "REWORK",
                                "INTEGRATION_FAILED", "RECOVERY_REQUIRED"}
                               \cup held \cup waiting,
       RECOVERY_REQUIRED   |-> {"WAITING_INTEGRATION", "INTEGRATING", "REWORK"}
                               \cup held \cup waiting,
       FROZEN              |-> {"EXECUTING", "CANDIDATE_SUBMITTED", "VERIFYING"},
       ACCEPTED            |-> {"VERIFYING", "WAITING_INTEGRATION",
                                "INTEGRATING"},
       CANCELLED           |-> TaskStates \ {"ACCEPTED", "CANCELLED", "FAILED"},
       FAILED              |-> {"EXECUTING", "VERIFYING", "WAITING_INTEGRATION",
                                "INTEGRATING", "INTEGRATION_FAILED", "BLOCKED",
                                "WAITING_DECISION", "FROZEN"} \cup stopped ]

(* reduceTaskTransition: a Task may stay or make a move of the table.      *)
CanMove(from, to) == from = to \/ from \in EnteredFrom[to]

(* The fold throws at an illegal event, and so does every later fold of a  *)
(* stream that holds it.                                                   *)
Broken == "BROKEN"

(* Walking the states of path one after the other from s.                  *)
Walk(s, path) ==
  IF s # Broken /\ \A i \in DOMAIN path : CanMove((<<s>> \o path)[i], path[i])
    THEN path[Len(path)]
    ELSE Broken

(* Where a verification's verdict takes a Task under verification.         *)
Verdict == [ACCEPTED |-> "WAITING_INTEGRATION", REWORK |-> "REWORK",
            BLOCKED |-> "BLOCKED", FROZEN |-> "FROZEN"]

Delivery == << "EXECUTING", "CANDIDATE_SUBMITTED", "VERIFYING",
               "WAITING_INTEGRATION", "INTEGRATING", "ACCEPTED" >>

(* A fold that overlooks the integrations nobody announced.                *)
AfterAnnouncedIntegration(s, end) ==
  IF s = "INTEGRATING" THEN Walk(s, <<end>>) ELSE s

(* An integration's end counts only for a Task that waits for it.          *)
AfterIntegration(s, end) ==
  IF s \in {"WAITING_INTEGRATION", "INTEGRATING"}
    THEN Walk(s, <<"INTEGRATING", end>>)
    ELSE s

(* reduceTaskEvent: the fold's step.                                       *)
Fold(s, e) ==
  CASE e.type = "task/leased" ->
         Walk(s, (IF s = "CREATED" THEN <<"READY">> ELSE <<>>)
                   \o <<"LEASED", "EXECUTING">>)
    [] e.type = "task/candidate-submitted" -> Walk(s, <<"CANDIDATE_SUBMITTED">>)
    [] e.type = "verification/completed" ->
         Walk(s, <<"VERIFYING", Verdict[e.as]>>)
    [] e.type = "task/accepted" -> Walk(s, <<"ACCEPTED">>)
    [] e.type = "task/integrated" -> AfterIntegration(s, "ACCEPTED")
    [] e.type = "task/integration-failed" ->
         AfterIntegration(s, "INTEGRATION_FAILED")
    [] e.type = "task/activation-settled" -> Walk(s, <<e.as>>)
    [] e.type \in {"task/resumed", "task/ready", "task/decision-resolved"} ->
         Walk(s, <<"READY">>)
    [] e.type = "task/blocker-submitted" -> Walk(s, <<"BLOCKED">>)
    [] e.type = "task/decision-waiting" -> Walk(s, <<"WAITING_DECISION">>)
    [] e.type = "radio/guidance-delivered" ->
         Walk(s, IF s = "BLOCKED" THEN <<"GUIDANCE_PENDING", "READY">>
                                  ELSE <<"READY">>)
    [] e.type = "task/cancelled" -> Walk(s, <<"CANCELLED">>)
    [] e.type = "specs/commit-recorded" ->
         IF s \in Range(Delivery) THEN "ACCEPTED" ELSE s
    [] OTHER -> s
=============================================================================

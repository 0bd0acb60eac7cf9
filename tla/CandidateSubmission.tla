-------------------------- MODULE CandidateSubmission --------------------------
(***************************************************************************)
(* The submit_candidate tool of a Task's Agents (packages/tools/src/       *)
(* worker.ts): submission, verification, integration into main and the     *)
(* specs commit, each recorded in the Mission by a command, while the      *)
(* host leases the Task to one attempt after another, takes it back, and   *)
(* may crash.  The tool goes on when its Agent has lost the Task.          *)
(***************************************************************************)
EXTENDS TaskRuntime

VARIABLES
  host,             \* where each attempt stands in the host
  tool,             \* each Agent's submit_candidate call
  returned,         \* calls that are answered from their durable result
  receipts,         \* verifications so far
  granted,          \* Candidates a verification has accepted
  merged            \* what git made of each Candidate's patch

hostVars == <<host, tool, returned, receipts, granted, merged>>
vars == <<runtimeVars, hostVars>>

HostStages == {"new", "leasing", "working", "leaving", "dead", "gone"}
ToolStages == {"idle", "submit", "read", "verify", "record", "fail", "queue",
               "integrate", "deliver", "specs"}

\* v: the verification the call goes by; r: the receipt of its integration.
Idle == [at |-> "idle", of |-> Nobody, v |-> None, r |-> None]
Staying == "staying"

Init ==
  /\ RuntimeInit
  /\ host = [a \in Agents |-> [at |-> "new", why |-> Staying]]
  /\ tool = [a \in Agents |-> Idle]
  /\ returned = {} /\ granted = {}
  /\ receipts = 0
  /\ merged = [c \in Candidates |-> None]

-----------------------------------------------------------------------------
(* The attempts                                                             *)

HostAt(a, stage) == host[a].at = stage
HostTo(a, stage) == host' = [host EXCEPT ![a] = [at |-> stage, why |-> Staying]]

\* A new attempt is reserved only when the activations before it have ended.
Reserve(a) ==
  /\ HostAt(a, "new")
  /\ \A b \in Agents \ {a} : host[b].at \in {"new", "dead", "gone"}
  /\ HostTo(a, "leasing")
  /\ UNCHANGED <<runtimeVars, tool, returned, receipts, granted, merged>>

\* The commands the host and the tools wait for.
HostCommand(a) == IF HostAt(a, "leasing") THEN LeaseBy(a)
                  ELSE ReleaseBy(a, host[a].why)
ToolCommand(a) ==
  LET t == tool[a] IN
  CASE t.at = "submit"  -> Submit(t.of)
    [] t.at = "record"  -> Record(t.v)
    [] t.at = "fail"    -> RecordFailure(t.of)
    [] t.at = "queue"   -> Queue(t.of)
    [] t.at = "deliver" -> Deliver(t.r)
    [] t.at = "specs"   -> RecordSpecs(t.r)
HostCalls(a) == host[a].at \in {"leasing", "leaving"}
ToolCalls(a) == tool[a].at \notin {"idle", "read", "verify", "integrate"}

\* An Agent that has settled its activation is not released again.
SettledBefore(a) ==
  \E e \in stream : e.type = "task/activation-settled" /\ e.of[1] = a

MustAsk(a) == HostCalls(a) /\ ~(HostAt(a, "leaving") /\ SettledBefore(a))

HostBegins(a) ==
  /\ MustAsk(a)
  /\ Begin(HostCommand(a))
  /\ UNCHANGED hostVars

HostCommits(a) ==
  /\ HostCalls(a) /\ effect = None
  /\ HostCommand(a) \in committed
  /\ HostTo(a, IF HostAt(a, "leasing") THEN "working" ELSE "gone")
  /\ UNCHANGED <<runtimeVars, tool, returned, receipts, granted, merged>>

\* The child is not started; or its cleanup goes on without the release.
HostFails(a) ==
  /\ MustAsk(a)
  /\ Refuse(HostCommand(a)) \/ TurnAway(HostCommand(a))
  /\ HostTo(a, "gone")
  /\ UNCHANGED <<tool, returned, receipts, granted, merged>>

HostSkips(a) ==
  /\ HostAt(a, "leaving") /\ SettledBefore(a) /\ effect = None
  /\ HostTo(a, "gone")
  /\ UNCHANGED <<runtimeVars, tool, returned, receipts, granted, merged>>

\* The child ends or is stopped: within its budget, or for another reason.
\* After a crash its cleanup runs when its spawn is repeated, for a reason that
\* is no pause (child-transport.ts:180-183).
Leave(a, why) ==
  /\ \/ HostAt(a, "working")
     \/ HostAt(a, "dead") /\ why = "other"
  /\ host' = [host EXCEPT ![a] = [at |-> "leaving", why |-> why]]
  /\ UNCHANGED <<runtimeVars, tool, returned, receipts, granted, merged>>

-----------------------------------------------------------------------------
(* The submit_candidate tool                                                *)

ToolAt(a, stage) == tool[a].at = stage
ToolTo(a, stage) == tool' = [tool EXCEPT ![a].at = stage]
Drops(a) == tool' = [tool EXCEPT ![a] = Idle]
Returns(a) == Drops(a) /\ returned' = returned \cup {tool[a].of}

\* The draft is compiled and its patch taken from the leased workspace.
Call(a, d) ==
  /\ HostAt(a, "working") /\ ToolAt(a, "idle")
  /\ <<a, d>> \notin returned
  /\ tool' = [tool EXCEPT ![a] = [Idle EXCEPT !.at = "submit", !.of = <<a, d>>]]
  /\ UNCHANGED <<runtimeVars, host, returned, receipts, granted, merged>>

ToolBegins(a) ==
  /\ ToolCalls(a)
  /\ Begin(ToolCommand(a))
  /\ UNCHANGED hostVars

ToolFails(a) ==
  /\ ToolCalls(a)
  /\ Refuse(ToolCommand(a)) \/ TurnAway(ToolCommand(a))
  /\ Drops(a)
  /\ UNCHANGED <<host, returned, receipts, granted, merged>>

\* What follows a command that has committed.  Only an accepted Candidate is
\* integrated, only an integrated one gets its specs commit.
ToolCommits(a) ==
  LET t == tool[a] IN
  /\ ToolCalls(a) /\ effect = None
  /\ ToolCommand(a) \in committed
  /\ CASE t.at = "submit" -> ToolTo(a, "read") /\ UNCHANGED returned
       [] t.at = "record" -> IF t.v.as = "ACCEPTED"
                               THEN ToolTo(a, "queue") /\ UNCHANGED returned
                               ELSE Returns(a)
       [] t.at = "fail" -> Drops(a) /\ UNCHANGED returned
       [] t.at = "queue" -> ToolTo(a, "integrate") /\ UNCHANGED returned
       [] t.at = "deliver" -> IF t.r.as = "APPLIED"
                                THEN ToolTo(a, "specs") /\ UNCHANGED returned
                                ELSE Returns(a)
       [] t.at = "specs" -> Returns(a)
  /\ UNCHANGED <<runtimeVars, host, receipts, granted, merged>>

\* candidateProgress.  A verification in the record is taken for the
\* Candidate's own, an integration in the record ends the call.
Read(a) ==
  LET v == task.verified IN
  /\ ToolAt(a, "read")
  /\ CASE task.candidate # tool[a].of -> Drops(a) /\ UNCHANGED returned
       [] task.candidate = tool[a].of /\ v = None ->
            ToolTo(a, "verify") /\ UNCHANGED returned
       [] OTHER -> IF v.as = "ACCEPTED" /\ task.integrated = None
                     THEN /\ tool' = [tool EXCEPT ![a].at = "queue", ![a].v = v]
                          /\ UNCHANGED returned
                     ELSE Returns(a)
  /\ UNCHANGED <<runtimeVars, host, receipts, granted, merged>>

\* The verifiers decide, or verification throws (its Agent is stopped, an
\* artifact cannot be read).
Verify(a) ==
  /\ ToolAt(a, "verify")
  /\ \/ /\ receipts < MaxReceipts
        /\ receipts' = receipts + 1
        /\ \E verdict \in Verdicts :
             /\ tool' = [tool EXCEPT ![a].at = "record", ![a].v =
                           [of |-> tool[a].of, as |-> verdict, nr |-> receipts + 1]]
             /\ granted' = IF verdict = "ACCEPTED" THEN granted \cup {tool[a].of}
                           ELSE granted
     \/ ToolTo(a, "fail") /\ UNCHANGED <<receipts, granted>>
  /\ UNCHANGED <<runtimeVars, host, returned, merged>>

\* The patch is applied to main, or is not (a conflict, main has moved, a
\* check fails).  A patch in main cannot be applied again, an integration
\* that ended otherwise keeps its receipt; git may fail at any time.
Integrate(a) ==
  LET c == tool[a].of IN
  /\ ToolAt(a, "integrate")
  /\ \/ \E end \in {"APPLIED", "CONFLICT"} :
          /\ merged[c] \in IF end = "APPLIED" THEN {None} ELSE {None, end}
          /\ merged' = [merged EXCEPT ![c] = end]
          /\ tool' = [tool EXCEPT ![a].at = "deliver",
                                  ![a].r = [of |-> c, as |-> end]]
     \/ Drops(a) /\ UNCHANGED merged
  /\ UNCHANGED <<runtimeVars, host, returned, receipts, granted>>

-----------------------------------------------------------------------------
(* Effects go on by themselves; a crash ends everything that is not durable.*)

EffectStep == (AppendEvent \/ Store \/ Commit) /\ UNCHANGED hostVars

Crash ==
  /\ Abort
  /\ tool' = [a \in Agents |-> Idle]
  /\ host' = [a \in Agents |->
                IF host[a].at \in {"working", "leaving"}
                  THEN [at |-> "dead", why |-> Staying] ELSE host[a]]
  /\ UNCHANGED <<returned, receipts, granted, merged>>

HostStep(a) ==
  \/ Reserve(a) \/ HostBegins(a) \/ HostCommits(a) \/ HostFails(a) \/ HostSkips(a)
  \/ \E why \in Reasons : Leave(a, why)

ToolStep(a) ==
  \/ \E d \in Drafts : Call(a, d)
  \/ ToolBegins(a) \/ ToolFails(a) \/ ToolCommits(a)
  \/ Read(a) \/ Verify(a) \/ Integrate(a)

Next ==
  \/ \E a \in Agents : HostStep(a) \/ ToolStep(a)
  \/ EffectStep
  \/ Crash

Spec == Init /\ [][Next]_vars

-----------------------------------------------------------------------------
(* Properties                                                               *)

Stages == [host : [Agents -> [at : HostStages, why : Reasons \cup {Staying}]],
           tool : [Agents -> [at : ToolStages,
                              of : Candidates \cup {Nobody},
                              v : Verifications \cup {None},
                              r : Integrations \cup {None}]]]

\* The variables stay in their types.
TypeOK ==
  /\ RuntimeTypeOK
  /\ [host |-> host, tool |-> tool] \in Stages
  /\ returned \subseteq Candidates /\ granted \subseteq Candidates
  /\ receipts \in 0..MaxReceipts
  /\ merged \in [Candidates -> {None, "APPLIED", "CONFLICT"}]

\* Between commands the stored Task and the projection of the Mission's
\* events agree, unless the projection cannot be computed: nobody sees a
\* state that a rebuilt projection would not give (runtime.ts and
\* task-reducer.ts decide a Task's state twice).
RecordFollowsLedger == open = None => folded \in {task.state, Broken}

\* A Task that waits for integration, or is past it, is there for the
\* Candidate it names: that Candidate was verified and found acceptable, and
\* an ACCEPTED Task's patch is in main (runtime.ts:718-758, 851-897).
ProvenStates ==
  /\ task.state \in {"WAITING_INTEGRATION", "ACCEPTED", "INTEGRATION_FAILED"} =>
       task.candidate \in granted /\ task.verified.as = "ACCEPTED"
                                 /\ task.verified.of = task.candidate
  /\ task.state = "ACCEPTED" =>
       merged[task.candidate] = "APPLIED" /\ task.integrated.of = task.candidate

\* An effect that was applied before a crash could record its receipt may run
\* again: it is recognised, or does the same once more and appends nothing.
\* releaseTaskLease alone cannot (runtime.ts:645-675).
RerunsAreIdempotent ==
  effect # None /\ effect.at = "applied" /\ open.do # "release" =>
    LET again == Operation(open) IN
    \/ again.replayed
    \/ /\ again.allowed /\ again.after = task
       /\ \A e \in Range(again.events) : e \in stream

\* docs/docs/41-workspace-integration-and-merge-protocol.md:5: only verified
\* patches are applied to main (violated: the record keeps the verification
\* of an earlier Candidate, and the tool takes it for the new one's).
OnlyVerifiedPatchesMerge ==
  \A c \in Candidates : merged[c] = "APPLIED" => c \in granted

\* The Mission's projection can be rebuilt from its events (violated: an
\* operation appends an event that is illegal in the state the fold is in,
\* and every later read of the Mission throws).
HistoryStaysReadable == folded # Broken
=============================================================================

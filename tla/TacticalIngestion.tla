--------------------------- MODULE TacticalIngestion ---------------------------
(***************************************************************************)
(* How private material becomes tactical Skills (MilitaryIngestion,        *)
(* packages/runtime/src/ingestion.ts): a source is imported, a pipeline    *)
(* screens it, cuts it into chunks, has each extracted and makes one       *)
(* candidate; the user edits, returns, rejects or approves the candidate;  *)
(* an approved one is compiled into a bundle, a version of a Skill with    *)
(* the sources it descends from; bundles are promoted from DRAFT towards   *)
(* STABLE, and quarantined when one of their sources is revoked.           *)
(*                                                                         *)
(* One process serves all requests.  Records are read before a request     *)
(* waits for files or a model, and written after it; what needs only the   *)
(* database is one step.                                                   *)
(***************************************************************************)
EXTENDS Naturals, FiniteSets, Functions

CONSTANTS
  Sources,
  Pipelines,        \* extractions; each names the Skill it makes anew
  Findings,         \* what the screening may find in the sources
  Users,            \* requests of the user in flight at a time
  NChunks,
  MaxVersions, MaxRuns, MaxEdits, MaxReviews, MaxPromotions, MaxFaults,   \* bounds
  None

Found == {"PASS", "WARN", "FAIL"}
ASSUME FindingsAssumption == Findings \subseteq [Sources -> Found]
ASSUME NChunksAssumption == NChunks \in Nat \ {0}

(* The records of the store, and what a request keeps while it waits.      *)
SourceStates == {"NONE", "IMPORTED", "SANITIZED", "QUARANTINED", "REVOKED"}
Decisions == {"RETURNED", "REJECTED", "APPROVED_AS_DRAFT"}
TerminalJobStates == Decisions \cup {"PENDING_REVIEW"}
JobStates == TerminalJobStates \cup {"REQUESTED", "SNAPSHOTTING", "SCANNING",
               "AWAITING_INJECTION_ACK", "EXTRACTING", "VALIDATING", "FAILED"}
Lifecycles == {"DRAFT", "SIMULATION", "CANARY", "TESTING", "STABLE", "QUARANTINED", "DEPRECATED"}
Texts == {"extracted", "edited"}
Candidates == [text : Texts, status : TerminalJobStates, made : Nat]
Records == [source : Sources, target : [skill : Pipelines, version : Nat] \cup {None},
            state : JobStates, snapshot : BOOLEAN, done : Nat \cup {None},
            candidate : Candidates \cup {None}]
Processes == [at : {"snapshot", "screen", "extract", "aggregate"}, rec : Records]
Receipts == [of : Pipelines, candidate : Candidates, action : Decisions]
Versions == [skill : Pipelines, version : Nat, by : Pipelines, text : Texts,
             lineage : SUBSET Sources, lifecycle : Lifecycles]
Edits == [do : {"edit"}, of : Pipelines, rec : {r \in Records : r.candidate # None}, text : Texts]
Approvals == [do : {"approve"}, receipt : Receipts, bundle : Versions]

ASSUME NoneAssumption ==
  /\ None \notin Nat \cup Candidates /\ None \notin Records /\ None \notin Processes
  /\ None \notin Edits /\ None \notin Approvals

VARIABLES
  found,            \* what the screening finds
  status,           \* of each source record
  screen,           \* its promptInjectionScan, with the acknowledgement
  pipeline,         \* the pipeline records
  process,          \* the running #process of a pipeline, and the record it has read
  call,             \* the requests that wait
  bundles,          \* the versions of Skills, each with its lifecycle
  reviews,          \* the review receipts
  runs, edits, promotions, faults   \* bounded

vars == <<found, status, screen, pipeline, process, call, bundles, reviews, runs, edits, promotions, faults>>

Blocked == {"REVOKED", "QUARANTINED"}
Recalled == {"QUARANTINED", "DEPRECATED"}
Usable(s) == status[s] \notin Blocked \cup {"NONE"}

(* A candidate is known by its hash: all its fields.                       *)
Candidate(text, state, made) == [text |-> text, status |-> state, made |-> made]
Reviewable == {"PENDING_REVIEW", "RETURNED"}
Pending(p) == pipeline[p] # None /\ pipeline[p].candidate # None

Init ==
  /\ found \in Findings
  /\ status = [s \in Sources |-> "NONE"] /\ screen = [s \in Sources |-> "NONE"]
  /\ pipeline = [p \in Pipelines |-> None] /\ process = [p \in Pipelines |-> None]
  /\ call = [u \in Users |-> None]
  /\ bundles = {} /\ reviews = {}
  /\ runs = [p \in Pipelines |-> 0] /\ edits = 0 /\ promotions = 0 /\ faults = 0

-----------------------------------------------------------------------------
(* Sources                                                                 *)

CreateSource(s) ==
  /\ status[s] = "NONE"
  /\ status' = [status EXCEPT ![s] = "IMPORTED"]
  /\ UNCHANGED <<found, screen, pipeline, process, call, bundles, reviews, runs, edits, promotions, faults>>

(* revokeSource, and the knowledge base's revoke: nothing in them waits.   *)
RevokeSource(s) ==
  /\ status[s] \notin {"NONE", "REVOKED"}
  /\ status' = [status EXCEPT ![s] = "REVOKED"]
  /\ bundles' = {IF s \in b.lineage /\ b.lifecycle # "DEPRECATED"
                   THEN [b EXCEPT !.lifecycle = "QUARANTINED"] ELSE b : b \in bundles}
  /\ UNCHANGED <<found, screen, pipeline, process, call, reviews, runs, edits, promotions, faults>>

AcknowledgeInjection(p) ==
  /\ pipeline[p] # None
  /\ screen[pipeline[p].source] = "WARN"
  /\ screen' = [screen EXCEPT ![pipeline[p].source] = "ACKNOWLEDGED"]
  /\ pipeline' = [pipeline EXCEPT ![p].state = "SCANNING"]
  /\ UNCHANGED <<found, status, process, call, bundles, reviews, runs, edits, promotions, faults>>

-----------------------------------------------------------------------------
(* Extraction                                                              *)

(* assertSupplementTarget                                                  *)
MaySupplement(b) == b.lifecycle \notin Recalled /\ \A s \in b.lineage : Usable(s)
At(skill, version) == {b \in bundles : b.skill = skill /\ b.version = version}
Targets == {[skill |-> b.skill, version |-> b.version] : b \in {c \in bundles : MaySupplement(c)}}

StartExtraction(p, s, target) ==
  /\ pipeline[p] = None /\ Usable(s)
  /\ pipeline' = [pipeline EXCEPT ![p] =
       [source |-> s, target |-> target, state |-> "REQUESTED",
        snapshot |-> FALSE, done |-> None, candidate |-> None]]
  /\ UNCHANGED <<found, status, screen, process, call, bundles, reviews, runs, edits, promotions, faults>>

Goto(p, at, rec) == process' = [process EXCEPT ![p] = [at |-> at, rec |-> rec]]
Leave(p, rec) ==
  /\ pipeline' = [pipeline EXCEPT ![p] = rec]
  /\ process' = [process EXCEPT ![p] = None]

(* A failed pipeline is taken up where it failed; a running one is joined. *)
Resumed(p) ==
  CASE ~pipeline[p].snapshot -> "SNAPSHOTTING"
    [] pipeline[p].snapshot /\ pipeline[p].state # "FAILED" -> pipeline[p].state
    [] OTHER -> IF pipeline[p].done = None THEN "SCANNING" ELSE "EXTRACTING"

BeginProcess(p) ==
  /\ pipeline[p] # None /\ process[p] = None /\ SumFunction(runs) < MaxRuns
  /\ pipeline[p].state \notin TerminalJobStates
  /\ runs' = [runs EXCEPT ![p] = @ + 1]
  /\ LET rec == [pipeline[p] EXCEPT !.state = Resumed(p)]
     IN  /\ pipeline' = [pipeline EXCEPT ![p] = rec]
         /\ Goto(p, IF rec.snapshot THEN "screen" ELSE "snapshot", rec)
  /\ UNCHANGED <<found, status, screen, call, bundles, reviews, edits, promotions, faults>>

(* registerSource: the knowledge base knows a source by its handle, with    *)
(* the pipeline and the time of its snapshot; another one is a conflict.   *)
RegistersAgain(s) == s \in Sources
Unregistered(s) == \A q \in Pipelines : pipeline[q] # None /\ pipeline[q].source = s => ~pipeline[q].snapshot

(* snapshot: the source record it read goes back with a new status, in one *)
(* transaction with the registration, or is rolled back with it.           *)
Screened(s) == IF found[s] = "FAIL" THEN "QUARANTINED" ELSE "SANITIZED"
Snapshot(p) ==
  /\ process[p] # None /\ process[p].at = "snapshot"
  /\ LET s == process[p].rec.source
         rec == [process[p].rec EXCEPT !.snapshot = TRUE, !.state = "SCANNING"]
     IN  IF Unregistered(s)
           THEN /\ status' = [status EXCEPT ![s] = Screened(s)]
                /\ screen' = [screen EXCEPT ![s] = found[s]]
                /\ pipeline' = [pipeline EXCEPT ![p] = rec]
                /\ Goto(p, "screen", rec)
           ELSE /\ Leave(p, [pipeline[p] EXCEPT !.state = "FAILED"])
                /\ UNCHANGED <<status, screen>>
  /\ UNCHANGED <<found, call, bundles, reviews, runs, edits, promotions, faults>>

(* What was found decides whether the pipeline goes on.                    *)
Screen(p) ==
  /\ process[p] # None /\ process[p].at = "screen"
  /\ LET found_in == screen[pipeline[p].source]
     IN  \/ /\ found_in = "FAIL" /\ Leave(p, [pipeline[p] EXCEPT !.state = "FAILED"])
         \/ /\ found_in = "WARN"
            /\ Leave(p, [pipeline[p] EXCEPT !.state = "AWAITING_INJECTION_ACK"])
         \/ /\ found_in \in {"PASS", "ACKNOWLEDGED"} /\ Goto(p, "extract", pipeline[p])
            /\ UNCHANGED pipeline
  /\ UNCHANGED <<found, status, screen, call, bundles, reviews, runs, edits, promotions, faults>>

(* The chunks are cut; then each is extracted and the record written with  *)
(* it.                                                                     *)
ExtractChunk(p) ==
  /\ process[p] # None /\ process[p].at = "extract" /\ process[p].rec.done # NChunks
  /\ LET rec == [process[p].rec EXCEPT !.done = IF @ = None THEN 0 ELSE @ + 1, !.state = "EXTRACTING"]
     IN  /\ pipeline' = [pipeline EXCEPT ![p] = rec]
         /\ Goto(p, "extract", rec)
  /\ UNCHANGED <<found, status, screen, call, bundles, reviews, runs, edits, promotions, faults>>

Aggregate(p) ==
  /\ process[p] # None /\ process[p].at = "extract" /\ process[p].rec.done = NChunks
  /\ LET rec == [process[p].rec EXCEPT !.state = "VALIDATING"]
     IN  /\ pipeline' = [pipeline EXCEPT ![p] = rec]
         /\ Goto(p, "aggregate", rec)
  /\ UNCHANGED <<found, status, screen, call, bundles, reviews, runs, edits, promotions, faults>>

MakeCandidate(p) ==
  /\ process[p] # None /\ process[p].at = "aggregate"
  /\ Leave(p, [pipeline[p] EXCEPT !.candidate = Candidate("extracted", "PENDING_REVIEW", runs[p]),
                                  !.state = "PENDING_REVIEW"])
  /\ UNCHANGED <<found, status, screen, call, bundles, reviews, runs, edits, promotions, faults>>

(* A file, the model or its answer fails; a chunk that fails is written.   *)
FailExtraction(p) ==
  /\ faults < MaxFaults /\ faults' = faults + 1
  /\ process[p] # None /\ process[p].at # "screen"
  /\ \E rec \in {pipeline[p]} \cup {r \in {process[p].rec} : process[p].at = "extract"} :
       Leave(p, [rec EXCEPT !.state = "FAILED"])
  /\ UNCHANGED <<found, status, screen, call, bundles, reviews, runs, edits, promotions>>

-----------------------------------------------------------------------------
(* Review                                                                  *)

Reply(u) == call' = [call EXCEPT ![u] = None]

(* editCandidate: writes the text of the candidate, then the record it     *)
(* read before.                                                            *)
BeginEdit(u, p, text) ==
  /\ call[u] = None /\ Pending(p)
  /\ edits < MaxEdits /\ edits' = edits + 1
  /\ pipeline[p].candidate.status \in Reviewable /\ pipeline[p].candidate.text # text
  /\ call' = [call EXCEPT ![u] = [do |-> "edit", of |-> p, rec |-> pipeline[p], text |-> text]]
  /\ UNCHANGED <<found, status, screen, pipeline, process, bundles, reviews, runs, promotions, faults>>

EndEdit(u) ==
  /\ call[u] # None /\ call[u].do = "edit"
  /\ pipeline' = [pipeline EXCEPT ![call[u].of] =
       [call[u].rec EXCEPT !.state = "PENDING_REVIEW", !.candidate.text = call[u].text,
                           !.candidate.status = "PENDING_REVIEW"]]
  /\ Reply(u)
  /\ UNCHANGED <<found, status, screen, process, bundles, reviews, runs, edits, promotions, faults>>

Receipt(p, action) == [of |-> p, candidate |-> pipeline[p].candidate, action |-> action]

(* The user's RETURN and REJECT, in one transaction.  The same decision on *)
(* the same candidate is known by its receipt.                             *)
Decide(p, decision) ==
  /\ Pending(p) /\ pipeline[p].candidate.status \in Reviewable
  /\ Receipt(p, decision) \notin reviews /\ Cardinality(reviews) < MaxReviews
  /\ pipeline' = [pipeline EXCEPT ![p].state = decision, ![p].candidate.status = decision]
  /\ reviews' = reviews \cup {Receipt(p, decision)}
  /\ UNCHANGED <<found, status, screen, process, call, bundles, runs, edits, promotions, faults>>

(* returnCandidate, by the General.                                        *)
ReturnCandidate(p) ==
  /\ Pending(p) /\ pipeline[p].candidate.status \in Reviewable
  /\ pipeline' = [pipeline EXCEPT ![p].state = "RETURNED", ![p].candidate.status = "RETURNED"]
  /\ UNCHANGED <<found, status, screen, process, call, bundles, reviews, runs, edits, promotions, faults>>

(* #procedureFor: a supplement follows its target, a new Skill its latest  *)
(* version.                                                                *)
NextVersion(p) ==
  IF pipeline[p].target # None THEN pipeline[p].target.version + 1
                               ELSE Cardinality({b \in bundles : b.skill = p})
Inherited(p) ==
  IF pipeline[p].target = None THEN {}
    ELSE UNION {b.lineage : b \in At(pipeline[p].target.skill, pipeline[p].target.version)}
Compiled(p) ==
  [skill |-> IF pipeline[p].target = None THEN p ELSE pipeline[p].target.skill,
   version |-> NextVersion(p), by |-> p, text |-> pipeline[p].candidate.text,
   lineage |-> Inherited(p) \cup {pipeline[p].source}, lifecycle |-> "DRAFT"]

BeginApprove(u, p) ==
  /\ call[u] = None /\ Pending(p)
  /\ pipeline[p].candidate.status \in Reviewable
  /\ Receipt(p, "APPROVED_AS_DRAFT") \notin reviews /\ Cardinality(reviews) < MaxReviews
  /\ Usable(pipeline[p].source) /\ NextVersion(p) < MaxVersions
  /\ call' = [call EXCEPT ![u] = [do |-> "approve", receipt |-> Receipt(p, "APPROVED_AS_DRAFT"),
                                  bundle |-> Compiled(p)]]
  /\ UNCHANGED <<found, status, screen, pipeline, process, bundles, reviews, runs, edits, promotions, faults>>

(* When the bundle is compiled, everything is read again and compared.     *)
SupplementsAnything(p) == Usable(pipeline[p].source)
StillUsable(p) ==
  /\ Usable(pipeline[p].source)
  /\ pipeline[p].target # None =>
       \A b \in At(pipeline[p].target.skill, pipeline[p].target.version) : MaySupplement(b)
Unchanged(p, receipt) == pipeline[p].candidate = receipt.candidate

(* tactics.publish: a version is published once.                           *)
ReplacesDrafts(b) == \A c \in At(b.skill, b.version) : c.lifecycle = "DRAFT"
Publishable(b) == At(b.skill, b.version) \subseteq {b}

ApprovedOnce(u) ==
  /\ call[u].receipt \notin reviews
  /\ StillUsable(call[u].receipt.of) /\ Publishable(call[u].bundle)
Approved(u) ==
  LET p == call[u].receipt.of IN
  /\ call[u].receipt \notin reviews
  /\ Unchanged(p, call[u].receipt) /\ StillUsable(p)
  /\ Compiled(p) = call[u].bundle
  /\ Publishable(call[u].bundle)

EndApprove(u) ==
  /\ call[u] # None /\ call[u].do = "approve"
  /\ LET p == call[u].receipt.of IN
     IF Approved(u)
       THEN /\ pipeline' = [pipeline EXCEPT ![p].state = "APPROVED_AS_DRAFT",
                                            ![p].candidate.status = "APPROVED_AS_DRAFT"]
            /\ bundles' = {b \in bundles : <<b.skill, b.version>>
                                # <<call[u].bundle.skill, call[u].bundle.version>>}
                          \cup {call[u].bundle}
            /\ reviews' = reviews \cup {call[u].receipt}
       ELSE UNCHANGED <<pipeline, bundles, reviews>>
  /\ Reply(u)
  /\ UNCHANGED <<found, status, screen, process, runs, edits, promotions, faults>>

-----------------------------------------------------------------------------
(* Promotion                                                               *)

Allowed ==
  [DRAFT |-> {"SIMULATION"}, SIMULATION |-> {"DRAFT", "CANARY"}, CANARY |-> {"SIMULATION", "TESTING"},
   TESTING |-> {"STABLE", "CANARY"}, STABLE |-> {"TESTING"}, QUARANTINED |-> {"DRAFT"}, DEPRECATED |-> {}]
MayBecome(from, to) ==
  to \in Allowed[from] \/ to = "DEPRECATED" \/ (to = "QUARANTINED" /\ from # "DEPRECATED")

Promote(b, to) ==
  /\ promotions < MaxPromotions /\ promotions' = promotions + 1
  /\ \A s \in b.lineage : status[s] \notin Blocked
  /\ b.lifecycle # to /\ MayBecome(b.lifecycle, to)
  /\ bundles' = (bundles \ {b}) \cup {[b EXCEPT !.lifecycle = to]}
  /\ UNCHANGED <<found, status, screen, pipeline, process, call, reviews, runs, edits, faults>>

Crash ==
  /\ faults < MaxFaults /\ faults' = faults + 1
  /\ \/ \E p \in Pipelines : process[p] # None
     \/ \E u \in Users : call[u] # None
  /\ process' = [p \in Pipelines |-> None] /\ call' = [u \in Users |-> None]
  /\ UNCHANGED <<found, status, screen, pipeline, bundles, reviews, runs, edits, promotions>>

-----------------------------------------------------------------------------
Extract(p) ==
  \/ \E s \in Sources, target \in Targets \cup {None} : StartExtraction(p, s, target)
  \/ BeginProcess(p) \/ Snapshot(p) \/ Screen(p) \/ ExtractChunk(p) \/ Aggregate(p)
  \/ MakeCandidate(p) \/ FailExtraction(p)

Review(u, p) == \/ \E text \in Texts : BeginEdit(u, p, text)
                \/ BeginApprove(u, p)

Next ==
  \/ \E s \in Sources : CreateSource(s) \/ RevokeSource(s)
  \/ \E p \in Pipelines : \/ AcknowledgeInjection(p) \/ Extract(p) \/ ReturnCandidate(p)
                          \/ \E d \in {"RETURNED", "REJECTED"} : Decide(p, d)
  \/ \E u \in Users : (\E p \in Pipelines : Review(u, p)) \/ EndEdit(u) \/ EndApprove(u)
  \/ \E b \in bundles, to \in Lifecycles : Promote(b, to)
  \/ Crash

Spec == Init /\ [][Next]_vars

-----------------------------------------------------------------------------
(* Properties                                                              *)

TypeOK ==
  /\ found \in Findings
  /\ status \in [Sources -> SourceStates] /\ screen \in [Sources -> Found \cup {"NONE", "ACKNOWLEDGED"}]
  /\ pipeline \in [Pipelines -> Records \cup {None}]
  /\ process \in [Pipelines -> Processes \cup {None}]
  /\ call \in [Users -> Edits \cup Approvals \cup {None}]
  /\ bundles \subseteq Versions /\ IsFiniteSet(bundles) /\ reviews \subseteq Receipts
  /\ runs \in [Pipelines -> Nat] /\ edits \in Nat /\ promotions \in Nat /\ faults \in Nat

(* Nothing derived from a revoked source, directly or through what it      *)
(* supplements, can be delivered (docs/docs/33-tactical-ingestion-and-tag- *)
(* governance.md:224): not even what was under review when it was revoked. *)
RevokedIsQuarantined ==
  \A b \in bundles : (\E s \in b.lineage : status[s] = "REVOKED") => b.lifecycle \in Recalled

(* A candidate that is approved has become a version of a Skill, with the  *)
(* text that was approved and its source in the lineage, whatever was      *)
(* written while the bundle was compiled.                                  *)
ApprovedIsPublished ==
  \A p \in Pipelines : Pending(p) /\ pipeline[p].candidate.status = "APPROVED_AS_DRAFT" =>
    \E b \in bundles : /\ b.by = p /\ b.text = pipeline[p].candidate.text
                       /\ pipeline[p].source \in b.lineage

(* A version is never overwritten: two supplements of one version cannot   *)
(* both become the next one.                                               *)
Content(b) == [b EXCEPT !.lifecycle = "DRAFT"]
VersionsAreKept == [][\A b \in bundles : \E c \in bundles' : Content(c) = Content(b)]_vars

(* A version whose source was revoked cannot be restored                   *)
(* (docs/docs/12-tactical-skills.md:101): what keeps it recalled, the      *)
(* revocation of its sources, is never undone, neither by the snapshot of  *)
(* another pipeline nor by a record that a request writes back.            *)
RevocationStands ==
  [][\A b \in bundles : \A s \in b.lineage :
       status[s] = "REVOKED" => status'[s] = "REVOKED"]_vars

(* A revoked source stays revoked, whatever waits when it is revoked       *)
(* (tests/private-skill-supply-chain.test.ts:993); otherwise guidance may  *)
(* follow from it again (docs/docs/47-tactical-knowledge-supply-           *)
(* chain.md:167).  Violated: its first snapshot writes back the record it  *)
(* read before, or never looks at the status.                              *)
RevocationIsFinal ==
  [][\A s \in Sources : status[s] = "REVOKED" => status'[s] = "REVOKED"]_vars

(* The user's decision on a candidate is irreversible                      *)
(* (tools/src/general.ts:460): a rejected candidate stays rejected.        *)
ReviewIsFinal ==
  [][\A p \in Pipelines : Pending(p) /\ pipeline[p].candidate.status = "REJECTED" =>
       pipeline'[p].candidate.status = "REJECTED"]_vars
=============================================================================

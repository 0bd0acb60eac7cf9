------------------------ MODULE TacticalIngestionProofs ------------------------
(***************************************************************************)
(* The ingestion of private material, for any number of sources,           *)
(* pipelines, requests and versions: what descends from a revoked source   *)
(* is recalled, what was approved is published, and what was published is  *)
(* kept, whatever is written back after a request has waited.              *)
(***************************************************************************)
EXTENDS TacticalIngestion, FiniteSetTheorems, TLAPS

\* What is approved in a record, of the store or still to be written back, is
\* among the versions.
Published(B, p, r) ==
  r.candidate # None /\ r.candidate.status = "APPROVED_AS_DRAFT" =>
    \E b \in B : b.by = p /\ b.text = r.candidate.text /\ r.source \in b.lineage

PipelinesPublished ==
  \A p \in Pipelines : pipeline[p] # None => Published(bundles, p, pipeline[p])

ProcessesPublished ==
  \A p \in Pipelines : process[p] # None =>
    pipeline[p] # None /\ Published(bundles, p, process[p].rec)

ApprovalsBegun ==
  \A u \in Users : call[u] # None /\ call[u].do = "approve" => pipeline[call[u].receipt.of] # None

IngestionInv ==
  /\ TypeOK /\ RevokedIsQuarantined
  /\ PipelinesPublished /\ ProcessesPublished /\ ApprovalsBegun

Keeps(B, C) == \A b \in B : \E c \in C : Content(c) = Content(b)

-----------------------------------------------------------------------------
(* Records and versions                                                     *)

LEMMA SameContent ==
  ASSUME NEW b \in Versions, NEW c \in Versions, Content(b) = Content(c)
  PROVE  b.by = c.by /\ b.text = c.text /\ b.lineage = c.lineage
         /\ b.skill = c.skill /\ b.version = c.version
<1>1. PICK d : d = Content(b)
  OBVIOUS
<1>2. d.by = b.by /\ d.text = b.text /\ d.lineage = b.lineage
      /\ d.skill = b.skill /\ d.version = b.version
  BY <1>1 DEF Content, Versions
<1>3. d.by = c.by /\ d.text = c.text /\ d.lineage = c.lineage
      /\ d.skill = c.skill /\ d.version = c.version
  BY <1>1 DEF Content, Versions
<1> QED
  BY <1>2, <1>3

LEMMA NewLifecycle ==
  ASSUME NEW b \in Versions, NEW to \in Lifecycles, NEW c, c = [b EXCEPT !.lifecycle = to]
  PROVE  /\ c \in Versions /\ c.lifecycle = to /\ c.lineage = b.lineage
         /\ Content(c) = Content(b)
<1>1. c \in Versions /\ c.lifecycle = to /\ c.lineage = b.lineage
  BY DEF Versions
<1>2. Content(c) = Content(b)
  BY DEF Content, Versions, Lifecycles
<1> QED
  BY <1>1, <1>2

LEMMA PublishedStays ==
  ASSUME NEW B \in SUBSET Versions, NEW C \in SUBSET Versions, Keeps(B, C), NEW p, NEW r,
         Published(B, p, r)
  PROVE  Published(C, p, r)
<1> SUFFICES ASSUME r.candidate # None, r.candidate.status = "APPROVED_AS_DRAFT"
             PROVE  \E c \in C : c.by = p /\ c.text = r.candidate.text /\ r.source \in c.lineage
  BY DEF Published
<1>1. PICK b \in B : b.by = p /\ b.text = r.candidate.text /\ r.source \in b.lineage
  BY DEF Published
<1>2. PICK c \in C : Content(c) = Content(b)
  BY DEF Keeps
<1> QED
  BY <1>1, <1>2, SameContent

LEMMA KeepsAll ==
  ASSUME NEW B PROVE Keeps(B, B)
BY DEF Keeps

LEMMA NewState ==
  ASSUME NEW r \in Records, NEW state \in JobStates, NEW n, n = [r EXCEPT !.state = state]
  PROVE  /\ n \in Records /\ n.candidate = r.candidate /\ n.source = r.source
         /\ n.snapshot = r.snapshot
BY DEF Records

\* Records of one candidate are published together.
LEMMA SamePublished ==
  ASSUME NEW B, NEW p, NEW r, NEW n, n.candidate = r.candidate, n.source = r.source
  PROVE  Published(B, p, n) <=> Published(B, p, r)
BY DEF Published

\* What a step has to show beyond its types.
LEMMA StepKeeps ==
  ASSUME IngestionInv, TypeOK', RevokedIsQuarantined', Keeps(bundles, bundles'),
         \A q \in Pipelines : pipeline[q] # None => pipeline'[q] # None,
         \A q \in Pipelines : pipeline'[q] = pipeline[q] \/ pipeline'[q] = None
                              \/ Published(bundles', q, pipeline'[q]),
         \A q \in Pipelines : process'[q] = process[q] \/ process'[q] = None
                              \/ (pipeline'[q] # None /\ Published(bundles', q, process'[q].rec)),
         \A u \in Users : call'[u] = call[u] \/ call'[u] = None
                          \/ (call'[u].do = "approve" => pipeline[call'[u].receipt.of] # None)
  PROVE  IngestionInv'
<1>1. bundles \in SUBSET Versions /\ bundles' \in SUBSET Versions
  BY DEF IngestionInv, TypeOK
<1>2. PipelinesPublished'
  <2> SUFFICES ASSUME NEW q \in Pipelines, pipeline'[q] # None
               PROVE  Published(bundles', q, pipeline'[q])
    BY DEF PipelinesPublished
  <2> QED
    BY <1>1, PublishedStays DEF IngestionInv, PipelinesPublished
<1>3. ProcessesPublished'
  <2> SUFFICES ASSUME NEW q \in Pipelines, process'[q] # None
               PROVE  pipeline'[q] # None /\ Published(bundles', q, process'[q].rec)
    BY DEF ProcessesPublished
  <2> QED
    BY <1>1, PublishedStays DEF IngestionInv, ProcessesPublished
<1>4. ApprovalsBegun'
  <2> SUFFICES ASSUME NEW u \in Users, call'[u] # None, call'[u].do = "approve"
               PROVE  pipeline'[call'[u].receipt.of] # None
    BY DEF ApprovalsBegun
  <2>1. call'[u].receipt.of \in Pipelines
    BY DEF TypeOK, Edits, Approvals, Receipts
  <2>2. pipeline[call'[u].receipt.of] # None
    BY DEF IngestionInv, ApprovalsBegun
  <2> QED
    BY <2>1, <2>2
<1> QED
  BY <1>2, <1>3, <1>4 DEF IngestionInv

\* A step that changes the record of one pipeline, and perhaps its process,
\* and revokes nothing.
LEMMA PipelineStep ==
  ASSUME IngestionInv, NEW p \in Pipelines, NEW rec \in Records, NEW proc \in Processes \cup {None},
         Published(bundles, p, rec), proc # None => Published(bundles, p, proc.rec),
         pipeline' = [pipeline EXCEPT ![p] = rec], process' = [process EXCEPT ![p] = proc],
         status' \in [Sources -> SourceStates],
         \A s \in Sources : status'[s] = "REVOKED" => status[s] = "REVOKED",
         screen' \in [Sources -> Found \cup {"NONE", "ACKNOWLEDGED"}],
         call' \in [Users -> Edits \cup Approvals \cup {None}],
         \A u \in Users : call'[u] = call[u] \/ call'[u] = None,
         runs' \in [Pipelines -> Nat], edits' \in Nat, faults' \in Nat, reviews' \subseteq Receipts,
         UNCHANGED <<found, bundles, promotions>>
  PROVE  IngestionInv'
<1>1. TypeOK /\ RevokedIsQuarantined /\ rec # None
  BY NoneAssumption DEF IngestionInv
<1>2. /\ pipeline' \in [Pipelines -> Records \cup {None}] /\ pipeline'[p] = rec
      /\ \A q \in Pipelines : q # p => pipeline'[q] = pipeline[q]
  BY <1>1 DEF TypeOK
<1>3. /\ process' \in [Pipelines -> Processes \cup {None}] /\ process'[p] = proc
      /\ \A q \in Pipelines : q # p => process'[q] = process[q]
  BY <1>1 DEF TypeOK
<1>4. TypeOK'
  BY <1>1, <1>2, <1>3 DEF TypeOK
<1>5. RevokedIsQuarantined'
  BY <1>1 DEF RevokedIsQuarantined, TypeOK, Versions
<1>6. Keeps(bundles, bundles')
  BY KeepsAll
<1>7. \A q \in Pipelines : /\ pipeline[q] # None => pipeline'[q] # None
                           /\ pipeline'[q] = pipeline[q] \/ Published(bundles', q, pipeline'[q])
  BY <1>1, <1>2
<1>8. \A q \in Pipelines : process'[q] = process[q] \/ process'[q] = None
                           \/ (pipeline'[q] # None /\ Published(bundles', q, process'[q].rec))
  BY <1>1, <1>2, <1>3
<1> QED
  BY <1>4, <1>5, <1>6, <1>7, <1>8, StepKeeps

\* The rest of a process stays as it is when only its pipeline's record moves.
LEMMA RecordStep ==
  ASSUME IngestionInv, NEW p \in Pipelines, NEW rec \in Records, Published(bundles, p, rec),
         pipeline' = [pipeline EXCEPT ![p] = rec],
         screen' \in [Sources -> Found \cup {"NONE", "ACKNOWLEDGED"}],
         call' \in [Users -> Edits \cup Approvals \cup {None}],
         \A u \in Users : call'[u] = call[u] \/ call'[u] = None,
         edits' \in Nat, reviews' \subseteq Receipts,
         UNCHANGED <<found, status, process, bundles, runs, promotions, faults>>
  PROVE  IngestionInv'
<1>1. TypeOK
  BY DEF IngestionInv
<1>2. PICK proc : proc = process[p]
  OBVIOUS
<1>3. proc \in Processes \cup {None} /\ process' = [process EXCEPT ![p] = proc]
  BY <1>1, <1>2 DEF TypeOK
<1>4. proc # None => Published(bundles, p, proc.rec)
  BY <1>2 DEF IngestionInv, ProcessesPublished
<1>5. /\ status' \in [Sources -> SourceStates]
      /\ \A s \in Sources : status'[s] = "REVOKED" => status[s] = "REVOKED"
      /\ runs' \in [Pipelines -> Nat] /\ faults' \in Nat
  BY <1>1 DEF TypeOK
<1>6. UNCHANGED <<found, bundles, promotions>>
  OBVIOUS
<1> QED
  BY <1>3, <1>4, <1>5, <1>6, PipelineStep

\* The record of a pipeline and the one a process has read.
LEMMA RecordsAt ==
  ASSUME IngestionInv, NEW p \in Pipelines
  PROVE  /\ pipeline[p] # None => pipeline[p] \in Records /\ Published(bundles, p, pipeline[p])
         /\ process[p] # None => /\ process[p] \in Processes /\ process[p].rec \in Records
                                 /\ Published(bundles, p, process[p].rec)
                                 /\ pipeline[p] # None
BY DEF IngestionInv, TypeOK, Processes, PipelinesPublished, ProcessesPublished

-----------------------------------------------------------------------------
(* Sources                                                                  *)

LEMMA InitIngestionInv == Init => IngestionInv
<1> SUFFICES ASSUME Init PROVE IngestionInv
  OBVIOUS
<1>1. TypeOK
  BY FS_EmptySet DEF Init, TypeOK, SourceStates
<1>2. RevokedIsQuarantined /\ PipelinesPublished /\ ProcessesPublished /\ ApprovalsBegun
  BY DEF Init, RevokedIsQuarantined, PipelinesPublished, ProcessesPublished, ApprovalsBegun
<1> QED
  BY <1>1, <1>2 DEF IngestionInv

LEMMA CreateSourceStep ==
  ASSUME IngestionInv, NEW s \in Sources, CreateSource(s)
  PROVE  IngestionInv'
<1>1. TypeOK /\ RevokedIsQuarantined
  BY DEF IngestionInv
<1>2. /\ status' = [status EXCEPT ![s] = "IMPORTED"]
      /\ UNCHANGED <<found, screen, pipeline, process, call, bundles, reviews, runs, edits, promotions, faults>>
  BY DEF CreateSource
<1>3. status' \in [Sources -> SourceStates]
      /\ \A t \in Sources : status'[t] = "REVOKED" => status[t] = "REVOKED"
  BY <1>1, <1>2 DEF TypeOK, SourceStates
<1>4. TypeOK'
  BY <1>1, <1>2, <1>3 DEF TypeOK
<1>5. RevokedIsQuarantined'
  BY <1>1, <1>2, <1>3 DEF RevokedIsQuarantined, TypeOK, Versions
<1> QED
  BY <1>2, <1>4, <1>5, KeepsAll, StepKeeps

\* What revokeSource makes of a version.
Revoked(s, b) == IF s \in b.lineage /\ b.lifecycle # "DEPRECATED"
                   THEN [b EXCEPT !.lifecycle = "QUARANTINED"] ELSE b

LEMMA RevokedForms ==
  ASSUME NEW s, NEW b \in Versions, NEW c, c = Revoked(s, b)
  PROVE  /\ c \in Versions /\ c.lineage = b.lineage /\ Content(c) = Content(b)
         /\ s \in b.lineage => c.lifecycle \in Recalled
         /\ b.lifecycle \in Recalled => c.lifecycle \in Recalled
<1>1. CASE s \in b.lineage /\ b.lifecycle # "DEPRECATED"
  <2>1. c = [b EXCEPT !.lifecycle = "QUARANTINED"] /\ "QUARANTINED" \in Lifecycles
    BY <1>1 DEF Revoked, Lifecycles
  <2> QED
    BY <2>1, NewLifecycle DEF Recalled
<1>2. CASE ~(s \in b.lineage /\ b.lifecycle # "DEPRECATED")
  BY <1>2 DEF Revoked, Recalled
<1> QED
  BY <1>1, <1>2

LEMMA RevokeSourceStep ==
  ASSUME IngestionInv, NEW s \in Sources, RevokeSource(s)
  PROVE  IngestionInv' /\ Keeps(bundles, bundles')
<1>1. TypeOK /\ RevokedIsQuarantined /\ bundles \subseteq Versions /\ IsFiniteSet(bundles)
  BY DEF IngestionInv, TypeOK
<1>2. /\ status' = [status EXCEPT ![s] = "REVOKED"]
      /\ bundles' = {Revoked(s, b) : b \in bundles}
      /\ UNCHANGED <<found, screen, pipeline, process, call, reviews, runs, edits, promotions, faults>>
  BY DEF RevokeSource, Revoked
<1>3. \A b \in bundles : Revoked(s, b) \in bundles'
  BY <1>2
<1>4. \A c \in bundles' : \E b \in bundles : c = Revoked(s, b)
  BY <1>2
<1>5. Keeps(bundles, bundles')
  BY <1>1, <1>3, RevokedForms DEF Keeps
<1>6. bundles' \subseteq Versions
  BY <1>1, <1>4, RevokedForms
<1>7. IsFiniteSet(bundles')
  <2>1. PICK f : f = [b \in bundles |-> Revoked(s, b)]
    OBVIOUS
  <2>2. f \in Surjection(bundles, bundles')
    BY <1>2, <2>1 DEF Surjection
  <2> QED
    BY <1>1, <2>2, FS_Surjection
<1>8. /\ status' \in [Sources -> SourceStates]
      /\ \A t \in Sources : t # s => status'[t] = status[t]
  BY <1>1, <1>2 DEF TypeOK, SourceStates
<1>9. TypeOK'
  BY <1>1, <1>2, <1>6, <1>7, <1>8 DEF TypeOK
<1>10. RevokedIsQuarantined'
  <2> SUFFICES ASSUME NEW c \in bundles', NEW t \in c.lineage, status'[t] = "REVOKED"
               PROVE  c.lifecycle \in Recalled
    BY DEF RevokedIsQuarantined
  <2>1. PICK b \in bundles : c = Revoked(s, b)
    BY <1>4
  <2>2. /\ c.lineage = b.lineage /\ b.lineage \subseteq Sources
        /\ (s \in b.lineage => c.lifecycle \in Recalled)
        /\ (b.lifecycle \in Recalled => c.lifecycle \in Recalled)
    <3>1. b \in Versions
      BY <1>1
    <3> QED
      BY <2>1, <3>1, RevokedForms DEF Versions
  <2>3. CASE t = s
    BY <2>2, <2>3
  <2>4. CASE t # s
    <3>1. status[t] = "REVOKED" /\ t \in b.lineage
      BY <1>8, <2>2, <2>4
    <3> QED
      BY <1>1, <2>2, <3>1 DEF RevokedIsQuarantined
  <2> QED
    BY <2>3, <2>4
<1> QED
  BY <1>2, <1>5, <1>9, <1>10, StepKeeps

LEMMA AcknowledgeStep ==
  ASSUME IngestionInv, NEW p \in Pipelines, AcknowledgeInjection(p)
  PROVE  IngestionInv'
<1>1. TypeOK /\ pipeline[p] # None /\ pipeline[p] \in Records /\ Published(bundles, p, pipeline[p])
  BY RecordsAt DEF IngestionInv, AcknowledgeInjection
<1>2. PICK rec : rec = [pipeline[p] EXCEPT !.state = "SCANNING"]
  OBVIOUS
<1>3. rec \in Records /\ Published(bundles, p, rec)
  BY <1>1, <1>2, NewState, SamePublished DEF JobStates
<1>4. pipeline' = [pipeline EXCEPT ![p] = rec]
  BY <1>2 DEF AcknowledgeInjection
<1>5. /\ screen' = [screen EXCEPT ![pipeline[p].source] = "ACKNOWLEDGED"]
      /\ UNCHANGED <<found, status, process, call, bundles, reviews, runs, edits, promotions, faults>>
  BY DEF AcknowledgeInjection
<1>6. screen' \in [Sources -> Found \cup {"NONE", "ACKNOWLEDGED"}]
  BY <1>1, <1>5 DEF TypeOK
<1>7. /\ call' \in [Users -> Edits \cup Approvals \cup {None}]
      /\ \A u \in Users : call'[u] = call[u] \/ call'[u] = None
      /\ edits' \in Nat /\ reviews' \subseteq Receipts
      /\ UNCHANGED <<found, status, process, bundles, runs, promotions, faults>>
  BY <1>1, <1>5 DEF TypeOK
<1> QED
  BY <1>3, <1>4, <1>6, <1>7, RecordStep

-----------------------------------------------------------------------------
(* Extraction                                                               *)

\* Steps of a process, which wait for nobody's record but their own.
LEMMA ProcessStep ==
  ASSUME IngestionInv, NEW p \in Pipelines, NEW rec \in Records, NEW proc \in Processes \cup {None},
         Published(bundles, p, rec), proc # None => Published(bundles, p, proc.rec),
         pipeline' = [pipeline EXCEPT ![p] = rec], process' = [process EXCEPT ![p] = proc],
         runs' \in [Pipelines -> Nat], faults' \in Nat,
         UNCHANGED <<found, status, screen, call, bundles, reviews, edits, promotions>>
  PROVE  IngestionInv'
<1>1. TypeOK
  BY DEF IngestionInv
<1>2. /\ status' \in [Sources -> SourceStates]
      /\ \A s \in Sources : status'[s] = "REVOKED" => status[s] = "REVOKED"
      /\ screen' \in [Sources -> Found \cup {"NONE", "ACKNOWLEDGED"}]
      /\ call' \in [Users -> Edits \cup Approvals \cup {None}]
      /\ \A u \in Users : call'[u] = call[u] \/ call'[u] = None
      /\ edits' \in Nat /\ reviews' \subseteq Receipts
      /\ UNCHANGED <<found, bundles, promotions>>
  BY <1>1 DEF TypeOK
<1> QED
  BY <1>2, PipelineStep

LEMMA StartExtractionStep ==
  ASSUME IngestionInv, NEW p \in Pipelines, NEW s \in Sources, NEW target \in Targets \cup {None},
         StartExtraction(p, s, target)
  PROVE  IngestionInv'
<1>1. TypeOK
  BY DEF IngestionInv
<1>2. PICK rec : rec = [source |-> s, target |-> target, state |-> "REQUESTED",
                        snapshot |-> FALSE, done |-> None, candidate |-> None]
  OBVIOUS
<1>3. target \in [skill : Pipelines, version : Nat] \cup {None}
  BY <1>1 DEF Targets, TypeOK, Versions
<1>4. rec \in Records /\ rec.candidate = None
  BY <1>2, <1>3 DEF Records, JobStates
<1>5. Published(bundles, p, rec)
  BY <1>4 DEF Published
<1>6. /\ pipeline' = [pipeline EXCEPT ![p] = rec]
      /\ UNCHANGED <<found, status, screen, process, call, bundles, reviews, runs, edits, promotions, faults>>
  BY <1>2 DEF StartExtraction
<1>7. /\ screen' \in [Sources -> Found \cup {"NONE", "ACKNOWLEDGED"}]
      /\ call' \in [Users -> Edits \cup Approvals \cup {None}]
      /\ \A u \in Users : call'[u] = call[u] \/ call'[u] = None
      /\ edits' \in Nat /\ reviews' \subseteq Receipts
      /\ UNCHANGED <<found, status, process, bundles, runs, promotions, faults>>
  BY <1>1, <1>6 DEF TypeOK
<1> QED
  BY <1>4, <1>5, <1>6, <1>7, RecordStep

LEMMA ResumedType ==
  ASSUME NEW p, pipeline[p] \in Records
  PROVE  Resumed(p) \in JobStates
<1>1. CASE ~pipeline[p].snapshot
  BY <1>1 DEF Resumed, JobStates
<1>2. CASE pipeline[p].snapshot /\ pipeline[p].state # "FAILED"
  <2>1. Resumed(p) = pipeline[p].state
    BY <1>2 DEF Resumed
  <2> QED
    BY <2>1 DEF Records
<1>3. CASE pipeline[p].snapshot /\ pipeline[p].state = "FAILED"
  <2>1. Resumed(p) = IF pipeline[p].done = None THEN "SCANNING" ELSE "EXTRACTING"
    BY <1>3 DEF Resumed
  <2> QED
    BY <2>1 DEF JobStates
<1> QED
  BY <1>1, <1>2, <1>3

LEMMA BeginProcessStep ==
  ASSUME IngestionInv, NEW p \in Pipelines, BeginProcess(p)
  PROVE  IngestionInv'
<1>1. TypeOK /\ pipeline[p] \in Records /\ Published(bundles, p, pipeline[p])
  BY RecordsAt DEF IngestionInv, BeginProcess
<1>2. PICK rec : rec = [pipeline[p] EXCEPT !.state = Resumed(p)]
  OBVIOUS
<1>3. Resumed(p) \in JobStates
  BY <1>1, ResumedType
<1>4. rec \in Records /\ Published(bundles, p, rec)
  BY <1>1, <1>2, <1>3, NewState, SamePublished
<1>5. PICK proc : proc = [at |-> IF rec.snapshot THEN "screen" ELSE "snapshot", rec |-> rec]
  OBVIOUS
<1>6. proc \in Processes /\ proc.rec = rec
  BY <1>4, <1>5 DEF Processes
<1>7. /\ pipeline' = [pipeline EXCEPT ![p] = rec] /\ process' = [process EXCEPT ![p] = proc]
      /\ UNCHANGED <<found, status, screen, call, bundles, reviews, edits, promotions, faults>>
  BY <1>2, <1>5 DEF BeginProcess, Goto
<1>8. runs' \in [Pipelines -> Nat] /\ faults' \in Nat
  BY <1>1, <1>7 DEF TypeOK, BeginProcess
<1> QED
  BY <1>4, <1>6, <1>7, <1>8, ProcessStep

\* A process that ends with the record it finds, in another state.
LEMMA LeaveStep ==
  ASSUME IngestionInv, NEW p \in Pipelines, NEW r \in Records, Published(bundles, p, r),
         NEW state \in JobStates, Leave(p, [r EXCEPT !.state = state]), faults' \in Nat,
         UNCHANGED <<found, status, screen, call, bundles, reviews, runs, edits, promotions>>
  PROVE  IngestionInv'
<1>1. PICK rec : rec = [r EXCEPT !.state = state]
  OBVIOUS
<1>2. rec \in Records /\ Published(bundles, p, rec)
  BY <1>1, NewState, SamePublished
<1>3. pipeline' = [pipeline EXCEPT ![p] = rec] /\ process' = [process EXCEPT ![p] = None]
  BY <1>1 DEF Leave
<1>4. runs' \in [Pipelines -> Nat]
  BY DEF IngestionInv, TypeOK
<1> QED
  BY <1>2, <1>3, <1>4, ProcessStep

\* The first snapshot of a source.
LEMMA FirstSnapshotStep ==
  ASSUME IngestionInv, NEW p \in Pipelines, Snapshot(p), Unregistered(process[p].rec.source)
  PROVE  IngestionInv'
<1>1. /\ TypeOK /\ process[p] \in Processes /\ process[p].rec \in Records
      /\ Published(bundles, p, process[p].rec)
  BY RecordsAt DEF IngestionInv, Snapshot
<1>2. PICK s \in Sources : s = process[p].rec.source
  BY <1>1 DEF Records
<1>3. PICK rec : rec = [process[p].rec EXCEPT !.snapshot = TRUE, !.state = "SCANNING"]
  OBVIOUS
<1>4. rec \in Records /\ rec.candidate = process[p].rec.candidate /\ rec.source = process[p].rec.source
  BY <1>1, <1>3 DEF Records, JobStates
<1>5. Published(bundles, p, rec)
  BY <1>1, <1>4, SamePublished
<1>6. PICK proc : proc = [at |-> "screen", rec |-> rec]
  OBVIOUS
<1>7. proc \in Processes /\ proc.rec = rec
  BY <1>4, <1>6 DEF Processes
<1>8. /\ pipeline' = [pipeline EXCEPT ![p] = rec] /\ process' = [process EXCEPT ![p] = proc]
      /\ status' = [status EXCEPT ![s] = Screened(s)] /\ screen' = [screen EXCEPT ![s] = found[s]]
      /\ UNCHANGED <<found, call, bundles, reviews, runs, edits, promotions, faults>>
  BY <1>2, <1>3, <1>6 DEF Snapshot, Goto
<1>9. Screened(s) \in SourceStates /\ Screened(s) # "REVOKED" /\ found[s] \in Found
  BY <1>1, FindingsAssumption DEF Screened, SourceStates, TypeOK
<1>10. /\ status' \in [Sources -> SourceStates]
       /\ \A t \in Sources : status'[t] = "REVOKED" => status[t] = "REVOKED"
       /\ screen' \in [Sources -> Found \cup {"NONE", "ACKNOWLEDGED"}]
  BY <1>1, <1>8, <1>9 DEF TypeOK
<1>11. /\ call' \in [Users -> Edits \cup Approvals \cup {None}]
       /\ \A u \in Users : call'[u] = call[u] \/ call'[u] = None
       /\ runs' \in [Pipelines -> Nat] /\ edits' \in Nat /\ faults' \in Nat /\ reviews' \subseteq Receipts
       /\ UNCHANGED <<found, bundles, promotions>>
  BY <1>1, <1>8 DEF TypeOK
<1> QED
  BY <1>4, <1>5, <1>7, <1>8, <1>10, <1>11, PipelineStep

LEMMA SnapshotStep ==
  ASSUME IngestionInv, NEW p \in Pipelines, Snapshot(p)
  PROVE  IngestionInv'
<1>1. CASE Unregistered(process[p].rec.source)
  BY <1>1, FirstSnapshotStep
<1>2. CASE ~Unregistered(process[p].rec.source)
  <2>1. /\ TypeOK /\ process[p] # None
        /\ Leave(p, [pipeline[p] EXCEPT !.state = "FAILED"])
        /\ UNCHANGED <<found, status, screen, call, bundles, reviews, runs, edits, promotions, faults>>
    BY <1>2 DEF IngestionInv, Snapshot
  <2>2. /\ pipeline[p] \in Records /\ Published(bundles, p, pipeline[p])
        /\ "FAILED" \in JobStates /\ faults' \in Nat
    BY <2>1, RecordsAt DEF JobStates, TypeOK
  <2> QED
    BY <2>1, <2>2, LeaveStep
<1> QED
  BY <1>1, <1>2

LEMMA ScreenStep ==
  ASSUME IngestionInv, NEW p \in Pipelines, Screen(p)
  PROVE  IngestionInv'
<1>1. /\ TypeOK /\ pipeline[p] \in Records /\ Published(bundles, p, pipeline[p])
  BY RecordsAt DEF IngestionInv, Screen
<1>2. UNCHANGED <<found, status, screen, call, bundles, reviews, runs, edits, promotions, faults>>
      /\ faults' \in Nat
  BY <1>1 DEF Screen, TypeOK
<1>3. "FAILED" \in JobStates /\ "AWAITING_INJECTION_ACK" \in JobStates
  BY DEF JobStates
<1>4. CASE Leave(p, [pipeline[p] EXCEPT !.state = "FAILED"])
  BY <1>1, <1>2, <1>3, <1>4, LeaveStep
<1>5. CASE Leave(p, [pipeline[p] EXCEPT !.state = "AWAITING_INJECTION_ACK"])
  BY <1>1, <1>2, <1>3, <1>5, LeaveStep
<1>6. CASE Goto(p, "extract", pipeline[p]) /\ UNCHANGED pipeline
  <2>1. PICK rec : rec = pipeline[p]
    OBVIOUS
  <2>2. PICK proc : proc = [at |-> "extract", rec |-> rec]
    OBVIOUS
  <2>3. proc \in Processes /\ proc.rec = rec
    BY <1>1, <2>1, <2>2 DEF Processes
  <2>4. pipeline' = [pipeline EXCEPT ![p] = rec] /\ process' = [process EXCEPT ![p] = proc]
    BY <1>1, <1>6, <2>1, <2>2 DEF Goto, TypeOK
  <2>5. runs' \in [Pipelines -> Nat]
    BY <1>1, <1>2 DEF TypeOK
  <2> QED
    BY <1>1, <1>2, <2>1, <2>3, <2>4, <2>5, ProcessStep
<1> QED
  BY <1>4, <1>5, <1>6 DEF Screen

\* A process that goes on with another record, of the same candidate.
LEMMA GoOnStep ==
  ASSUME IngestionInv, NEW p \in Pipelines, process[p] # None, NEW rec \in Records,
         rec.candidate = process[p].rec.candidate, rec.source = process[p].rec.source,
         NEW at \in {"snapshot", "screen", "extract", "aggregate"},
         pipeline' = [pipeline EXCEPT ![p] = rec], Goto(p, at, rec),
         UNCHANGED <<found, status, screen, call, bundles, reviews, runs, edits, promotions, faults>>
  PROVE  IngestionInv'
<1>1. Published(bundles, p, rec)
  BY RecordsAt, SamePublished
<1>2. PICK proc : proc = [at |-> at, rec |-> rec]
  OBVIOUS
<1>3. proc \in Processes /\ proc.rec = rec /\ process' = [process EXCEPT ![p] = proc]
  BY <1>2 DEF Processes, Goto
<1>4. runs' \in [Pipelines -> Nat] /\ faults' \in Nat
      /\ UNCHANGED <<found, status, screen, call, bundles, reviews, edits, promotions>>
  BY DEF IngestionInv, TypeOK
<1> QED
  BY <1>1, <1>3, <1>4, ProcessStep

LEMMA ExtractChunkStep ==
  ASSUME IngestionInv, NEW p \in Pipelines, ExtractChunk(p)
  PROVE  IngestionInv'
<1>1. process[p] # None /\ process[p].rec \in Records
  BY RecordsAt DEF ExtractChunk
<1>2. PICK r \in Records : r = process[p].rec
  BY <1>1
<1>3. PICK rec : rec = [r EXCEPT !.done = IF @ = None THEN 0 ELSE @ + 1, !.state = "EXTRACTING"]
  OBVIOUS
<1>4. rec \in Records /\ rec.candidate = r.candidate /\ rec.source = r.source
  <2>1. (IF r.done = None THEN 0 ELSE r.done + 1) \in Nat
    BY DEF Records
  <2> QED
    BY <1>3, <2>1 DEF Records, JobStates
<1>5. /\ pipeline' = [pipeline EXCEPT ![p] = rec] /\ Goto(p, "extract", rec)
      /\ UNCHANGED <<found, status, screen, call, bundles, reviews, runs, edits, promotions, faults>>
  BY <1>2, <1>3 DEF ExtractChunk
<1> QED
  BY <1>1, <1>2, <1>4, <1>5, GoOnStep

LEMMA AggregateStep ==
  ASSUME IngestionInv, NEW p \in Pipelines, Aggregate(p)
  PROVE  IngestionInv'
<1>1. process[p] # None /\ process[p].rec \in Records
  BY RecordsAt DEF Aggregate
<1>2. PICK rec : rec = [process[p].rec EXCEPT !.state = "VALIDATING"]
  OBVIOUS
<1>3. /\ rec \in Records /\ rec.candidate = process[p].rec.candidate
      /\ rec.source = process[p].rec.source
  BY <1>1, <1>2, NewState DEF JobStates
<1>4. /\ pipeline' = [pipeline EXCEPT ![p] = rec] /\ Goto(p, "aggregate", rec)
      /\ UNCHANGED <<found, status, screen, call, bundles, reviews, runs, edits, promotions, faults>>
  BY <1>2 DEF Aggregate
<1> QED
  BY <1>1, <1>3, <1>4, GoOnStep

LEMMA MakeCandidateStep ==
  ASSUME IngestionInv, NEW p \in Pipelines, MakeCandidate(p)
  PROVE  IngestionInv'
<1>1. TypeOK /\ pipeline[p] \in Records
  BY RecordsAt DEF IngestionInv, MakeCandidate
<1>2. PICK n \in Candidates : n = Candidate("extracted", "PENDING_REVIEW", runs[p])
  BY <1>1 DEF TypeOK, Candidates, Candidate, Texts, TerminalJobStates
<1>3. n.status = "PENDING_REVIEW"
  BY <1>2 DEF Candidate
<1>4. PICK rec : rec = [pipeline[p] EXCEPT !.candidate = n, !.state = "PENDING_REVIEW"]
  OBVIOUS
<1>5. rec \in Records /\ rec.candidate = n
  BY <1>1, <1>4 DEF Records, JobStates, TerminalJobStates
<1>6. Published(bundles, p, rec)
  BY <1>3, <1>5 DEF Published
<1>7. /\ pipeline' = [pipeline EXCEPT ![p] = rec] /\ process' = [process EXCEPT ![p] = None]
      /\ UNCHANGED <<found, status, screen, call, bundles, reviews, runs, edits, promotions, faults>>
  BY <1>2, <1>4 DEF MakeCandidate, Leave
<1>8. runs' \in [Pipelines -> Nat] /\ faults' \in Nat
  BY <1>1, <1>7 DEF TypeOK
<1> QED
  BY <1>5, <1>6, <1>7, <1>8, ProcessStep

LEMMA FailExtractionStep ==
  ASSUME IngestionInv, NEW p \in Pipelines, FailExtraction(p)
  PROVE  IngestionInv'
<1>1. /\ pipeline[p] \in Records /\ Published(bundles, p, pipeline[p])
      /\ process[p].rec \in Records /\ Published(bundles, p, process[p].rec)
  BY RecordsAt DEF FailExtraction
<1>2. PICK r \in {pipeline[p], process[p].rec} : Leave(p, [r EXCEPT !.state = "FAILED"])
  BY DEF FailExtraction
<1>3. /\ faults' \in Nat /\ "FAILED" \in JobStates
      /\ UNCHANGED <<found, status, screen, call, bundles, reviews, runs, edits, promotions>>
  BY DEF FailExtraction, IngestionInv, TypeOK, JobStates
<1> QED
  BY <1>1, <1>2, <1>3, LeaveStep
-----------------------------------------------------------------------------
(* Review                                                                   *)

LEMMA ReplyForms ==
  ASSUME TypeOK, NEW u \in Users, Reply(u)
  PROVE  /\ call' \in [Users -> Edits \cup Approvals \cup {None}]
         /\ \A v \in Users : call'[v] = call[v] \/ call'[v] = None
BY DEF TypeOK, Reply

\* A request that begins touches nothing but itself.
LEMMA RequestStep ==
  ASSUME IngestionInv, NEW u \in Users, NEW c \in Edits \cup Approvals,
         c.do = "approve" => pipeline[c.receipt.of] # None,
         call' = [call EXCEPT ![u] = c], edits' \in Nat,
         UNCHANGED <<found, status, screen, pipeline, process, bundles, reviews, runs, promotions, faults>>
  PROVE  IngestionInv'
<1>1. TypeOK /\ RevokedIsQuarantined
  BY DEF IngestionInv
<1>2. /\ call' \in [Users -> Edits \cup Approvals \cup {None}] /\ call'[u] = c
      /\ \A v \in Users : v # u => call'[v] = call[v]
  BY <1>1 DEF TypeOK
<1>3. TypeOK'
  BY <1>1, <1>2 DEF TypeOK
<1>4. RevokedIsQuarantined'
  BY <1>1 DEF RevokedIsQuarantined
<1>5. \A v \in Users : call'[v] = call[v] \/ call'[v] = None
                       \/ (call'[v].do = "approve" => pipeline[call'[v].receipt.of] # None)
  BY <1>2
<1> QED
  BY <1>3, <1>4, <1>5, KeepsAll, StepKeeps

LEMMA BeginEditStep ==
  ASSUME IngestionInv, NEW u \in Users, NEW p \in Pipelines, NEW text \in Texts, BeginEdit(u, p, text)
  PROVE  IngestionInv'
<1>1. pipeline[p] \in Records /\ pipeline[p].candidate # None
  BY RecordsAt DEF BeginEdit, Pending
<1>2. PICK c : c = [do |-> "edit", of |-> p, rec |-> pipeline[p], text |-> text]
  OBVIOUS
<1>3. c \in Edits /\ c.do = "edit"
  BY <1>1, <1>2 DEF Edits
<1>4. call' = [call EXCEPT ![u] = c] /\ edits' \in Nat
  BY <1>2 DEF BeginEdit, IngestionInv, TypeOK
<1>5. UNCHANGED <<found, status, screen, pipeline, process, bundles, reviews, runs, promotions, faults>>
  BY DEF BeginEdit
<1> QED
  BY <1>3, <1>4, <1>5, RequestStep

\* The record that an edit writes back is not an approved one.
LEMMA EndEditStep ==
  ASSUME IngestionInv, NEW u \in Users, EndEdit(u)
  PROVE  IngestionInv'
<1>1. TypeOK
  BY DEF IngestionInv
<1>2. call[u] \in Edits
  BY <1>1 DEF EndEdit, TypeOK, Approvals
<1>3. PICK p \in Pipelines, r \in Records, text \in Texts :
        p = call[u].of /\ r = call[u].rec /\ text = call[u].text /\ r.candidate # None
  BY <1>2 DEF Edits
<1>4. PICK m \in Candidates : m = r.candidate
  BY <1>3 DEF Records
<1>5. PICK n : n = [m EXCEPT !.text = text, !.status = "PENDING_REVIEW"]
  OBVIOUS
<1>6. n \in Candidates /\ n.status = "PENDING_REVIEW"
  BY <1>5 DEF Candidates, TerminalJobStates
<1>7. PICK rec : rec = [r EXCEPT !.state = "PENDING_REVIEW", !.candidate.text = text,
                                 !.candidate.status = "PENDING_REVIEW"]
  OBVIOUS
<1>8. rec = [r EXCEPT !.state = "PENDING_REVIEW", !.candidate = n]
  BY <1>4, <1>5, <1>7 DEF Records
<1>9. rec \in Records /\ rec.candidate = n
  BY <1>6, <1>8 DEF Records, JobStates, TerminalJobStates
<1>10. Published(bundles, p, rec)
  BY <1>6, <1>9 DEF Published
<1>11. /\ pipeline' = [pipeline EXCEPT ![p] = rec] /\ Reply(u)
       /\ UNCHANGED <<found, status, screen, process, bundles, reviews, runs, edits, promotions, faults>>
  BY <1>3, <1>7 DEF EndEdit
<1>12. /\ call' \in [Users -> Edits \cup Approvals \cup {None}]
       /\ \A v \in Users : call'[v] = call[v] \/ call'[v] = None
  BY <1>1, <1>11, ReplyForms
<1>13. /\ screen' \in [Sources -> Found \cup {"NONE", "ACKNOWLEDGED"}]
       /\ edits' \in Nat /\ reviews' \subseteq Receipts
       /\ UNCHANGED <<found, status, process, bundles, runs, promotions, faults>>
  BY <1>1, <1>11 DEF TypeOK
<1> QED
  BY <1>9, <1>10, <1>11, <1>12, <1>13, RecordStep

\* RETURN and REJECT, by the user or the General.
LEMMA DecisionStep ==
  ASSUME IngestionInv, NEW p \in Pipelines, Pending(p), NEW decision \in {"RETURNED", "REJECTED"},
         pipeline' = [pipeline EXCEPT ![p].state = decision, ![p].candidate.status = decision],
         reviews' \subseteq Receipts,
         UNCHANGED <<found, status, screen, process, call, bundles, runs, edits, promotions, faults>>
  PROVE  IngestionInv'
<1>1. TypeOK /\ pipeline[p] \in Records
  BY RecordsAt DEF IngestionInv, Pending
<1>2. PICK r \in Records : r = pipeline[p]
  BY <1>1
<1>3. PICK m \in Candidates : m = r.candidate
  BY <1>2 DEF Records, Pending
<1>4. PICK n : n = [m EXCEPT !.status = decision]
  OBVIOUS
<1>5. n \in Candidates /\ n.status = decision
  BY <1>4 DEF Candidates, TerminalJobStates, Decisions
<1>6. PICK rec : rec = [r EXCEPT !.state = decision, !.candidate = n]
  OBVIOUS
<1>7. rec \in Records /\ rec.candidate = n
  BY <1>5, <1>6 DEF Records, JobStates, TerminalJobStates, Decisions
<1>8. Published(bundles, p, rec)
  BY <1>5, <1>7 DEF Published
<1>9. pipeline' = [pipeline EXCEPT ![p] = rec]
  BY <1>1, <1>2, <1>3, <1>4, <1>6 DEF TypeOK, Records
<1>10. /\ screen' \in [Sources -> Found \cup {"NONE", "ACKNOWLEDGED"}]
       /\ call' \in [Users -> Edits \cup Approvals \cup {None}]
       /\ \A u \in Users : call'[u] = call[u] \/ call'[u] = None
       /\ edits' \in Nat
       /\ UNCHANGED <<found, status, process, bundles, runs, promotions, faults>>
  BY <1>1 DEF TypeOK
<1> QED
  BY <1>7, <1>8, <1>9, <1>10, RecordStep

LEMMA ReceiptType ==
  ASSUME IngestionInv, NEW p \in Pipelines, Pending(p), NEW action \in Decisions
  PROVE  Receipt(p, action) \in Receipts
<1>1. pipeline[p] \in Records
  BY RecordsAt DEF Pending
<1>2. pipeline[p].candidate \in Candidates
  BY <1>1 DEF Records, Pending
<1> QED
  BY <1>2 DEF Receipt, Receipts

LEMMA ReviewSteps ==
  ASSUME IngestionInv, NEW p \in Pipelines
  PROVE  /\ ReturnCandidate(p) => IngestionInv'
         /\ \A d \in {"RETURNED", "REJECTED"} : Decide(p, d) => IngestionInv'
<1>1. ASSUME ReturnCandidate(p) PROVE IngestionInv'
  <2>1. /\ Pending(p)
        /\ pipeline' = [pipeline EXCEPT ![p].state = "RETURNED", ![p].candidate.status = "RETURNED"]
        /\ UNCHANGED <<found, status, screen, process, call, bundles, runs, edits, promotions, faults>>
    BY <1>1 DEF ReturnCandidate
  <2>2. reviews' \subseteq Receipts
    BY <1>1 DEF ReturnCandidate, IngestionInv, TypeOK
  <2> QED
    BY <2>1, <2>2, DecisionStep
<1>2. ASSUME NEW d \in {"RETURNED", "REJECTED"}, Decide(p, d) PROVE IngestionInv'
  <2>1. /\ Pending(p) /\ reviews' = reviews \cup {Receipt(p, d)}
        /\ pipeline' = [pipeline EXCEPT ![p].state = d, ![p].candidate.status = d]
        /\ UNCHANGED <<found, status, screen, process, call, bundles, runs, edits, promotions, faults>>
    BY <1>2 DEF Decide
  <2>2. reviews' \subseteq Receipts
    BY <2>1, ReceiptType DEF IngestionInv, TypeOK, Decisions
  <2> QED
    BY <2>1, <2>2, DecisionStep
<1> QED
  BY <1>1, <1>2

LEMMA CompiledForms ==
  ASSUME IngestionInv, NEW p \in Pipelines, Pending(p), NEW b, b = Compiled(p)
  PROVE  /\ b \in Versions /\ b.by = p /\ b.text = pipeline[p].candidate.text
         /\ b.lineage = Inherited(p) \cup {pipeline[p].source} /\ b.lifecycle = "DRAFT"
<1>1. TypeOK /\ pipeline[p] \in Records /\ bundles \subseteq Versions /\ IsFiniteSet(bundles)
  BY RecordsAt DEF IngestionInv, Pending, TypeOK
<1>2. PICK r \in Records : r = pipeline[p]
  BY <1>1
<1>3. r.candidate \in Candidates
  BY <1>2 DEF Records, Pending
<1>4. r.target = None \/ (r.target.skill \in Pipelines /\ r.target.version \in Nat)
  BY DEF Records
<1>5. NextVersion(p) \in Nat
  <2>1. PICK own : own = {c \in bundles : c.skill = p}
    OBVIOUS
  <2>2. own \subseteq bundles
    BY <2>1
  <2>3. Cardinality(own) \in Nat
    BY <1>1, <2>2, FS_Subset, FS_CardinalityType
  <2> QED
    BY <1>2, <1>4, <2>1, <2>3 DEF NextVersion
<1>6. Inherited(p) \subseteq Sources
  BY <1>1 DEF Inherited, At, Versions
<1>7. PICK skill, version, lineage :
        /\ skill = IF r.target = None THEN p ELSE r.target.skill
        /\ version = NextVersion(p)
        /\ lineage = Inherited(p) \cup {r.source}
  OBVIOUS
<1>8. b = [skill |-> skill, version |-> version, by |-> p, text |-> r.candidate.text,
           lineage |-> lineage, lifecycle |-> "DRAFT"]
  BY <1>2, <1>7 DEF Compiled
<1>9. skill \in Pipelines /\ version \in Nat /\ lineage \in SUBSET Sources /\ r.candidate.text \in Texts
  BY <1>3, <1>4, <1>5, <1>6, <1>7 DEF Records, Candidates
<1>10. b \in Versions
  BY <1>8, <1>9 DEF Versions, Lifecycles
<1> QED
  BY <1>2, <1>7, <1>8, <1>10

LEMMA BeginApproveStep ==
  ASSUME IngestionInv, NEW u \in Users, NEW p \in Pipelines, BeginApprove(u, p)
  PROVE  IngestionInv'
<1>1. TypeOK /\ Pending(p) /\ pipeline[p] # None
  BY DEF BeginApprove, Pending, IngestionInv
<1>2. PICK receipt \in Receipts : receipt = Receipt(p, "APPROVED_AS_DRAFT")
  BY <1>1, ReceiptType DEF Decisions
<1>3. PICK b \in Versions : b = Compiled(p)
  BY <1>1, CompiledForms
<1>4. PICK c : c = [do |-> "approve", receipt |-> receipt, bundle |-> b]
  OBVIOUS
<1>5. c \in Approvals /\ c.receipt.of = p
  BY <1>2, <1>4 DEF Approvals, Receipt
<1>6. call' = [call EXCEPT ![u] = c] /\ edits' \in Nat
  BY <1>1, <1>2, <1>3, <1>4 DEF BeginApprove, TypeOK
<1>7. UNCHANGED <<found, status, screen, pipeline, process, bundles, reviews, runs, promotions, faults>>
  BY DEF BeginApprove
<1> QED
  BY <1>1, <1>5, <1>6, <1>7, RequestStep

\* What an approval publishes has no revoked ancestor.
LEMMA CompiledIsUsable ==
  ASSUME IngestionInv, NEW p \in Pipelines, Pending(p), StillUsable(p), NEW b, b = Compiled(p),
         NEW s \in b.lineage
  PROVE  status[s] # "REVOKED"
<1>1. b.lineage = Inherited(p) \cup {pipeline[p].source}
  BY CompiledForms
<1>2. CASE s = pipeline[p].source
  BY <1>2 DEF StillUsable, Usable, Blocked
<1>3. CASE s \in Inherited(p)
  <2>1. pipeline[p].target # None
    BY <1>3 DEF Inherited
  <2>2. PICK c \in At(pipeline[p].target.skill, pipeline[p].target.version) : s \in c.lineage
    BY <1>3, <2>1 DEF Inherited
  <2>3. MaySupplement(c)
    BY <2>1, <2>2 DEF StillUsable
  <2> QED
    BY <2>2, <2>3 DEF MaySupplement, Usable, Blocked
<1> QED
  BY <1>1, <1>2, <1>3

LEMMA EndApproveStep ==
  ASSUME IngestionInv, NEW u \in Users, EndApprove(u)
  PROVE  IngestionInv' /\ Keeps(bundles, bundles')
<1>1. TypeOK /\ RevokedIsQuarantined /\ bundles \subseteq Versions /\ IsFiniteSet(bundles)
      /\ reviews \subseteq Receipts
  BY DEF IngestionInv, TypeOK
<1>2. call[u] \in Approvals
  BY <1>1 DEF EndApprove, TypeOK, Edits
<1>3. PICK p \in Pipelines, receipt \in Receipts, b \in Versions :
        p = receipt.of /\ receipt = call[u].receipt /\ b = call[u].bundle
  BY <1>2 DEF Approvals, Receipts
<1>4. Reply(u) /\ UNCHANGED <<found, status, screen, process, runs, edits, promotions, faults>>
  BY DEF EndApprove
<1>5. /\ call' \in [Users -> Edits \cup Approvals \cup {None}]
      /\ \A v \in Users : call'[v] = call[v] \/ call'[v] = None
  BY <1>1, <1>4, ReplyForms
<1>6. CASE ~Approved(u)
  <2>1. UNCHANGED <<pipeline, bundles, reviews>>
    BY <1>6 DEF EndApprove
  <2>2. TypeOK'
    BY <1>1, <1>4, <1>5, <2>1 DEF TypeOK
  <2>3. RevokedIsQuarantined'
    BY <1>1, <1>4, <2>1 DEF RevokedIsQuarantined
  <2>4. Keeps(bundles, bundles')
    BY <2>1, KeepsAll
  <2> QED
    BY <1>4, <1>5, <2>1, <2>2, <2>3, <2>4, StepKeeps
<1>7. CASE Approved(u)
  <2>1. /\ pipeline' = [pipeline EXCEPT ![p].state = "APPROVED_AS_DRAFT",
                                        ![p].candidate.status = "APPROVED_AS_DRAFT"]
        /\ bundles' = {c \in bundles : <<c.skill, c.version>> # <<b.skill, b.version>>} \cup {b}
        /\ reviews' = reviews \cup {receipt}
    BY <1>3, <1>7 DEF EndApprove
  <2>2. /\ pipeline[p].candidate = receipt.candidate /\ StillUsable(p) /\ b = Compiled(p)
        /\ At(b.skill, b.version) \subseteq {b}
    BY <1>3, <1>7 DEF Approved, Unchanged, Publishable
  <2>3. pipeline[p] # None
    BY <1>2, <1>3 DEF IngestionInv, ApprovalsBegun, EndApprove
  <2>4. PICK r \in Records : r = pipeline[p]
    BY <1>1, <2>3 DEF TypeOK
  <2>5. PICK m \in Candidates : m = r.candidate
    BY <1>3, <2>2, <2>4 DEF Receipts
  <2>6. Pending(p)
    BY <2>3, <2>4, <2>5, NoneAssumption DEF Pending
  <2>7. PICK n : n = [m EXCEPT !.status = "APPROVED_AS_DRAFT"]
    OBVIOUS
  <2>8. n \in Candidates /\ n.text = m.text
    BY <2>7 DEF Candidates, TerminalJobStates, Decisions
  <2>9. PICK rec : rec = [r EXCEPT !.state = "APPROVED_AS_DRAFT", !.candidate = n]
    OBVIOUS
  <2>10. rec \in Records /\ rec.candidate = n /\ rec.source = r.source
    BY <2>8, <2>9 DEF Records, JobStates, TerminalJobStates, Decisions
  <2>11. pipeline' = [pipeline EXCEPT ![p] = rec]
    BY <1>1, <2>1, <2>4, <2>5, <2>7, <2>9 DEF TypeOK, Records
  <2>12. /\ pipeline' \in [Pipelines -> Records \cup {None}] /\ pipeline'[p] = rec
         /\ \A q \in Pipelines : q # p => pipeline'[q] = pipeline[q]
    BY <1>1, <2>10, <2>11 DEF TypeOK
  <2>13. \A c \in bundles : c \in bundles'
    <3> SUFFICES ASSUME NEW c \in bundles PROVE c \in bundles'
      OBVIOUS
    <3>1. CASE c.skill = b.skill /\ c.version = b.version
      BY <2>1, <2>2, <3>1 DEF At
    <3>2. CASE ~(c.skill = b.skill /\ c.version = b.version)
      BY <2>1, <3>2
    <3> QED
      BY <3>1, <3>2
  <2>14. \A c \in bundles' : c \in bundles \/ c = b
    BY <2>1
  <2>15. b \in bundles' /\ bundles' \subseteq Versions
    BY <1>1, <2>1
  <2>16. IsFiniteSet(bundles')
    <3>1. bundles' = bundles \cup {b}
      BY <2>13, <2>14, <2>15
    <3> QED
      BY <1>1, <3>1, FS_AddElement
  <2>17. TypeOK'
    BY <1>1, <1>4, <1>5, <2>1, <2>12, <2>15, <2>16 DEF TypeOK
  <2>18. RevokedIsQuarantined'
    <3> SUFFICES ASSUME NEW c \in bundles', NEW s \in c.lineage, status'[s] = "REVOKED"
                 PROVE  c.lifecycle \in Recalled
      BY DEF RevokedIsQuarantined
    <3>1. CASE c \in bundles
      BY <1>1, <1>4, <3>1 DEF RevokedIsQuarantined
    <3>2. CASE c = b
      BY <1>4, <2>2, <2>6, <3>2, CompiledIsUsable
    <3> QED
      BY <2>14, <3>1, <3>2
  <2>19. Keeps(bundles, bundles')
    BY <2>13 DEF Keeps
  <2>20. Published(bundles', p, rec)
    <3>1. /\ b.by = p /\ b.text = m.text /\ r.source \in b.lineage
      BY <2>2, <2>4, <2>5, <2>6, CompiledForms
    <3> QED
      BY <2>8, <2>10, <2>15, <3>1 DEF Published
  <2>21. \A q \in Pipelines : /\ pipeline[q] # None => pipeline'[q] # None
                              /\ pipeline'[q] = pipeline[q] \/ Published(bundles', q, pipeline'[q])
    BY <2>10, <2>12, <2>20, NoneAssumption
  <2> QED
    BY <1>4, <1>5, <2>17, <2>18, <2>19, <2>21, StepKeeps
<1> QED
  BY <1>6, <1>7

-----------------------------------------------------------------------------
(* Promotion, crashes                                                       *)

LEMMA PromoteStep ==
  ASSUME IngestionInv, NEW b \in bundles, NEW to \in Lifecycles, Promote(b, to)
  PROVE  IngestionInv' /\ Keeps(bundles, bundles')
<1>1. TypeOK /\ RevokedIsQuarantined /\ bundles \subseteq Versions /\ IsFiniteSet(bundles)
  BY DEF IngestionInv, TypeOK
<1>2. PICK c : c = [b EXCEPT !.lifecycle = to]
  OBVIOUS
<1>3. /\ c \in Versions /\ c.lifecycle = to /\ c.lineage = b.lineage
      /\ Content(c) = Content(b)
  <2>1. b \in Versions
    BY <1>1
  <2> QED
    BY <1>2, <2>1, NewLifecycle
<1>4. /\ bundles' = (bundles \ {b}) \cup {c} /\ promotions' = promotions + 1
      /\ UNCHANGED <<found, status, screen, pipeline, process, call, reviews, runs, edits, faults>>
  BY <1>2 DEF Promote
<1>5. IsFiniteSet(bundles')
  <2>1. IsFiniteSet(bundles \ {b})
    BY <1>1, FS_RemoveElement
  <2> QED
    BY <1>4, <2>1, FS_AddElement
<1>6. Keeps(bundles, bundles')
  BY <1>3, <1>4 DEF Keeps
<1>7. TypeOK'
  BY <1>1, <1>3, <1>4, <1>5 DEF TypeOK
<1>8. RevokedIsQuarantined'
  <2> SUFFICES ASSUME NEW d \in bundles', NEW s \in d.lineage, status'[s] = "REVOKED"
               PROVE  d.lifecycle \in Recalled
    BY DEF RevokedIsQuarantined
  <2>1. CASE d \in bundles
    BY <1>1, <1>4, <2>1 DEF RevokedIsQuarantined
  <2>2. CASE d = c
    BY <1>3, <1>4, <2>2 DEF Promote, Blocked
  <2> QED
    BY <1>4, <2>1, <2>2
<1> QED
  BY <1>4, <1>6, <1>7, <1>8, StepKeeps

LEMMA CrashStep ==
  ASSUME IngestionInv, Crash
  PROVE  IngestionInv'
<1>1. TypeOK /\ RevokedIsQuarantined
  BY DEF IngestionInv
<1>2. /\ process' = [p \in Pipelines |-> None] /\ call' = [u \in Users |-> None]
      /\ faults' = faults + 1
      /\ UNCHANGED <<found, status, screen, pipeline, bundles, reviews, runs, edits, promotions>>
  BY DEF Crash
<1>3. TypeOK'
  BY <1>1, <1>2 DEF TypeOK
<1>4. RevokedIsQuarantined'
  BY <1>1, <1>2 DEF RevokedIsQuarantined
<1>5. (\A p \in Pipelines : process'[p] = None) /\ (\A u \in Users : call'[u] = None)
  BY <1>2
<1> QED
  BY <1>2, <1>3, <1>4, <1>5, KeepsAll, StepKeeps

LEMMA StepIngestionInv ==
  IngestionInv /\ [Next]_vars => IngestionInv' /\ Keeps(bundles, bundles')
<1> SUFFICES ASSUME IngestionInv, [Next]_vars PROVE IngestionInv' /\ Keeps(bundles, bundles')
  OBVIOUS
<1>1. CASE UNCHANGED vars
  <2>1. IngestionInv'
    BY <1>1 DEF vars, IngestionInv, TypeOK, RevokedIsQuarantined, PipelinesPublished,
                ProcessesPublished, ApprovalsBegun
  <2> QED
    BY <1>1, <2>1, KeepsAll DEF vars
<1>2. ASSUME NEW s \in Sources, CreateSource(s) PROVE IngestionInv' /\ Keeps(bundles, bundles')
  <2>1. UNCHANGED bundles
    BY <1>2 DEF CreateSource
  <2> QED
    BY <1>2, <2>1, CreateSourceStep, KeepsAll
<1>3. ASSUME NEW s \in Sources, RevokeSource(s) PROVE IngestionInv' /\ Keeps(bundles, bundles')
  BY <1>3, RevokeSourceStep
<1>4. ASSUME NEW p \in Pipelines, AcknowledgeInjection(p) PROVE IngestionInv' /\ Keeps(bundles, bundles')
  <2>1. UNCHANGED bundles
    BY <1>4 DEF AcknowledgeInjection
  <2> QED
    BY <1>4, <2>1, AcknowledgeStep, KeepsAll
<1>5. ASSUME NEW p \in Pipelines, Extract(p) PROVE IngestionInv' /\ Keeps(bundles, bundles')
  <2>1. IngestionInv'
    BY <1>5, StartExtractionStep, BeginProcessStep, SnapshotStep, ScreenStep, ExtractChunkStep,
       AggregateStep, MakeCandidateStep, FailExtractionStep DEF Extract
  <2>2. UNCHANGED bundles
    BY <1>5 DEF Extract, StartExtraction, BeginProcess, Snapshot, Screen, ExtractChunk, Aggregate,
                MakeCandidate, FailExtraction
  <2> QED
    BY <2>1, <2>2, KeepsAll
<1>6. ASSUME NEW p \in Pipelines, ReturnCandidate(p) \/ \E d \in {"RETURNED", "REJECTED"} : Decide(p, d)
      PROVE  IngestionInv' /\ Keeps(bundles, bundles')
  <2>1. IngestionInv'
    BY <1>6, ReviewSteps
  <2>2. UNCHANGED bundles
    BY <1>6 DEF ReturnCandidate, Decide
  <2> QED
    BY <2>1, <2>2, KeepsAll
<1>7. ASSUME NEW u \in Users, NEW p \in Pipelines, Review(u, p)
      PROVE  IngestionInv' /\ Keeps(bundles, bundles')
  <2>1. IngestionInv'
    BY <1>7, BeginEditStep, BeginApproveStep DEF Review
  <2>2. UNCHANGED bundles
    BY <1>7 DEF Review, BeginEdit, BeginApprove
  <2> QED
    BY <2>1, <2>2, KeepsAll
<1>8. ASSUME NEW u \in Users, EndEdit(u) PROVE IngestionInv' /\ Keeps(bundles, bundles')
  <2>1. UNCHANGED bundles
    BY <1>8 DEF EndEdit
  <2> QED
    BY <1>8, <2>1, EndEditStep, KeepsAll
<1>9. ASSUME NEW u \in Users, EndApprove(u) PROVE IngestionInv' /\ Keeps(bundles, bundles')
  BY <1>9, EndApproveStep
<1>10. ASSUME NEW b \in bundles, NEW to \in Lifecycles, Promote(b, to)
       PROVE  IngestionInv' /\ Keeps(bundles, bundles')
  BY <1>10, PromoteStep
<1>11. CASE Crash
  <2>1. UNCHANGED bundles
    BY <1>11 DEF Crash
  <2> QED
    BY <1>11, <2>1, CrashStep, KeepsAll
<1> QED
  BY <1>1, <1>2, <1>3, <1>4, <1>5, <1>6, <1>7, <1>8, <1>9, <1>10, <1>11 DEF Next

-----------------------------------------------------------------------------
(* The snapshot of a source is taken once                                   *)

Registered(s) == ~Unregistered(s)

\* Whatever follows from a source, its candidates and its versions, follows
\* from a snapshot; so do the records that will be written back.
SnapshotsInv ==
  /\ \A p \in Pipelines : Pending(p) => pipeline[p].snapshot
  /\ \A p \in Pipelines : process[p] # None =>
       /\ pipeline[p] # None /\ process[p].rec.source = pipeline[p].source
       /\ process[p].at # "snapshot" => pipeline[p].snapshot /\ process[p].rec.snapshot
  /\ \A u \in Users : call[u] # None /\ call[u].do = "edit" =>
       /\ pipeline[call[u].of] # None /\ call[u].rec.source = pipeline[call[u].of].source
       /\ pipeline[call[u].of].snapshot /\ call[u].rec.snapshot
  /\ \A b \in bundles : \A s \in b.lineage : Registered(s)

\* Record n may take the place of record r of a pipeline.
Succeeds(n, r) ==
  /\ r # None => n.source = r.source /\ (r.snapshot => n.snapshot)
  /\ n.candidate # None => n.snapshot

\* What was registered stays registered.
LEMMA RegisteredStays ==
  ASSUME \A q \in Pipelines : pipeline[q] # None =>
           /\ pipeline'[q] # None /\ pipeline'[q].source = pipeline[q].source
           /\ pipeline[q].snapshot => pipeline'[q].snapshot,
         NEW s, Registered(s)
  PROVE  Registered(s)'
BY DEF Registered, Unregistered

\* A step that changes the record of one pipeline, and perhaps its process.
LEMMA OneRecordMoves ==
  ASSUME TypeOK, SnapshotsInv, NEW p \in Pipelines, pipeline'[p] # None,
         Succeeds(pipeline'[p], pipeline[p]),
         \A q \in Pipelines : q # p => pipeline'[q] = pipeline[q] /\ process'[q] = process[q],
         \/ process'[p] = None \/ process'[p] = process[p]
         \/ /\ process'[p].rec.source = pipeline'[p].source
            /\ process'[p].at # "snapshot" => pipeline'[p].snapshot /\ process'[p].rec.snapshot,
         \A u \in Users : call'[u] = call[u] \/ call'[u] = None,
         \A b \in bundles' : b \in bundles \/ \A s \in b.lineage : Registered(s)'
  PROVE  SnapshotsInv'
<1>1. \A q \in Pipelines : Pending(q)' => pipeline'[q].snapshot
  BY DEF Pending, Succeeds, SnapshotsInv
<1>2. \A q \in Pipelines : process'[q] # None =>
        /\ pipeline'[q] # None /\ process'[q].rec.source = pipeline'[q].source
        /\ process'[q].at # "snapshot" => pipeline'[q].snapshot /\ process'[q].rec.snapshot
  BY DEF Succeeds, SnapshotsInv
<1>3. ASSUME NEW u \in Users, call'[u] # None, call'[u].do = "edit"
      PROVE  /\ pipeline'[call'[u].of] # None /\ call'[u].rec.source = pipeline'[call'[u].of].source
             /\ pipeline'[call'[u].of].snapshot /\ call'[u].rec.snapshot
  <2>1. call[u].of \in Pipelines /\ call'[u] = call[u]
    BY <1>3 DEF TypeOK, Edits, Approvals
  <2> QED
    BY <1>3, <2>1 DEF Succeeds, SnapshotsInv
<1>4. \A b \in bundles' : \A s \in b.lineage : Registered(s)'
  <2>1. \A q \in Pipelines : pipeline[q] # None =>
           /\ pipeline'[q] # None /\ pipeline'[q].source = pipeline[q].source
           /\ pipeline[q].snapshot => pipeline'[q].snapshot
    BY DEF Succeeds
  <2> QED
    BY <2>1, RegisteredStays DEF SnapshotsInv
<1> QED
  BY <1>1, <1>2, <1>3, <1>4 DEF SnapshotsInv

\* A step that changes no record and publishes nothing new.
LEMMA NoRecordMoves ==
  ASSUME TypeOK, SnapshotsInv, UNCHANGED pipeline,
         \A q \in Pipelines : process'[q] = process[q] \/ process'[q] = None,
         \A u \in Users : \/ call'[u] = call[u] \/ call'[u] = None \/ call'[u].do # "edit"
                          \/ /\ Pending(call'[u].of) /\ call'[u].of \in Pipelines
                             /\ call'[u].rec = pipeline[call'[u].of],
         \A b \in bundles' : \E c \in bundles : b.lineage = c.lineage
  PROVE  SnapshotsInv'
BY DEF SnapshotsInv, Registered, Unregistered, Pending

LEMMA ExtractMoves ==
  ASSUME TypeOK, TypeOK', SnapshotsInv, NEW p \in Pipelines, Extract(p)
  PROVE  SnapshotsInv'
<1>1. /\ pipeline \in [Pipelines -> Records \cup {None}]
      /\ process \in [Pipelines -> Processes \cup {None}]
      /\ process[p] # None => /\ process[p].rec \in Records /\ pipeline[p] \in Records
                              /\ process[p].rec.source = pipeline[p].source
      /\ pipeline[p] # None => pipeline[p] \in Records
  BY DEF TypeOK, Processes, SnapshotsInv
<1>2. \A q \in Pipelines : q # p => pipeline'[q] = pipeline[q] /\ process'[q] = process[q]
  BY <1>1 DEF Extract, StartExtraction, BeginProcess, Snapshot, Screen, ExtractChunk, Aggregate,
              MakeCandidate, FailExtraction, Goto, Leave
<1>3. UNCHANGED <<call, bundles>>
  BY DEF Extract, StartExtraction, BeginProcess, Snapshot, Screen, ExtractChunk, Aggregate,
         MakeCandidate, FailExtraction
<1>4. SUFFICES
        /\ pipeline'[p] # None /\ Succeeds(pipeline'[p], pipeline[p])
        /\ \/ process'[p] = None \/ process'[p] = process[p]
           \/ /\ process'[p].rec.source = pipeline'[p].source
              /\ process'[p].at # "snapshot" => pipeline'[p].snapshot /\ process'[p].rec.snapshot
  BY <1>2, <1>3, OneRecordMoves
<1>5. ASSUME NEW r \in Records, NEW n, n.source = r.source, r = pipeline[p],
             r.snapshot => n.snapshot, n.candidate = r.candidate
      PROVE  Succeeds(n, pipeline[p])
  BY <1>5, NoneAssumption DEF Succeeds, SnapshotsInv, Pending
<1>6. ASSUME NEW r \in Records, NEW n, n.source = r.source, r = process[p].rec,
             process[p] # None, n.snapshot
      PROVE  Succeeds(n, pipeline[p])
  BY <1>1, <1>6 DEF Succeeds
<1>7. CASE \E s \in Sources, target \in Targets \cup {None} : StartExtraction(p, s, target)
  <2>1. PICK s \in Sources, target \in Targets \cup {None} : StartExtraction(p, s, target)
    BY <1>7
  <2>2. PICK rec : rec = [source |-> s, target |-> target, state |-> "REQUESTED",
                          snapshot |-> FALSE, done |-> None, candidate |-> None]
    OBVIOUS
  <2>3. pipeline'[p] = rec /\ rec \in Records /\ rec.candidate = None
    <3>1. pipeline'[p] = rec
      BY <1>1, <2>1, <2>2 DEF StartExtraction
    <3>2. target \in [skill : Pipelines, version : Nat] \cup {None}
      BY DEF Targets, TypeOK, Versions
    <3> QED
      BY <2>2, <3>1, <3>2 DEF Records, JobStates
  <2> QED
    BY <2>1, <2>3, NoneAssumption DEF StartExtraction, Succeeds
<1>8. CASE BeginProcess(p)
  <2>1. PICK r \in Records : r = pipeline[p]
    BY <1>1, <1>8 DEF BeginProcess
  <2>2. PICK rec : rec = [r EXCEPT !.state = Resumed(p)]
    OBVIOUS
  <2>3. /\ rec.source = r.source /\ rec.snapshot = r.snapshot /\ rec.candidate = r.candidate
        /\ r.snapshot \in BOOLEAN
    BY <2>2 DEF Records
  <2>4. pipeline'[p] = rec /\ process'[p] = [at |-> IF rec.snapshot THEN "screen" ELSE "snapshot", rec |-> rec]
    BY <1>1, <1>8, <2>1, <2>2 DEF BeginProcess, Goto
  <2>5. rec # None
    <3>1. Resumed(p) \in JobStates
      BY <2>1, ResumedType
    <3> QED
      BY <2>2, <3>1, NewState, NoneAssumption
  <2> QED
    BY <1>5, <2>1, <2>3, <2>4, <2>5
<1>9. CASE Snapshot(p)
  <2>1. PICK r \in Records : r = process[p].rec
    BY <1>1, <1>9 DEF Snapshot
  <2>2. PICK rec : rec = [r EXCEPT !.snapshot = TRUE, !.state = "SCANNING"]
    OBVIOUS
  <2>3. rec \in Records /\ rec.source = r.source /\ rec.snapshot
    BY <2>2 DEF Records, JobStates
  <2>4. CASE Unregistered(r.source)
    <3>1. pipeline'[p] = rec /\ process'[p] = [at |-> "screen", rec |-> rec]
      BY <1>1, <1>9, <2>1, <2>2, <2>4 DEF Snapshot, Goto
    <3> QED
      BY <1>6, <1>9, <2>1, <2>3, <3>1, NoneAssumption DEF Snapshot
  <2>5. CASE ~Unregistered(r.source)
    BY <1>1, <1>5, <1>9, <2>1, <2>5, NewState, NoneAssumption DEF Snapshot, Leave, JobStates
  <2> QED
    BY <2>4, <2>5
<1>10. ASSUME NEW r \in Records, process[p] # None, process[p].at # "snapshot",
              r = pipeline[p] \/ r = process[p].rec,
              NEW n \in Records, n.source = r.source, n.snapshot = r.snapshot, pipeline'[p] = n,
              \/ process'[p] = None
              \/ process'[p].rec \in {n, r}
       PROVE  /\ pipeline'[p] # None /\ Succeeds(pipeline'[p], pipeline[p])
              /\ \/ process'[p] = None \/ process'[p] = process[p]
                 \/ /\ process'[p].rec.source = pipeline'[p].source
                    /\ process'[p].at # "snapshot" => pipeline'[p].snapshot /\ process'[p].rec.snapshot
  <2>1. pipeline[p].snapshot /\ process[p].rec.snapshot
    BY <1>10 DEF SnapshotsInv
  <2> QED
    BY <1>1, <1>10, <2>1, NoneAssumption DEF Succeeds
<1>11. CASE Screen(p)
  <2>1. process[p] # None /\ process[p].at # "snapshot" /\ pipeline[p] \in Records
    BY <1>1, <1>11 DEF Screen
  <2>2. PICK r \in Records : r = pipeline[p]
    BY <2>1
  <2>3. ASSUME NEW state \in JobStates, Leave(p, [r EXCEPT !.state = state])
        PROVE  /\ process'[p] = None /\ pipeline'[p] \in Records
               /\ pipeline'[p].source = r.source /\ pipeline'[p].snapshot = r.snapshot
    BY <1>1, <2>3, NewState DEF Leave
  <2>4. CASE pipeline' = pipeline /\ process'[p] = [at |-> "extract", rec |-> r]
    BY <1>10, <2>1, <2>2, <2>4
  <2> QED
    BY <1>1, <1>10, <1>11, <2>1, <2>2, <2>3, <2>4 DEF Screen, Goto, JobStates
<1>12. CASE ExtractChunk(p)
  <2>1. PICK r \in Records : r = process[p].rec
    BY <1>1, <1>12 DEF ExtractChunk
  <2>2. PICK n : n = [r EXCEPT !.done = IF @ = None THEN 0 ELSE @ + 1, !.state = "EXTRACTING"]
    OBVIOUS
  <2>3. n \in Records /\ n.source = r.source /\ n.snapshot = r.snapshot
    <3>1. (IF r.done = None THEN 0 ELSE r.done + 1) \in Nat
      BY DEF Records
    <3> QED
      BY <2>2, <3>1 DEF Records, JobStates
  <2>4. pipeline'[p] = n /\ process'[p] = [at |-> "extract", rec |-> n]
    BY <1>1, <1>12, <2>1, <2>2 DEF ExtractChunk, Goto
  <2> QED
    BY <1>10, <1>12, <2>1, <2>3, <2>4 DEF ExtractChunk
<1>13. CASE Aggregate(p)
  <2>1. PICK r \in Records : r = process[p].rec
    BY <1>1, <1>13 DEF Aggregate
  <2>2. PICK n : n = [r EXCEPT !.state = "VALIDATING"]
    OBVIOUS
  <2>3. n \in Records /\ n.source = r.source /\ n.snapshot = r.snapshot
    BY <2>2, NewState DEF JobStates
  <2>4. pipeline'[p] = n /\ process'[p] = [at |-> "aggregate", rec |-> n]
    BY <1>1, <1>13, <2>1, <2>2 DEF Aggregate, Goto
  <2> QED
    BY <1>10, <1>13, <2>1, <2>3, <2>4 DEF Aggregate
<1>14. CASE MakeCandidate(p)
  <2>1. PICK r \in Records : r = pipeline[p]
    BY <1>1, <1>14 DEF MakeCandidate
  <2>2. PICK c \in Candidates : c = Candidate("extracted", "PENDING_REVIEW", runs[p])
    BY DEF TypeOK, Candidates, Candidate, Texts, TerminalJobStates
  <2>3. PICK n : n = [r EXCEPT !.candidate = c, !.state = "PENDING_REVIEW"]
    OBVIOUS
  <2>4. n \in Records /\ n.source = r.source /\ n.snapshot = r.snapshot
    BY <2>3 DEF Records, JobStates, TerminalJobStates
  <2>5. pipeline'[p] = n /\ process'[p] = None
    BY <1>1, <1>14, <2>1, <2>2, <2>3 DEF MakeCandidate, Leave
  <2> QED
    BY <1>10, <1>14, <2>1, <2>4, <2>5 DEF MakeCandidate
<1>15. CASE FailExtraction(p)
  <2>1. ASSUME NEW r \in Records, Leave(p, [r EXCEPT !.state = "FAILED"])
        PROVE  /\ process'[p] = None /\ pipeline'[p] \in Records
               /\ pipeline'[p].source = r.source /\ pipeline'[p].snapshot = r.snapshot
               /\ pipeline'[p].candidate = r.candidate
    BY <1>1, <2>1, NewState DEF Leave, JobStates
  <2>2. CASE Leave(p, [pipeline[p] EXCEPT !.state = "FAILED"])
    BY <1>1, <1>5, <1>15, <2>1, <2>2, NoneAssumption DEF FailExtraction
  <2>3. CASE process[p].at = "extract" /\ Leave(p, [process[p].rec EXCEPT !.state = "FAILED"])
    BY <1>1, <1>10, <1>15, <2>1, <2>3 DEF FailExtraction
  <2> QED
    BY <1>15, <2>2, <2>3 DEF FailExtraction
<1> QED
  BY <1>7, <1>8, <1>9, <1>11, <1>12, <1>13, <1>14, <1>15 DEF Extract

LEMMA ReviewMoves ==
  ASSUME TypeOK, SnapshotsInv, NEW p \in Pipelines,
         \/ AcknowledgeInjection(p) \/ ReturnCandidate(p)
         \/ \E d \in {"RETURNED", "REJECTED"} : Decide(p, d)
  PROVE  SnapshotsInv'
<1>1. PICK r \in Records : r = pipeline[p]
  BY DEF TypeOK, AcknowledgeInjection, ReturnCandidate, Decide, Pending
<1>2. UNCHANGED <<process, call, bundles>>
      /\ \A q \in Pipelines : q # p => pipeline'[q] = pipeline[q]
  BY DEF TypeOK, AcknowledgeInjection, ReturnCandidate, Decide
<1>3. /\ pipeline'[p] # None /\ pipeline'[p].source = r.source /\ pipeline'[p].snapshot = r.snapshot
      /\ pipeline'[p].candidate # None => r.candidate # None
  <2>1. CASE AcknowledgeInjection(p)
    <3>1. pipeline'[p] = [r EXCEPT !.state = "SCANNING"]
      BY <1>1, <2>1 DEF AcknowledgeInjection, TypeOK
    <3> QED
      BY <3>1, NewState, NoneAssumption DEF JobStates
  <2>2. ASSUME NEW d \in {"RETURNED", "REJECTED"}, Pending(p),
               pipeline' = [pipeline EXCEPT ![p].state = d, ![p].candidate.status = d]
        PROVE  /\ pipeline'[p] # None /\ pipeline'[p].source = r.source
               /\ pipeline'[p].snapshot = r.snapshot
               /\ pipeline'[p].candidate # None => r.candidate # None
    <3>1. PICK m \in Candidates : m = r.candidate
      BY <1>1, <2>2 DEF Records, Pending
    <3>2. PICK n : n = [m EXCEPT !.status = d]
      OBVIOUS
    <3>3. PICK rec : rec = [r EXCEPT !.state = d, !.candidate = n]
      OBVIOUS
    <3>4. rec \in Records /\ rec.source = r.source /\ rec.snapshot = r.snapshot
      BY <3>2, <3>3 DEF Records, Candidates, JobStates, TerminalJobStates, Decisions
    <3>5. pipeline'[p] = rec
      BY <1>1, <2>2, <3>1, <3>2, <3>3 DEF TypeOK, Records
    <3> QED
      BY <1>1, <2>2, <3>4, <3>5, NoneAssumption DEF Pending
  <2>3. CASE ReturnCandidate(p)
    BY <2>2, <2>3 DEF ReturnCandidate
  <2>4. ASSUME NEW d \in {"RETURNED", "REJECTED"}, Decide(p, d)
        PROVE  /\ pipeline'[p] # None /\ pipeline'[p].source = r.source
               /\ pipeline'[p].snapshot = r.snapshot
               /\ pipeline'[p].candidate # None => r.candidate # None
    BY <2>2, <2>4 DEF Decide
  <2> QED
    BY <2>1, <2>3, <2>4
<1> QED
  BY <1>1, <1>2, <1>3, OneRecordMoves, NoneAssumption DEF Succeeds, SnapshotsInv, Pending

LEMMA EndEditMoves ==
  ASSUME TypeOK, SnapshotsInv, NEW u \in Users, EndEdit(u)
  PROVE  SnapshotsInv'
<1>1. call[u] \in Edits
  BY DEF EndEdit, TypeOK, Approvals
<1>2. PICK p \in Pipelines, r \in Records, text \in Texts :
        p = call[u].of /\ r = call[u].rec /\ text = call[u].text /\ r.candidate # None
  BY <1>1 DEF Edits
<1>3. PICK m \in Candidates : m = r.candidate
  BY <1>2 DEF Records
<1>4. PICK n : n = [m EXCEPT !.text = text, !.status = "PENDING_REVIEW"]
  OBVIOUS
<1>5. PICK rec : rec = [r EXCEPT !.state = "PENDING_REVIEW", !.candidate = n]
  OBVIOUS
<1>6. rec \in Records /\ rec.source = r.source /\ rec.snapshot = r.snapshot
  BY <1>4, <1>5 DEF Records, Candidates, JobStates, TerminalJobStates
<1>7. /\ pipeline' = [pipeline EXCEPT ![p] = rec]
      /\ Reply(u) /\ UNCHANGED <<process, bundles>>
  BY <1>2, <1>3, <1>4, <1>5 DEF EndEdit, Records
<1>8. r.snapshot /\ pipeline[p] # None /\ r.source = pipeline[p].source
  BY <1>2 DEF SnapshotsInv, EndEdit
<1>9. /\ pipeline'[p] = rec /\ rec # None
      /\ \A q \in Pipelines : q # p => pipeline'[q] = pipeline[q]
      /\ \A v \in Users : call'[v] = call[v] \/ call'[v] = None
  BY <1>6, <1>7, ReplyForms, NoneAssumption DEF TypeOK
<1> QED
  BY <1>6, <1>7, <1>8, <1>9, OneRecordMoves DEF Succeeds

LEMMA EndApproveMoves ==
  ASSUME IngestionInv, SnapshotsInv, NEW u \in Users, EndApprove(u)
  PROVE  SnapshotsInv'
<1>1. TypeOK
  BY DEF IngestionInv
<1>2. call[u] \in Approvals
  BY <1>1 DEF EndApprove, TypeOK, Edits
<1>3. PICK p \in Pipelines, receipt \in Receipts, b \in Versions :
        p = receipt.of /\ receipt = call[u].receipt /\ b = call[u].bundle
  BY <1>2 DEF Approvals, Receipts
<1>4. /\ UNCHANGED process
      /\ \A v \in Users : call'[v] = call[v] \/ call'[v] = None
  BY <1>1, ReplyForms DEF EndApprove
<1>5. CASE ~Approved(u)
  <2>1. UNCHANGED <<pipeline, bundles>>
    BY <1>5 DEF EndApprove
  <2> QED
    BY <1>1, <1>4, <2>1, NoRecordMoves
<1>6. CASE Approved(u)
  <2>1. /\ pipeline' = [pipeline EXCEPT ![p].state = "APPROVED_AS_DRAFT",
                                        ![p].candidate.status = "APPROVED_AS_DRAFT"]
        /\ bundles' \subseteq bundles \cup {b}
    BY <1>3, <1>6 DEF EndApprove
  <2>2. pipeline[p].candidate = receipt.candidate /\ b = Compiled(p)
    BY <1>3, <1>6 DEF Approved, Unchanged
  <2>3. pipeline[p] # None
    BY <1>2, <1>3 DEF IngestionInv, ApprovalsBegun, EndApprove
  <2>4. PICK r \in Records : r = pipeline[p]
    BY <1>1, <2>3 DEF TypeOK
  <2>5. PICK m \in Candidates : m = r.candidate
    BY <1>3, <2>2, <2>4 DEF Receipts
  <2>6. Pending(p) /\ r.snapshot
    BY <2>3, <2>4, <2>5, NoneAssumption DEF Pending, SnapshotsInv
  <2>7. PICK n : n = [m EXCEPT !.status = "APPROVED_AS_DRAFT"]
    OBVIOUS
  <2>8. PICK rec : rec = [r EXCEPT !.state = "APPROVED_AS_DRAFT", !.candidate = n]
    OBVIOUS
  <2>9. rec \in Records /\ rec.source = r.source /\ rec.snapshot = r.snapshot
    BY <2>7, <2>8 DEF Records, Candidates, JobStates, TerminalJobStates, Decisions
  <2>10. pipeline' = [pipeline EXCEPT ![p] = rec]
    BY <1>1, <2>1, <2>4, <2>5, <2>7, <2>8 DEF TypeOK, Records
  <2>11. /\ pipeline'[p] = rec /\ rec # None
         /\ \A q \in Pipelines : q # p => pipeline'[q] = pipeline[q]
    BY <1>1, <2>9, <2>10, NoneAssumption DEF TypeOK
  <2>12. \A s : Registered(s) => Registered(s)'
    BY <2>4, <2>9, <2>11, RegisteredStays
  <2>13. \A s \in b.lineage : Registered(s)'
    <3>1. b.lineage = Inherited(p) \cup {r.source}
      BY <2>2, <2>4, <2>6, CompiledForms
    <3>2. Registered(r.source)
      BY <2>3, <2>4, <2>6 DEF Registered, Unregistered
    <3>3. \A s \in Inherited(p) : Registered(s)
      BY DEF Inherited, At, SnapshotsInv
    <3> QED
      BY <2>12, <3>1, <3>2, <3>3
  <2> QED
    BY <1>1, <1>4, <2>1, <2>4, <2>6, <2>9, <2>11, <2>13, OneRecordMoves DEF Succeeds
<1> QED
  BY <1>5, <1>6

LEMMA StepSnapshotsInv ==
  IngestionInv /\ SnapshotsInv /\ [Next]_vars => SnapshotsInv'
<1> SUFFICES ASSUME IngestionInv, SnapshotsInv, [Next]_vars PROVE SnapshotsInv'
  OBVIOUS
<1>1. TypeOK /\ TypeOK'
  BY StepIngestionInv DEF IngestionInv
<1>2. CASE UNCHANGED vars
  BY <1>1, <1>2, NoRecordMoves DEF vars
<1>3. ASSUME NEW s \in Sources, CreateSource(s) PROVE SnapshotsInv'
  BY <1>1, <1>3, NoRecordMoves DEF CreateSource
<1>4. ASSUME NEW s \in Sources, RevokeSource(s) PROVE SnapshotsInv'
  <2>1. UNCHANGED <<pipeline, process, call>> /\ bundles' = {Revoked(s, b) : b \in bundles}
    BY <1>4 DEF RevokeSource, Revoked
  <2>2. \A b \in bundles' : \E c \in bundles : b.lineage = c.lineage
    BY <1>1, <2>1, RevokedForms DEF TypeOK
  <2> QED
    BY <1>1, <2>1, <2>2, NoRecordMoves
<1>5. ASSUME NEW p \in Pipelines, Extract(p) PROVE SnapshotsInv'
  BY <1>1, <1>5, ExtractMoves
<1>6. ASSUME NEW p \in Pipelines,
             \/ AcknowledgeInjection(p) \/ ReturnCandidate(p)
             \/ \E d \in {"RETURNED", "REJECTED"} : Decide(p, d)
      PROVE  SnapshotsInv'
  BY <1>1, <1>6, ReviewMoves
<1>7. ASSUME NEW u \in Users, NEW p \in Pipelines, Review(u, p) PROVE SnapshotsInv'
  <2>1. UNCHANGED <<pipeline, process, bundles>>
    BY <1>7 DEF Review, BeginEdit, BeginApprove
  <2>2. ASSUME NEW text \in Texts, BeginEdit(u, p, text)
        PROVE  \A v \in Users : call'[v] = call[v] \/ (Pending(call'[v].of)
                                 /\ call'[v].of \in Pipelines /\ call'[v].rec = pipeline[call'[v].of])
    BY <1>1, <2>2 DEF BeginEdit, TypeOK
  <2>3. BeginApprove(u, p) => \A v \in Users : call'[v] = call[v] \/ call'[v].do # "edit"
    BY <1>1 DEF BeginApprove, TypeOK
  <2> QED
    BY <1>1, <1>7, <2>1, <2>2, <2>3, NoRecordMoves DEF Review
<1>8. ASSUME NEW u \in Users, EndEdit(u) PROVE SnapshotsInv'
  BY <1>1, <1>8, EndEditMoves
<1>9. ASSUME NEW u \in Users, EndApprove(u) PROVE SnapshotsInv'
  BY <1>9, EndApproveMoves
<1>10. ASSUME NEW b \in bundles, NEW to \in Lifecycles, Promote(b, to) PROVE SnapshotsInv'
  <2>1. PICK c : c = [b EXCEPT !.lifecycle = to]
    OBVIOUS
  <2>2. c.lineage = b.lineage
    BY <1>1, <2>1 DEF TypeOK, Versions
  <2> QED
    BY <1>1, <1>10, <2>1, <2>2, NoRecordMoves DEF Promote
<1>11. CASE Crash
  BY <1>1, <1>11, NoRecordMoves DEF Crash
<1> QED
  BY <1>2, <1>3, <1>4, <1>5, <1>6, <1>7, <1>8, <1>9, <1>10, <1>11 DEF Next

-----------------------------------------------------------------------------
(* The theorems                                                             *)

\* Every record that may still be written back is published where approved.
LEMMA IngestionInvariance == Spec => []IngestionInv
BY InitIngestionInv, StepIngestionInv, PTL DEF Spec

\* Sources, pipelines, requests, versions and receipts keep their types.
THEOREM IngestionTypeCorrectness == Spec => []TypeOK
<1>1. IngestionInv => TypeOK
  BY DEF IngestionInv
<1> QED
  BY <1>1, IngestionInvariance, PTL

\* Whatever descends from a revoked source, at any depth of supplements, is
\* quarantined or deprecated, also when it was under review at the time.
THEOREM RevocationReachesVersions == Spec => []RevokedIsQuarantined
<1>1. IngestionInv => RevokedIsQuarantined
  BY DEF IngestionInv
<1> QED
  BY <1>1, IngestionInvariance, PTL

\* An approved candidate is a version of its Skill with its text and source,
\* although requests and processes write records back that they read before.
THEOREM ApprovalPublishes == Spec => []ApprovedIsPublished
<1>1. IngestionInv => ApprovedIsPublished
  BY DEF IngestionInv, PipelinesPublished, Published, ApprovedIsPublished, Pending
<1> QED
  BY <1>1, IngestionInvariance, PTL

\* No step overwrites or removes a version; only lifecycles change.
THEOREM VersionsStand == Spec => VersionsAreKept
<1>1. IngestionInv /\ [Next]_vars => [\A b \in bundles : \E c \in bundles' : Content(c) = Content(b)]_vars
  BY StepIngestionInv DEF Keeps
<1> QED
  BY <1>1, IngestionInvariance, PTL DEF Spec, VersionsAreKept

\* What keeps a version of a revoked source recalled is never undone: a source
\* with a version has had its snapshot, and has no other.
THEOREM RevocationIsKept == Spec => RevocationStands
<1>1. Init => SnapshotsInv
  BY DEF Init, SnapshotsInv, Pending
<1>2. IngestionInv /\ SnapshotsInv /\ [Next]_vars =>
        [\A b \in bundles : \A s \in b.lineage :
           status[s] = "REVOKED" => status'[s] = "REVOKED"]_vars
  <2> SUFFICES ASSUME IngestionInv, SnapshotsInv, Next, NEW b \in bundles, NEW s \in b.lineage,
                      status[s] = "REVOKED"
               PROVE  status'[s] = "REVOKED"
    OBVIOUS
  <2>1. status \in [Sources -> SourceStates] /\ s \in Sources /\ ~Unregistered(s)
    BY DEF IngestionInv, TypeOK, Versions, SnapshotsInv, Registered
  <2>2. ASSUME NEW t \in Sources, CreateSource(t) \/ RevokeSource(t) PROVE status'[s] = "REVOKED"
    BY <2>1, <2>2 DEF CreateSource, RevokeSource
  <2>3. ASSUME NEW p \in Pipelines, Extract(p) PROVE status'[s] = "REVOKED"
    <3>1. CASE Snapshot(p)
      BY <2>1, <3>1 DEF Snapshot
    <3>2. CASE UNCHANGED status
      BY <3>2
    <3> QED
      BY <2>3, <3>1, <3>2 DEF Extract, StartExtraction, BeginProcess, Screen, ExtractChunk,
                             Aggregate, MakeCandidate, FailExtraction
  <2>4. CASE UNCHANGED status
    BY <2>4
  <2> QED
    BY <2>2, <2>3, <2>4 DEF Next, AcknowledgeInjection, ReturnCandidate, Decide, Review, BeginEdit,
                           BeginApprove, EndEdit, EndApprove, Promote, Crash
<1> QED
  BY <1>1, <1>2, IngestionInvariance, StepSnapshotsInv, PTL DEF Spec, RevocationStands
=============================================================================

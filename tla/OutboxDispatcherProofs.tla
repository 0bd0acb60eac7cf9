------------------------ MODULE OutboxDispatcherProofs ------------------------
(***************************************************************************)
(* Theorems about OutboxDispatcher, for any messages, partitions, workers  *)
(* and attempt limit.  The inductive invariant says that whatever a loop   *)
(* holds, has handled or has recorded is at the front of its partition:    *)
(* no pending row precedes it.                                             *)
(***************************************************************************)
EXTENDS OutboxDispatcher, TLAPS

(* Nothing pending precedes m.                                             *)
AtFront(m) == \A n \in Messages : status[n] = "pending" => ~Precedes(n, m)

(* outbox ids are given once, in commit order.                             *)
Placed ==
  /\ \A m \in Messages : (status[m] = "absent") <=> (id[m] = 0)
  /\ \A m \in Messages : id[m] <= last
  /\ \A m, n \in Messages : id[m] = id[n] /\ id[m] # 0 => m = n

Claims ==
  \A m \in Messages :
    /\ live[m] => claimedBy[m] # None
    /\ claimedBy[m] # None => status[m] = "pending"

Jobbed ==
  \A w \in Workers : phase[w] # "idle" =>
    /\ status[job[w].message] # "absent"
    /\ AtFront(job[w].message)
    /\ job[w].attempt # 0
    /\ phase[w] = "handled" => recorded[job[w].message]

Recorded == \A m \in Messages : recorded[m] => status[m] # "absent" /\ AtFront(m)

OffsetsExist == \A p \in Partitions : offset[p] <= last

Inv ==
  /\ Placed
  /\ Claims
  /\ Jobbed
  /\ Recorded
  /\ OffsetsExist
  /\ OffsetsHaveNoGaps
  /\ ReceiptsAreProof
  /\ DeadLettersWereTried

-----------------------------------------------------------------------------
(* The invariant and the types hold initially.                             *)
LEMMA InitInv == Init => TypeOK /\ Inv
  BY DispatcherAssumption
     DEF Init, TypeOK, Inv, Placed, Claims, Jobbed, Recorded, OffsetsExist,
         OffsetsHaveNoGaps, ReceiptsAreProof, DeadLettersWereTried, AtFront, Precedes

(* Every step keeps the types.                                             *)
LEMMA TypeStep == TypeOK /\ [Next]_vars => TypeOK'
<1> SUFFICES ASSUME TypeOK, [Next]_vars PROVE TypeOK'
  OBVIOUS
<1> USE DispatcherAssumption DEF TypeOK, Jobs
<1>1. ASSUME NEW m \in Messages, Enqueue(m) PROVE TypeOK'
  BY <1>1 DEF Enqueue
<1>2. ASSUME NEW w \in Workers, NEW m \in Messages, Claim(w, m) PROVE TypeOK'
  BY <1>2 DEF Claim
<1>3. ASSUME NEW w \in Workers, Handle(w) PROVE TypeOK'
  BY <1>3 DEF Handle, rowVars
<1>4. ASSUME NEW w \in Workers, Throw(w) PROVE TypeOK'
  BY <1>4 DEF Throw, rowVars
<1>5. ASSUME NEW w \in Workers, Ack(w) PROVE TypeOK'
  BY <1>5 DEF Ack, LetGo, HoldsClaim
<1>6. ASSUME NEW w \in Workers, AckLost(w) PROVE TypeOK'
  BY <1>6 DEF AckLost, rowVars
<1>7. ASSUME NEW w \in Workers, Retry(w) PROVE TypeOK'
  BY <1>7 DEF Retry, LetGo
<1>8. ASSUME NEW w \in Workers, DeadLetter(w) PROVE TypeOK'
  BY <1>8 DEF DeadLetter, LetGo
<1>9. ASSUME NEW w \in Workers, FailLost(w) PROVE TypeOK'
  BY <1>9 DEF FailLost, LetGo, rowVars
<1>10. ASSUME NEW m \in Messages, ExpireClaim(m) PROVE TypeOK'
  BY <1>10 DEF ExpireClaim
<1>11. ASSUME NEW m \in Messages, BackoffEnds(m) PROVE TypeOK'
  BY <1>11 DEF BackoffEnds
<1>12. ASSUME RequeueStale PROVE TypeOK'
  BY <1>12 DEF RequeueStale, Stale
<1>13. ASSUME NEW w \in Workers, Crash(w) PROVE TypeOK'
  BY <1>13 DEF Crash, LetGo, rowVars
<1>14. ASSUME UNCHANGED vars PROVE TypeOK'
  BY <1>14 DEF vars, rowVars
<1> QED
  BY <1>1, <1>2, <1>3, <1>4, <1>5, <1>6, <1>7, <1>8, <1>9, <1>10, <1>11,
     <1>12, <1>13, <1>14
     DEF Next, Step, Settle

(* The steps that settle nothing, enqueue nothing, claim nothing and leave *)
(* the records alone: they may release claims and move loops on.           *)
LEMMA QuietStep ==
  ASSUME TypeOK, Inv, TypeOK',
         UNCHANGED <<id, last, status, attempts, receipt, offset, recorded>>,
         \A m \in Messages : live'[m] => live[m] /\ claimedBy'[m] = claimedBy[m],
         \A m \in Messages : claimedBy'[m] # None => claimedBy'[m] = claimedBy[m],
         \A w \in Workers : phase'[w] # "idle" =>
            /\ phase[w] # "idle"
            /\ job'[w] = job[w]
            /\ phase'[w] = "handled" => phase[w] = "handled"
  PROVE  Inv'
<1> USE DispatcherAssumption DEF Inv, TypeOK
<1>1. Placed' /\ OffsetsExist' /\ OffsetsHaveNoGaps' /\ ReceiptsAreProof'
        /\ DeadLettersWereTried'
  BY DEF Placed, OffsetsExist, OffsetsHaveNoGaps, ReceiptsAreProof,
         DeadLettersWereTried
<1>2. \A m \in Messages : AtFront(m)' <=> AtFront(m)
  BY DEF AtFront, Precedes
<1>3. Claims'
  BY DEF Claims
<1>4. Recorded'
  BY <1>2 DEF Recorded
<1>5. Jobbed'
  BY <1>2 DEF Jobbed, Jobs
<1> QED
  BY <1>1, <1>3, <1>4, <1>5

(* A message is committed behind every other: the fronts stay fronts.      *)
LEMMA EnqueueStep ==
  ASSUME TypeOK, Inv, TypeOK', NEW m \in Messages, Enqueue(m)
  PROVE  Inv'
<1> USE DispatcherAssumption DEF Inv, TypeOK
<1>1. /\ last' = last + 1
      /\ id'[m] = last + 1 /\ status'[m] = "pending"
      /\ \A n \in Messages \ {m} : id'[n] = id[n] /\ status'[n] = status[n]
      /\ status[m] = "absent"
      /\ UNCHANGED <<attempts, claimedBy, live, receipt, offset, recorded, phase, job>>
  BY DEF Enqueue
<1> HIDE DEF Enqueue
<1>2. Placed'
  BY <1>1 DEF Placed
<1>3. \A n \in Messages : status[n] # "absent" /\ AtFront(n) => AtFront(n)'
  BY <1>1 DEF AtFront, Precedes, Placed
<1>4. Claims' /\ OffsetsExist'
  BY <1>1 DEF Claims, OffsetsExist
<1>5. Recorded'
  BY <1>1, <1>3 DEF Recorded
<1>6. Jobbed'
  BY <1>1, <1>3 DEF Jobbed, Jobs
<1>7. OffsetsHaveNoGaps'
  BY <1>1 DEF OffsetsHaveNoGaps, OffsetsExist
<1>8. ReceiptsAreProof' /\ DeadLettersWereTried'
  BY <1>1 DEF ReceiptsAreProof, DeadLettersWereTried
<1> QED
  BY <1>2, <1>4, <1>5, <1>6, <1>7, <1>8

(* The claim query hands out fronts only.                                  *)
LEMMA ClaimStep ==
  ASSUME TypeOK, Inv, TypeOK', NEW w \in Workers, NEW m \in Messages, Claim(w, m)
  PROVE  Inv'
<1> USE DispatcherAssumption DEF Inv, TypeOK
<1>1. /\ status[m] = "pending" /\ AtFront(m)
      /\ attempts'[m] = attempts[m] + 1
      /\ claimedBy'[m] = w
      /\ job'[w].message = m /\ job'[w].attempt = attempts[m] + 1
      /\ phase'[w] = "handling"
      /\ \A n \in Messages \ {m} : /\ attempts'[n] = attempts[n]
                                    /\ claimedBy'[n] = claimedBy[n]
                                    /\ live'[n] = live[n]
      /\ \A v \in Workers \ {w} : phase'[v] = phase[v] /\ job'[v] = job[v]
      /\ UNCHANGED <<id, last, status, receipt, offset, recorded>>
  BY DEF Claim, Claimable, AtFront
<1> HIDE DEF Claim
<1>2. \A n \in Messages : AtFront(n)' <=> AtFront(n)
  BY <1>1 DEF AtFront, Precedes
<1>3. Placed' /\ OffsetsExist' /\ OffsetsHaveNoGaps'
  BY <1>1 DEF Placed, OffsetsExist, OffsetsHaveNoGaps
<1>4. Claims'
  BY <1>1 DEF Claims
<1>5. Recorded'
  BY <1>1, <1>2 DEF Recorded
<1>6. Jobbed'
  BY <1>1, <1>2 DEF Jobbed, Jobs
<1>7. ReceiptsAreProof' /\ DeadLettersWereTried'
  BY <1>1 DEF ReceiptsAreProof, DeadLettersWereTried
<1> QED
  BY <1>3, <1>4, <1>5, <1>6, <1>7

(* A handler takes effect at the front of its partition.                   *)
LEMMA HandleStep ==
  ASSUME TypeOK, Inv, TypeOK', NEW w \in Workers, Handle(w)
  PROVE  Inv'
<1> USE DispatcherAssumption DEF Inv, TypeOK
<1> DEFINE m == job[w].message
<1>1. /\ phase[w] = "handling" /\ m \in Messages
      /\ recorded'[m] = TRUE
      /\ \A n \in Messages \ {m} : recorded'[n] = recorded[n]
      /\ \A v \in Workers \ {w} : phase'[v] = phase[v]
      /\ phase'[w] \in {"handled", "failed"}
      /\ UNCHANGED <<id, last, status, attempts, claimedBy, live, receipt, offset, job>>
  <2>1. phase[w] = "handling" /\ m \in Messages
    BY DEF Handle, Jobs
  <2>2. recorded' = [recorded EXCEPT ![m] = TRUE]
    BY DEF Handle
  <2>3. \E x \in {"handled", "failed"} : phase' = [phase EXCEPT ![w] = x]
    BY DEF Handle
  <2>4. UNCHANGED <<id, last, status, attempts, claimedBy, live, receipt, offset, job>>
    BY DEF Handle, rowVars
  <2> HIDE DEF m
  <2> QED
    BY <2>1, <2>2, <2>3, <2>4
<1> HIDE DEF Handle, m
<1>2. status[m] # "absent" /\ AtFront(m)
  BY <1>1 DEF Jobbed, m
<1>3. \A n \in Messages : AtFront(n)' <=> AtFront(n)
  BY <1>1 DEF AtFront, Precedes
<1>4. Placed' /\ Claims' /\ OffsetsExist' /\ OffsetsHaveNoGaps'
  BY <1>1 DEF Placed, Claims, OffsetsExist, OffsetsHaveNoGaps
<1>5. Recorded'
  BY <1>1, <1>2, <1>3 DEF Recorded
<1>6. \A n \in Messages : recorded[n] => recorded'[n]
  BY <1>1
<1>7. \A v \in Workers : phase[v] # "idle" => job[v].message \in Messages
  BY DEF Jobs
<1>8. ASSUME NEW v \in Workers, phase'[v] # "idle"
      PROVE  /\ status'[job'[v].message] # "absent"
             /\ AtFront(job[v].message)'
             /\ job'[v].attempt # 0
             /\ phase'[v] = "handled" => recorded'[job'[v].message]
  <2>1. phase[v] # "idle" /\ job'[v] = job[v]
    BY <1>1, <1>8
  <2>2. phase'[v] = "handled" => recorded'[job[v].message]
    <3>1. CASE v = w
      BY <1>1, <3>1 DEF m
    <3>2. CASE v # w
      BY <1>1, <1>6, <1>7, <2>1, <3>2 DEF Jobbed
    <3> QED
      BY <3>1, <3>2
  <2> QED
    BY <1>1, <1>3, <1>7, <2>1, <2>2 DEF Jobbed
<1>9. Jobbed'
  BY <1>1, <1>8 DEF Jobbed
<1>10. ReceiptsAreProof' /\ DeadLettersWereTried'
  BY <1>1, <1>6 DEF ReceiptsAreProof, DeadLettersWereTried
<1> QED
  BY <1>4, <1>5, <1>9, <1>10

(* A row that settles was held on its last attempt, at the front.          *)
LEMMA SettleStep ==
  ASSUME TypeOK, Inv, TypeOK', NEW w \in Workers, Ack(w) \/ DeadLetter(w)
  PROVE  Inv'
<1> USE DispatcherAssumption DEF Inv, TypeOK
<1> DEFINE m == job[w].message
<1>1. /\ phase[w] # "idle" /\ m \in Messages
      /\ status[m] = "pending" /\ attempts[m] = job[w].attempt
      /\ status'[m] \in {"delivered", "dead"}
      /\ \A n \in Messages \ {m} : /\ status'[n] = status[n]
                                    /\ claimedBy'[n] = claimedBy[n]
                                    /\ live'[n] = live[n]
      /\ claimedBy'[m] = None /\ live'[m] = FALSE
      /\ phase'[w] = "idle"
      /\ \A v \in Workers \ {w} : phase'[v] = phase[v] /\ job'[v] = job[v]
      /\ UNCHANGED <<id, last, attempts, recorded>>
  BY DEF Ack, DeadLetter, HoldsClaim, LetGo, Jobs
<1>2. \/ /\ status'[m] = "delivered" /\ phase[w] = "handled"
         /\ receipt'[m] = attempts[m]
         /\ \A n \in Messages \ {m} : receipt'[n] = receipt[n]
         /\ \A p \in Partitions \ {PartitionOf[m]} : offset'[p] = offset[p]
         /\ offset'[PartitionOf[m]] = IF id[m] > offset[PartitionOf[m]]
                                        THEN id[m] ELSE offset[PartitionOf[m]]
      \/ /\ status'[m] = "dead" /\ attempts[m] >= MaxAttempts
         /\ UNCHANGED <<receipt, offset>>
  BY <1>1 DEF Ack, DeadLetter, HoldsClaim, OutOfAttempts
<1> HIDE DEF m
<1>3. /\ AtFront(m) /\ job[w].attempt # 0
      /\ phase[w] = "handled" => recorded[m]
  BY <1>1 DEF Jobbed, m
<1>4. Placed'
  BY <1>1 DEF Placed
<1>5. Claims'
  BY <1>1 DEF Claims
<1>6. OffsetsExist'
  BY <1>1, <1>2 DEF OffsetsExist, Placed
<1>7. \A n \in Messages : AtFront(n) => AtFront(n)'
  BY <1>1 DEF AtFront, Precedes
<1>8. Recorded'
  BY <1>1, <1>7 DEF Recorded
<1>9. Jobbed'
  BY <1>1, <1>7 DEF Jobbed, Jobs
<1>10. OffsetsHaveNoGaps'
  <2>1. \A n \in Messages : status[n] = "pending" /\ PartitionOf[n] = PartitionOf[m] /\ n # m
          => id[m] < id[n]
    BY <1>1, <1>3 DEF AtFront, Precedes, Placed
  <2>2. status[m] = "pending" => offset[PartitionOf[m]] < id[m]
    BY <1>1 DEF OffsetsHaveNoGaps
  <2>3. CASE offset' = offset
    BY <1>1, <1>2, <2>2, <2>3 DEF OffsetsHaveNoGaps
  <2>4. CASE offset' # offset
    <3>1. /\ status'[m] = "delivered"
          /\ \A p \in Partitions \ {PartitionOf[m]} : offset'[p] = offset[p]
          /\ offset'[PartitionOf[m]] = id[m]
      BY <1>1, <1>2, <2>2, <2>4
    <3>2. ASSUME NEW n \in Messages
          PROVE  /\ status'[n] = "pending" => offset'[PartitionOf[n]] < id[n]
                 /\ status'[n] = "delivered" => id[n] <= offset'[PartitionOf[n]]
      <4>1. CASE n = m
        BY <3>1, <4>1
      <4>2. CASE n # m /\ PartitionOf[n] = PartitionOf[m]
        BY <1>1, <2>1, <2>2, <3>1, <4>2 DEF OffsetsHaveNoGaps
      <4>3. CASE PartitionOf[n] # PartitionOf[m]
        BY <1>1, <3>1, <4>3 DEF OffsetsHaveNoGaps
      <4> QED
        BY <4>1, <4>2, <4>3
    <3> QED
      BY <1>1, <3>2 DEF OffsetsHaveNoGaps
  <2> QED
    BY <2>3, <2>4
<1>11. ReceiptsAreProof'
  BY <1>1, <1>2, <1>3 DEF ReceiptsAreProof
<1>12. DeadLettersWereTried'
  BY <1>1, <1>2 DEF DeadLettersWereTried
<1> QED
  BY <1>4, <1>5, <1>6, <1>8, <1>9, <1>10, <1>11, <1>12

(* Every step keeps the invariant.                                         *)
LEMMA InvStep == TypeOK /\ Inv /\ [Next]_vars => Inv'
<1> SUFFICES ASSUME TypeOK, Inv, [Next]_vars PROVE Inv'
  OBVIOUS
<1>0. TypeOK'
  BY TypeStep
<1>1. ASSUME NEW m \in Messages, Enqueue(m) PROVE Inv'
  BY <1>0, <1>1, EnqueueStep
<1>2. ASSUME NEW w \in Workers, NEW m \in Messages, Claim(w, m) PROVE Inv'
  BY <1>0, <1>2, ClaimStep
<1>3. ASSUME NEW w \in Workers, Handle(w) PROVE Inv'
  BY <1>0, <1>3, HandleStep
<1>4. ASSUME NEW w \in Workers, Ack(w) \/ DeadLetter(w) PROVE Inv'
  BY <1>0, <1>4, SettleStep
<1>5. ASSUME NEW w \in Workers, Throw(w) \/ AckLost(w) PROVE Inv'
  <2> USE DEF TypeOK
  <2>1. /\ UNCHANGED <<id, last, status, attempts, receipt, offset, recorded, live, claimedBy, job>>
        /\ phase[w] # "idle" /\ phase'[w] = "failed"
        /\ \A v \in Workers \ {w} : phase'[v] = phase[v]
    BY <1>5 DEF Throw, AckLost, rowVars
  <2> QED
    BY <1>0, <2>1, QuietStep
<1>6. ASSUME NEW w \in Workers, Retry(w) PROVE Inv'
  <2> USE DEF TypeOK
  <2>1. /\ UNCHANGED <<id, last, status, attempts, receipt, offset, recorded>>
        /\ \A m \in Messages : live'[m] => live[m] /\ claimedBy'[m] = claimedBy[m]
        /\ \A m \in Messages : claimedBy'[m] # None => claimedBy'[m] = claimedBy[m]
        /\ phase'[w] = "idle"
        /\ \A v \in Workers \ {w} : phase'[v] = phase[v] /\ job'[v] = job[v]
    BY <1>6 DEF Retry, LetGo
  <2> QED
    BY <1>0, <2>1, QuietStep
<1>7. ASSUME NEW w \in Workers, FailLost(w) \/ Crash(w) PROVE Inv'
  <2> USE DEF TypeOK
  <2>1. /\ UNCHANGED <<id, last, status, attempts, receipt, offset, recorded, live, claimedBy>>
        /\ phase'[w] = "idle"
        /\ \A v \in Workers \ {w} : phase'[v] = phase[v] /\ job'[v] = job[v]
    BY <1>7 DEF FailLost, Crash, LetGo, rowVars
  <2> QED
    BY <1>0, <2>1, QuietStep
<1>8. ASSUME NEW m \in Messages, ExpireClaim(m) \/ BackoffEnds(m) PROVE Inv'
  <2> USE DEF TypeOK
  <2>1. /\ UNCHANGED <<id, last, status, attempts, receipt, offset, recorded, claimedBy, phase, job>>
        /\ \A n \in Messages : live'[n] => live[n]
    BY <1>8 DEF ExpireClaim, BackoffEnds
  <2> QED
    BY <1>0, <2>1, QuietStep
<1>9. ASSUME RequeueStale PROVE Inv'
  <2> USE DEF TypeOK
  <2>1. /\ UNCHANGED <<id, last, status, attempts, receipt, offset, recorded, live, phase, job>>
        /\ \A m \in Messages : live[m] => claimedBy'[m] = claimedBy[m]
        /\ \A m \in Messages : claimedBy'[m] # None => claimedBy'[m] = claimedBy[m]
    BY <1>9 DEF RequeueStale, Stale
  <2> QED
    BY <1>0, <2>1, QuietStep
<1>10. ASSUME UNCHANGED vars PROVE Inv'
  BY <1>0, <1>10, QuietStep DEF vars, rowVars
<1> QED
  BY <1>1, <1>2, <1>3, <1>4, <1>5, <1>6, <1>7, <1>8, <1>9, <1>10
     DEF Next, Step, Settle

(* Every variable of the dispatcher keeps its type.                        *)
THEOREM TypeCorrectness == Spec => []TypeOK
<1>1. Init => TypeOK
  BY InitInv
<1>2. TypeOK /\ [Next]_vars => TypeOK'
  BY TypeStep
<1> QED
  BY <1>1, <1>2, PTL DEF Spec

(* The types and the invariant hold in every reachable state.              *)
LEMMA Invariance == Spec => [](TypeOK /\ Inv)
<1>1. Init => TypeOK /\ Inv
  BY InitInv
<1>2. TypeOK /\ Inv /\ [Next]_vars => (TypeOK /\ Inv)'
  BY TypeStep, InvStep
<1> QED
  BY <1>1, <1>2, PTL DEF Spec

(* Handlers take effect in commit order within every partition.            *)
THEOREM OrderedEffects == Spec => []EffectsInOrder
<1>1. TypeOK /\ Inv => EffectsInOrder
  BY DEF TypeOK, Inv, Recorded, AtFront, EffectsInOrder, Settled
<1> QED
  BY <1>1, Invariance, PTL

(* An offset never passes a row that is still to settle.                   *)
THEOREM GaplessOffsets == Spec => []OffsetsHaveNoGaps
<1>1. TypeOK /\ Inv => OffsetsHaveNoGaps
  BY DEF Inv
<1> QED
  BY <1>1, Invariance, PTL

(* A delivery receipt proves that a handler took effect.                   *)
THEOREM HonestReceipts == Spec => []ReceiptsAreProof
<1>1. TypeOK /\ Inv => ReceiptsAreProof
  BY DEF Inv
<1> QED
  BY <1>1, Invariance, PTL

(* Nothing is dead-lettered before its attempts are used up.               *)
THEOREM TriedDeadLetters == Spec => []DeadLettersWereTried
<1>1. TypeOK /\ Inv => DeadLettersWereTried
  BY DEF Inv
<1> QED
  BY <1>1, Invariance, PTL

(* A loop that lost its claim settles nothing.                             *)
THEOREM FencedLoops == Spec => StaleLoopsAreFenced
<1> DEFINE Fenced ==
      \A w \in Workers :
        /\ phase[w] \in {"handled", "failed"} /\ phase'[w] # phase[w]
        /\ attempts[job[w].message] # job[w].attempt
        => UNCHANGED <<rowVars, receipt, offset>>
<1>1. TypeOK /\ [Next]_vars => [Fenced]_vars
  <2> SUFFICES ASSUME TypeOK, Next, NEW w \in Workers,
                      phase[w] \in {"handled", "failed"}, phase'[w] # phase[w],
                      attempts[job[w].message] # job[w].attempt
               PROVE  UNCHANGED <<rowVars, receipt, offset>>
    OBVIOUS
  <2>1. ~HoldsClaim(w)
    BY DEF HoldsClaim
  <2>2. ASSUME NEW v \in Workers, Step(v) PROVE v = w
    BY <2>2 DEF TypeOK, Step, Settle, Claim, Handle, Throw, Ack, AckLost, Retry, DeadLetter,
                FailLost, LetGo
  <2>3. CASE Step(w)
    BY <2>1, <2>3 DEF Step, Settle, Claim, Handle, Throw, Ack, AckLost, Retry, DeadLetter,
                FailLost
  <2>4. ASSUME NEW v \in Workers, Crash(v) PROVE UNCHANGED <<rowVars, receipt, offset>>
    BY <2>4 DEF Crash
  <2>5. ASSUME NEW m \in Messages, Enqueue(m) \/ ExpireClaim(m) \/ BackoffEnds(m)
        PROVE  FALSE
    BY <2>5 DEF Enqueue, ExpireClaim, BackoffEnds
  <2>6. ~RequeueStale
    BY DEF RequeueStale
  <2> QED
    BY <2>2, <2>3, <2>4, <2>5, <2>6 DEF Next
<1> QED
  BY <1>1, TypeCorrectness, PTL DEF Spec, StaleLoopsAreFenced

-----------------------------------------------------------------------------
(* The outbox delivers in order: it implements OrderedDelivery.            *)
THEOREM Refinement == Spec => ImplementsPromise
<1> USE DispatcherAssumption
<1>1. Init => Promise!Init
  BY DEF Init, Promise!Init
<1>2. TypeOK /\ Inv /\ [Next]_vars => [Promise!Next]_(Promise!vars)
  <2> SUFFICES ASSUME TypeOK, Inv, [Next]_vars
               PROVE  Promise!Next \/ UNCHANGED <<id, status>>
    BY DEF Promise!vars
  <2>1. ASSUME NEW m \in Messages, Enqueue(m) PROVE Promise!Put(m)
    <3> USE DEF TypeOK
    <3>1. /\ status[m] = "absent"
          /\ status' = [status EXCEPT ![m] = "pending"]
          /\ id' = [id EXCEPT ![m] = last + 1]
      BY <2>1 DEF Enqueue
    <3>2. id'[m] = last + 1 /\ \A n \in Messages : id[n] < last + 1
      BY <3>1 DEF Inv, Placed
    <3> QED
      BY <3>1, <3>2 DEF Promise!Put
  <2>2. ASSUME NEW w \in Workers, Ack(w) \/ DeadLetter(w)
        PROVE  \E m \in Messages, o \in {"delivered", "dead"} : Promise!Settle(m, o)
    <3> USE DEF TypeOK
    <3> DEFINE m == job[w].message
    <3>1. /\ phase[w] # "idle" /\ m \in Messages /\ status[m] = "pending"
          /\ \E o \in {"delivered", "dead"} : status' = [status EXCEPT ![m] = o]
          /\ id' = id
      BY <2>2 DEF Ack, DeadLetter, HoldsClaim, Jobs
    <3>2. AtFront(m)
      BY <3>1 DEF Inv, Jobbed
    <3>3. Promise!IsHead(m)
      BY <3>1, <3>2 DEF Promise!IsHead, AtFront, Precedes
    <3> QED
      BY <3>1, <3>3 DEF Promise!Settle
  <2>3. ASSUME NEW w \in Workers, Step(w), ~Ack(w), ~DeadLetter(w)
        PROVE  UNCHANGED <<id, status>>
    BY <2>3 DEF Step, Settle, Claim, Handle, Throw, AckLost, Retry, FailLost, rowVars
  <2>4. ASSUME NEW w \in Workers, Crash(w) PROVE UNCHANGED <<id, status>>
    BY <2>4 DEF Crash, rowVars
  <2>5. ASSUME NEW m \in Messages, ExpireClaim(m) \/ BackoffEnds(m)
        PROVE  UNCHANGED <<id, status>>
    BY <2>5 DEF ExpireClaim, BackoffEnds
  <2>6. ASSUME RequeueStale PROVE UNCHANGED <<id, status>>
    BY <2>6 DEF RequeueStale
  <2>7. ASSUME UNCHANGED vars PROVE UNCHANGED <<id, status>>
    BY <2>7 DEF vars, rowVars
  <2> QED
    BY <2>1, <2>2, <2>3, <2>4, <2>5, <2>6, <2>7 DEF Next, Promise!Next
<1> QED
  BY <1>1, <1>2, Invariance, PTL DEF Spec, ImplementsPromise, Promise!Spec
=============================================================================

-------------------------- MODULE CommandSagaProofs --------------------------
(* Theorems of CommandSaga for any number of keys, callers and processes.  *)
EXTENDS CommandSaga, SequenceTheorems, TLAPS

(* The chain of a process holds exactly its calls in flight.               *)
ChainOfCalls ==
  /\ \A h \in Hosts : \A i \in DOMAIN tail[h] :
       HostOf[tail[h][i]] = h /\ pc[tail[h][i]] # "idle"
  /\ \A c \in Callers : pc[c] # "idle" =>
       \E i \in DOMAIN tail[HostOf[c]] : tail[HostOf[c]][i] = c

ChainInv == ChainOfCalls /\ OneCallPerProcess

LEMMA QueuedTurn ==
  ASSUME TypeOK, ChainInv, NEW c \in Callers,
         Turn(c) \/ pc[c] \in {"effect", "applied", "final"}
  PROVE  /\ HostOf[c] \in Hosts
         /\ tail[HostOf[c]] \in Seq(Callers)
         /\ tail[HostOf[c]] # <<>>
         /\ tail[HostOf[c]][1] = c
         /\ Head(tail[HostOf[c]]) = c
         /\ pc[c] # "idle"
         /\ call[c] \in Calls
BY SagaAssumption DEF TypeOK, ChainInv, ChainOfCalls, OneCallPerProcess, Turn

LEMMA ReturnChain ==
  ASSUME TypeOK, ChainInv, NEW c \in Callers, Return(c),
         Turn(c) \/ pc[c] \in {"effect", "applied", "final"}
  PROVE  /\ tail' \in [Hosts -> Seq(Callers)]
         /\ pc' \in [Callers -> {"idle", "queued", "effect", "applied", "final"}]
         /\ call' \in [Callers -> Calls \cup {None}]
         /\ \A d \in Callers : pc'[d] # "idle" => call'[d] \in Calls
         /\ ChainInv'
<1> DEFINE h == HostOf[c]
<1>1. /\ h \in Hosts /\ tail[h] \in Seq(Callers) /\ tail[h] # <<>>
      /\ tail[h][1] = c /\ pc[c] # "idle"
  BY QueuedTurn
<1>2. /\ Tail(tail[h]) \in Seq(Callers)
      /\ Len(Tail(tail[h])) = Len(tail[h]) - 1
      /\ \A i \in 1 .. Len(tail[h]) - 1 : Tail(tail[h])[i] = tail[h][i + 1]
  BY <1>1
<1>3. /\ tail' = [tail EXCEPT ![h] = Tail(tail[h])]
      /\ pc' = [pc EXCEPT ![c] = "idle"]
      /\ call' = [call EXCEPT ![c] = None]
  BY DEF Return
<1>4. /\ tail' \in [Hosts -> Seq(Callers)]
      /\ pc' \in [Callers -> {"idle", "queued", "effect", "applied", "final"}]
      /\ call' \in [Callers -> Calls \cup {None}]
      /\ \A d \in Callers : pc'[d] # "idle" => call'[d] \in Calls
  BY <1>1, <1>2, <1>3 DEF TypeOK
<1>5. ASSUME NEW g \in Hosts, g # h PROVE tail'[g] = tail[g]
  BY <1>3, <1>5 DEF TypeOK
<1>6. tail'[h] = Tail(tail[h])
  BY <1>1, <1>3 DEF TypeOK
<1>7. DOMAIN tail'[h] = 1 .. Len(tail[h]) - 1 /\ DOMAIN tail[h] = 1 .. Len(tail[h])
      /\ Len(tail[h]) \in Nat
  BY <1>1, <1>2, <1>6
<1>shift. ASSUME NEW i \in DOMAIN tail'[h]
          PROVE  /\ tail'[h][i] = tail[h][i + 1]
                 /\ i \in Nat /\ i + 1 \in DOMAIN tail[h] /\ i + 1 # 1
  <2>1. i \in 1 .. Len(tail[h]) - 1
    BY <1>7
  <2>2. i + 1 \in 1 .. Len(tail[h]) /\ i + 1 # 1 /\ i \in Nat
    BY <1>7, <2>1
  <2>3. QED
    BY <1>2, <1>6, <1>7, <2>1, <2>2
<1> HIDE DEF h
<1>8. ASSUME NEW g \in Hosts, NEW i \in DOMAIN tail'[g]
      PROVE  HostOf[tail'[g][i]] = g /\ pc'[tail'[g][i]] # "idle" /\ tail'[g][i] # c
  <2>1. CASE g = h
    <3>1. tail'[g][i] = tail[h][i + 1] /\ i + 1 \in DOMAIN tail[h] /\ i + 1 # 1
      BY <1>shift, <2>1
    <3>2. tail[h][i + 1] # tail[h][1] /\ 1 \in DOMAIN tail[h]
      BY <1>1, <1>7, <3>1 DEF ChainInv, OneCallPerProcess
    <3>3. HostOf[tail[h][i + 1]] = h /\ pc[tail[h][i + 1]] # "idle" /\ tail[h][i + 1] \in Callers
      BY <1>1, <3>1 DEF ChainInv, ChainOfCalls
    <3>4. QED
      BY <1>1, <1>3, <2>1, <3>1, <3>2, <3>3 DEF TypeOK
  <2>2. CASE g # h
    <3>1. tail'[g] = tail[g]
      BY <1>5, <2>2
    <3>2. HostOf[tail[g][i]] = g /\ pc[tail[g][i]] # "idle" /\ tail[g][i] \in Callers
      BY <3>1 DEF ChainInv, ChainOfCalls, TypeOK
    <3>3. QED
      BY <1>3, <2>2, <3>1, <3>2 DEF TypeOK, h
  <2>3. QED
    BY <2>1, <2>2
<1>9. ASSUME NEW d \in Callers, pc'[d] # "idle"
      PROVE  \E i \in DOMAIN tail'[HostOf[d]] : tail'[HostOf[d]][i] = d
  <2>1. d # c /\ pc[d] # "idle"
    BY <1>3, <1>9 DEF TypeOK
  <2>2. PICK i \in DOMAIN tail[HostOf[d]] : tail[HostOf[d]][i] = d
    BY <2>1 DEF ChainInv, ChainOfCalls
  <2>3. CASE HostOf[d] = h
    <3> i \in 1 .. Len(tail[h]) /\ i # 1
      BY <1>1, <1>7, <2>1, <2>2, <2>3
    <3>1. i - 1 \in 1 .. Len(tail[h]) - 1 /\ (i - 1) + 1 = i
      BY <1>7
    <3>2. i - 1 \in DOMAIN tail'[h] /\ tail'[h][i - 1] = d
      BY <1>2, <1>6, <1>7, <2>2, <2>3, <3>1
    <3>3. QED
      BY <2>3, <3>2
  <2>4. CASE HostOf[d] # h
    BY <1>5, <2>2, <2>4, SagaAssumption
  <2>5. QED
    BY <2>3, <2>4
<1>10. ChainOfCalls'
  BY <1>8, <1>9 DEF ChainOfCalls
<1>11. ASSUME NEW g \in Hosts, NEW i \in DOMAIN tail'[g], NEW j \in DOMAIN tail'[g],
              tail'[g][i] = tail'[g][j]
       PROVE  i = j
  <2>1. CASE g = h
    <3>1. /\ tail'[g][i] = tail[h][i + 1] /\ i + 1 \in DOMAIN tail[h]
          /\ tail'[g][j] = tail[h][j + 1] /\ j + 1 \in DOMAIN tail[h]
          /\ i \in Nat /\ j \in Nat
      BY <1>shift, <2>1
    <3>2. i + 1 = j + 1
      BY <1>1, <1>11, <3>1 DEF ChainInv, OneCallPerProcess
    <3>3. QED
      BY <3>1, <3>2
  <2>2. CASE g # h
    BY <1>5, <1>11, <2>2 DEF ChainInv, OneCallPerProcess
  <2>3. QED
    BY <2>1, <2>2
<1>12. ASSUME NEW d \in Callers, pc'[d] \in {"effect", "applied", "final"}
       PROVE  tail'[HostOf[d]] # <<>> /\ Head(tail'[HostOf[d]]) = d
  <2>1. d # c /\ pc[d] \in {"effect", "applied", "final"}
    BY <1>3, <1>12 DEF TypeOK
  <2>2. tail[HostOf[d]] # <<>> /\ Head(tail[HostOf[d]]) = d /\ HostOf[d] \in Hosts
    BY <2>1, SagaAssumption DEF ChainInv, OneCallPerProcess
  <2>3. HostOf[d] # h
    BY <1>1, <2>1, <2>2
  <2>4. QED
    BY <1>5, <2>2, <2>3
<1>13. OneCallPerProcess'
  BY <1>11, <1>12 DEF OneCallPerProcess
<1>14. QED
  BY <1>4, <1>10, <1>13 DEF ChainInv

LEMMA SubmitChain ==
  ASSUME TypeOK, ChainInv, NEW c \in Callers, NEW k \in Keys, NEW p \in Payloads,
         Submit(c, k, p)
  PROVE  tail' \in [Hosts -> Seq(Callers)] /\ ChainInv'
<1> DEFINE h == HostOf[c]
<1>1. /\ h \in Hosts /\ tail[h] \in Seq(Callers) /\ pc[c] = "idle"
      /\ tail' = [tail EXCEPT ![h] = Append(tail[h], c)]
      /\ pc' = [pc EXCEPT ![c] = "queued"]
  BY SagaAssumption DEF Submit, TypeOK
<1>2. /\ Append(tail[h], c) \in Seq(Callers)
      /\ Len(Append(tail[h], c)) = Len(tail[h]) + 1
      /\ DOMAIN Append(tail[h], c) = 1 .. Len(tail[h]) + 1
      /\ DOMAIN tail[h] = 1 .. Len(tail[h]) /\ Len(tail[h]) \in Nat
      /\ \A i \in 1 .. Len(tail[h]) : Append(tail[h], c)[i] = tail[h][i]
      /\ Append(tail[h], c)[Len(tail[h]) + 1] = c
  BY <1>1
<1>3. tail'[h] = Append(tail[h], c) /\ \A g \in Hosts \ {h} : tail'[g] = tail[g]
  BY <1>1 DEF TypeOK
<1>4. \A g \in Hosts : \A i \in DOMAIN tail[g] :
        tail[g][i] \in Callers /\ tail[g][i] # c /\ pc'[tail[g][i]] # "idle"
  BY <1>1 DEF ChainInv, ChainOfCalls, TypeOK
<1>5. ASSUME NEW i \in DOMAIN tail'[h]
      PROVE  \/ i \in DOMAIN tail[h] /\ tail'[h][i] = tail[h][i]
             \/ i = Len(tail[h]) + 1 /\ tail'[h][i] = c
  BY <1>2, <1>3
<1>6. \A g \in Hosts : \A i \in DOMAIN tail'[g] :
        HostOf[tail'[g][i]] = g /\ pc'[tail'[g][i]] # "idle"
  BY <1>1, <1>3, <1>4, <1>5 DEF ChainInv, ChainOfCalls, TypeOK
<1>7. ASSUME NEW d \in Callers, pc'[d] # "idle"
      PROVE  \E i \in DOMAIN tail'[HostOf[d]] : tail'[HostOf[d]][i] = d
  <2>1. CASE d = c
    <3>1. Len(tail[h]) + 1 \in DOMAIN tail'[h] /\ tail'[h][Len(tail[h]) + 1] = c
      BY <1>2, <1>3
    <3>2. QED
      BY <2>1, <3>1
  <2>2. CASE d # c
    <3>1. PICK i \in DOMAIN tail[HostOf[d]] : tail[HostOf[d]][i] = d
      BY <1>1, <1>7, <2>2 DEF ChainInv, ChainOfCalls, TypeOK
    <3>2. CASE HostOf[d] = h
      <4>1. i \in DOMAIN tail'[h] /\ tail'[h][i] = tail[h][i]
        BY <1>2, <1>3, <3>1, <3>2
      <4>2. QED
        BY <3>1, <3>2, <4>1
    <3>3. CASE HostOf[d] # h
      BY <1>3, <3>1, <3>3, SagaAssumption
    <3>4. QED
      BY <3>2, <3>3
  <2>3. QED
    BY <2>1, <2>2
<1>8. ASSUME NEW g \in Hosts, NEW i \in DOMAIN tail'[g], NEW j \in DOMAIN tail'[g],
             tail'[g][i] = tail'[g][j]
      PROVE  i = j
  <2>1. CASE g = h
    <3>1. \/ i \in DOMAIN tail[h] /\ tail'[h][i] = tail[h][i]
          \/ i = Len(tail[h]) + 1 /\ tail'[h][i] = c
      BY <1>5, <2>1
    <3>2. \/ j \in DOMAIN tail[h] /\ tail'[h][j] = tail[h][j]
          \/ j = Len(tail[h]) + 1 /\ tail'[h][j] = c
      BY <1>5, <2>1
    <3>3. QED
      BY <1>1, <1>4, <1>8, <2>1, <3>1, <3>2 DEF ChainInv, OneCallPerProcess
  <2>2. CASE g # h
    BY <1>3, <1>8, <2>2 DEF ChainInv, OneCallPerProcess
  <2>3. QED
    BY <2>1, <2>2
<1>9. ASSUME NEW d \in Callers, pc'[d] \in {"effect", "applied", "final"}
      PROVE  tail'[HostOf[d]] # <<>> /\ Head(tail'[HostOf[d]]) = d
  <2>1. pc[d] \in {"effect", "applied", "final"} /\ HostOf[d] \in Hosts
    BY <1>1, <1>9, SagaAssumption DEF TypeOK
  <2>2. tail[HostOf[d]] # <<>> /\ Head(tail[HostOf[d]]) = d
    BY <2>1 DEF ChainInv, OneCallPerProcess
  <2>3. CASE HostOf[d] = h
    <3>1. 1 \in 1 .. Len(tail[h]) /\ tail[h][1] = d
      BY <1>1, <2>2, <2>3
    <3>2. tail'[h] # <<>> /\ tail'[h][1] = d
      BY <1>2, <1>3, <3>1
    <3>3. tail'[h] \in Seq(Callers)
      BY <1>2, <1>3
    <3>4. QED
      BY <2>3, <3>2, <3>3
  <2>4. CASE HostOf[d] # h
    BY <1>3, <2>1, <2>2, <2>4
  <2>5. QED
    BY <2>3, <2>4
<1>10. tail' \in [Hosts -> Seq(Callers)]
  BY <1>1, <1>2 DEF TypeOK
<1>11. QED
  BY <1>6, <1>7, <1>8, <1>9, <1>10 DEF ChainInv, ChainOfCalls, OneCallPerProcess

(* A call that moves on without leaving stays at the head of its chain.    *)
LEMMA AdvanceChain ==
  ASSUME TypeOK, ChainInv, NEW c \in Callers,
         NEW q \in {"effect", "applied", "final"},
         Turn(c) \/ pc[c] \in {"effect", "applied", "final"},
         pc' = [pc EXCEPT ![c] = q], tail' = tail
  PROVE  ChainInv'
<1>1. tail[HostOf[c]] # <<>> /\ Head(tail[HostOf[c]]) = c /\ pc[c] # "idle"
  BY QueuedTurn
<1>2. \A d \in Callers : pc'[d] = IF d = c THEN q ELSE pc[d]
  BY DEF TypeOK
<1>3. \A d \in Callers : (pc'[d] # "idle") <=> (pc[d] # "idle")
  BY <1>1, <1>2
<1>4. ChainOfCalls'
  <2>1. \A h \in Hosts : \A i \in DOMAIN tail[h] : tail[h][i] \in Callers
    BY DEF TypeOK
  <2>2. QED
    BY <1>3, <2>1 DEF ChainInv, ChainOfCalls
<1>5. OneCallPerProcess'
  BY <1>1, <1>2 DEF ChainInv, OneCallPerProcess
<1>6. QED
  BY <1>4, <1>5 DEF ChainInv

LEMMA CrashChain ==
  ASSUME TypeOK, ChainInv, NEW h \in Hosts, Crash(h)
  PROVE  tail' \in [Hosts -> Seq(Callers)] /\ ChainInv'
<1>1. /\ tail' = [tail EXCEPT ![h] = <<>>]
      /\ pc' = [c \in Callers |-> IF HostOf[c] = h THEN "idle" ELSE pc[c]]
  BY DEF Crash
<1>2. tail' \in [Hosts -> Seq(Callers)] /\ tail'[h] = <<>> /\ DOMAIN tail'[h] = {}
      /\ \A g \in Hosts \ {h} : tail'[g] = tail[g]
  BY <1>1 DEF TypeOK
<1>3. \A g \in Hosts : \A i \in DOMAIN tail[g] : tail[g][i] \in Callers
  BY DEF TypeOK
<1>4. \A g \in Hosts : \A i \in DOMAIN tail'[g] :
        HostOf[tail'[g][i]] = g /\ pc'[tail'[g][i]] # "idle"
  BY <1>1, <1>2, <1>3 DEF ChainInv, ChainOfCalls
<1>5. \A d \in Callers : pc'[d] # "idle" => HostOf[d] \in Hosts \ {h} /\ pc'[d] = pc[d]
  BY <1>1, SagaAssumption
<1>6. ChainOfCalls'
  BY <1>2, <1>4, <1>5 DEF ChainInv, ChainOfCalls
<1>7. OneCallPerProcess'
  BY <1>2, <1>5 DEF ChainInv, OneCallPerProcess
<1>8. QED
  BY <1>2, <1>6, <1>7 DEF ChainInv

-----------------------------------------------------------------------------
CallTypes ==
  /\ tail' \in [Hosts -> Seq(Callers)]
  /\ pc' \in [Callers -> {"idle", "queued", "effect", "applied", "final"}]
  /\ call' \in [Callers -> Calls \cup {None}]
  /\ \A d \in Callers : pc'[d] # "idle" => call'[d] \in Calls

LEMMA AdvanceTypes ==
  ASSUME TypeOK, ChainInv, NEW c \in Callers,
         NEW q \in {"effect", "applied", "final"},
         Turn(c) \/ pc[c] \in {"effect", "applied", "final"},
         pc' = [pc EXCEPT ![c] = q], UNCHANGED <<tail, call>>
  PROVE  CallTypes /\ ChainInv'
<1>1. ChainInv'
  BY AdvanceChain
<1>2. call[c] \in Calls
  BY QueuedTurn
<1>3. QED
  BY <1>1, <1>2 DEF TypeOK, CallTypes

LEMMA ReturnTypes ==
  ASSUME TypeOK, ChainInv, NEW c \in Callers, Return(c),
         Turn(c) \/ pc[c] \in {"effect", "applied", "final"}
  PROVE  CallTypes /\ ChainInv'
BY ReturnChain DEF CallTypes

(* An admitted row has its payload, a checkpointed one its result.         *)
RowInv ==
  \A k \in Keys :
    /\ state[k] # "ABSENT" => payload[k] \in Payloads
    /\ state[k] \in {"EFFECT_APPLIED", "COMMITTED"} => result[k] \in Values

TypeInv == TypeOK /\ ChainInv /\ RowInv

RowTypes ==
  /\ state' \in [Keys -> States]
  /\ payload' \in [Keys -> Payloads \cup {None}]
  /\ prev' \in [Keys -> Nat]
  /\ owner' \in [Keys -> Ids \cup {None}]
  /\ leased' \in [Keys -> BOOLEAN]
  /\ result' \in [Keys -> Values \cup {None}]

SettledTypes ==
  /\ receipt' \in [Keys -> Receipts \cup {None}]
  /\ outbox' \in [Keys -> Nat]
  /\ replies' \subseteq [key: Keys, receipt: Receipts]

LEMMA TypeParts ==
  ASSUME log' \in Seq(Events), RowTypes, SettledTypes, CallTypes, ChainInv', RowInv'
  PROVE  TypeInv'
BY DEF TypeInv, TypeOK, RowTypes, SettledTypes, CallTypes

LEMMA SameRows ==
  ASSUME TypeInv, UNCHANGED opVars
  PROVE  RowTypes /\ RowInv'
BY DEF TypeInv, TypeOK, RowTypes, RowInv, opVars

LEMMA SameSettled ==
  ASSUME TypeInv, UNCHANGED <<receipt, outbox, replies>>
  PROVE  SettledTypes
BY DEF TypeInv, TypeOK, SettledTypes

LEMMA SameLog == ASSUME TypeInv, UNCHANGED log PROVE log' \in Seq(Events)
BY DEF TypeInv, TypeOK

LEMMA AdmitDuplicateTypes ==
  ASSUME TypeInv, NEW c \in Callers, AdmitDuplicate(c)
  PROVE  TypeInv'
<1> USE DEF TypeInv
<1>1. Turn(c) /\ call[c].key \in Keys /\ Return(c)
  BY QueuedTurn DEF AdmitDuplicate, Reply, Reject, Calls
<1>2. CallTypes /\ ChainInv'
  BY <1>1, ReturnTypes
<1>3. UNCHANGED log /\ UNCHANGED opVars
  BY DEF AdmitDuplicate
<1>4. SettledTypes
  BY <1>1 DEF AdmitDuplicate, Reply, Reject, TypeOK, SettledTypes
<1>5. QED
  BY <1>2, <1>3, <1>4, SameRows, SameLog, TypeParts

LEMMA AdmitFirstTypes ==
  ASSUME TypeInv, NEW c \in Callers, AdmitFirst(c)
  PROVE  TypeInv'
<1> USE DEF TypeInv
<1>1. Turn(c) /\ call[c] \in Calls /\ Len(log) \in Nat
  BY QueuedTurn DEF AdmitFirst, TypeOK
<1>2. UNCHANGED <<receipt, outbox, replies>>
  BY DEF AdmitFirst, Reject
<1>3. CASE MayOpen(c)
  <2>1. CallTypes /\ ChainInv'
    BY <1>1, <1>3, AdvanceTypes DEF AdmitFirst
  <2> DEFINE k == call[c].key
  <2>2. k \in Keys /\ call[c].payload \in Payloads /\ call[c].id \in Ids
    BY <1>1 DEF Calls
  <2>3. /\ log' = Append(log, [kind |-> "admitted", key |-> k])
        /\ state' = [state EXCEPT ![k] = "PENDING_EFFECT"]
        /\ payload' = [payload EXCEPT ![k] = call[c].payload]
        /\ prev' = [prev EXCEPT ![k] = Len(log)]
        /\ owner' = [owner EXCEPT ![k] = call[c].id]
        /\ leased' = [leased EXCEPT ![k] = TRUE]
        /\ result' = result
    BY <1>3 DEF AdmitFirst
  <2>4. [kind |-> "admitted", key |-> k] \in Events
    BY <2>2 DEF Events
  <2>5. log' \in Seq(Events)
    BY <2>3, <2>4 DEF TypeOK
  <2> HIDE DEF k
  <2>6. RowTypes
    BY <1>1, <2>2, <2>3 DEF RowTypes, TypeOK, States
  <2>7. RowInv'
    BY <2>2, <2>3 DEF RowInv, TypeOK, States
  <2>8. QED
    BY <1>2, <2>1, <2>5, <2>6, <2>7, SameSettled, TypeParts
<1>4. CASE ~MayOpen(c)
  <2>1. CallTypes /\ ChainInv'
    BY <1>1, <1>4, ReturnTypes DEF AdmitFirst, Reject
  <2>2. UNCHANGED log /\ UNCHANGED opVars
    BY <1>4 DEF AdmitFirst
  <2>3. QED
    BY <1>2, <2>1, <2>2, SameSettled, SameRows, SameLog, TypeParts
<1>5. QED
  BY <1>3, <1>4

LEMMA AdmitRetryTypes ==
  ASSUME TypeInv, NEW c \in Callers, AdmitRetry(c)
  PROVE  TypeInv'
<1> USE DEF TypeInv
<1>1. Turn(c) /\ call[c] \in Calls
  BY QueuedTurn DEF AdmitRetry
<1>2. UNCHANGED <<receipt, outbox, replies>> /\ UNCHANGED log
  BY DEF AdmitRetry, Reject
<1>3. CASE SamePayload(c) /\ MayTakeOver(call[c].key)
  <2>1. CallTypes /\ ChainInv'
    BY <1>1, <1>3, AdvanceTypes DEF AdmitRetry
  <2>2. RowTypes
    BY <1>1, <1>3 DEF AdmitRetry, RowTypes, Calls, TypeOK, States
  <2>3. RowInv'
    BY <1>1, <1>3 DEF AdmitRetry, RowInv, Calls, TypeOK
  <2>4. QED
    BY <1>2, <2>1, <2>2, <2>3, SameSettled, SameLog, TypeParts
<1>4. CASE ~(SamePayload(c) /\ MayTakeOver(call[c].key))
  <2>1. CallTypes /\ ChainInv'
    BY <1>1, <1>4, ReturnTypes DEF AdmitRetry, Reject
  <2>2. UNCHANGED opVars
    BY <1>4 DEF AdmitRetry
  <2>3. QED
    BY <1>2, <2>1, <2>2, SameSettled, SameRows, SameLog, TypeParts
<1>5. QED
  BY <1>3, <1>4

LEMMA AdmitAppliedTypes ==
  ASSUME TypeInv, NEW c \in Callers, AdmitApplied(c)
  PROVE  TypeInv'
<1> USE DEF TypeInv
<1>1. CallTypes /\ ChainInv'
  BY AdvanceTypes, ReturnTypes DEF AdmitApplied, Reject
<1>2. UNCHANGED <<receipt, outbox, replies>> /\ UNCHANGED log /\ UNCHANGED opVars
  BY DEF AdmitApplied, Reject
<1>3. QED
  BY <1>1, <1>2, SameSettled, SameRows, SameLog, TypeParts

LEMMA RunEffectTypes ==
  ASSUME TypeInv, NEW c \in Callers, RunEffect(c)
  PROVE  TypeInv'
<1> USE DEF TypeInv
<1>1. CallTypes /\ ChainInv'
  BY AdvanceTypes DEF RunEffect
<1>2. [kind |-> "domain", key |-> call[c].key] \in Events
  BY QueuedTurn DEF RunEffect, Events, Calls
<1>3. log' \in Seq(Events)
  BY <1>2 DEF RunEffect, AppendOnce, TypeOK
<1>4. UNCHANGED <<receipt, outbox, replies>> /\ UNCHANGED opVars
  BY DEF RunEffect
<1>5. QED
  BY <1>1, <1>3, <1>4, SameSettled, SameRows, TypeParts

LEMMA CheckpointTypes ==
  ASSUME TypeInv, NEW c \in Callers, NEW v \in Values, Checkpoint(c, v)
  PROVE  TypeInv'
<1> USE DEF TypeInv
<1>1. pc[c] = "applied" /\ call[c] \in Calls
  BY QueuedTurn DEF Checkpoint
<1>2. UNCHANGED <<receipt, outbox, replies>> /\ UNCHANGED log
  BY DEF Checkpoint, Reject
<1>3. CASE HoldsLease(c)
  <2>1. CallTypes /\ ChainInv'
    BY <1>1, <1>3, AdvanceTypes DEF Checkpoint
  <2>2. RowTypes
    <3>1. /\ state' = [state EXCEPT ![call[c].key] = "EFFECT_APPLIED"]
          /\ result' = [result EXCEPT ![call[c].key] = v]
          /\ owner' = [owner EXCEPT ![call[c].key] = None]
          /\ leased' = [leased EXCEPT ![call[c].key] = FALSE]
          /\ UNCHANGED <<payload, prev>>
      BY <1>3 DEF Checkpoint
    <3>2. QED
      BY <3>1 DEF RowTypes, TypeOK, States
  <2>3. RowInv'
    BY <1>1, <1>3 DEF Checkpoint, HoldsLease, RowInv, TypeOK, Calls
  <2>4. QED
    BY <1>2, <2>1, <2>2, <2>3, SameSettled, SameLog, TypeParts
<1>4. CASE ~HoldsLease(c)
  <2>1. CallTypes /\ ChainInv'
    BY <1>1, <1>4, ReturnTypes DEF Checkpoint, Reject
  <2>2. UNCHANGED opVars
    BY <1>4 DEF Checkpoint
  <2>3. QED
    BY <1>2, <2>1, <2>2, SameSettled, SameRows, SameLog, TypeParts
<1>5. QED
  BY <1>3, <1>4

LEMMA FailEffectTypes ==
  ASSUME TypeInv, NEW c \in Callers, FailEffect(c)
  PROVE  TypeInv'
<1> USE DEF TypeInv
<1>1. CallTypes /\ ChainInv'
  BY ReturnTypes DEF FailEffect, Reject
<1>2. UNCHANGED <<receipt, outbox, replies>> /\ UNCHANGED log
  BY DEF FailEffect, Reject
<1>3. call[c].key \in Keys
  BY QueuedTurn DEF FailEffect, Calls
<1>4. RowTypes /\ RowInv'
  <2>1. CASE HoldsLease(c)
    BY <1>3, <2>1 DEF FailEffect, HoldsLease, RowTypes, RowInv, TypeOK, States
  <2>2. CASE ~HoldsLease(c)
    BY <2>2, SameRows DEF FailEffect
  <2>3. QED
    BY <2>1, <2>2
<1>5. QED
  BY <1>1, <1>2, <1>4, SameSettled, SameLog, TypeParts

LEMMA FinalizeTypes ==
  ASSUME TypeInv, NEW c \in Callers, Finalize(c)
  PROVE  TypeInv'
<1> USE DEF TypeInv
<1> DEFINE k == call[c].key
<1>1. Return(c) /\ k \in Keys /\ UNCHANGED log
  BY QueuedTurn DEF Finalize, Reply, Calls
<1>2. CallTypes /\ ChainInv'
  BY <1>1, ReturnTypes DEF Finalize
<1>3. CASE receipt[k] # None
  <2>1. SettledTypes
    BY <1>1, <1>3 DEF Finalize, Reply, SettledTypes, TypeOK
  <2>2. UNCHANGED opVars
    BY <1>3 DEF Finalize, opVars
  <2>3. QED
    BY <1>1, <1>2, <2>1, <2>2, SameRows, SameLog, TypeParts
<1>4. CASE receipt[k] = None
  <2>1. payload[k] \in Payloads /\ result[k] \in Values /\ prev[k] \in Nat /\ Len(log) \in Nat
    BY <1>1, <1>4 DEF Finalize, RowInv, TypeOK
  <2>2. NewReceipt(k) \in Receipts
    BY <2>1 DEF NewReceipt, Receipts
  <2>3. SettledTypes
    <3>1. /\ outbox' = [outbox EXCEPT ![k] = @ + 1]
          /\ receipt' = [receipt EXCEPT ![k] = NewReceipt(k)]
          /\ replies' = replies \cup {[key |-> k, receipt |-> NewReceipt(k)]}
      BY <1>4 DEF Finalize, Reply
    <3>2. QED
      BY <1>1, <2>2, <3>1 DEF SettledTypes, TypeOK
  <2>4. RowTypes /\ RowInv'
    BY <1>1, <1>4 DEF Finalize, RowTypes, RowInv, TypeOK, States
  <2>5. QED
    BY <1>1, <1>2, <2>3, <2>4, SameLog, TypeParts
<1>5. QED
  BY <1>3, <1>4

LEMMA TypeStep == TypeInv /\ [Next]_vars => TypeInv'
<1> SUFFICES ASSUME TypeInv, [Next]_vars PROVE TypeInv'
  OBVIOUS
<1> USE DEF TypeInv
<1>1. ASSUME NEW c \in Callers, NEW k \in Keys, NEW p \in Payloads, Submit(c, k, p)
      PROVE  TypeInv'
  <2>1. tail' \in [Hosts -> Seq(Callers)] /\ ChainInv'
    BY <1>1, SubmitChain
  <2>2. CallTypes
    BY <1>1, <2>1 DEF Submit, CallTypes, Calls, TypeOK
  <2>3. UNCHANGED log /\ UNCHANGED opVars /\ UNCHANGED <<receipt, outbox, replies>>
    BY <1>1 DEF Submit
  <2>4. QED
    BY <2>1, <2>2, <2>3, SameRows, SameSettled, SameLog, TypeParts
<1>2. ASSUME NEW c \in Callers, Step(c) PROVE TypeInv'
  BY <1>2, AdmitDuplicateTypes, AdmitFirstTypes, AdmitRetryTypes, AdmitAppliedTypes,
     RunEffectTypes, CheckpointTypes, FailEffectTypes, FinalizeTypes DEF Step
<1>3. ASSUME NEW k \in Keys, ExpireLease(k) PROVE TypeInv'
  <2>1. RowTypes /\ RowInv'
    BY <1>3 DEF ExpireLease, RowTypes, RowInv, TypeOK
  <2>2. CallTypes /\ ChainInv'
    BY <1>3 DEF ExpireLease, CallTypes, ChainInv, ChainOfCalls, OneCallPerProcess, TypeOK
  <2>3. UNCHANGED log /\ UNCHANGED <<receipt, outbox, replies>>
    BY <1>3 DEF ExpireLease
  <2>4. QED
    BY <2>1, <2>2, <2>3, SameSettled, SameLog, TypeParts
<1>4. ASSUME NEW h \in Hosts, Crash(h) PROVE TypeInv'
  <2>1. tail' \in [Hosts -> Seq(Callers)] /\ ChainInv'
    BY <1>4, CrashChain
  <2>2. CallTypes
    BY <1>4, <2>1 DEF Crash, CallTypes, TypeOK
  <2>3. UNCHANGED log /\ UNCHANGED opVars /\ UNCHANGED <<receipt, outbox, replies>>
    BY <1>4 DEF Crash
  <2>4. QED
    BY <2>1, <2>2, <2>3, SameRows, SameSettled, SameLog, TypeParts
<1>5. CASE ForeignAppend
  <2>1. log' \in Seq(Events)
    BY <1>5 DEF ForeignAppend, ForeignEvent, Events, TypeOK
  <2>2. CallTypes /\ ChainInv'
    BY <1>5 DEF ForeignAppend, CallTypes, ChainInv, ChainOfCalls, OneCallPerProcess, TypeOK
  <2>3. UNCHANGED opVars /\ UNCHANGED <<receipt, outbox, replies>>
    BY <1>5 DEF ForeignAppend
  <2>4. QED
    BY <2>1, <2>2, <2>3, SameRows, SameSettled, TypeParts
<1>6. CASE UNCHANGED vars
  <2>1. CallTypes /\ ChainInv'
    BY <1>6 DEF vars, CallTypes, ChainInv, ChainOfCalls, OneCallPerProcess, TypeOK
  <2>2. UNCHANGED log /\ UNCHANGED opVars /\ UNCHANGED <<receipt, outbox, replies>>
    BY <1>6 DEF vars
  <2>3. QED
    BY <2>1, <2>2, SameRows, SameSettled, SameLog, TypeParts
<1>7. QED
  BY <1>1, <1>2, <1>3, <1>4, <1>5, <1>6 DEF Next

-----------------------------------------------------------------------------
(* Whoever was told "done" was told what the receipt says, which stays.    *)
RepliesQuoteReceipts ==
  \A r \in replies : receipt[r.key] # None /\ receipt[r.key] = r.receipt

SagaInv ==
  /\ SingleOpenCommand
  /\ CommittedOnce
  /\ FinalizerFindsCheckpoint
  /\ RepliesQuoteReceipts

IInv == TypeInv /\ SagaInv

(* A step that leaves the rows, receipts and finalising calls alone.       *)
LEMMA SagaQuiet ==
  ASSUME IInv, UNCHANGED <<state, result, receipt, outbox, replies>>,
         \A c \in Callers : pc'[c] = "final" => pc[c] = "final" /\ call'[c] = call[c]
  PROVE  SagaInv'
BY DEF IInv, SagaInv, SingleOpenCommand, IsOpen, CommittedOnce,
       FinalizerFindsCheckpoint, RepliesQuoteReceipts

LEMMA ReturnKeepsFinals ==
  ASSUME TypeOK, NEW c \in Callers, Return(c)
  PROVE  \A d \in Callers : pc'[d] = "final" => pc[d] = "final" /\ call'[d] = call[d]
BY DEF Return, TypeOK

LEMMA RejectSaga ==
  ASSUME IInv, NEW c \in Callers, Reject(c), UNCHANGED opVars, UNCHANGED <<receipt, outbox>>
  PROVE  SagaInv'
<1>1. \A d \in Callers : pc'[d] = "final" => pc[d] = "final" /\ call'[d] = call[d]
  BY ReturnKeepsFinals DEF Reject, IInv, TypeInv
<1>2. QED
  BY <1>1, SagaQuiet DEF Reject, opVars

LEMMA AdmitDuplicateSaga ==
  ASSUME IInv, NEW c \in Callers, AdmitDuplicate(c)
  PROVE  SagaInv'
<1> DEFINE k == call[c].key
<1>1. UNCHANGED opVars /\ UNCHANGED <<receipt, outbox>> /\ receipt[k] # None
  BY DEF AdmitDuplicate
<1>2. CASE receipt[k].payload = call[c].payload
  <2>1. Return(c) /\ replies' = replies \cup {[key |-> k, receipt |-> receipt[k]]}
    BY <1>2 DEF AdmitDuplicate, Reply
  <2>2. \A d \in Callers : pc'[d] = "final" => pc[d] = "final" /\ call'[d] = call[d]
    BY <2>1, ReturnKeepsFinals DEF IInv, TypeInv
  <2>3. RepliesQuoteReceipts'
    BY <1>1, <2>1 DEF RepliesQuoteReceipts, IInv, SagaInv
  <2>4. QED
    BY <1>1, <2>2, <2>3 DEF IInv, SagaInv, SingleOpenCommand, IsOpen, CommittedOnce,
       FinalizerFindsCheckpoint, opVars
<1>3. CASE receipt[k].payload # call[c].payload
  BY <1>1, <1>3, RejectSaga DEF AdmitDuplicate
<1>4. QED
  BY <1>2, <1>3

LEMMA AdmitFirstSaga ==
  ASSUME IInv, NEW c \in Callers, AdmitFirst(c)
  PROVE  SagaInv'
<1> DEFINE k == call[c].key
<1>1. k \in Keys /\ state[k] = "ABSENT" /\ receipt[k] = None /\ UNCHANGED <<receipt, outbox>>
  BY QueuedTurn DEF AdmitFirst, IInv, TypeInv, Calls
<1>2. CASE MayOpen(c)
  <2>1. /\ state' = [state EXCEPT ![k] = "PENDING_EFFECT"]
        /\ pc' = [pc EXCEPT ![c] = "effect"]
        /\ UNCHANGED <<result, call, replies>>
    BY <1>2 DEF AdmitFirst
  <2> HIDE DEF k
  <2>2. state \in [Keys -> States] /\ pc \in [Callers -> {"idle", "queued", "effect", "applied", "final"}]
    BY DEF IInv, TypeInv, TypeOK
  <2>3. \A j \in Keys \ {k} : ~IsOpen(j)
    BY <1>2 DEF MayOpen, k
  <2>4. SingleOpenCommand'
    BY <2>1, <2>2, <2>3 DEF SingleOpenCommand, IsOpen
  <2>5. CommittedOnce'
    BY <1>1, <2>1, <2>2 DEF CommittedOnce, IInv, SagaInv
  <2>6. FinalizerFindsCheckpoint'
    BY <1>1, <2>1, <2>2 DEF FinalizerFindsCheckpoint, IInv, SagaInv
  <2>7. RepliesQuoteReceipts'
    BY <1>1, <2>1 DEF RepliesQuoteReceipts, IInv, SagaInv
  <2>8. QED
    BY <2>4, <2>5, <2>6, <2>7 DEF SagaInv
<1>3. CASE ~MayOpen(c)
  BY <1>3, RejectSaga DEF AdmitFirst
<1>4. QED
  BY <1>2, <1>3

LEMMA AdmitRetrySaga ==
  ASSUME IInv, NEW c \in Callers, AdmitRetry(c)
  PROVE  SagaInv'
<1> DEFINE k == call[c].key
<1>1. k \in Keys /\ state[k] \in {"RETRYABLE", "PENDING_EFFECT"} /\ UNCHANGED <<receipt, outbox>>
  BY QueuedTurn DEF AdmitRetry, IInv, TypeInv, Calls
<1>2. CASE SamePayload(c) /\ MayTakeOver(k)
  <2>1. /\ state' = [state EXCEPT ![k] = "PENDING_EFFECT"]
        /\ pc' = [pc EXCEPT ![c] = "effect"]
        /\ UNCHANGED <<result, call, replies>>
    BY <1>2 DEF AdmitRetry
  <2> HIDE DEF k
  <2>2. state \in [Keys -> States] /\ pc \in [Callers -> {"idle", "queued", "effect", "applied", "final"}]
    BY DEF IInv, TypeInv, TypeOK
  <2>3. SingleOpenCommand'
    BY <1>1, <2>1, <2>2 DEF SingleOpenCommand, IsOpen, IInv, SagaInv
  <2>4. CommittedOnce'
    BY <1>1, <2>1, <2>2 DEF CommittedOnce, IInv, SagaInv
  <2>5. FinalizerFindsCheckpoint'
    BY <1>1, <2>1, <2>2 DEF FinalizerFindsCheckpoint, IInv, SagaInv
  <2>6. RepliesQuoteReceipts'
    BY <1>1, <2>1 DEF RepliesQuoteReceipts, IInv, SagaInv
  <2>7. QED
    BY <2>3, <2>4, <2>5, <2>6 DEF SagaInv
<1>3. CASE ~(SamePayload(c) /\ MayTakeOver(k))
  BY <1>3, RejectSaga DEF AdmitRetry
<1>4. QED
  BY <1>2, <1>3

LEMMA AdmitAppliedSaga ==
  ASSUME IInv, NEW c \in Callers, AdmitApplied(c)
  PROVE  SagaInv'
<1>1. /\ call[c].key \in Keys /\ state[call[c].key] = "EFFECT_APPLIED"
      /\ UNCHANGED opVars /\ UNCHANGED <<receipt, outbox>>
  BY QueuedTurn DEF AdmitApplied, IInv, TypeInv, Calls
<1>2. CASE SamePayload(c)
  <2>1. pc' = [pc EXCEPT ![c] = "final"] /\ UNCHANGED <<call, replies>>
    BY <1>2 DEF AdmitApplied
  <2>2. result[call[c].key] # None
    BY <1>1, SagaAssumption DEF IInv, TypeInv, RowInv
  <2>3. FinalizerFindsCheckpoint'
    BY <1>1, <2>1, <2>2 DEF FinalizerFindsCheckpoint, IInv, SagaInv, TypeInv, TypeOK, opVars
  <2>4. QED
    BY <1>1, <2>1, <2>3 DEF IInv, SagaInv, SingleOpenCommand, IsOpen, CommittedOnce,
       RepliesQuoteReceipts, opVars
<1>3. CASE ~SamePayload(c)
  BY <1>1, <1>3, RejectSaga DEF AdmitApplied
<1>4. QED
  BY <1>2, <1>3

LEMMA CheckpointSaga ==
  ASSUME IInv, NEW c \in Callers, NEW v \in Values, Checkpoint(c, v)
  PROVE  SagaInv'
<1> DEFINE k == call[c].key
<1>1. k \in Keys /\ UNCHANGED <<receipt, outbox>>
  BY QueuedTurn DEF Checkpoint, IInv, TypeInv, Calls
<1>2. CASE HoldsLease(c)
  <2>1. /\ state[k] = "PENDING_EFFECT"
        /\ state' = [state EXCEPT ![k] = "EFFECT_APPLIED"]
        /\ result' = [result EXCEPT ![k] = v]
        /\ pc' = [pc EXCEPT ![c] = "final"]
        /\ UNCHANGED <<call, replies>>
    BY <1>2 DEF Checkpoint, HoldsLease
  <2>2. call[c].key = k
    OBVIOUS
  <2> HIDE DEF k
  <2>3. /\ state \in [Keys -> States] /\ result \in [Keys -> Values \cup {None}]
        /\ pc \in [Callers -> {"idle", "queued", "effect", "applied", "final"}]
        /\ v # None
    BY SagaAssumption DEF IInv, TypeInv, TypeOK
  <2>4. SingleOpenCommand'
    BY <1>1, <2>1, <2>3 DEF SingleOpenCommand, IsOpen, IInv, SagaInv
  <2>5. CommittedOnce'
    BY <1>1, <2>1, <2>3 DEF CommittedOnce, IInv, SagaInv
  <2>6. FinalizerFindsCheckpoint'
    BY <1>1, <2>1, <2>2, <2>3 DEF FinalizerFindsCheckpoint, IInv, SagaInv
  <2>7. RepliesQuoteReceipts'
    BY <1>1, <2>1 DEF RepliesQuoteReceipts, IInv, SagaInv
  <2>8. QED
    BY <2>4, <2>5, <2>6, <2>7 DEF SagaInv
<1>3. CASE ~HoldsLease(c)
  BY <1>1, <1>3, RejectSaga DEF Checkpoint
<1>4. QED
  BY <1>2, <1>3

LEMMA FailEffectSaga ==
  ASSUME IInv, NEW c \in Callers, FailEffect(c)
  PROVE  SagaInv'
<1> DEFINE k == call[c].key
<1>1. k \in Keys /\ Reject(c) /\ UNCHANGED <<receipt, outbox>>
  BY QueuedTurn DEF FailEffect, IInv, TypeInv, Calls
<1>2. CASE HoldsLease(c)
  <2>1. /\ state[k] = "PENDING_EFFECT"
        /\ state' = [state EXCEPT ![k] = "RETRYABLE"]
        /\ UNCHANGED <<result, replies>>
    BY <1>1, <1>2 DEF FailEffect, HoldsLease, Reject
  <2>2. \A d \in Callers : pc'[d] = "final" => pc[d] = "final" /\ call'[d] = call[d]
    BY <1>1, ReturnKeepsFinals DEF IInv, TypeInv, Reject
  <2> HIDE DEF k
  <2>3. state \in [Keys -> States]
    BY DEF IInv, TypeInv, TypeOK
  <2>4. SingleOpenCommand'
    BY <1>1, <2>1, <2>3 DEF SingleOpenCommand, IsOpen, IInv, SagaInv
  <2>5. CommittedOnce'
    BY <1>1, <2>1, <2>3 DEF CommittedOnce, IInv, SagaInv
  <2>6. FinalizerFindsCheckpoint'
    BY <1>1, <2>1, <2>2, <2>3 DEF FinalizerFindsCheckpoint, IInv, SagaInv
  <2>7. RepliesQuoteReceipts'
    BY <1>1, <2>1 DEF RepliesQuoteReceipts, IInv, SagaInv
  <2>8. QED
    BY <2>4, <2>5, <2>6, <2>7 DEF SagaInv
<1>3. CASE ~HoldsLease(c)
  BY <1>1, <1>3, RejectSaga DEF FailEffect
<1>4. QED
  BY <1>2, <1>3

LEMMA FinalizeSaga ==
  ASSUME IInv, NEW c \in Callers, Finalize(c)
  PROVE  SagaInv'
<1> DEFINE k == call[c].key
<1>1. k \in Keys /\ Return(c) /\ UNCHANGED result
  BY QueuedTurn DEF Finalize, Reply, IInv, TypeInv, Calls
<1>2. \A d \in Callers : pc'[d] = "final" => pc[d] = "final" /\ call'[d] = call[d]
  BY <1>1, ReturnKeepsFinals DEF IInv, TypeInv
<1>3. CASE receipt[k] # None
  <2>1. UNCHANGED <<state, receipt, outbox>>
        /\ replies' = replies \cup {[key |-> k, receipt |-> receipt[k]]}
    BY <1>3 DEF Finalize, Reply
  <2>2. RepliesQuoteReceipts'
    BY <1>3, <2>1 DEF RepliesQuoteReceipts, IInv, SagaInv
  <2>3. QED
    BY <1>1, <1>2, <2>1, <2>2 DEF IInv, SagaInv, SingleOpenCommand, IsOpen, CommittedOnce,
       FinalizerFindsCheckpoint
<1>4. CASE receipt[k] = None
  <2>1. /\ state[k] = "EFFECT_APPLIED"
        /\ outbox' = [outbox EXCEPT ![k] = outbox[k] + 1]
        /\ receipt' = [receipt EXCEPT ![k] = NewReceipt(k)]
        /\ state' = [state EXCEPT ![k] = "COMMITTED"]
        /\ replies' = replies \cup {[key |-> k, receipt |-> NewReceipt(k)]}
    BY <1>4 DEF Finalize, Reply
  <2>2. payload[k] \in Payloads /\ result[k] \in Values /\ prev[k] \in Nat /\ Len(log) \in Nat
    BY <1>1, <2>1 DEF IInv, TypeInv, RowInv, TypeOK
  <2>3. NewReceipt(k) # None
    BY <2>2, SagaAssumption DEF NewReceipt, Receipts
  <2> HIDE DEF k
  <2>4. /\ state \in [Keys -> States] /\ receipt \in [Keys -> Receipts \cup {None}]
        /\ outbox \in [Keys -> Nat] /\ replies \subseteq [key: Keys, receipt: Receipts]
    BY DEF IInv, TypeInv, TypeOK
  <2>5. SingleOpenCommand'
    BY <1>1, <2>1, <2>4 DEF SingleOpenCommand, IsOpen, IInv, SagaInv
  <2>6. CommittedOnce'
    BY <1>1, <1>4, <2>1, <2>3, <2>4 DEF CommittedOnce, IInv, SagaInv
  <2>7. FinalizerFindsCheckpoint'
    BY <1>1, <1>2, <2>1, <2>4 DEF FinalizerFindsCheckpoint, IInv, SagaInv
  <2>8. RepliesQuoteReceipts'
    BY <1>1, <1>4, <2>1, <2>3, <2>4 DEF RepliesQuoteReceipts, IInv, SagaInv
  <2>9. QED
    BY <2>5, <2>6, <2>7, <2>8 DEF SagaInv
<1>5. QED
  BY <1>3, <1>4

LEMMA SagaStep == IInv /\ [Next]_vars => IInv'
<1> SUFFICES ASSUME IInv, [Next]_vars PROVE IInv'
  OBVIOUS
<1>1. TypeInv'
  BY TypeStep DEF IInv
<1>2. ASSUME NEW c \in Callers, NEW k \in Keys, NEW p \in Payloads, Submit(c, k, p)
      PROVE  SagaInv'
  BY <1>2, SagaQuiet DEF Submit, opVars, IInv, TypeInv, TypeOK
<1>3. ASSUME NEW c \in Callers, Step(c) PROVE SagaInv'
  <2>1. CASE RunEffect(c)
    BY <2>1, SagaQuiet DEF RunEffect, opVars, IInv, TypeInv, TypeOK
  <2>2. QED
    BY <1>3, <2>1, AdmitDuplicateSaga, AdmitFirstSaga, AdmitRetrySaga, AdmitAppliedSaga,
       CheckpointSaga, FailEffectSaga, FinalizeSaga DEF Step
<1>4. ASSUME NEW k \in Keys, ExpireLease(k) PROVE SagaInv'
  BY <1>4, SagaQuiet DEF ExpireLease
<1>5. ASSUME NEW h \in Hosts, Crash(h) PROVE SagaInv'
  BY <1>5, SagaQuiet DEF Crash, opVars
<1>6. ASSUME ForeignAppend PROVE SagaInv'
  BY <1>6, SagaQuiet DEF ForeignAppend, opVars
<1>7. ASSUME UNCHANGED vars PROVE SagaInv'
  BY <1>7, SagaQuiet DEF vars, opVars
<1>8. SagaInv'
  BY <1>2, <1>3, <1>4, <1>5, <1>6, <1>7 DEF Next
<1>9. QED
  BY <1>1, <1>8 DEF IInv

LEMMA SagaInit == Init => IInv
<1> SUFFICES ASSUME Init PROVE IInv
  OBVIOUS
<1>1. TypeOK
  BY DEF Init, TypeOK, States
<1>2. ChainInv
  BY DEF Init, ChainInv, ChainOfCalls, OneCallPerProcess
<1>3. RowInv /\ SagaInv
  BY DEF Init, RowInv, SagaInv, SingleOpenCommand, IsOpen, CommittedOnce,
         FinalizerFindsCheckpoint, RepliesQuoteReceipts
<1>4. QED
  BY <1>1, <1>2, <1>3 DEF IInv, TypeInv

LEMMA Invariance == Spec => []IInv
BY SagaInit, SagaStep, PTL DEF Spec

(* The rows, the event stream, the promise chains and the calls in flight  *)
(* of transactCommand and the kernel keep their types.                     *)
THEOREM TypeCorrectness == Spec => []TypeOK
BY Invariance, PTL DEF IInv, TypeInv

(* The kernel's promise chain: one call per process past admission.        *)
THEOREM ChainSerialises == Spec => []OneCallPerProcess
BY Invariance, PTL DEF IInv, TypeInv, ChainInv

(* However processes crash, take leases over or lose them, at most one     *)
(* command of a mission is between admission and commit.                   *)
THEOREM OneOpenCommand == Spec => []SingleOpenCommand
BY Invariance, PTL DEF IInv, SagaInv

(* Receipt, outbox row and COMMITTED fence exist together and once.        *)
THEOREM CommitIsAtomic == Spec => []CommittedOnce
BY Invariance, PTL DEF IInv, SagaInv

(* The PERSISTENCE_FAILED branches of the final transaction are dead code. *)
THEOREM CheckpointPrecedesFinal == Spec => []FinalizerFindsCheckpoint
BY Invariance, PTL DEF IInv, SagaInv

(* Every successful reply under one key, from any process, before or after *)
(* any crash, quotes the one receipt of that key.                          *)
THEOREM IdempotentReplies == Spec => []RepliesAgree
<1>1. IInv => RepliesAgree
  <2> SUFFICES ASSUME IInv, NEW r \in replies, NEW s \in replies, r.key = s.key
               PROVE  r = s /\ receipt[r.key] = r.receipt
    BY DEF RepliesAgree
  <2>1. receipt[r.key] = r.receipt /\ receipt[s.key] = s.receipt
    BY DEF IInv, SagaInv, RepliesQuoteReceipts
  <2>2. /\ r = [key |-> r.key, receipt |-> r.receipt]
        /\ s = [key |-> s.key, receipt |-> s.receipt]
    BY DEF IInv, TypeInv, TypeOK
  <2>3. QED
    BY <2>1, <2>2
<1>2. QED
  BY <1>1, Invariance, PTL

-----------------------------------------------------------------------------
(* The stream: an admitted key owns a stretch of it, from the revision its *)
(* admission found to its receipt, or to the end while it is open.         *)
Admitted(k) == state[k] # "ABSENT"
DomainEvent(k) == [kind |-> "domain", key |-> k]
IsLogged(e) == \E i \in DOMAIN log : log[i] = e
End(k) == IF receipt[k] = None THEN Len(log) ELSE receipt[k].to

(* Only admitted keys have events and calls past admission.                *)
NothingBeforeAdmission ==
  /\ \A i \in DOMAIN log : log[i].kind # "foreign" =>
       log[i].key \in Keys /\ Admitted(log[i].key)
  /\ \A c \in Callers : pc[c] \in {"effect", "applied", "final"} => Admitted(call[c].key)

(* A checkpoint is made by a call that has logged its domain event, so     *)
(* whoever runs the operation after it has nothing to append.              *)
EffectsAreLogged ==
  /\ \A c \in Callers : pc[c] = "applied" => IsLogged(DomainEvent(call[c].key))
  /\ \A k \in Keys : state[k] \in {"EFFECT_APPLIED", "COMMITTED"} => IsLogged(DomainEvent(k))

ReceiptsStartAtAdmission ==
  \A k \in Keys : receipt[k] # None => receipt[k].from = prev[k]

StretchesAreOwned ==
  \A k \in Keys : Admitted(k) =>
    /\ prev[k] < End(k) /\ End(k) <= Len(log)
    /\ \A i \in DOMAIN log : log[i].kind # "foreign" =>
         (log[i].key = k <=> prev[k] < i /\ i <= End(k))

StretchesFollow ==
  \A j, k \in Keys : Admitted(j) /\ Admitted(k) /\ j # k =>
    End(j) <= prev[k] \/ End(k) <= prev[j]

StreamInv ==
  /\ NothingBeforeAdmission
  /\ EffectsAreLogged
  /\ EventsOnce
  /\ ReceiptsStartAtAdmission
  /\ StretchesAreOwned
  /\ StretchesFollow

PastAdmission == {"effect", "applied", "final"}

LEMMA AppendFacts ==
  ASSUME TypeOK, NEW e \in Events, log' = Append(log, e)
  PROVE  /\ Len(log) \in Nat /\ Len(log') = Len(log) + 1
         /\ DOMAIN log = 1 .. Len(log) /\ DOMAIN log' = 1 .. Len(log) + 1
         /\ \A i \in DOMAIN log : log'[i] = log[i]
         /\ log'[Len(log) + 1] = e
         /\ \A i \in DOMAIN log' : i \in DOMAIN log \/ i = Len(log) + 1
BY DEF TypeOK

(* A step that neither extends the stream nor writes a receipt.            *)
LEMMA StreamQuiet ==
  ASSUME IInv, StreamInv, UNCHANGED <<log, prev, receipt>>,
         \A k \in Keys : /\ state'[k] # "ABSENT" <=> state[k] # "ABSENT"
                         /\ state'[k] \in {"EFFECT_APPLIED", "COMMITTED"} =>
                              IsLogged(DomainEvent(k)),
         \A d \in Callers : pc'[d] \in PastAdmission =>
           /\ call'[d] = call[d] /\ call[d] \in Calls /\ Admitted(call[d].key)
           /\ pc'[d] = "applied" => IsLogged(DomainEvent(call[d].key))
  PROVE  StreamInv'
<1> USE DEF StreamInv
<1>1. NothingBeforeAdmission'
  BY DEF NothingBeforeAdmission, Admitted, PastAdmission, Calls
<1>2. EffectsAreLogged'
  BY DEF EffectsAreLogged, IsLogged, DomainEvent, PastAdmission
<1>3. EventsOnce' /\ ReceiptsStartAtAdmission'
  BY DEF EventsOnce, ReceiptsStartAtAdmission
<1>4. StretchesAreOwned' /\ StretchesFollow'
  BY DEF StretchesAreOwned, StretchesFollow, Admitted, End
<1> QED
  BY <1>1, <1>2, <1>3, <1>4

(* An open command's stretch reaches to the end of the stream.             *)
LEMMA OpenStretch ==
  ASSUME IInv, StreamInv, NEW k \in Keys, IsOpen(k)
  PROVE  /\ Admitted(k) /\ receipt[k] = None /\ End(k) = Len(log)
         /\ prev[k] \in Nat /\ prev[k] < Len(log)
         /\ \A j \in Keys : Admitted(j) /\ j # k =>
              /\ receipt[j] # None /\ End(j) = receipt[j].to
              /\ prev[j] \in Nat /\ End(j) \in Nat /\ End(j) <= prev[k]
<1> USE DEF StreamInv
<1>1. Admitted(k) /\ receipt[k] = None /\ End(k) = Len(log)
  BY DEF IsOpen, Admitted, IInv, SagaInv, CommittedOnce, End
<1>2. /\ prev \in [Keys -> Nat] /\ Len(log) \in Nat
      /\ receipt \in [Keys -> Receipts \cup {None}]
  BY DEF IInv, TypeInv, TypeOK
<1>3. prev[k] < Len(log)
  BY <1>1 DEF StretchesAreOwned
<1>4. ASSUME NEW j \in Keys, Admitted(j), j # k
      PROVE  /\ receipt[j] # None /\ End(j) = receipt[j].to
             /\ prev[j] \in Nat /\ End(j) \in Nat /\ End(j) <= prev[k]
  <2>1. state[j] = "COMMITTED"
    BY <1>4 DEF IsOpen, Admitted, IInv, SagaInv, SingleOpenCommand
  <2>2. receipt[j] # None /\ receipt[j] \in Receipts /\ End(j) = receipt[j].to
    BY <1>2, <2>1 DEF IInv, SagaInv, CommittedOnce, End
  <2>3. End(j) \in Nat /\ prev[j] \in Nat
    BY <1>2, <2>2 DEF Receipts
  <2>4. End(j) <= prev[k] \/ End(k) <= prev[j]
    BY <1>1, <1>4 DEF StretchesFollow
  <2>5. prev[j] < End(j) /\ End(j) <= Len(log)
    BY <1>4 DEF StretchesAreOwned
  <2> QED
    BY <1>1, <1>2, <2>2, <2>3, <2>4, <2>5
<1> QED
  BY <1>1, <1>2, <1>3, <1>4

(* An event that belongs to no command, or to the open one, extends the    *)
(* open stretch and no other.                                              *)
LEMMA StreamGrows ==
  ASSUME IInv, StreamInv, NEW e \in Events, log' = Append(log, e),
         UNCHANGED <<state, prev, receipt>>,
         \/ e.kind = "foreign"
         \/ e.key \in Keys /\ IsOpen(e.key) /\ ~IsLogged(e),
         \A d \in Callers : pc'[d] \in PastAdmission =>
           /\ call'[d] = call[d] /\ pc[d] \in PastAdmission
           /\ pc'[d] = "applied" => pc[d] = "applied" \/ e = DomainEvent(call[d].key)
  PROVE  StreamInv'
<1> USE DEF StreamInv
<1>1. TypeOK
  BY DEF IInv, TypeInv
<1> DEFINE n == Len(log)
<1>2. /\ n \in Nat /\ Len(log') = n + 1
      /\ DOMAIN log = 1 .. n /\ DOMAIN log' = 1 .. n + 1
      /\ \A i \in DOMAIN log : log'[i] = log[i]
      /\ log'[n + 1] = e
      /\ \A i \in DOMAIN log' : i \in DOMAIN log \/ i = n + 1
  BY <1>1, AppendFacts
<1>3. \A x : IsLogged(x) => \E i \in DOMAIN log' : log'[i] = x
  BY <1>2 DEF IsLogged
<1>4. \E i \in DOMAIN log' : log'[i] = e
  BY <1>2
<1> HIDE DEF n
<1>5. NothingBeforeAdmission'
  <2>1. \A i \in DOMAIN log' : log'[i].kind # "foreign" =>
          log'[i].key \in Keys /\ Admitted(log'[i].key)
    BY <1>2, OpenStretch DEF NothingBeforeAdmission
  <2> QED
    BY <2>1 DEF NothingBeforeAdmission, Admitted, PastAdmission
<1>6. EffectsAreLogged'
  <2>1. \A d \in Callers : pc'[d] = "applied" =>
          \E i \in DOMAIN log' : log'[i] = DomainEvent(call'[d].key)
    BY <1>3, <1>4 DEF EffectsAreLogged, PastAdmission
  <2>2. \A k \in Keys : state'[k] \in {"EFFECT_APPLIED", "COMMITTED"} =>
          \E i \in DOMAIN log' : log'[i] = DomainEvent(k)
    BY <1>3 DEF EffectsAreLogged
  <2> QED
    BY <2>1, <2>2 DEF EffectsAreLogged, IsLogged, DomainEvent
<1>7. EventsOnce'
  <2> SUFFICES ASSUME NEW i \in DOMAIN log', NEW j \in DOMAIN log',
                      log'[i] = log'[j], log'[i].kind # "foreign"
               PROVE  i = j
    BY DEF EventsOnce
  <2>1. CASE i \in DOMAIN log /\ j \in DOMAIN log
    BY <1>2, <2>1 DEF EventsOnce
  <2>2. CASE i = n + 1 \/ j = n + 1
    <3>1. e.kind # "foreign" /\ \A x \in DOMAIN log : log[x] # e
      BY <1>2, <2>2 DEF IsLogged
    <3> QED
      BY <1>2, <2>2, <3>1
  <2> QED
    BY <1>2, <2>1, <2>2
<1>8. ReceiptsStartAtAdmission'
  BY DEF ReceiptsStartAtAdmission
<1>9. ASSUME NEW k \in Keys, Admitted(k), receipt[k] = None
      PROVE  IsOpen(k)
  BY <1>9 DEF Admitted, IsOpen, IInv, SagaInv, CommittedOnce
<1>10. ASSUME NEW k \in Keys, Admitted(k)
       PROVE  /\ prev[k] < End(k)'
              /\ End(k)' <= n + 1
              /\ \A i \in DOMAIN log' : log'[i].kind # "foreign" =>
                   (log'[i].key = k <=> prev[k] < i /\ i <= End(k)')
  <2>0. /\ prev[k] < End(k) /\ End(k) <= n /\ prev[k] \in Nat
        /\ \A i \in DOMAIN log : log[i].kind # "foreign" =>
             (log[i].key = k <=> prev[k] < i /\ i <= End(k))
    BY <1>10, <1>1 DEF StretchesAreOwned, TypeOK, n
  <2>1. CASE IsOpen(k)
    <3>1. End(k) = n /\ receipt[k] = None
      BY <2>1, OpenStretch DEF n
    <3>2. End(k)' = n + 1
      BY <1>2, <3>1 DEF End
    <3>3. e.kind # "foreign" => e.key = k
      BY <2>1 DEF IInv, SagaInv, SingleOpenCommand
    <3> QED
      BY <1>2, <2>0, <3>1, <3>2, <3>3
  <2>2. CASE ~IsOpen(k)
    <3>1. receipt[k] # None /\ End(k)' = End(k) /\ End(k) = receipt[k].to
      BY <1>9, <1>10, <2>2 DEF End
    <3>2. End(k) \in Nat
      BY <1>1, <3>1 DEF TypeOK, Receipts
    <3>3. e.kind # "foreign" => e.key # k
      BY <2>2
    <3> QED
      BY <1>2, <2>0, <3>1, <3>2, <3>3
  <2> QED
    BY <2>1, <2>2
<1>11. StretchesAreOwned'
  BY <1>2, <1>10 DEF StretchesAreOwned, Admitted
<1>12. StretchesFollow'
  <2> SUFFICES ASSUME NEW j \in Keys, NEW k \in Keys, Admitted(j), Admitted(k), j # k
               PROVE  End(j)' <= prev[k] \/ End(k)' <= prev[j]
    BY DEF StretchesFollow, Admitted
  <2>1. ASSUME NEW x \in Keys, receipt[x] # None PROVE End(x)' = End(x)
    BY <2>1 DEF End
  <2>2. CASE receipt[j] # None /\ receipt[k] # None
    BY <2>1, <2>2 DEF StretchesFollow
  <2>3. CASE receipt[j] = None
    BY <1>9, <2>1, <2>3, OpenStretch
  <2>4. CASE receipt[k] = None
    BY <1>9, <2>1, <2>4, OpenStretch
  <2> QED
    BY <2>2, <2>3, <2>4
<1> QED
  BY <1>5, <1>6, <1>7, <1>8, <1>11, <1>12

(* Calls that are past admission and stay there are served by StreamQuiet. *)
LEMMA CallsAreAdmitted ==
  ASSUME IInv, StreamInv, NEW d \in Callers, pc[d] \in PastAdmission
  PROVE  /\ call[d] \in Calls /\ call[d].key \in Keys /\ Admitted(call[d].key)
         /\ pc[d] = "applied" => IsLogged(DomainEvent(call[d].key))
BY DEF PastAdmission, IInv, TypeInv, TypeOK, Calls, StreamInv, NothingBeforeAdmission,
       EffectsAreLogged

LEMMA ReturnKeepsCalls ==
  ASSUME IInv, StreamInv, NEW c \in Callers, Return(c)
  PROVE  \A d \in Callers : pc'[d] \in PastAdmission =>
           /\ call'[d] = call[d] /\ call[d] \in Calls /\ Admitted(call[d].key)
           /\ pc'[d] = "applied" => IsLogged(DomainEvent(call[d].key))
<1> SUFFICES ASSUME NEW d \in Callers, pc'[d] \in PastAdmission
             PROVE  /\ call'[d] = call[d] /\ call[d] \in Calls /\ Admitted(call[d].key)
                    /\ pc'[d] = "applied" => IsLogged(DomainEvent(call[d].key))
  OBVIOUS
<1>1. pc[d] = pc'[d] /\ call'[d] = call[d]
  BY DEF Return, PastAdmission, IInv, TypeInv, TypeOK
<1> QED
  BY <1>1, CallsAreAdmitted

(* A call that moves on within the kernel, with its key admitted.          *)
LEMMA AdvanceKeepsCalls ==
  ASSUME IInv, StreamInv, NEW c \in Callers, NEW q \in PastAdmission,
         pc' = [pc EXCEPT ![c] = q], call' = call, call[c] \in Calls,
         Admitted(call[c].key), q = "applied" => IsLogged(DomainEvent(call[c].key))
  PROVE  \A d \in Callers : pc'[d] \in PastAdmission =>
           /\ call'[d] = call[d] /\ call[d] \in Calls /\ Admitted(call[d].key)
           /\ pc'[d] = "applied" => IsLogged(DomainEvent(call[d].key))
<1> SUFFICES ASSUME NEW d \in Callers, pc'[d] \in PastAdmission
             PROVE  /\ call'[d] = call[d] /\ call[d] \in Calls /\ Admitted(call[d].key)
                    /\ pc'[d] = "applied" => IsLogged(DomainEvent(call[d].key))
  OBVIOUS
<1>1. CASE d = c
  BY <1>1 DEF IInv, TypeInv, TypeOK
<1>2. CASE d # c
  <2>1. pc[d] = pc'[d]
    BY <1>2 DEF IInv, TypeInv, TypeOK
  <2> QED
    BY <2>1, CallsAreAdmitted
<1> QED
  BY <1>1, <1>2

LEMMA RejectStream ==
  ASSUME IInv, StreamInv, NEW c \in Callers, Return(c), UNCHANGED <<log, state, prev, receipt>>
  PROVE  StreamInv'
<1>1. \A k \in Keys : state[k] \in {"EFFECT_APPLIED", "COMMITTED"} => IsLogged(DomainEvent(k))
  BY DEF StreamInv, EffectsAreLogged
<1> QED
  BY <1>1, ReturnKeepsCalls, StreamQuiet

LEMMA AdmitFirstStream ==
  ASSUME IInv, StreamInv, NEW c \in Callers, AdmitFirst(c)
  PROVE  StreamInv'
<1> USE DEF StreamInv
<1>0. call[c] \in Calls /\ call[c].key \in Keys
  BY QueuedTurn DEF AdmitFirst, IInv, TypeInv, Calls
<1>k. PICK k \in Keys : k = call[c].key
  BY <1>0
<1> DEFINE n == Len(log)
           e == [kind |-> "admitted", key |-> k]
<1>1. state[k] = "ABSENT" /\ receipt[k] = None /\ UNCHANGED receipt
  BY <1>k DEF AdmitFirst
<1>2. CASE ~MayOpen(c)
  BY <1>2, RejectStream DEF AdmitFirst, Reject, opVars
<1>3. CASE MayOpen(c)
  <2>1. /\ log' = Append(log, e)
        /\ state' = [state EXCEPT ![k] = "PENDING_EFFECT"]
        /\ prev' = [prev EXCEPT ![k] = n]
        /\ pc' = [pc EXCEPT ![c] = "effect"]
        /\ call' = call
    BY <1>3, <1>k DEF AdmitFirst
  <2>2. TypeOK /\ e \in Events
    BY <1>1 DEF IInv, TypeInv, Events
  <2>3. /\ n \in Nat /\ Len(log') = n + 1
        /\ DOMAIN log = 1 .. n /\ DOMAIN log' = 1 .. n + 1
        /\ \A i \in DOMAIN log : log'[i] = log[i]
        /\ log'[n + 1] = e
        /\ \A i \in DOMAIN log' : i \in DOMAIN log \/ i = n + 1
    BY <2>1, <2>2, AppendFacts
  <2>4. /\ e.kind = "admitted" /\ e.key = k
        /\ \A i \in DOMAIN log : log[i].kind # "foreign" => log[i].key # k /\ log[i] # e
    BY <1>1 DEF NothingBeforeAdmission, Admitted
  <2>5. \A j \in Keys \ {k} : ~IsOpen(j)
    BY <1>3, <1>k DEF MayOpen
  <2> HIDE DEF n, e
  <2>7. /\ state'[k] = "PENDING_EFFECT" /\ \A j \in Keys \ {k} : state'[j] = state[j]
        /\ prev'[k] = n /\ \A j \in Keys \ {k} : prev'[j] = prev[j]
        /\ \A d \in Callers \ {c} : pc'[d] = pc[d]
    BY <1>1, <2>1, <2>2 DEF TypeOK
  <2>8. NothingBeforeAdmission'
    <3>1. \A i \in DOMAIN log' : log'[i].kind # "foreign" =>
            log'[i].key \in Keys /\ state'[log'[i].key] # "ABSENT"
      BY <1>1, <2>3, <2>4, <2>7 DEF NothingBeforeAdmission, Admitted
    <3>2. \A d \in Callers : pc'[d] \in PastAdmission => state'[call[d].key] # "ABSENT"
      BY <1>k, <2>7, CallsAreAdmitted DEF Admitted
    <3> QED
      BY <2>1, <3>1, <3>2 DEF NothingBeforeAdmission, Admitted, PastAdmission
  <2>9. EffectsAreLogged'
    <3>1. \A x : IsLogged(x) => \E i \in DOMAIN log' : log'[i] = x
      BY <2>3 DEF IsLogged
    <3>2. \A d \in Callers : pc'[d] = "applied" => pc[d] = "applied"
      BY <2>1, <2>2 DEF TypeOK
    <3>3. \A j \in Keys : state'[j] \in {"EFFECT_APPLIED", "COMMITTED"} =>
            state[j] \in {"EFFECT_APPLIED", "COMMITTED"}
      BY <2>7
    <3> QED
      BY <2>1, <3>1, <3>2, <3>3 DEF EffectsAreLogged, IsLogged, DomainEvent
  <2>10. EventsOnce'
    BY <2>3, <2>4 DEF EventsOnce
  <2>11. ReceiptsStartAtAdmission'
    BY <1>1, <2>7 DEF ReceiptsStartAtAdmission
  <2>12. ASSUME NEW j \in Keys, j # k, Admitted(j)
         PROVE  /\ receipt[j] # None /\ End(j) = receipt[j].to /\ End(j)' = End(j)
                /\ End(j) \in Nat /\ prev[j] \in Nat /\ prev[j] < End(j) /\ End(j) <= n
                /\ \A i \in DOMAIN log : log[i].kind # "foreign" =>
                     (log[i].key = j <=> prev[j] < i /\ i <= End(j))
    <3>1. state[j] = "COMMITTED"
      BY <2>5, <2>12 DEF IsOpen, Admitted
    <3>2. receipt[j] # None
      BY <3>1 DEF IInv, SagaInv, CommittedOnce
    <3> QED
      BY <1>1, <2>2, <2>12, <3>2 DEF End, TypeOK, Receipts, StretchesAreOwned, n
  <2>13. End(k)' = n + 1
    BY <1>1, <2>3 DEF End
  <2>14. StretchesAreOwned'
    <3> SUFFICES ASSUME NEW j \in Keys, state'[j] # "ABSENT"
                 PROVE  /\ prev'[j] < End(j)' /\ End(j)' <= n + 1
                        /\ \A i \in DOMAIN log' : log'[i].kind # "foreign" =>
                             (log'[i].key = j <=> prev'[j] < i /\ i <= End(j)')
      BY <2>3 DEF StretchesAreOwned, Admitted
    <3>1. CASE j = k
      BY <2>3, <2>4, <2>7, <2>13, <3>1
    <3>2. CASE j # k
      <4>1. Admitted(j)
        BY <2>7, <3>2 DEF Admitted
      <4>2. prev'[j] = prev[j] /\ End(j)' = End(j) /\ End(j) \in Nat /\ End(j) <= n
            /\ prev[j] \in Nat /\ prev[j] < End(j)
            /\ \A i \in DOMAIN log : log[i].kind # "foreign" =>
                     (log[i].key = j <=> prev[j] < i /\ i <= End(j))
        BY <2>7, <2>12, <3>2, <4>1
      <4>3. ASSUME NEW i \in DOMAIN log', log'[i].kind # "foreign"
            PROVE  log'[i].key = j <=> prev[j] < i /\ i <= End(j)
        <5>1. CASE i \in DOMAIN log
          BY <2>3, <4>2, <4>3, <5>1
        <5>2. CASE i = n + 1
          BY <2>3, <2>4, <3>2, <4>2, <5>2
        <5> QED
          BY <2>3, <5>1, <5>2
      <4> QED
        BY <2>3, <4>2, <4>3
    <3> QED
      BY <3>1, <3>2
  <2>15. StretchesFollow'
    <3> SUFFICES ASSUME NEW i \in Keys, NEW j \in Keys, i # j,
                        state'[i] # "ABSENT", state'[j] # "ABSENT"
                 PROVE  End(i)' <= prev'[j] \/ End(j)' <= prev'[i]
      BY DEF StretchesFollow, Admitted
    <3>1. CASE i = k
      BY <2>7, <2>12, <3>1 DEF Admitted
    <3>2. CASE j = k
      BY <2>7, <2>12, <3>2 DEF Admitted
    <3>3. CASE i # k /\ j # k
      BY <2>7, <2>12, <3>3 DEF StretchesFollow, Admitted
    <3> QED
      BY <3>1, <3>2, <3>3
  <2> QED
    BY <2>8, <2>9, <2>10, <2>11, <2>14, <2>15
<1> QED
  BY <1>2, <1>3

LEMMA RunEffectStream ==
  ASSUME IInv, StreamInv, NEW c \in Callers, RunEffect(c)
  PROVE  StreamInv'
<1> USE DEF StreamInv
<1> DEFINE k == call[c].key
           e == DomainEvent(k)
<1>1. /\ pc[c] \in PastAdmission /\ pc' = [pc EXCEPT ![c] = "applied"]
      /\ UNCHANGED <<state, prev, receipt, call>>
      /\ AppendOnce(e)
  BY DEF RunEffect, PastAdmission, opVars, DomainEvent
<1>2. call[c] \in Calls /\ k \in Keys /\ Admitted(k)
  BY <1>1, CallsAreAdmitted
<1>3. CASE IsLogged(e)
  <2>1. UNCHANGED log
    BY <1>1, <1>3 DEF AppendOnce, IsLogged
  <2>2. \A j \in Keys : state[j] \in {"EFFECT_APPLIED", "COMMITTED"} => IsLogged(DomainEvent(j))
    BY DEF EffectsAreLogged
  <2>3. \A d \in Callers : pc'[d] \in PastAdmission =>
           /\ call'[d] = call[d] /\ call[d] \in Calls /\ Admitted(call[d].key)
           /\ pc'[d] = "applied" => IsLogged(DomainEvent(call[d].key))
    BY <1>1, <1>2, <1>3, AdvanceKeepsCalls DEF PastAdmission
  <2> QED
    BY <1>1, <2>1, <2>2, <2>3, StreamQuiet
<1>4. CASE ~IsLogged(e)
  <2>1. log' = Append(log, e)
    BY <1>1, <1>4 DEF AppendOnce, IsLogged
  <2>2. e \in Events /\ e.key = k
    BY <1>2 DEF Events, DomainEvent
  <2>3. IsOpen(k)
    BY <1>2, <1>4 DEF EffectsAreLogged, IsOpen, Admitted
  <2>4. \A d \in Callers : pc'[d] \in PastAdmission =>
           /\ call'[d] = call[d] /\ pc[d] \in PastAdmission
           /\ pc'[d] = "applied" => pc[d] = "applied" \/ e = DomainEvent(call[d].key)
    BY <1>1 DEF IInv, TypeInv, TypeOK
  <2> HIDE DEF e
  <2> QED
    BY <1>1, <1>2, <1>4, <2>1, <2>2, <2>3, <2>4, StreamGrows
<1> QED
  BY <1>3, <1>4

LEMMA FinalizeStream ==
  ASSUME IInv, StreamInv, NEW c \in Callers, Finalize(c)
  PROVE  StreamInv'
<1> USE DEF StreamInv
<1> DEFINE k == call[c].key
<1>1. /\ Return(c) /\ UNCHANGED <<log, prev>>
      /\ pc[c] \in PastAdmission
  BY DEF Finalize, Reply, PastAdmission
<1>2. call[c] \in Calls /\ k \in Keys /\ Admitted(k)
  BY <1>1, CallsAreAdmitted
<1>3. CASE receipt[k] # None
  BY <1>1, <1>3, RejectStream DEF Finalize
<1>4. CASE receipt[k] = None
  <2>1. /\ state[k] = "EFFECT_APPLIED"
        /\ receipt' = [receipt EXCEPT ![k] = NewReceipt(k)]
        /\ state' = [state EXCEPT ![k] = "COMMITTED"]
    BY <1>4 DEF Finalize
  <2>2. payload[k] \in Payloads /\ result[k] \in Values /\ prev[k] \in Nat /\ Len(log) \in Nat
    BY <1>2, <2>1 DEF IInv, TypeInv, RowInv, TypeOK
  <2>3. NewReceipt(k) # None /\ NewReceipt(k).from = prev[k] /\ NewReceipt(k).to = Len(log)
    BY <2>2, SagaAssumption DEF NewReceipt, Receipts
  <2> HIDE DEF k
  <2>4. /\ receipt'[k] = NewReceipt(k) /\ \A j \in Keys \ {k} : receipt'[j] = receipt[j]
        /\ state'[k] = "COMMITTED" /\ \A j \in Keys \ {k} : state'[j] = state[j]
    BY <1>2, <2>1 DEF IInv, TypeInv, TypeOK
  <2>5. \A j \in Keys : End(j)' = End(j) /\ (Admitted(j)' <=> Admitted(j))
    BY <1>1, <1>2, <1>4, <2>3, <2>4 DEF End, Admitted
  <2>6. StretchesAreOwned' /\ StretchesFollow'
    BY <1>1, <2>5 DEF StretchesAreOwned, StretchesFollow
  <2>7. ReceiptsStartAtAdmission'
    BY <1>1, <2>3, <2>4 DEF ReceiptsStartAtAdmission
  <2>8. NothingBeforeAdmission'
    <3>1. \A d \in Callers : pc'[d] \in PastAdmission =>
            call'[d] = call[d] /\ call[d].key \in Keys /\ Admitted(call[d].key)
      BY <1>1, ReturnKeepsCalls DEF Calls
    <3> QED
      BY <1>1, <2>5, <3>1 DEF NothingBeforeAdmission, PastAdmission
  <2>9. EffectsAreLogged'
    <3>1. \A d \in Callers : pc'[d] = "applied" =>
            call'[d] = call[d] /\ IsLogged(DomainEvent(call[d].key))
      BY <1>1, ReturnKeepsCalls DEF PastAdmission
    <3>2. \A j \in Keys : state'[j] \in {"EFFECT_APPLIED", "COMMITTED"} => IsLogged(DomainEvent(j))
      BY <2>1, <2>4 DEF EffectsAreLogged
    <3> QED
      BY <1>1, <3>1, <3>2 DEF EffectsAreLogged, IsLogged, DomainEvent
  <2> QED
    BY <1>1, <2>6, <2>7, <2>8, <2>9 DEF EventsOnce
<1> QED
  BY <1>3, <1>4

(* Submissions, crashes, lost leases and rejected calls leave the stream.  *)
LEMMA QuietStream ==
  ASSUME IInv, StreamInv, UNCHANGED <<log, state, prev, receipt>>,
         \A d \in Callers : pc'[d] \in PastAdmission => pc[d] = pc'[d] /\ call'[d] = call[d]
  PROVE  StreamInv'
<1>1. \A k \in Keys : state[k] \in {"EFFECT_APPLIED", "COMMITTED"} => IsLogged(DomainEvent(k))
  BY DEF StreamInv, EffectsAreLogged
<1>2. \A d \in Callers : pc'[d] \in PastAdmission =>
           /\ call'[d] = call[d] /\ call[d] \in Calls /\ Admitted(call[d].key)
           /\ pc'[d] = "applied" => IsLogged(DomainEvent(call[d].key))
  BY CallsAreAdmitted
<1> QED
  BY <1>1, <1>2, StreamQuiet

(* Leasing an operation again, or finding its result: nothing is appended. *)
LEMMA AdmitAgainStream ==
  ASSUME IInv, StreamInv, NEW c \in Callers, AdmitRetry(c) \/ AdmitApplied(c)
  PROVE  StreamInv'
<1> DEFINE k == call[c].key
<1>1. /\ call[c] \in Calls /\ k \in Keys /\ UNCHANGED <<log, prev, receipt>> /\ Admitted(k)
  BY QueuedTurn DEF AdmitRetry, AdmitApplied, Reject, opVars, IInv, TypeInv, Calls, Admitted
<1>2. \A j \in Keys : state[j] \in {"EFFECT_APPLIED", "COMMITTED"} => IsLogged(DomainEvent(j))
  BY DEF StreamInv, EffectsAreLogged
<1>3. CASE Return(c) /\ UNCHANGED state
  BY <1>1, <1>3, RejectStream
<1>4. CASE ~(Return(c) /\ UNCHANGED state)
  <2>1. PICK q \in {"effect", "final"} : pc' = [pc EXCEPT ![c] = q]
    BY <1>4 DEF AdmitRetry, AdmitApplied, Reject, opVars
  <2>2. call' = call
    BY <1>4 DEF AdmitRetry, AdmitApplied, Reject, opVars
  <2>3. \A d \in Callers : pc'[d] \in PastAdmission =>
           /\ call'[d] = call[d] /\ call[d] \in Calls /\ Admitted(call[d].key)
           /\ pc'[d] = "applied" => IsLogged(DomainEvent(call[d].key))
    BY <1>1, <2>1, <2>2, AdvanceKeepsCalls DEF PastAdmission
  <2>4. \/ UNCHANGED state
        \/ state[k] # "ABSENT" /\ state' = [state EXCEPT ![k] = "PENDING_EFFECT"]
    BY <1>4 DEF AdmitRetry, AdmitApplied, Reject, opVars
  <2>5. \A j \in Keys : /\ state'[j] # "ABSENT" <=> state[j] # "ABSENT"
                        /\ state'[j] \in {"EFFECT_APPLIED", "COMMITTED"} =>
                              IsLogged(DomainEvent(j))
    BY <1>1, <1>2, <2>4 DEF IInv, TypeInv, TypeOK
  <2> QED
    BY <1>1, <2>3, <2>5, StreamQuiet
<1> QED
  BY <1>3, <1>4

(* The operation ends: a checkpoint comes after its domain event.          *)
LEMMA EndEffectStream ==
  ASSUME IInv, StreamInv, NEW c \in Callers,
         (\E v \in Values : Checkpoint(c, v)) \/ FailEffect(c)
  PROVE  StreamInv'
<1> DEFINE k == call[c].key
<1>1. pc[c] \in PastAdmission /\ UNCHANGED <<log, prev, receipt>>
  BY DEF Checkpoint, FailEffect, opVars, PastAdmission
<1>2. /\ call[c] \in Calls /\ k \in Keys /\ Admitted(k)
      /\ pc[c] = "applied" => IsLogged(DomainEvent(k))
  BY <1>1, CallsAreAdmitted
<1>3. \A j \in Keys : state[j] \in {"EFFECT_APPLIED", "COMMITTED"} => IsLogged(DomainEvent(j))
  BY DEF StreamInv, EffectsAreLogged
<1>4. CASE \E v \in Values : Checkpoint(c, v) /\ HoldsLease(c)
  <2>1. /\ pc[c] = "applied" /\ state[k] = "PENDING_EFFECT"
        /\ state' = [state EXCEPT ![k] = "EFFECT_APPLIED"]
        /\ pc' = [pc EXCEPT ![c] = "final"] /\ call' = call
    BY <1>4 DEF Checkpoint, HoldsLease
  <2>2. \A d \in Callers : pc'[d] \in PastAdmission =>
           /\ call'[d] = call[d] /\ call[d] \in Calls /\ Admitted(call[d].key)
           /\ pc'[d] = "applied" => IsLogged(DomainEvent(call[d].key))
    BY <1>2, <2>1, AdvanceKeepsCalls DEF PastAdmission
  <2>3. \A j \in Keys : /\ state'[j] # "ABSENT" <=> state[j] # "ABSENT"
                        /\ state'[j] \in {"EFFECT_APPLIED", "COMMITTED"} =>
                              IsLogged(DomainEvent(j))
    BY <1>2, <1>3, <2>1 DEF IInv, TypeInv, TypeOK
  <2> QED
    BY <1>1, <2>2, <2>3, StreamQuiet
<1>5. CASE Return(c)
  <2>1. \/ UNCHANGED state
        \/ state[k] = "PENDING_EFFECT" /\ state' = [state EXCEPT ![k] = "RETRYABLE"]
        \/ pc' = [pc EXCEPT ![c] = "final"]
    BY DEF Checkpoint, FailEffect, opVars, HoldsLease
  <2>2. pc'[c] = "idle"
    BY <1>5 DEF Return, IInv, TypeInv, TypeOK
  <2>3. \A j \in Keys : /\ state'[j] # "ABSENT" <=> state[j] # "ABSENT"
                        /\ state'[j] \in {"EFFECT_APPLIED", "COMMITTED"} =>
                              IsLogged(DomainEvent(j))
    BY <1>2, <1>3, <2>1, <2>2 DEF IInv, TypeInv, TypeOK
  <2> QED
    BY <1>1, <1>5, <2>3, ReturnKeepsCalls, StreamQuiet
<1> QED
  BY <1>4, <1>5 DEF Checkpoint, FailEffect, Reject

LEMMA StreamStep == IInv /\ StreamInv /\ [Next]_vars => StreamInv'
<1> SUFFICES ASSUME IInv, StreamInv, [Next]_vars PROVE StreamInv'
  OBVIOUS
<1>1. ASSUME NEW c \in Callers, NEW k \in Keys, NEW p \in Payloads, Submit(c, k, p)
      PROVE  StreamInv'
  BY <1>1, QuietStream DEF Submit, opVars, PastAdmission, IInv, TypeInv, TypeOK
<1>2. ASSUME NEW c \in Callers, AdmitDuplicate(c) PROVE StreamInv'
  BY <1>2, RejectStream DEF AdmitDuplicate, Reject, Reply, opVars
<1>3. ASSUME NEW c \in Callers, Step(c) PROVE StreamInv'
  BY <1>2, <1>3, AdmitFirstStream, AdmitAgainStream, RunEffectStream, EndEffectStream,
     FinalizeStream DEF Step
<1>4. ASSUME NEW k \in Keys, ExpireLease(k) PROVE StreamInv'
  BY <1>4, QuietStream DEF ExpireLease
<1>5. ASSUME NEW h \in Hosts, Crash(h) PROVE StreamInv'
  BY <1>5, QuietStream DEF Crash, opVars, PastAdmission
<1>6. ASSUME ForeignAppend PROVE StreamInv'
  <2>1. ForeignEvent \in Events /\ ForeignEvent.kind = "foreign"
    BY DEF ForeignEvent, Events
  <2>2. log' = Append(log, ForeignEvent) /\ UNCHANGED <<state, prev, receipt, pc, call>>
    BY <1>6 DEF ForeignAppend, opVars
  <2> QED
    BY <2>1, <2>2, StreamGrows
<1>7. ASSUME UNCHANGED vars PROVE StreamInv'
  BY <1>7, QuietStream DEF vars, opVars
<1> QED
  BY <1>1, <1>3, <1>4, <1>5, <1>6, <1>7 DEF Next

LEMMA StreamInvariance == Spec => [](IInv /\ StreamInv)
<1>1. Init => StreamInv
  BY DEF Init, StreamInv, NothingBeforeAdmission, EffectsAreLogged, EventsOnce, Admitted,
         ReceiptsStartAtAdmission, StretchesAreOwned, StretchesFollow
<1> QED
  BY <1>1, SagaInit, SagaStep, StreamStep, PTL DEF Spec

(* However often an operation is run again, by whichever process, its      *)
(* admission and its domain event are in the stream once.                  *)
THEOREM EventsAreAppendedOnce == Spec => []EventsOnce
BY StreamInvariance, PTL DEF StreamInv

(* The eventIds of a receipt are its own command's events and no others,   *)
(* and no position of the stream is in two receipts.                       *)
THEOREM ReceiptsAreExact == Spec => []ReceiptsOwnTheirEvents
<1>1. IInv /\ StreamInv => ReceiptsOwnTheirEvents
  <2> SUFFICES ASSUME IInv, StreamInv, NEW k \in Keys, receipt[k] # None
               PROVE  /\ receipt[k].to <= Len(log)
                      /\ \A i \in DOMAIN log : log[i].kind # "foreign" =>
                           (log[i].key = k <=> i \in Stretch(receipt[k]))
                      /\ \A j \in Keys \ {k} : receipt[j] # None =>
                           Stretch(receipt[j]) \cap Stretch(receipt[k]) = {}
    BY DEF ReceiptsOwnTheirEvents
  <2>1. ASSUME NEW j \in Keys, receipt[j] # None
        PROVE  /\ Admitted(j) /\ End(j) = receipt[j].to /\ receipt[j].from = prev[j]
               /\ receipt[j].to \in Nat /\ prev[j] \in Nat
    BY <2>1 DEF Admitted, End, IInv, SagaInv, CommittedOnce, TypeInv, TypeOK, Receipts,
                StreamInv, ReceiptsStartAtAdmission
  <2>2. DOMAIN log = 1 .. Len(log) /\ Len(log) \in Nat
    BY DEF IInv, TypeInv, TypeOK
  <2>3. receipt[k].to <= Len(log)
    BY <2>1 DEF StreamInv, StretchesAreOwned
  <2>4. \A i \in DOMAIN log : log[i].kind # "foreign" =>
           (log[i].key = k <=> i \in Stretch(receipt[k]))
    BY <2>1, <2>2 DEF StreamInv, StretchesAreOwned, Stretch
  <2>5. ASSUME NEW j \in Keys \ {k}, receipt[j] # None
        PROVE  Stretch(receipt[j]) \cap Stretch(receipt[k]) = {}
    <3>1. receipt[j].to <= prev[k] \/ receipt[k].to <= prev[j]
      BY <2>1, <2>5 DEF StreamInv, StretchesFollow
    <3> QED
      BY <2>1, <2>5, <3>1 DEF Stretch
  <2> QED
    BY <2>3, <2>4, <2>5
<1> QED
  BY <1>1, StreamInvariance, PTL

-----------------------------------------------------------------------------
(* A call that lost its lease changes nothing of the operation when it     *)
(* comes back with a result or an error.                                   *)
THEOREM LeaseHolderSettles == Spec => OnlyLeaseHolderSettles
<1> DEFINE Fenced ==
      \A c \in Callers, k \in Keys :
        /\ pc[c] \in {"effect", "applied"} /\ call[c].key = k /\ pc'[c] # pc[c]
        /\ state[k] = "PENDING_EFFECT" /\ owner[k] \notin {None, call[c].id}
        => state'[k] = "PENDING_EFFECT" /\ owner'[k] = owner[k]
<1>1. TypeOK /\ [Next]_vars => [Fenced]_vars
  <2> SUFFICES ASSUME TypeOK, Next, NEW c \in Callers, NEW k \in Keys,
                      pc[c] \in {"effect", "applied"}, call[c].key = k, pc'[c] # pc[c],
                      state[k] = "PENDING_EFFECT", owner[k] \notin {None, call[c].id}
               PROVE  UNCHANGED <<state, owner>>
    OBVIOUS
  <2>1. ~HoldsLease(c)
    BY DEF HoldsLease
  <2>2. ASSUME NEW d \in Callers, d # c, Step(d) PROVE FALSE
    BY <2>2 DEF TypeOK, Step, AdmitDuplicate, AdmitFirst, AdmitRetry, AdmitApplied, RunEffect,
                Checkpoint, FailEffect, Finalize, Reply, Reject, Return
  <2>3. ASSUME Step(c) PROVE UNCHANGED <<state, owner>>
    BY <2>1, <2>3 DEF Step, AdmitDuplicate, AdmitFirst, AdmitRetry, AdmitApplied, Turn, RunEffect,
                Checkpoint, FailEffect, Finalize, opVars
  <2>4. ASSUME NEW d \in Callers, NEW j \in Keys, NEW p \in Payloads, Submit(d, j, p)
        PROVE  UNCHANGED <<state, owner>>
    BY <2>4 DEF Submit, opVars
  <2>5. ASSUME NEW j \in Keys, ExpireLease(j) PROVE UNCHANGED <<state, owner>>
    BY <2>5 DEF ExpireLease
  <2>6. ASSUME NEW h \in Hosts, Crash(h) PROVE UNCHANGED <<state, owner>>
    BY <2>6 DEF Crash, opVars
  <2>7. ForeignAppend => UNCHANGED <<state, owner>>
    BY DEF ForeignAppend, opVars
  <2> QED
    BY <2>2, <2>3, <2>4, <2>5, <2>6, <2>7 DEF Next
<1> QED
  BY <1>1, TypeCorrectness, PTL DEF Spec, OnlyLeaseHolderSettles

-----------------------------------------------------------------------------
(* The refinement: what the open command is before and after a step.       *)
Command(k) == [key |-> k, payload |-> payload[k], from |-> prev[k]]

LEMMA OpenIsUnique ==
  ASSUME SingleOpenCommand, NEW k \in Keys, IsOpen(k)
  PROVE  OpenCommand = Command(k)
<1>1. (CHOOSE j \in Keys : IsOpen(j)) = k
  BY DEF SingleOpenCommand
<1> QED
  BY <1>1 DEF OpenCommand, Command

LEMMA NextOpenIsUnique ==
  ASSUME SingleOpenCommand', NEW k \in Keys, IsOpen(k)'
  PROVE  OpenCommand' = Command(k)'
<1>1. (CHOOSE j \in Keys : IsOpen(j))' = k
  BY DEF SingleOpenCommand, IsOpen
<1> QED
  BY <1>1 DEF OpenCommand, Command, IsOpen

LEMMA SameOpen ==
  ASSUME SingleOpenCommand, SingleOpenCommand', UNCHANGED <<payload, prev>>,
         \A k \in Keys : IsOpen(k)' <=> IsOpen(k)
  PROVE  OpenCommand' = OpenCommand
<1>1. CASE \E k \in Keys : IsOpen(k)
  <2> PICK k \in Keys : IsOpen(k)
    BY <1>1
  <2> QED
    BY OpenIsUnique, NextOpenIsUnique DEF Command
<1>2. CASE ~ \E k \in Keys : IsOpen(k)
  BY <1>2 DEF OpenCommand
<1> QED
  BY <1>1, <1>2

(* A command opens: no other is open, and its stretch starts at the end.   *)
LEMMA AdmissionOpens ==
  ASSUME IInv, SingleOpenCommand', NEW c \in Callers, AdmitFirst(c), MayOpen(c)
  PROVE  \E k \in Keys, p \in Payloads : Promise!Open(k, p)
<1>1. call[c] \in Calls /\ call[c].key \in Keys /\ call[c].payload \in Payloads
  BY QueuedTurn DEF AdmitFirst, IInv, TypeInv, Calls
<1>2. PICK k \in Keys : k = call[c].key
  BY <1>1
<1>3. PICK p \in Payloads : p = call[c].payload
  BY <1>1
<1>4. /\ receipt[k] = None /\ state[k] = "ABSENT" /\ UNCHANGED receipt
      /\ log' = Append(log, [kind |-> "admitted", key |-> k])
      /\ state' = [state EXCEPT ![k] = "PENDING_EFFECT"]
      /\ payload' = [payload EXCEPT ![k] = p]
      /\ prev' = [prev EXCEPT ![k] = Len(log)]
  BY <1>2, <1>3 DEF AdmitFirst
<1>5. OpenCommand = None
  BY <1>2, <1>4 DEF MayOpen, IsOpen, OpenCommand
<1>6. /\ state'[k] = "PENDING_EFFECT" /\ payload'[k] = p /\ prev'[k] = Len(log)
  BY <1>4 DEF IInv, TypeInv, TypeOK
<1>7. OpenCommand' = [key |-> k, payload |-> p, from |-> Len(log)]
  BY <1>6, NextOpenIsUnique DEF Command, IsOpen
<1>8. Len(log') = Len(log) + 1
  BY <1>4 DEF IInv, TypeInv, TypeOK
<1>9. Promise!Open(k, p)
  BY <1>4, <1>5, <1>7, <1>8 DEF Promise!Open
<1> QED
  BY <1>9

(* The receipt that is written is the one the abstract command settles by. *)
LEMMA FinalizationSettles ==
  ASSUME IInv, NEW c \in Callers, Finalize(c), receipt[call[c].key] = None
  PROVE  \E v \in Values : Promise!Settle(v)
<1>1. call[c].key \in Keys
  BY QueuedTurn DEF Finalize, IInv, TypeInv, Calls
<1>2. PICK k \in Keys : k = call[c].key
  BY <1>1
<1>3. /\ state[k] = "EFFECT_APPLIED" /\ UNCHANGED log
      /\ receipt' = [receipt EXCEPT ![k] = NewReceipt(k)]
      /\ state' = [state EXCEPT ![k] = "COMMITTED"]
  BY <1>2 DEF Finalize
<1>4. IsOpen(k) /\ payload[k] \in Payloads /\ result[k] \in Values /\ prev[k] \in Nat
  BY <1>3 DEF IsOpen, IInv, TypeInv, RowInv, TypeOK
<1>5. OpenCommand = Command(k)
  BY <1>4, OpenIsUnique DEF IInv, SagaInv
<1>6. OpenCommand # None
  BY <1>4, <1>5, SagaAssumption DEF Command, Opened
<1>7. OpenCommand' = None
  BY <1>3, <1>4 DEF OpenCommand, IsOpen, IInv, SagaInv, SingleOpenCommand, TypeInv, TypeOK
<1>8. /\ OpenCommand.key = k /\ OpenCommand.payload = payload[k] /\ OpenCommand.from = prev[k]
  BY <1>5 DEF Command
<1>9. Promise!Settle(result[k])
  BY <1>3, <1>6, <1>7, <1>8 DEF Promise!Settle, NewReceipt
<1> QED
  BY <1>4, <1>9

(* Every other step of a call leaves the open command and the receipts,    *)
(* and appends at most one event.                                          *)
LEMMA OtherStepsStutter ==
  ASSUME IInv, SingleOpenCommand', NEW c \in Callers, Step(c),
         ~(AdmitFirst(c) /\ MayOpen(c)), ~(Finalize(c) /\ receipt[call[c].key] = None)
  PROVE  Promise!Extend \/ UNCHANGED <<Len(log), OpenCommand, receipt>>
<1>1. /\ call[c].key \in Keys
      /\ state \in [Keys -> States]
  BY QueuedTurn DEF Step, AdmitDuplicate, AdmitFirst, AdmitRetry, AdmitApplied, RunEffect,
     Checkpoint, FailEffect, Finalize, IInv, TypeInv, TypeOK, Calls
<1>2. PICK k \in Keys : k = call[c].key
  BY <1>1
<1>3. UNCHANGED <<payload, prev, receipt>>
  BY DEF Step, AdmitDuplicate, AdmitFirst, AdmitRetry, AdmitApplied, RunEffect, Checkpoint,
     FailEffect, Finalize, opVars
<1>4. \/ UNCHANGED state
      \/ IsOpen(k) /\ \E s \in States \ {"ABSENT", "COMMITTED"} : state' = [state EXCEPT ![k] = s]
  BY <1>2 DEF Step, AdmitDuplicate, AdmitFirst, AdmitRetry, AdmitApplied, RunEffect, Checkpoint,
     FailEffect, Finalize, HoldsLease, IsOpen, States, opVars
<1>5. \A j \in Keys : IsOpen(j)' <=> IsOpen(j)
  BY <1>1, <1>4 DEF IsOpen
<1>6. OpenCommand' = OpenCommand
  BY <1>3, <1>5, SameOpen DEF IInv, SagaInv
<1>7. UNCHANGED log \/ Len(log') = Len(log) + 1
  <2>1. CASE RunEffect(c)
    BY <2>1 DEF RunEffect, AppendOnce, IInv, TypeInv, TypeOK
  <2> QED
    BY <2>1 DEF Step, AdmitDuplicate, AdmitFirst, AdmitRetry, AdmitApplied, Checkpoint,
       FailEffect, Finalize
<1> QED
  BY <1>3, <1>6, <1>7 DEF Promise!Extend

(* Crashes, retries, takeovers and leases are invisible to the callers:    *)
(* what is left is the atomic open, extend and settle of MissionCommands.  *)
THEOREM Refinement == Spec => ImplementsPromise
<1>1. Init => Promise!Init
  BY DEF Init, Promise!Init, OpenCommand, IsOpen
<1>2. IInv /\ IInv' /\ [Next]_vars => [Promise!Next]_(Promise!vars)
  <2> SUFFICES ASSUME IInv, IInv', [Next]_vars
               PROVE  Promise!Next \/ UNCHANGED <<Len(log), OpenCommand, receipt>>
    BY DEF Promise!vars
  <2>1. SingleOpenCommand /\ SingleOpenCommand'
    BY DEF IInv, SagaInv
  <2>2. ASSUME NEW c \in Callers, Step(c)
        PROVE  Promise!Next \/ UNCHANGED <<Len(log), OpenCommand, receipt>>
    BY <2>1, <2>2, AdmissionOpens, FinalizationSettles, OtherStepsStutter DEF Promise!Next
  <2>3. ASSUME UNCHANGED <<log, state, payload, prev, receipt>>
        PROVE  UNCHANGED <<Len(log), OpenCommand, receipt>>
    BY <2>1, <2>3, SameOpen DEF IsOpen
  <2>4. ASSUME NEW c \in Callers, NEW k \in Keys, NEW p \in Payloads, Submit(c, k, p)
        PROVE  UNCHANGED <<log, state, payload, prev, receipt>>
    BY <2>4 DEF Submit, opVars
  <2>5. ASSUME NEW k \in Keys, ExpireLease(k)
        PROVE  UNCHANGED <<log, state, payload, prev, receipt>>
    BY <2>5 DEF ExpireLease
  <2>6. ASSUME NEW h \in Hosts, Crash(h)
        PROVE  UNCHANGED <<log, state, payload, prev, receipt>>
    BY <2>6 DEF Crash, opVars
  <2>7. ASSUME ForeignAppend PROVE Promise!Extend
    <3>1. UNCHANGED <<state, payload, prev, receipt>> /\ log' = Append(log, ForeignEvent)
      BY <2>7 DEF ForeignAppend, opVars
    <3>2. OpenCommand' = OpenCommand
      BY <2>1, <3>1, SameOpen DEF IsOpen
    <3>3. Len(log') = Len(log) + 1
      BY <3>1 DEF IInv, TypeInv, TypeOK
    <3> QED
      BY <3>1, <3>2, <3>3 DEF Promise!Extend
  <2>8. UNCHANGED vars => UNCHANGED <<log, state, payload, prev, receipt>>
    BY DEF vars, opVars
  <2> QED
    BY <2>2, <2>3, <2>4, <2>5, <2>6, <2>7, <2>8 DEF Next, Promise!Next
<1> QED
  BY <1>1, <1>2, Invariance, PTL DEF Spec, ImplementsPromise, Promise!Spec

=============================================================================

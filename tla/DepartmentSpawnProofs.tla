------------------------ MODULE DepartmentSpawnProofs ------------------------
(***************************************************************************)
(* The execution lifecycle and its callers, for any number of dispatch     *)
(* keys and spawn calls.  The ledger comes first, whoever calls it: every  *)
(* operation replaces one record by another one with the same key and the  *)
(* same per-record invariant, and only a live record is ever replaced      *)
(* (OneRecord); everything else follows from that.  Then what holds        *)
(* however many calls run in parallel: every step of a caller is a step of *)
(* the ledger; a child has its lease and a start receipt its child.  Last, *)
(* what holds, still for any number of calls in parallel, of the attempts  *)
(* that no two equal calls were under way for at the same time.            *)
(***************************************************************************)
EXTENDS DepartmentSpawn, FiniteSetTheorems, TLAPS

-----------------------------------------------------------------------------
(* The ledger                                                               *)

\* Only a live activation that has left RESERVED has a lease.
LeaseIsLive(r) == r.lease # "none" => r.activation \in {"STARTING", "RUNNING"}

Sound(r) == r \in Record /\ EndsTogether(r) /\ AdvancesTogether(r) /\ LeaseIsLive(r)

\* The inductive invariant.
Inv ==
  /\ TypeOK
  /\ \A n \in Numbers : Sound(records[n])
  /\ OnlyNewestAttemptLives

\* Record n, which is live, becomes s.
Replaces(n, s) ==
  /\ Sound(s)
  /\ s.key = records[n].key
  /\ records[n].activation \notin Ended
  /\ records' = [records EXCEPT ![n] = s]

USE DEF Numbers

-----------------------------------------------------------------------------
(* One record                                                               *)

\* bindActivationAgent keeps a record sound.
LEMMA BindSound ==
  ASSUME NEW r, Sound(r), CanBind(r)
  PROVE  Sound(BoundTo(r)) /\ BoundTo(r).key = r.key /\ r.activation \notin Ended
BY DEF Sound, LeaseIsLive, CanBind, BoundTo, Record, EndsTogether, AdvancesTogether, Ended,
       ActivationStates, AttemptStates, DispatchStates, DispatchEnded

\* heartbeatActivation keeps a record sound.
LEMMA BeatSound ==
  ASSUME NEW r, Sound(r), CanBeat(r)
  PROVE  Sound(Beaten(r)) /\ Beaten(r).key = r.key /\ r.activation \notin Ended
BY DEF Sound, LeaseIsLive, CanBeat, Beaten, Record, EndsTogether, AdvancesTogether, Ended,
       ActivationStates, AttemptStates, DispatchStates, DispatchEnded

\* markDispatch keeps a record sound.
LEMMA MarkSound ==
  ASSUME NEW r, Sound(r), NEW to \in Marks, CanMark(r, to)
  PROVE  Sound(Marked(r, to)) /\ Marked(r, to).key = r.key /\ r.activation \notin Ended
<1> USE DEF Sound, Ended, LeaseIsLive
<1>1. r.activation \notin Ended
  BY DEF CanMark, DispatchStep, EndsTogether, DispatchEnded, DispatchFor
<1>2. to \in {"ACCEPTED", "STARTED", "RECOVERY_REQUIRED", "FAILED", "CANCELLED"}
  BY DEF Marks, DispatchStates, DispatchEnded
<1>3. PICK a, t, l : a = ActivationFor(to) /\ t = AttemptFor(to) /\ l = LeaseFor(to)
  OBVIOUS
<1>4. /\ a \in ActivationStates /\ t \in AttemptStates /\ l \in {"none", "fresh"}
      /\ to \in DispatchStates
  BY <1>2, <1>3 DEF AttemptFor, ActivationFor, LeaseFor, AttemptStates, ActivationStates,
                    DispatchStates, DispatchEnded
<1>5. Marked(r, to) = [r EXCEPT !.dispatch = to, !.activation = a, !.attempt = t, !.lease = l]
  BY <1>3 DEF Marked
<1>6. PICK s : s = [r EXCEPT !.dispatch = to, !.activation = a, !.attempt = t, !.lease = l]
  OBVIOUS
<1>7. /\ s \in Record /\ s.key = r.key
      /\ s.dispatch = to /\ s.activation = a /\ s.attempt = t /\ s.lease = l
  BY <1>4, <1>6 DEF Record
<1>8. EndsTogether(s) /\ AdvancesTogether(s) /\ LeaseIsLive(s)
  BY <1>2, <1>3, <1>7 DEF EndsTogether, AdvancesTogether, AttemptFor, ActivationFor,
                    LeaseFor, DispatchFor, DispatchEnded
<1> QED
  BY <1>1, <1>5, <1>6, <1>7, <1>8

\* settleActivation keeps a record sound, whichever receipt it writes.
LEMMA SettleSound ==
  ASSUME NEW r, Sound(r), NEW outcome \in Ended, CanSettle(r, outcome),
         NEW receipt \in {"settlement", "expiry"}
  PROVE  /\ Sound(Settled(r, outcome, receipt))
         /\ Settled(r, outcome, receipt).key = r.key
         /\ r.activation \notin Ended
<1> USE DEF Sound, Ended, LeaseIsLive
<1>1. r.activation \notin Ended
  BY DEF CanSettle
<1>2. PICK d : d = DispatchFor(outcome)
  OBVIOUS
<1>3. /\ outcome \in ActivationStates /\ outcome \in AttemptStates
      /\ d \in DispatchStates
  BY <1>2 DEF DispatchFor, AttemptStates, ActivationStates, DispatchStates, DispatchEnded
<1>4. PICK s : s = [r EXCEPT !.activation = outcome, !.attempt = outcome, !.dispatch = d,
                             !.lease = "none", !.receipt = receipt]
  OBVIOUS
<1>5. s = Settled(r, outcome, receipt)
  BY <1>2, <1>4 DEF Settled
<1>6. /\ s \in Record /\ s.key = r.key
      /\ s.dispatch = d /\ s.activation = outcome /\ s.attempt = outcome
      /\ s.lease = "none"
  BY <1>3, <1>4 DEF Record
<1>7. EndsTogether(s) /\ AdvancesTogether(s) /\ LeaseIsLive(s)
  BY <1>2, <1>6 DEF EndsTogether, AdvancesTogether, DispatchFor
<1> QED
  BY <1>1, <1>5, <1>6, <1>7

-----------------------------------------------------------------------------
(* One step                                                                 *)

\* Every operation on attempt n leaves the records alone or replaces the live
\* record n by a sound one with the same key.
LEMMA OneRecord ==
  ASSUME Inv, NEW n \in Numbers, Operation(n)
  PROVE  records' = records \/ \E s : Replaces(n, s)
<1> USE DEF Inv
<1>0. Sound(records[n])
  OBVIOUS
<1>1. CASE Bind(n)
  BY <1>0, <1>1, BindSound DEF Bind, Replaces
<1>2. CASE Heartbeat(n)
  BY <1>0, <1>2, BeatSound DEF Heartbeat, Replaces
<1>3. ASSUME NEW to \in Marks, Mark(n, to) PROVE \E s : Replaces(n, s)
  BY <1>0, <1>3, MarkSound DEF Mark, Replaces
<1>4. ASSUME NEW outcome \in Ended, Settle(n, outcome) PROVE \E s : Replaces(n, s)
  BY <1>0, <1>4, SettleSound DEF Settle, Replaces
<1>5. CASE Expire(n)
  <2> DEFINE s == [records[n] EXCEPT !.lease = "expired"]
  <2>1. Sound(s) /\ s.key = records[n].key /\ records[n].activation \notin Ended
    BY <1>0, <1>5 DEF Expire, Sound, Record, EndsTogether, AdvancesTogether, LeaseIsLive,
                      Ended, DispatchFor, DispatchEnded
  <2>2. records' = [records EXCEPT ![n] = s]
    BY <1>5 DEF Expire
  <2> QED
    BY <2>1, <2>2 DEF Replaces
<1>6. CASE SettleExpired(n)
  <2>1. "LOST" \in Ended
    BY DEF Ended
  <2>2. CASE CanSettle(records[n], "LOST")
    BY <1>0, <1>6, <2>1, <2>2, SettleSound DEF SettleExpired, Replaces
  <2>3. CASE ~CanSettle(records[n], "LOST")
    BY <1>6, <2>3 DEF SettleExpired
  <2> QED
    BY <2>2, <2>3
<1> QED
  BY <1>1, <1>2, <1>3, <1>4, <1>5, <1>6 DEF Operation

\* Replacing a live record keeps the invariant: it is the newest one.
LEMMA ReplaceInv ==
  ASSUME Inv, NEW n \in Numbers, NEW s, Replaces(n, s)
  PROVE  /\ records' \in Seq(Record)
         /\ Numbers' = Numbers
         /\ \A m \in Numbers : Sound(records'[m])
         /\ OnlyNewestAttemptLives'
<1> USE DEF Inv, Replaces
<1>1. records \in Seq(Record) /\ s \in Record
  BY DEF TypeOK, Sound
<1>2. records' \in Seq(Record) /\ DOMAIN records' = DOMAIN records
  BY <1>1
<1>3. \A m \in Numbers : records'[m] = IF m = n THEN s ELSE records[m]
  BY <1>1
<1>4. \A m \in Numbers : Sound(records'[m])
  BY <1>3
<1>5. ASSUME NEW m \in Numbers', NEW k \in Numbers', m < k
      PROVE  records'[m].activation \in Ended /\ records'[m].key # records'[k].key
  <2>1. records[m].activation \in Ended /\ records[m].key # records[k].key
    BY <1>2, <1>5 DEF OnlyNewestAttemptLives
  <2>2. m # n
    BY <2>1
  <2> QED
    BY <1>2, <1>3, <2>1, <2>2
<1>6. OnlyNewestAttemptLives'
  BY <1>5 DEF OnlyNewestAttemptLives
<1> QED
  BY <1>2, <1>4, <1>6

\* A reservation adds a sound record behind records that have all ended.
LEMMA ReserveInv ==
  ASSUME Inv, NEW k \in Keys, Reserve(k)
  PROVE  /\ records' \in Seq(Record)
         /\ Numbers' = Numbers \cup {Len(records) + 1}
         /\ \A n \in Numbers : records'[n] = records[n] /\ records[n].activation \in Ended
         /\ records'[Len(records) + 1] = NewRecord(k)
         /\ \A n \in Numbers' : Sound(records'[n])
         /\ OnlyNewestAttemptLives'
<1> DEFINE r == NewRecord(k)
<1>1. r \in Record
  BY DEF NewRecord, Record, AttemptStates, ActivationStates, DispatchStates
<1>2. Sound(r)
  BY <1>1 DEF Sound, EndsTogether, AdvancesTogether, LeaseIsLive, NewRecord, Ended,
              DispatchEnded
<1>3. records \in Seq(Record) /\ records' = Append(records, r)
  BY DEF Inv, TypeOK, Reserve
<1> HIDE DEF r
<1>4. /\ records' \in Seq(Record)
      /\ DOMAIN records = 1..Len(records) /\ Len(records) \in Nat
      /\ DOMAIN records' = 1..(Len(records) + 1)
      /\ \A n \in DOMAIN records : records'[n] = records[n]
      /\ records'[Len(records) + 1] = r
  BY <1>1, <1>3
<1>5. \A n \in Numbers : records[n].activation \in Ended /\ records[n].key # k
  BY DEF Inv, Sound, EndsTogether, Reserve, MayReserve, Exact, Active
<1>6. \A n \in Numbers' : Sound(records'[n])
  BY <1>2, <1>4 DEF Inv
<1>7. r.key = k
  BY DEF r, NewRecord
<1>8. ASSUME NEW m \in Numbers', NEW n \in Numbers', m < n
      PROVE  records'[m].activation \in Ended /\ records'[m].key # records'[n].key
  <2>1. m \in Numbers
    BY <1>4, <1>8
  <2>2. CASE n \in Numbers
    BY <1>4, <1>8, <2>1, <2>2 DEF Inv, OnlyNewestAttemptLives
  <2>3. CASE n = Len(records) + 1
    BY <1>4, <1>5, <1>7, <2>1, <2>3
  <2> QED
    BY <1>4, <2>2, <2>3
<1>9. OnlyNewestAttemptLives'
  BY <1>8 DEF OnlyNewestAttemptLives
<1> QED
  BY <1>4, <1>5, <1>6, <1>9 DEF r

-----------------------------------------------------------------------------
(* Every behaviour                                                          *)

\* What is listed as expired is an attempt: no step forgets an attempt.
LEMMA FoundType ==
  ASSUME Inv, [Next]_ledgerVars
  PROVE  found' \subseteq Numbers'
<1> USE DEF Inv, TypeOK
<1>1. ASSUME NEW k \in Keys, Reserve(k) PROVE found' \subseteq Numbers'
  BY <1>1, ReserveInv DEF Reserve
<1>2. ASSUME NEW n \in Numbers, Operation(n) PROVE found' \subseteq Numbers'
  <2>1. Numbers' = Numbers
    BY <1>2, OneRecord, ReplaceInv
  <2>2. found' \subseteq found
    BY <1>2 DEF Operation, Bind, Heartbeat, Mark, Settle, Expire, SettleExpired
  <2> QED
    BY <2>1, <2>2
<1>3. CASE ListExpired
  BY <1>3 DEF ListExpired, Expired
<1>4. CASE Abandon
  BY <1>4 DEF Abandon
<1>5. CASE UNCHANGED ledgerVars
  BY <1>5 DEF ledgerVars
<1> QED
  BY <1>1, <1>2, <1>3, <1>4, <1>5 DEF Next

\* Every step is a reservation, a replacement of one live record, or leaves
\* the records alone.
LEMMA StepKinds ==
  ASSUME Inv, [Next]_ledgerVars
  PROVE  \/ \E k \in Keys : Reserve(k)
         \/ \E n \in Numbers : \E s : Replaces(n, s)
         \/ records' = records
<1>1. ASSUME NEW n \in Numbers, Operation(n)
      PROVE  records' = records \/ \E s : Replaces(n, s)
  BY <1>1, OneRecord
<1>2. CASE ListExpired \/ Abandon \/ UNCHANGED ledgerVars
  BY <1>2 DEF ListExpired, Abandon, ledgerVars
<1> QED
  BY <1>1, <1>2 DEF Next

LEMMA InvNext == Inv /\ [Next]_ledgerVars => Inv'
<1> SUFFICES ASSUME Inv, [Next]_ledgerVars PROVE Inv'
  OBVIOUS
<1>1. found' \subseteq Numbers'
  BY FoundType
<1>2. ASSUME NEW k \in Keys, Reserve(k) PROVE Inv'
  BY <1>1, <1>2, ReserveInv DEF Inv, TypeOK
<1>3. ASSUME NEW n \in Numbers, NEW s, Replaces(n, s) PROVE Inv'
  <2>1. /\ records' \in Seq(Record)
        /\ \A m \in Numbers' : Sound(records'[m])
        /\ OnlyNewestAttemptLives'
    BY <1>3, ReplaceInv
  <2> QED
    BY <1>1, <2>1 DEF Inv, TypeOK
<1>4. CASE records' = records
  BY <1>1, <1>4 DEF Inv, TypeOK, OnlyNewestAttemptLives
<1> QED
  BY <1>2, <1>3, <1>4, StepKinds

\* The inductive invariant holds throughout.
THEOREM Invariance == Spec => []Inv
<1>1. Init => Inv
  BY DEF Init, Inv, TypeOK, OnlyNewestAttemptLives
<1> QED
  BY <1>1, InvNext, PTL DEF Spec

\* The variables stay in their types.
THEOREM TypeCorrectness == Spec => []TypeOK
<1>1. Inv => TypeOK
  BY DEF Inv
<1> QED
  BY <1>1, Invariance, PTL

\* However an attempt ends, its attempt, activation and dispatch records end
\* together and with one outcome.
THEOREM EndTogether == Spec => []LayersEndTogether
<1>1. Inv => LayersEndTogether
  BY DEF Inv, LayersEndTogether, Sound
<1> QED
  BY <1>1, Invariance, PTL

\* The attempt never lags behind its dispatch and its activation.
THEOREM AdvanceTogether == Spec => []LayersAdvanceTogether
<1>1. Inv => LayersAdvanceTogether
  BY DEF Inv, LayersAdvanceTogether, Sound
<1> QED
  BY <1>1, Invariance, PTL

\* At most the newest attempt of a Task version is live, and dispatch keys
\* are never shared.
THEOREM NewestLives == Spec => []OnlyNewestAttemptLives
<1>1. Inv => OnlyNewestAttemptLives
  BY DEF Inv
<1> QED
  BY <1>1, Invariance, PTL

\* Nothing touches an attempt that has ended.
THEOREM EndedForGood == Spec => EndedStaysEnded
<1>1. Inv /\ [Next]_ledgerVars =>
        [\A n \in Numbers : records[n].activation \in Ended
            => n \in DOMAIN records' /\ records'[n] = records[n]]_ledgerVars
  <2> SUFFICES ASSUME Inv, [Next]_ledgerVars, NEW n \in Numbers,
                      records[n].activation \in Ended
               PROVE  n \in DOMAIN records' /\ records'[n] = records[n]
    OBVIOUS
  <2>1. ASSUME NEW k \in Keys, Reserve(k)
        PROVE  n \in DOMAIN records' /\ records'[n] = records[n]
    BY <2>1, ReserveInv
  <2>2. ASSUME NEW m \in Numbers, NEW s, Replaces(m, s)
        PROVE  n \in DOMAIN records' /\ records'[n] = records[n]
    BY <2>2 DEF Replaces, Inv, TypeOK
  <2> QED
    BY <2>1, <2>2, StepKinds
<1> QED
  BY <1>1, Invariance, PTL DEF Spec, EndedStaysEnded

-----------------------------------------------------------------------------
(* The attempts of a Task version follow one another                        *)

Entry(r) == IF r.activation \in Ended THEN r.activation ELSE "open"
Entries == [n \in Numbers |-> Entry(records[n])]

\* A reservation begins an attempt of the history.
LEMMA ReserveBegins ==
  ASSUME Inv, NEW k \in Keys, Reserve(k)
  PROVE  History!Begin
<1>1. records \in Seq(Record) /\ Len(records) \in Nat /\ Numbers = 1..Len(records)
  BY DEF Inv, TypeOK
<1>2. \A i \in DOMAIN Entries : Entries[i] \in Ended
  BY ReserveInv DEF Entries, Entry
<1>3. Entries \in Seq(Ended)
  BY <1>1, <1>2 DEF Entries
<1>4. Len(Entries) = Len(records)
  BY <1>1 DEF Entries
<1>5. Entries' = Append(Entries, "open")
  <2>1. Entry(NewRecord(k)) = "open"
    BY DEF Entry, NewRecord, Ended
  <2>2. DOMAIN Append(Entries, "open") = 1..(Len(records) + 1)
    BY <1>3, <1>4
  <2>3. \A i \in 1..Len(records) : Append(Entries, "open")[i] = Entries[i]
    BY <1>3, <1>4
  <2>4. Append(Entries, "open")[Len(records) + 1] = "open"
    BY <1>3, <1>4
  <2>5. Numbers' = 1..(Len(records) + 1)
    BY <1>1, ReserveInv
  <2>6. \A i \in Numbers' : Entries'[i] = Append(Entries, "open")[i]
    <3> TAKE i \in Numbers'
    <3>1. Entries'[i] = Entry(records'[i])
      BY DEF Entries, Entry
    <3>2. CASE i \in Numbers
      BY <1>1, <2>3, <3>1, <3>2, ReserveInv DEF Entries
    <3>3. CASE i = Len(records) + 1
      BY <2>1, <2>4, <3>1, <3>3, ReserveInv
    <3>4. i \in 1..Len(records) \/ i = Len(records) + 1
      <4>1. i \in 1..(Len(records) + 1)
        BY <2>5
      <4>2. Len(records) \in Nat
        BY <1>1
      <4> QED
        BY <4>1, <4>2
    <3> QED
      BY <1>1, <3>2, <3>3, <3>4
  <2>7. Entries' \in [1..(Len(records) + 1) -> Ended \cup {"open"}]
    <3>1. \A r : Entry(r) \in Ended \cup {"open"}
      BY DEF Entry
    <3> QED
      BY <2>5, <3>1 DEF Entries
  <2>8. Append(Entries, "open") \in [1..(Len(records) + 1) -> Ended \cup {"open"}]
    <3>1. Entries \in Seq(Ended \cup {"open"})
      BY <1>3
    <3>2. PICK longer : longer = Append(Entries, "open")
      OBVIOUS
    <3>3. longer \in Seq(Ended \cup {"open"}) /\ Len(longer) = Len(records) + 1
      BY <1>4, <3>1, <3>2
    <3>4. longer \in [1..Len(longer) -> Ended \cup {"open"}]
      BY <3>3
    <3> QED
      BY <3>2, <3>3, <3>4
  <2> QED
    BY <2>5, <2>6, <2>7, <2>8
<1> QED
  BY <1>2, <1>5 DEF History!Begin, Entries, Entry

\* Replacing a live record either leaves the history alone or ends an attempt.
LEMMA ReplaceEnds ==
  ASSUME Inv, NEW n \in Numbers, NEW s, Replaces(n, s)
  PROVE  Entries' = Entries \/ History!End(n)
<1>1. records \in Seq(Record)
  BY DEF Inv, TypeOK
<1>2. /\ Numbers' = Numbers
      /\ \A m \in Numbers : records'[m] = IF m = n THEN s ELSE records[m]
  BY <1>1 DEF Replaces
<1>3. Entries[n] = "open"
  BY DEF Entries, Entry, Replaces
<1>4. Entries' = [Entries EXCEPT ![n] = Entry(s)]
  BY <1>2 DEF Entries, Entry
<1>5. CASE s.activation \in Ended
  BY <1>3, <1>4, <1>5 DEF History!End, Entries, Entry
<1>6. CASE s.activation \notin Ended
  BY <1>3, <1>4, <1>6 DEF Entries, Entry
<1> QED
  BY <1>5, <1>6

\* The ledger implements AttemptHistory.
THEOREM HistoryKept == Spec => KeepsAttemptHistory
<1>1. Init => History!Init
  BY DEF Init, History!Init
<1>2. Inv /\ [Next]_ledgerVars => [History!Next]_Entries
  <2> SUFFICES ASSUME Inv, [Next]_ledgerVars PROVE [History!Next]_Entries
    OBVIOUS
  <2>1. ASSUME NEW k \in Keys, Reserve(k) PROVE History!Next
    BY <2>1, ReserveBegins DEF History!Next
  <2>2. ASSUME NEW n \in Numbers, NEW s, Replaces(n, s)
        PROVE  Entries' = Entries \/ History!Next
    BY <2>2, ReplaceEnds DEF History!Next
  <2>3. CASE records' = records
    BY <2>3 DEF Entries, Entry
  <2> QED
    BY <2>1, <2>2, <2>3, StepKinds
<1>3. Inv /\ [Next]_ledgerVars =>
        [History!Next]_([n \in Numbers |->
           IF records[n].activation \in Ended THEN records[n].activation ELSE "open"])
  BY <1>2 DEF Entries, Entry
<1> QED
  BY <1>1, <1>3, Invariance, PTL DEF Spec, KeepsAttemptHistory, History!Spec

-----------------------------------------------------------------------------
(* The callers                                                              *)

\* A call works on an attempt from its reservation on.
TargetsExist ==
  \A c \in Callers : call[c].at \notin {"idle", "keyed"} => call[c].target \in Numbers

LeaseInv ==
  /\ LeaseBeforeChild
  /\ \A c \in Callers : At(c, "admitting") => call[c].target \in leased

StartInv ==
  /\ StartProvesChild
  /\ \A c \in Callers : At(c, "starting") => child[call[c].target] # "none"

\* What any number of calls in parallel preserve.
CallersInv == Inv /\ SpawnTypeOK /\ TargetsExist /\ LeaseInv /\ StartInv

Working(c) == call[c].at \notin {"idle", "keyed"}

\* A call works on the attempt of its key, and equal calls that are under way
\* together have been noted.
KeyInv ==
  /\ \A c \in Callers : Working(c) => records[call[c].target].key = call[c].key
  /\ \A c, d \in Callers :
       c # d /\ ~At(c, "idle") /\ ~At(d, "idle") /\ call[c].key = call[d].key
         => call[c].key \in shared

\* The child of an attempt was taken by the transport, and has a binding.
ChildrenAreBound ==
  \A n \in Attempts : child[n] # "none" =>
    /\ n \in Numbers
    /\ Unshared(n) => n \in bindings /\ records[n].dispatch # "PENDING"

\* Whoever has failed, or is to fail, an attempt knows that it has no child.
FailsTheChildless(c) ==
  \/ At(c, "accepting") /\ call[c].ours
  \/ At(c, "compensating") /\ call[c].verdict = "FAILED"
  \/ At(c, "marking") /\ call[c].verdict = "FAILED"
  \/ At(c, "discarding")
Knowing(c) ==
  Unshared(call[c].target) =>
    /\ FailsTheChildless(c) => child[call[c].target] = "none"
    /\ At(c, "preparing") => call[c].target \notin bindings
Early == {"idle", "keyed", "reserved", "bound", "preparing"}
FailuresAreChildless ==
  \A c \in Callers : Knowing(c) /\ (call[c].at \in Early => ~call[c].ours)

\* The transport is asked about accepted dispatches only, with a binding.
Accepted(r) == r.dispatch # "PENDING" /\ (r.dispatch # "FAILED" \/ r.receipt # "none")
Asking == {"accepting", "sending", "admitting", "starting", "converging"}
Asks(c) ==
  Unshared(call[c].target) =>
    /\ call[c].at \in Asking => call[c].target \in bindings
    /\ call[c].at \in Asking \ {"accepting"} => Accepted(records[call[c].target])
AskedIsAccepted == \A c \in Callers : Asks(c)

\* Somebody is there who will give the Task back.
Attended == \/ child[holder] = "alive"
            \/ \E c \in Callers : At(c, "admitting") /\ call[c].target = holder
AttendanceInv ==
  faults = 0 /\ task = "executing" => holder \in Numbers /\ (Unshared(holder) => Attended)

\* What holds of the attempts whose calls came one after the other.
UnsharedInv ==
  /\ KeyInv
  /\ ChildrenAreBound
  /\ FailuresAreChildless
  /\ AskedIsAccepted
  /\ FailedHadNoChild
  /\ AttendanceInv

-----------------------------------------------------------------------------
(* Every step of a caller is a step of the ledger                           *)

\* A dispatch key and an attempt the call may use, in the ledger's terms.
LEMMA CallsReachLedger ==
  ASSUME SpawnTypeOK, TargetsExist, NEW c \in Callers, SpawnStep(c)
  PROVE  [Next]_ledgerVars
<1>1. call[c] \in CallRecord
  BY DEF SpawnTypeOK
<1>2. call[c].key \in Keys /\ call[c].verdict \in Marks
  BY <1>1 DEF CallRecord, Marks, DispatchStates, DispatchEnded
<1>3. {"ACCEPTED", "STARTED"} \subseteq Marks
  BY DEF Marks, DispatchStates, DispatchEnded
<1>4. CASE ReserveNew(c)
  BY <1>2, <1>4 DEF ReserveNew, Next
<1>5. CASE BindAgent(c)
  BY <1>5 DEF BindAgent, TargetsExist, At, Next, Operation
<1>6. CASE Accept(c)
  BY <1>3, <1>6 DEF Accept, TargetsExist, At, Next, Operation
<1>7. CASE Start(c)
  BY <1>3, <1>7 DEF Start, Startable, TargetsExist, At, Next, Operation
<1>8. CASE Compensate(c) \/ MarkFailure(c)
  BY <1>2, <1>8 DEF Compensate, MarkFailure, MarkQuietly, TargetsExist, At, Next, Operation
<1>9. CASE Call(c) \/ ReserveReplay(c) \/ ReserveLocked(c)
  BY <1>9 DEF Call, ReserveReplay, ReserveLocked
<1>10. CASE FindBinding(c) \/ Prepare(c) \/ Discard(c) \/ Inspect(c)
  BY <1>10 DEF FindBinding, Prepare, Discard, Inspect
<1>11. CASE SendRecovered(c) \/ SendEnded(c) \/ Lease(c) \/ SendFails(c)
  BY <1>11 DEF SendRecovered, SendEnded, Lease, SendFails
<1>12. CASE Admit(c) \/ AdmitFails(c)
  BY <1>12 DEF Admit, AdmitFails
<1> QED
  BY <1>4, <1>5, <1>6, <1>7, <1>8, <1>9, <1>10, <1>11, <1>12 DEF SpawnStep

\* What a child, its cleanup and the reconciliation do to attempt n.
ChildStep(n) == Beat(n) \/ ChildEnds(n) \/ Cleanup(n) \/ LeaseRunsOut(n) \/ Reconcile(n)

LEMMA ChildrenReachLedger ==
  ASSUME NEW n \in Numbers, ChildStep(n)
  PROVE  [Next]_ledgerVars
<1>1. CASE Beat(n)
  BY <1>1 DEF Beat, Next, Operation
<1>2. CASE ChildEnds(n)
  BY <1>2 DEF ChildEnds
<1>3. CASE Cleanup(n)
  BY <1>3, OutcomesAreEnds DEF Cleanup, Next, Operation
<1>4. CASE LeaseRunsOut(n)
  BY <1>4 DEF LeaseRunsOut, Next, Operation
<1>5. CASE Reconcile(n)
  BY <1>5 DEF Reconcile, Next, Operation
<1> QED
  BY <1>1, <1>2, <1>3, <1>4, <1>5 DEF ChildStep

LEMMA EveryStepReachesLedger ==
  ASSUME SpawnTypeOK, TargetsExist, [SpawnNext]_vars
  PROVE  [Next]_ledgerVars
<1>1. CASE List
  BY <1>1 DEF List, Next
<1>2. CASE MissionMoves
  BY <1>2 DEF MissionMoves
<1>3. CASE HostCrash
  BY <1>3 DEF HostCrash, Next, Abandon, ledgerVars
<1>4. CASE UNCHANGED vars
  BY <1>4 DEF vars
<1> QED
  BY <1>1, <1>2, <1>3, <1>4, CallsReachLedger, ChildrenReachLedger DEF SpawnNext, ChildStep

\* No step changes the key of an attempt.
LEMMA KeysStay ==
  ASSUME Inv, [Next]_ledgerVars, NEW n \in Numbers
  PROVE  records'[n].key = records[n].key
<1>1. ASSUME NEW k \in Keys, Reserve(k) PROVE records'[n].key = records[n].key
  BY <1>1, ReserveInv
<1>2. ASSUME NEW m \in Numbers, NEW r, Replaces(m, r) PROVE records'[n].key = records[n].key
  <2>1. records \in Seq(Record)
    BY DEF Inv, TypeOK
  <2> QED
    BY <1>2, <2>1 DEF Replaces
<1> QED
  BY <1>1, <1>2, StepKinds

\* No step forgets an attempt.
LEMMA AttemptsStay ==
  ASSUME Inv, [Next]_ledgerVars
  PROVE  Numbers \subseteq Numbers'
<1>1. ASSUME NEW k \in Keys, Reserve(k) PROVE Numbers \subseteq Numbers'
  BY <1>1, ReserveInv
<1>2. ASSUME NEW n \in Numbers, NEW r, Replaces(n, r) PROVE Numbers \subseteq Numbers'
  BY <1>2, ReplaceInv
<1> QED
  BY <1>1, <1>2, StepKinds DEF Numbers

-----------------------------------------------------------------------------
(* The variables of the callers                                             *)

\* One call changes, and what it changes to is a call on an attempt.
LEMMA OneCall ==
  ASSUME SpawnTypeOK, TargetsExist, Numbers \subseteq Numbers',
         NEW c \in Callers, NEW r \in CallRecord',
         r.at \notin {"idle", "keyed"} => r.target \in Numbers',
         call' = [call EXCEPT ![c] = r]
  PROVE  call' \in [Callers -> CallRecord'] /\ TargetsExist'
<1>1. CallRecord \subseteq CallRecord'
  BY DEF CallRecord
<1>2. call \in [Callers -> CallRecord]
  BY DEF SpawnTypeOK
<1> QED
  BY <1>1, <1>2 DEF TargetsExist

\* A call that stays with its attempt.
LEMMA GotoTypes ==
  ASSUME SpawnTypeOK, TargetsExist, Numbers \subseteq Numbers',
         NEW c \in Callers, call[c].at \notin {"idle", "keyed"},
         NEW stage \in Stages, Goto(c, stage)
  PROVE  call' \in [Callers -> CallRecord'] /\ TargetsExist'
<1>1. call[c] \in CallRecord /\ call[c].target \in Numbers
  BY DEF SpawnTypeOK, TargetsExist
<1>2. PICK r : r = [call[c] EXCEPT !.at = stage]
  OBVIOUS
<1>3. r \in CallRecord' /\ r.target \in Numbers'
  BY <1>1, <1>2 DEF CallRecord
<1>4. call' = [call EXCEPT ![c] = r]
  BY <1>2 DEF Goto
<1> QED
  BY <1>3, <1>4, OneCall

LEMMA ReturnTypes ==
  ASSUME SpawnTypeOK, TargetsExist, Numbers \subseteq Numbers',
         NEW c \in Callers, Return(c)
  PROVE  call' \in [Callers -> CallRecord'] /\ TargetsExist'
<1>1. Idle \in CallRecord' /\ Idle.at = "idle"
  BY KeysAreRevisions DEF Idle, CallRecord, Stages
<1> QED
  BY <1>1, OneCall DEF Return

LEMMA ThrowTypes ==
  ASSUME SpawnTypeOK, TargetsExist, Numbers \subseteq Numbers',
         NEW c \in Callers, call[c].at \notin {"idle", "keyed"},
         NEW outcome \in {"FAILED", "RECOVERY_REQUIRED"}, Throw(c, outcome)
  PROVE  call' \in [Callers -> CallRecord'] /\ TargetsExist'
<1>1. call[c] \in CallRecord /\ call[c].target \in Numbers
  BY DEF SpawnTypeOK, TargetsExist
<1>2. PICK r : r = [call[c] EXCEPT !.at = IF call[c].ours THEN "compensating" ELSE "failing",
                                   !.verdict = outcome]
  OBVIOUS
<1>3. r \in CallRecord' /\ r.target \in Numbers'
  BY <1>1, <1>2 DEF CallRecord, Stages
<1>4. call' = [call EXCEPT ![c] = r]
  BY <1>2 DEF Throw
<1> QED
  BY <1>3, <1>4, OneCall

LEMMA CallTypes ==
  ASSUME Inv, SpawnTypeOK, TargetsExist, Numbers \subseteq Numbers',
         NEW c \in Callers, SpawnStep(c)
  PROVE  call' \in [Callers -> CallRecord'] /\ TargetsExist'
<1>1. call[c] \in CallRecord
  BY DEF SpawnTypeOK
<1>2. CASE Call(c)
  <2>1. PICK r : r = [Idle EXCEPT !.at = "keyed", !.key = revision]
    OBVIOUS
  <2>2. r \in CallRecord' /\ r.at = "keyed"
    BY <1>2, <2>1, KeysAreRevisions DEF Call, Idle, CallRecord, Stages
  <2> QED
    BY <1>2, <2>1, <2>2, OneCall DEF Call
<1>3. CASE ReserveNew(c)
  <2>1. Len(records) + 1 \in Numbers'
    BY <1>1, <1>3, ReserveInv DEF ReserveNew, CallRecord
  <2>2. PICK r : r = [call[c] EXCEPT !.at = "reserved", !.target = Len(records) + 1]
    OBVIOUS
  <2>3. r \in CallRecord' /\ r.target \in Numbers'
    BY <1>1, <2>1, <2>2 DEF CallRecord, Stages
  <2>4. call' = [call EXCEPT ![c] = r]
    BY <1>3, <2>2 DEF ReserveNew
  <2> QED
    BY <2>3, <2>4, OneCall
<1>4. CASE ReserveReplay(c)
  <2>1. PICK n \in Exact(call[c].key) :
          call' = [call EXCEPT ![c] = [@ EXCEPT !.at = "reserved", !.target = n,
                                                !.recovered = TRUE]]
    BY <1>4 DEF ReserveReplay
  <2>2. PICK r : r = [call[c] EXCEPT !.at = "reserved", !.target = n, !.recovered = TRUE]
    OBVIOUS
  <2>3. r \in CallRecord' /\ r.target \in Numbers'
    BY <1>1, <2>2 DEF CallRecord, Stages, Exact
  <2>4. call' = [call EXCEPT ![c] = r]
    BY <2>1, <2>2
  <2> QED
    BY <2>3, <2>4, OneCall
<1>5. CASE Prepare(c) /\ ~Goto(c, "compensating") /\ ~Goto(c, "failing")
  <2>1. PICK r : r = [call[c] EXCEPT !.at = "accepting", !.ours = TRUE]
    OBVIOUS
  <2>2. r \in CallRecord' /\ r.target \in Numbers'
    BY <1>1, <1>5, <2>1 DEF CallRecord, Stages, Prepare, At, TargetsExist
  <2>3. call' = [call EXCEPT ![c] = r]
    BY <1>5, <2>1 DEF Prepare
  <2> QED
    BY <2>2, <2>3, OneCall
<1>6. CASE Inspect(c) /\ ~Return(c)
  <2>1. PICK r : r = [call[c] EXCEPT !.at = "marking",
                        !.verdict = IF Dispatch(c) = "PENDING" THEN "FAILED"
                                    ELSE "RECOVERY_REQUIRED"]
    OBVIOUS
  <2>2. r \in CallRecord' /\ r.target \in Numbers'
    BY <1>1, <1>6, <2>1 DEF CallRecord, Stages, Inspect, At, TargetsExist
  <2>3. call' = [call EXCEPT ![c] = r]
    BY <1>6, <2>1 DEF Inspect
  <2> QED
    BY <2>2, <2>3, OneCall
<1>7. ASSUME call[c].at \notin {"idle", "keyed"},
             \/ \E stage \in Stages : Goto(c, stage)
             \/ \E outcome \in {"FAILED", "RECOVERY_REQUIRED"} : Throw(c, outcome)
      PROVE  call' \in [Callers -> CallRecord'] /\ TargetsExist'
  BY <1>7, GotoTypes, ThrowTypes
<1>8. ASSUME Return(c) PROVE call' \in [Callers -> CallRecord'] /\ TargetsExist'
  BY <1>8, ReturnTypes
<1>9. CASE ReserveLocked(c) \/ MarkFailure(c)
  BY <1>8, <1>9 DEF ReserveLocked, MarkFailure
<1>10. CASE BindAgent(c) \/ FindBinding(c) \/ Compensate(c) \/ Discard(c)
  BY <1>7, <1>10 DEF BindAgent, FindBinding, Compensate, Discard, At, Stages
<1>11. CASE Accept(c) \/ SendFails(c) \/ AdmitFails(c)
  BY <1>7, <1>11 DEF Accept, SendFails, AdmitFails, At, Stages
<1>12. CASE SendRecovered(c) \/ SendEnded(c) \/ Lease(c) \/ Admit(c)
  BY <1>7, <1>12 DEF SendRecovered, SendEnded, Lease, Admit, At, Stages
<1>13. CASE Start(c)
  BY <1>7, <1>8, <1>13 DEF Start, Startable
<1>14. CASE Prepare(c) /\ (Goto(c, "compensating") \/ Goto(c, "failing"))
  BY <1>7, <1>14 DEF Prepare, At, Stages
<1> QED
  BY <1>2, <1>3, <1>4, <1>5, <1>6, <1>8, <1>9, <1>10, <1>11, <1>12, <1>13, <1>14
     DEF SpawnStep

-----------------------------------------------------------------------------
(* Bindings, children and the Task                                          *)

HostTypes ==
  /\ bindings \subseteq Numbers
  /\ child \in [Attempts -> {"none", "alive", "ending", "dead", "gone"}]
  /\ task \in {"free", "executing", "elsewhere"}
  /\ holder \in Numbers \cup {0}
  /\ leased \subseteq Numbers
  /\ revision \in 0..MaxRevision
  /\ faults \in 0..MaxFaults
  /\ shared \subseteq Keys

LEMMA LaterRevision == revision \in 0..MaxRevision => Later \in 0..MaxRevision
BY KeysAreRevisions DEF Later

LEMMA ReleaseTypes ==
  ASSUME HostTypes, NEW n, Release(n)
  PROVE  /\ task' \in {"free", "executing", "elsewhere"}
         /\ holder' \in {holder, 0}
         /\ leased' = leased
         /\ revision' \in 0..MaxRevision
         /\ faults' \in 0..MaxFaults
         /\ shared' = shared
BY KeysAreRevisions, LaterRevision DEF HostTypes, Release, taskVars

LEMMA HostStepTypes ==
  ASSUME SpawnTypeOK, HostTypes, TargetsExist, Numbers \subseteq Numbers', [SpawnNext]_vars
  PROVE  HostTypes'
<1> USE DEF HostTypes
<1>0. \A d : child' = [child EXCEPT ![d] = "ending"] \/ child' = [child EXCEPT ![d] = "alive"]
             \/ child' = [child EXCEPT ![d] = "gone"] \/ child' = child
        => child' \in [Attempts -> {"none", "alive", "ending", "dead", "gone"}]
  OBVIOUS
<1>1. CASE UNCHANGED hostVars
  BY <1>1 DEF hostVars, taskVars
<1>2. ASSUME NEW c \in Callers, SpawnStep(c) PROVE HostTypes'
  <2>1. CASE Prepare(c)
    BY <2>1 DEF Prepare, TargetsExist, At, taskVars
  <2>2. CASE SendEnded(c) \/ AdmitFails(c)
    <3>1. Release(call[c].target) /\ bindings' = bindings
      BY <2>2 DEF SendEnded, AdmitFails
    <3> QED
      BY <1>0, <2>2, <3>1, ReleaseTypes DEF SendEnded, AdmitFails
  <2>3. CASE Lease(c)
    BY <2>3, LaterRevision DEF Lease, TakeTask, taskVars, TargetsExist, At
  <2>4. CASE Admit(c)
    BY <1>0, <2>4 DEF Admit, taskVars
  <2>5. CASE Discard(c)
    BY <2>5 DEF Discard, taskVars
  <2>6. CASE UNCHANGED hostVars
    BY <1>1, <2>6
  <2>7. CASE Call(c)
    BY <2>7 DEF Call
  <2> QED
    BY <1>2, <2>1, <2>2, <2>3, <2>4, <2>5, <2>6, <2>7
       DEF SpawnStep, ReserveNew, ReserveReplay, ReserveLocked, BindAgent, FindBinding,
           Accept, SendRecovered, SendFails, Start, Compensate, Inspect, MarkFailure
<1>3. ASSUME NEW n \in Numbers, ChildStep(n) PROVE HostTypes'
  <2>1. CASE ChildEnds(n)
    <3>1. CASE Release(n)
      BY <1>0, <2>1, <3>1, ReleaseTypes DEF ChildEnds
    <3>2. CASE UNCHANGED taskVars
      BY <1>0, <2>1, <3>2 DEF ChildEnds, taskVars
    <3> QED
      BY <2>1, <3>1, <3>2 DEF ChildEnds
  <2>2. CASE Cleanup(n)
    BY <1>0, <2>2 DEF Cleanup, taskVars
  <2> QED
    BY <1>1, <1>3, <2>1, <2>2 DEF ChildStep, Beat, LeaseRunsOut, Reconcile
<1>4. CASE MissionMoves
  BY <1>4, LaterRevision DEF MissionMoves
<1>5. CASE HostCrash
  BY <1>5, KeysAreRevisions DEF HostCrash
<1> QED
  BY <1>1, <1>2, <1>3, <1>4, <1>5 DEF SpawnNext, ChildStep, List, vars, hostVars

-----------------------------------------------------------------------------
(* There are no more attempts than dispatch keys                            *)

LEMMA NumbersAreAttempts ==
  ASSUME Inv
  PROVE  Numbers \subseteq Attempts
<1>1. IsFiniteSet(Keys)
  <2>1. IsFiniteSet(0..(MaxRevision - 1))
    BY KeysAreRevisions, FS_Interval
  <2> QED
    BY <2>1, KeysAreRevisions, FS_Subset
<1>2. records \in Seq(Record) /\ Len(records) \in Nat /\ Numbers = 1..Len(records)
  BY DEF Inv, TypeOK, Numbers
<1>3. PICK f : f = [n \in Numbers |-> records[n].key]
  OBVIOUS
<1>4. f \in [Numbers -> Keys]
  <2>1. \A n \in Numbers : records[n] \in Record
    BY <1>2
  <2>2. \A n \in Numbers : records[n].key \in Keys
    BY <2>1 DEF Record
  <2> QED
    BY <1>3, <2>2
<1>5. ASSUME NEW m \in Numbers, NEW n \in Numbers, f[m] = f[n] PROVE m = n
  <2>1. records[m].key = records[n].key
    BY <1>3, <1>5
  <2>2. ~(m < n) /\ ~(n < m)
    BY <2>1 DEF Inv, OnlyNewestAttemptLives
  <2> QED
    BY <1>2, <2>2
<1>6. f \in Injection(Numbers, Keys)
  BY <1>4, <1>5 DEF Injection, IsInjective
<1>7. Cardinality(Numbers) <= Cardinality(Keys)
  BY <1>1, <1>6, FS_Injection
<1>8. Cardinality(Numbers) = Len(records)
  BY <1>2, FS_Interval
<1>9. Cardinality(Keys) \in Nat
  BY <1>1, FS_CardinalityType
<1> QED
  BY <1>2, <1>7, <1>8, <1>9 DEF Attempts

-----------------------------------------------------------------------------
(* What a step does to calls and children                                   *)

LEMMA OthersWait ==
  ASSUME SpawnTypeOK, NEW c \in Callers, SpawnStep(c), NEW d \in Callers, d # c
  PROVE  call'[d] = call[d]
BY DEF SpawnTypeOK, SpawnStep, Call, ReserveNew, ReserveReplay, ReserveLocked, BindAgent,
   FindBinding, Prepare, Accept, SendRecovered, SendEnded, Lease, SendFails, Admit, AdmitFails,
   Start, Compensate, Discard, Inspect, MarkFailure, Goto, Return, Throw

\* Each stage is reached by the operation before it.
LEMMA StageReached ==
  ASSUME SpawnTypeOK, NEW c \in Callers, SpawnStep(c)
  PROVE  /\ At(c, "preparing")' => FindBinding(c)
         /\ At(c, "accepting")' => FindBinding(c) \/ Prepare(c)
         /\ At(c, "sending")' => Accept(c)
         /\ At(c, "converging")' => SendEnded(c)
         /\ At(c, "admitting")' => Lease(c)
         /\ At(c, "starting")' => SendRecovered(c) \/ Admit(c)
         /\ At(c, "compensating")' =>
              Prepare(c) \/ Accept(c) \/ SendFails(c) \/ AdmitFails(c) \/ Start(c)
         /\ At(c, "discarding")' => Compensate(c)
         /\ At(c, "marking")' => Inspect(c)
<1>1. call \in [Callers -> CallRecord]
  BY DEF SpawnTypeOK
<1>2. \A d : call \in [Callers -> CallRecord] /\ Throw(c, d)
          => call'[c].at \in {"compensating", "failing"}
  BY DEF Throw, CallRecord
<1>3. \A stage : Goto(c, stage) => call'[c].at = stage
  BY <1>1 DEF Goto, CallRecord
<1>4. Return(c) => call'[c].at = "idle"
  BY <1>1 DEF Return, Idle
<1>5. CASE Call(c) \/ ReserveNew(c) \/ ReserveReplay(c)
  <2>1. call'[c].at \in {"keyed", "reserved"}
    <3>1. CASE Call(c)
      BY <1>1, <3>1 DEF Call, Idle
    <3>2. CASE ReserveNew(c)
      BY <1>1, <3>2 DEF ReserveNew, CallRecord
    <3>3. CASE ReserveReplay(c)
      BY <1>1, <3>3 DEF ReserveReplay, CallRecord
    <3> QED
      BY <1>5, <3>1, <3>2, <3>3
  <2> QED
    BY <2>1 DEF At
<1>6. CASE ReserveLocked(c) \/ MarkFailure(c)
  BY <1>4, <1>6 DEF ReserveLocked, MarkFailure, At
<1>7. CASE BindAgent(c) \/ FindBinding(c) \/ Compensate(c) \/ Discard(c)
  BY <1>3, <1>7 DEF BindAgent, FindBinding, Compensate, Discard, At
<1>8. CASE SendRecovered(c) \/ SendEnded(c) \/ Lease(c) \/ Admit(c)
  BY <1>3, <1>8 DEF SendRecovered, SendEnded, Lease, Admit, At
<1>9. CASE Accept(c) \/ SendFails(c) \/ AdmitFails(c) \/ Start(c)
  BY <1>1, <1>2, <1>3, <1>4, <1>9 DEF Accept, SendFails, AdmitFails, Start, At
<1>10. CASE Prepare(c)
  <2>1. call'[c].at \in {"accepting", "compensating", "failing"}
    BY <1>1, <1>3, <1>10 DEF Prepare, CallRecord
  <2> QED
    BY <1>10, <2>1 DEF At
<1>11. CASE Inspect(c)
  BY <1>1, <1>4, <1>11 DEF Inspect, At, CallRecord
<1> QED
  BY <1>5, <1>6, <1>7, <1>8, <1>9, <1>10, <1>11 DEF SpawnStep

\* A child comes from an admission, and nothing forgets it.
LEMMA ChildFrom ==
  ASSUME SpawnTypeOK, [SpawnNext]_vars, NEW n \in Attempts
  PROVE  /\ child[n] # "none" => child'[n] # "none"
         /\ child[n] = "none" /\ child'[n] # "none" =>
              \E c \in Callers : At(c, "admitting") /\ call[c].target = n
                                /\ (Admit(c) \/ AdmitFails(c))
<1>1. child \in [Attempts -> {"none", "alive", "ending", "dead", "gone"}]
  BY DEF SpawnTypeOK
<1>2. CASE UNCHANGED child
  BY <1>2
<1>3. ASSUME NEW c \in Callers, Admit(c) \/ AdmitFails(c)
      PROVE  /\ child[n] # "none" => child'[n] # "none"
             /\ child[n] = "none" /\ child'[n] # "none" =>
                  At(c, "admitting") /\ call[c].target = n
  BY <1>1, <1>3 DEF Admit, AdmitFails
<1>4. ASSUME NEW c \in Callers, SendEnded(c)
      PROVE  child[n] # "none" <=> child'[n] # "none"
  BY <1>1, <1>4 DEF SendEnded
<1>5. ASSUME NEW m \in Numbers, ChildEnds(m) \/ Cleanup(m)
      PROVE  child[n] # "none" <=> child'[n] # "none"
  BY <1>1, <1>5 DEF ChildEnds, Cleanup
<1>6. CASE HostCrash
  BY <1>1, <1>6 DEF HostCrash
<1>7. ASSUME NEW c \in Callers, SpawnStep(c)
      PROVE  UNCHANGED child \/ Admit(c) \/ AdmitFails(c) \/ SendEnded(c)
  BY <1>7 DEF SpawnStep, hostVars, Call, ReserveNew, ReserveReplay, ReserveLocked, BindAgent,
     FindBinding, Prepare, Accept, SendRecovered, Lease, SendFails, Start, Compensate, Discard,
     Inspect, MarkFailure
<1>8. ASSUME NEW m \in Numbers, ChildStep(m)
      PROVE  UNCHANGED child \/ ChildEnds(m) \/ Cleanup(m)
  BY <1>8 DEF ChildStep, hostVars, Beat, LeaseRunsOut, Reconcile
<1>9. CASE List \/ MissionMoves \/ UNCHANGED vars
  BY <1>2, <1>9 DEF List, MissionMoves, vars, hostVars
<1> QED
  BY <1>2, <1>3, <1>4, <1>5, <1>6, <1>7, <1>8, <1>9 DEF SpawnNext, ChildStep

\* Outside the calls nobody changes one, but a crash, which loses them all.
LEMMA CallsOutside ==
  ASSUME NEW n \in Numbers, ChildStep(n)
  PROVE  UNCHANGED call
BY DEF ChildStep, Beat, ChildEnds, Cleanup, LeaseRunsOut, Reconcile

-----------------------------------------------------------------------------
(* A child has its lease                                                    *)

\* A lease is taken before the child is admitted, and nobody forgets one.
LEMMA LeaseStep ==
  ASSUME SpawnTypeOK, LeaseInv, [SpawnNext]_vars
  PROVE  LeaseInv'
<1>1. leased \subseteq leased'
  <2>1. \A n : Release(n) => leased' = leased
    BY DEF Release, taskVars
  <2>2. \A n : TakeTask(n) => leased \subseteq leased'
    BY DEF TakeTask, taskVars
  <2>3. ASSUME NEW c \in Callers, SpawnStep(c) PROVE leased \subseteq leased'
    BY <2>1, <2>2, <2>3 DEF SpawnStep, hostVars, taskVars, Call, ReserveNew, ReserveReplay,
       ReserveLocked, BindAgent, FindBinding, Prepare, Accept, SendRecovered, SendEnded, Lease,
       SendFails, Admit, AdmitFails, Start, Compensate, Discard, Inspect, MarkFailure
  <2>4. ASSUME NEW n \in Numbers, ChildStep(n) PROVE leased \subseteq leased'
    BY <2>1, <2>4 DEF ChildStep, hostVars, taskVars, Beat, ChildEnds, Cleanup, LeaseRunsOut,
       Reconcile
  <2> QED
    BY <2>3, <2>4 DEF SpawnNext, ChildStep, vars, hostVars, taskVars, List, MissionMoves,
       HostCrash
<1>2. LeaseBeforeChild'
  BY <1>1, ChildFrom DEF LeaseInv, LeaseBeforeChild, Attempts
<1>3. ASSUME NEW c \in Callers, SpawnStep(c), NEW d \in Callers, At(d, "admitting")'
      PROVE  call'[d].target \in leased'
  <2>1. CASE d = c
    <3>1. Lease(c)
      BY <1>3, <2>1, StageReached
    <3>2. call'[c].target = call[c].target
      BY <3>1 DEF Lease, Goto, SpawnTypeOK, CallRecord
    <3> QED
      BY <2>1, <3>1, <3>2 DEF Lease, TakeTask, taskVars
  <2>2. CASE d # c
    BY <1>1, <1>3, <2>2, OthersWait DEF LeaseInv, At
  <2> QED
    BY <2>1, <2>2
<1>4. CASE UNCHANGED call
  BY <1>1, <1>2, <1>4 DEF LeaseInv, At
<1>5. CASE HostCrash
  BY <1>2, <1>5 DEF LeaseInv, HostCrash, At, Idle
<1> QED
  BY <1>2, <1>3, <1>4, <1>5, CallsOutside
     DEF SpawnNext, ChildStep, vars, List, MissionMoves, LeaseInv

-----------------------------------------------------------------------------
(* What a step does to dispatches                                           *)

\* Call c marks attempt n.
MarksFor(c, n) ==
  /\ call[c].target = n
  /\ records'[n].receipt = records[n].receipt
  /\ DispatchStep(records[n].dispatch, records'[n].dispatch)
  /\ UNCHANGED <<child, bindings, taskVars>>
  /\ \/ At(c, "accepting") /\ records'[n].dispatch = "ACCEPTED" /\ Goto(c, "sending")
     \/ At(c, "starting") /\ records'[n].dispatch = "STARTED" /\ Return(c)
     \/ At(c, "compensating") /\ records'[n].dispatch = call[c].verdict
     \/ At(c, "marking") /\ records'[n].dispatch = call[c].verdict

SameDispatch(n) ==
  /\ records'[n].dispatch = records[n].dispatch
  /\ records'[n].receipt = records[n].receipt

SettledWithReceipt(n) ==
  records'[n].receipt # "none" /\ records'[n].dispatch \in DispatchEnded

\* Marking an attempt leaves all other attempts alone.
LEMMA MarkedDispatch ==
  ASSUME Inv, NEW m \in Numbers, NEW to, Mark(m, to), NEW n \in Numbers
  PROVE  IF n = m
         THEN /\ records'[n].dispatch = to /\ records'[n].receipt = records[n].receipt
              /\ DispatchStep(records[n].dispatch, to)
         ELSE records'[n] = records[n]
<1>1. records \in Seq(Record) /\ records[m] \in Record
  BY DEF Inv, TypeOK, Numbers
<1> QED
  BY <1>1 DEF Mark, Marked, CanMark, Record, Numbers

LEMMA SettledDispatch ==
  ASSUME Inv, NEW m \in Numbers, NEW outcome \in Ended, NEW receipt \in {"settlement", "expiry"},
         records' = [records EXCEPT ![m] = Settled(@, outcome, receipt)], NEW n \in Numbers
  PROVE  SameDispatch(n) \/ SettledWithReceipt(n)
<1>1. records \in Seq(Record) /\ records[m] \in Record
  BY DEF Inv, TypeOK, Numbers
<1>2. CASE n = m
  <2>1. records'[n] = Settled(records[m], outcome, receipt)
    BY <1>1, <1>2 DEF Numbers
  <2>2. /\ Settled(records[m], outcome, receipt).receipt = receipt
        /\ Settled(records[m], outcome, receipt).dispatch = DispatchFor(outcome)
    BY <1>1 DEF Settled, Record
  <2> QED
    BY <2>1, <2>2 DEF SettledWithReceipt, DispatchFor, DispatchEnded, Ended
<1>3. CASE n # m
  BY <1>3 DEF SameDispatch, Numbers
<1> QED
  BY <1>2, <1>3

\* A binding, a heartbeat and the passing of time leave dispatches alone.
LEMMA OtherDispatch ==
  ASSUME Inv, NEW m \in Numbers, Bind(m) \/ Heartbeat(m) \/ Expire(m), NEW n \in Numbers
  PROVE  SameDispatch(n)
<1>1. records \in Seq(Record) /\ records[m] \in Record
  BY DEF Inv, TypeOK, Numbers
<1>2. CASE n # m
  BY <1>2 DEF SameDispatch, Numbers, Bind, Heartbeat, Expire
<1>3. CASE n = m /\ Bind(m)
  BY <1>1, <1>3 DEF SameDispatch, Numbers, Bind, BoundTo, Record
<1>4. CASE n = m /\ Heartbeat(m)
  BY <1>1, <1>4 DEF SameDispatch, Numbers, Heartbeat, Beaten, Record
<1>5. CASE n = m /\ Expire(m)
  BY <1>1, <1>5 DEF SameDispatch, Numbers, Expire, Record
<1> QED
  BY <1>2, <1>3, <1>4, <1>5

LEMMA DispatchFrom ==
  ASSUME Inv, SpawnTypeOK, TargetsExist, [SpawnNext]_vars, NEW n \in Numbers'
  PROVE  \/ n \notin Numbers /\ records'[n].dispatch = "PENDING"
            /\ UNCHANGED hostVars
         \/ n \in Numbers /\ SameDispatch(n)
         \/ n \in Numbers /\ SettledWithReceipt(n)
         \/ n \in Numbers /\ \E c \in Callers : SpawnStep(c) /\ MarksFor(c, n)
<1>0. ASSUME UNCHANGED records PROVE n \in Numbers /\ SameDispatch(n)
  BY <1>0 DEF SameDispatch, Numbers
<1>1. ASSUME NEW c \in Callers, SpawnStep(c)
      PROVE  \/ n \notin Numbers /\ records'[n].dispatch = "PENDING" /\ UNCHANGED hostVars
             \/ n \in Numbers /\ SameDispatch(n)
             \/ n \in Numbers /\ MarksFor(c, n)
  <2>1. call[c] \in CallRecord
    BY DEF SpawnTypeOK
  <2>2. CASE ReserveNew(c)
    <3>1. call[c].key \in Keys /\ Reserve(call[c].key)
      BY <2>1, <2>2 DEF CallRecord, ReserveNew
    <3>2. Numbers' = Numbers \cup {Len(records) + 1}
          /\ records'[Len(records) + 1] = NewRecord(call[c].key)
      BY <3>1, ReserveInv
    <3>4. NewRecord(call[c].key).dispatch = "PENDING"
      BY DEF NewRecord
    <3>3. ASSUME n \in Numbers PROVE SameDispatch(n)
      BY <3>1, <3>3, ReserveInv DEF SameDispatch
    <3> QED
      BY <2>2, <3>2, <3>3, <3>4 DEF ReserveNew
  <2>3. ASSUME call[c].target \in Numbers, NEW to, Mark(call[c].target, to),
               UNCHANGED <<child, bindings, taskVars>>,
               \/ At(c, "accepting") /\ to = "ACCEPTED" /\ Goto(c, "sending")
               \/ At(c, "starting") /\ to = "STARTED" /\ Return(c)
               \/ At(c, "compensating") /\ to = call[c].verdict
               \/ At(c, "marking") /\ to = call[c].verdict
        PROVE  n \in Numbers /\ (SameDispatch(n) \/ MarksFor(c, n))
    <3>1. n \in Numbers
      BY <2>3 DEF Mark, Numbers
    <3> QED
      BY <2>3, <3>1, MarkedDispatch DEF MarksFor, SameDispatch
  <2>4. CASE Accept(c) \/ Start(c)
    <3>1. call[c].target \in Numbers
      BY <2>4 DEF Accept, Start, Startable, TargetsExist, At
    <3>2. CASE UNCHANGED ledgerVars
      BY <1>0, <3>2 DEF ledgerVars
    <3>3. CASE Accept(c) /\ Mark(call[c].target, "ACCEPTED")
      BY <2>3, <3>1, <3>2, <3>3 DEF Accept, hostVars
    <3>4. CASE Start(c) /\ Mark(call[c].target, "STARTED")
      BY <2>3, <3>1, <3>2, <3>4 DEF Start, Startable, At, hostVars
    <3> QED
      BY <2>4, <3>2, <3>3, <3>4 DEF Accept, Start
  <2>5. CASE Compensate(c) \/ MarkFailure(c)
    BY <1>0, <2>3, <2>5 DEF Compensate, MarkFailure, MarkQuietly, TargetsExist, At, hostVars,
       ledgerVars
  <2>6. CASE BindAgent(c)
    <3>1. CASE Bind(call[c].target)
      <4>1. call[c].target \in Numbers /\ n \in Numbers
        BY <2>6, <3>1 DEF BindAgent, Bind, Numbers, TargetsExist, At
      <4> QED
        BY <3>1, <4>1, OtherDispatch
    <3>2. CASE UNCHANGED ledgerVars
      BY <1>0, <3>2 DEF ledgerVars
    <3> QED
      BY <2>6, <3>1, <3>2 DEF BindAgent
  <2> QED
    BY <1>0, <1>1, <2>2, <2>4, <2>5, <2>6 DEF SpawnStep, ledgerVars, Call, ReserveReplay,
       ReserveLocked, FindBinding, Prepare, SendRecovered, SendEnded, Lease, SendFails, Admit,
       AdmitFails, Discard, Inspect
<1>2. ASSUME NEW m \in Numbers, ChildStep(m)
      PROVE  n \in Numbers /\ (SameDispatch(n) \/ SettledWithReceipt(n))
  <2>1. CASE Beat(m) \/ LeaseRunsOut(m)
    <3>1. n \in Numbers /\ (Heartbeat(m) \/ Expire(m))
      BY <2>1 DEF Beat, LeaseRunsOut, Heartbeat, Expire, Numbers
    <3> QED
      BY <3>1, OtherDispatch
  <2>2. CASE Cleanup(m)
    <3>1. ASSUME NEW outcome \in Ended, Settle(m, outcome)
          PROVE  n \in Numbers /\ (SameDispatch(n) \/ SettledWithReceipt(n))
      <4>1. n \in Numbers
        BY <3>1 DEF Settle, Numbers
      <4> QED
        BY <3>1, <4>1, SettledDispatch DEF Settle
    <3> QED
      BY <1>0, <2>2, <3>1, OutcomesAreEnds DEF Cleanup, ledgerVars, SameDispatch, Numbers
  <2>3. CASE Reconcile(m)
    <3>1. CASE CanSettle(records[m], "LOST")
      <4>1. /\ n \in Numbers /\ "LOST" \in Ended
            /\ records' = [records EXCEPT ![m] = Settled(@, "LOST", "expiry")]
        BY <2>3, <3>1 DEF Reconcile, SettleExpired, Numbers, Ended
      <4> QED
        BY <4>1, SettledDispatch
    <3>2. CASE ~CanSettle(records[m], "LOST")
      BY <2>3, <3>2 DEF Reconcile, SettleExpired, SameDispatch, Numbers
    <3> QED
      BY <3>1, <3>2
  <2>4. CASE ChildEnds(m)
    BY <2>4 DEF ChildEnds, ledgerVars, SameDispatch, Numbers
  <2> QED
    BY <1>2, <2>1, <2>2, <2>3, <2>4 DEF ChildStep
<1>3. CASE List \/ MissionMoves \/ HostCrash \/ UNCHANGED vars
  BY <1>0, <1>3 DEF List, ListExpired, MissionMoves, HostCrash, vars, ledgerVars
<1> QED
  BY <1>1, <1>2, <1>3 DEF SpawnNext, ChildStep

-----------------------------------------------------------------------------
(* A start receipt has its child                                            *)

LEMMA TargetStays ==
  ASSUME SpawnTypeOK, NEW c \in Callers, SpawnStep(c), call[c].at \notin {"idle", "keyed"},
         ~At(c, "idle")'
  PROVE  call'[c].target = call[c].target
<1>1. call \in [Callers -> CallRecord]
  BY DEF SpawnTypeOK
<1>2. \A stage : Goto(c, stage) => call'[c].target = call[c].target
  BY <1>1 DEF Goto, CallRecord
<1>3. \A outcome : Throw(c, outcome) => call'[c].target = call[c].target
  BY <1>1 DEF Throw, CallRecord
<1>4. ~Return(c)
  BY <1>1 DEF Return, Idle, At
<1>5. CASE Prepare(c)
  BY <1>1, <1>2, <1>5 DEF Prepare, CallRecord
<1>6. CASE Inspect(c)
  BY <1>1, <1>4, <1>6 DEF Inspect, CallRecord
<1>7. CASE Accept(c) \/ SendFails(c) \/ AdmitFails(c) \/ Start(c)
  BY <1>2, <1>3, <1>4, <1>7 DEF Accept, SendFails, AdmitFails, Start
<1>8. CASE BindAgent(c) \/ FindBinding(c) \/ Compensate(c) \/ Discard(c)
  BY <1>2, <1>8 DEF BindAgent, FindBinding, Compensate, Discard
<1>9. CASE SendRecovered(c) \/ SendEnded(c) \/ Lease(c) \/ Admit(c)
  BY <1>2, <1>9 DEF SendRecovered, SendEnded, Lease, Admit
<1> QED
  BY <1>4, <1>5, <1>6, <1>7, <1>8, <1>9 DEF SpawnStep, Call, ReserveNew, ReserveReplay,
     ReserveLocked, MarkFailure, At

LEMMA NextNumbersAreAttempts == Inv' => Numbers' \subseteq Attempts
<1>1. Inv => Numbers \subseteq Attempts
  BY NumbersAreAttempts
<1>2. Inv' => (Numbers \subseteq Attempts)'
  BY <1>1, PTL
<1> QED
  BY <1>2 DEF Attempts

\* What every proof about a step may use.
LEMMA StepBasics ==
  ASSUME CallersInv, [SpawnNext]_vars
  PROVE  /\ [Next]_ledgerVars /\ Inv' /\ SpawnTypeOK' /\ TargetsExist'
         /\ Numbers \subseteq Numbers' /\ Numbers' \subseteq Attempts
<1> USE DEF CallersInv
<1>1. [Next]_ledgerVars /\ Inv'
  BY EveryStepReachesLedger, InvNext
<1>2. Numbers \subseteq Numbers' /\ Numbers' \subseteq Attempts
  BY <1>1, AttemptsStay, NextNumbersAreAttempts
<1>3. HostTypes
  BY DEF SpawnTypeOK, HostTypes
<1>4. HostTypes'
  BY <1>2, <1>3, HostStepTypes
<1>5. call' \in [Callers -> CallRecord'] /\ TargetsExist'
  <2>1. CASE UNCHANGED call
    <3>1. CallRecord \subseteq CallRecord'
      BY <1>2 DEF CallRecord
    <3> QED
      BY <1>2, <2>1, <3>1 DEF SpawnTypeOK, TargetsExist
  <2>2. ASSUME NEW c \in Callers, SpawnStep(c)
        PROVE  call' \in [Callers -> CallRecord'] /\ TargetsExist'
    BY <1>2, <2>2, CallTypes
  <2>3. CASE HostCrash
    <3>1. Idle \in CallRecord' /\ Idle.at = "idle"
      BY KeysAreRevisions DEF Idle, CallRecord, Stages
    <3> QED
      BY <2>3, <3>1 DEF HostCrash, TargetsExist
  <2> QED
    BY <2>1, <2>2, <2>3, CallsOutside DEF SpawnNext, ChildStep, vars, List, MissionMoves
<1>6. TypeOK'
  BY <1>1 DEF Inv
<1> QED
  BY <1>1, <1>2, <1>4, <1>5, <1>6 DEF SpawnTypeOK, HostTypes, CallRecord

LEMMA StartStep ==
  ASSUME CallersInv, [SpawnNext]_vars
  PROVE  StartInv'
<1> USE DEF CallersInv
<1>1. Numbers \subseteq Attempts /\ Numbers' \subseteq Attempts
  BY StepBasics
<1>2. ASSUME NEW n \in Numbers', records'[n].dispatch = "STARTED"
      PROVE  child'[n] # "none"
  <2>1. CASE n \in Numbers /\ SameDispatch(n)
    BY <1>1, <1>2, <2>1, ChildFrom DEF SameDispatch, StartInv, StartProvesChild
  <2>2. CASE n \in Numbers /\ SettledWithReceipt(n)
    BY <1>2, <2>2 DEF SettledWithReceipt, DispatchEnded
  <2>3. ASSUME n \in Numbers, NEW c \in Callers, MarksFor(c, n)
        PROVE  child'[n] # "none"
    <3>1. call[c].verdict \in {"FAILED", "RECOVERY_REQUIRED"}
      BY DEF SpawnTypeOK, CallRecord
    <3>2. At(c, "starting") /\ call[c].target = n
      BY <1>2, <2>3, <3>1 DEF MarksFor
    <3> QED
      BY <1>1, <2>3, <3>2, ChildFrom DEF StartInv
  <2> QED
    BY <1>2, <2>1, <2>2, <2>3, DispatchFrom
<1>3. StartProvesChild'
  BY <1>2 DEF StartProvesChild
<1>4. ASSUME NEW c \in Callers, SpawnStep(c), NEW d \in Callers, At(d, "starting")'
      PROVE  child'[call'[d].target] # "none"
  <2>1. CASE d = c
    <3>1. SendRecovered(c) \/ Admit(c)
      BY <1>4, <2>1, StageReached
    <3>2. call[c].target \in Attempts /\ call'[c].target = call[c].target
      BY <1>1, <1>4, <2>1, <3>1, TargetStays DEF SendRecovered, Admit, At, TargetsExist
    <3>3. CASE SendRecovered(c)
      BY <2>1, <3>2, <3>3 DEF SendRecovered, hostVars
    <3>4. CASE Admit(c)
      BY <2>1, <3>2, <3>4 DEF Admit, SpawnTypeOK
    <3> QED
      BY <3>1, <3>3, <3>4
  <2>2. CASE d # c
    <3>1. call'[d] = call[d]
      BY <1>4, <2>2, OthersWait
    <3>2. call[d].target \in Attempts /\ child[call[d].target] # "none"
      BY <1>1, <1>4, <3>1 DEF At, StartInv, TargetsExist
    <3> QED
      BY <3>1, <3>2, ChildFrom
  <2> QED
    BY <2>1, <2>2
<1>5. CASE UNCHANGED call
  <2>1. ASSUME NEW d \in Callers, At(d, "starting")' PROVE child'[call'[d].target] # "none"
    <3>1. call[d].target \in Attempts /\ child[call[d].target] # "none"
      BY <1>1, <1>5, <2>1 DEF At, StartInv, TargetsExist
    <3> QED
      BY <1>5, <3>1, ChildFrom
  <2> QED
    BY <1>3, <2>1 DEF StartInv
<1>6. CASE HostCrash
  BY <1>3, <1>6 DEF StartInv, HostCrash, At, Idle
<1> QED
  BY <1>3, <1>4, <1>5, <1>6, CallsOutside
     DEF SpawnNext, ChildStep, vars, List, MissionMoves, StartInv

-----------------------------------------------------------------------------
(* Every behaviour of the callers                                           *)

LEMMA CallersInitially == SpawnInit => CallersInv
<1> SUFFICES ASSUME SpawnInit PROVE CallersInv
  OBVIOUS
<1> USE DEF SpawnInit, Init
<1>1. Inv
  BY DEF Inv, TypeOK, OnlyNewestAttemptLives, Numbers
<1>2. Idle \in CallRecord /\ Idle.at = "idle"
  BY KeysAreRevisions DEF Idle, CallRecord, Stages
<1>3. SpawnTypeOK
  BY <1>1, <1>2, KeysAreRevisions DEF Inv, SpawnTypeOK
<1>4. TargetsExist
  BY <1>2 DEF TargetsExist
<1>5. LeaseInv
  BY <1>2 DEF LeaseInv, LeaseBeforeChild, At
<1>6. StartInv
  BY <1>2 DEF StartInv, StartProvesChild, At, Numbers
<1> QED
  BY <1>1, <1>3, <1>4, <1>5, <1>6 DEF CallersInv

LEMMA CallersNext == CallersInv /\ [SpawnNext]_vars => CallersInv'
BY StepBasics, LeaseStep, StartStep DEF CallersInv

LEMMA CallersInvariance == SpawnSpec => []CallersInv
BY CallersInitially, CallersNext, PTL DEF SpawnSpec

\* However many spawn calls, children and crashes there are, the ledger they
\* share behaves as ExecutionLifecycle says: nothing proved of the ledger
\* alone is lost by what its callers do.
THEOREM LedgerIsKept == SpawnSpec => Spec
<1>1. SpawnInit => Init
  BY DEF SpawnInit
<1>2. CallersInv /\ [SpawnNext]_vars => [Next]_ledgerVars
  BY EveryStepReachesLedger DEF CallersInv
<1> QED
  BY <1>1, <1>2, CallersInvariance, PTL DEF SpawnSpec, Spec

\* The attempts follow one another also under their real callers.
THEOREM HistoryIsKept == SpawnSpec => KeepsAttemptHistory
BY LedgerIsKept, HistoryKept, PTL

\* The variables of the callers stay in their types.
THEOREM CallersTypeCorrectness == SpawnSpec => []SpawnTypeOK
<1>1. CallersInv => SpawnTypeOK
  BY DEF CallersInv
<1> QED
  BY <1>1, CallersInvariance, PTL

\* A child is admitted only under a committed lease, however many calls race
\* for the Task.
THEOREM LeaseComesFirst == SpawnSpec => []LeaseBeforeChild
<1>1. CallersInv => LeaseBeforeChild
  BY DEF CallersInv, LeaseInv
<1> QED
  BY <1>1, CallersInvariance, PTL

\* A start receipt is a proof that a child was established, however many calls
\* work on one attempt.
THEOREM StartReceiptHasChild == SpawnSpec => []StartProvesChild
<1>1. CallersInv => StartProvesChild
  BY DEF CallersInv, StartInv
<1> QED
  BY <1>1, CallersInvariance, PTL

-----------------------------------------------------------------------------
(* Calls that share a key                                                   *)

\* Nothing makes a shared key unshared.
LEMMA SharedStays ==
  ASSUME [SpawnNext]_vars
  PROVE  shared \subseteq shared'
<1>1. \A n : Release(n) => shared' = shared
  BY DEF Release, taskVars
<1>2. \A n : TakeTask(n) => shared' = shared
  BY DEF TakeTask, taskVars
<1>3. ASSUME NEW c \in Callers, SpawnStep(c) PROVE shared \subseteq shared'
  BY <1>1, <1>2, <1>3 DEF SpawnStep, hostVars, taskVars, Call, ReserveNew,
     ReserveReplay, ReserveLocked, BindAgent, FindBinding, Prepare, Accept, SendRecovered,
     SendEnded, Lease, SendFails, Admit, AdmitFails, Start, Compensate, Discard, Inspect,
     MarkFailure
<1>4. ASSUME NEW n \in Numbers, ChildStep(n) PROVE shared \subseteq shared'
  BY <1>1, <1>4 DEF ChildStep, hostVars, taskVars, Beat, ChildEnds, Cleanup, LeaseRunsOut,
     Reconcile
<1> QED
  BY <1>3, <1>4 DEF SpawnNext, ChildStep, vars, hostVars, taskVars, List, MissionMoves, HostCrash

\* An attempt that is unshared after a step was so before.
LEMMA UnsharedBefore ==
  ASSUME CallersInv, [SpawnNext]_vars, NEW n \in Numbers, Unshared(n)'
  PROVE  Unshared(n)
<1>1. records'[n].key = records[n].key
  BY StepBasics, KeysStay DEF CallersInv
<1> QED
  BY <1>1, SharedStays DEF Unshared

\* No two calls work on one attempt, if its key is unshared.
LEMMA OnlyCall ==
  ASSUME KeyInv, NEW c \in Callers, NEW d \in Callers, Working(c), Working(d),
         call[c].target = call[d].target, Unshared(call[c].target)
  PROVE  c = d
BY DEF KeyInv, Working, Unshared, At

\* A call keeps its key until it returns.
LEMMA KeyStays ==
  ASSUME SpawnTypeOK, NEW c \in Callers, SpawnStep(c), ~Call(c), ~At(c, "idle")'
  PROVE  call'[c].key = call[c].key /\ ~At(c, "idle")
<1>1. call \in [Callers -> CallRecord]
  BY DEF SpawnTypeOK
<1>2. \A stage : Goto(c, stage) => call'[c].key = call[c].key
  BY <1>1 DEF Goto, CallRecord
<1>3. \A outcome : Throw(c, outcome) => call'[c].key = call[c].key
  BY <1>1 DEF Throw, CallRecord
<1>4. ~Return(c)
  BY <1>1 DEF Return, Idle, At
<1>5. CASE Prepare(c)
  BY <1>1, <1>2, <1>5 DEF Prepare, CallRecord, At
<1>6. CASE Inspect(c)
  BY <1>1, <1>4, <1>6 DEF Inspect, CallRecord, At
<1>7. CASE Accept(c) \/ SendFails(c) \/ AdmitFails(c) \/ Start(c)
  BY <1>2, <1>3, <1>4, <1>7 DEF Accept, SendFails, AdmitFails, Start, Startable, At
<1>8. CASE BindAgent(c) \/ FindBinding(c) \/ Compensate(c) \/ Discard(c)
  BY <1>2, <1>8 DEF BindAgent, FindBinding, Compensate, Discard, At
<1>9. CASE SendRecovered(c) \/ SendEnded(c) \/ Lease(c) \/ Admit(c)
  BY <1>2, <1>9 DEF SendRecovered, SendEnded, Lease, Admit, At
<1>10. CASE ReserveNew(c)
  BY <1>1, <1>10 DEF ReserveNew, CallRecord, At
<1>11. CASE ReserveReplay(c)
  BY <1>1, <1>11 DEF ReserveReplay, CallRecord, At
<1> QED
  BY <1>4, <1>5, <1>6, <1>7, <1>8, <1>9, <1>10, <1>11
     DEF SpawnStep, ReserveLocked, MarkFailure

\* A call works on the attempt of its key.
LEMMA TargetsHaveKeys ==
  ASSUME CallersInv, KeyInv, NEW c \in Callers, SpawnStep(c), Working(c)'
  PROVE  records'[call'[c].target].key = call'[c].key
<1> USE DEF CallersInv
<1>1. call \in [Callers -> CallRecord]
  BY DEF SpawnTypeOK
<1>2. CASE Working(c)
  <2>1. call'[c].target = call[c].target /\ call'[c].key = call[c].key
    <3>1. ~Call(c) /\ ~At(c, "idle")'
      BY <1>2 DEF Call, Working, At
    <3> QED
      BY <1>2, <3>1, TargetStays, KeyStays DEF Working
  <2>2. call[c].target \in Numbers
    BY <1>2 DEF TargetsExist, Working
  <2>3. [Next]_ledgerVars
    BY CallsReachLedger
  <2> QED
    BY <1>2, <2>1, <2>2, <2>3, KeysStay DEF KeyInv
<1>3. CASE ReserveNew(c)
  <2>1. call[c].key \in Keys /\ Reserve(call[c].key)
    BY <1>1, <1>3 DEF ReserveNew, CallRecord
  <2>2. records'[Len(records) + 1] = NewRecord(call[c].key)
    BY <2>1, ReserveInv
  <2>3. call'[c].target = Len(records) + 1 /\ call'[c].key = call[c].key
    BY <1>1, <1>3 DEF ReserveNew, CallRecord
  <2>4. NewRecord(call[c].key).key = call[c].key
    BY DEF NewRecord
  <2> QED
    BY <2>2, <2>3, <2>4
<1>4. CASE ReserveReplay(c)
  <2>1. PICK n \in Exact(call[c].key) :
          call' = [call EXCEPT ![c] = [@ EXCEPT !.at = "reserved", !.target = n,
                                                !.recovered = TRUE]]
    BY <1>4 DEF ReserveReplay
  <2>2. call'[c].target = n /\ call'[c].key = call[c].key
    BY <1>1, <2>1 DEF CallRecord
  <2> QED
    BY <1>4, <2>1, <2>2 DEF Exact, ReserveReplay, ledgerVars
<1>5. CASE Call(c) \/ ReserveLocked(c)
  <2>1. Call(c) => call'[c].at = "keyed"
    BY <1>1 DEF Call, Idle
  <2>2. ReserveLocked(c) => call'[c].at = "idle"
    BY <1>1 DEF ReserveLocked, Return, Idle
  <2> QED
    BY <1>5, <2>1, <2>2 DEF Working
<1> QED
  BY <1>2, <1>3, <1>4, <1>5 DEF SpawnStep, Working, At, BindAgent, FindBinding, Prepare, Accept,
     SendRecovered, SendEnded, Lease, SendFails, Admit, AdmitFails, Start, Startable, Compensate,
     Discard, Inspect, MarkFailure

\* A call that begins while one with its key is under way is noted.
LEMMA KeysAreKept ==
  ASSUME CallersInv, KeyInv, [SpawnNext]_vars
  PROVE  KeyInv'
<1> USE DEF CallersInv
<1>1. \A d \in Callers : Working(d) => records'[call[d].target].key = records[call[d].target].key
  BY StepBasics, KeysStay DEF TargetsExist, Working
<1>2. CASE UNCHANGED call
  BY <1>1, <1>2, SharedStays DEF KeyInv, Working, At
<1>3. CASE HostCrash
  BY <1>3 DEF KeyInv, HostCrash, Working, At, Idle
<1>4. ASSUME NEW c \in Callers, SpawnStep(c) PROVE KeyInv'
  <2>1. ASSUME NEW d \in Callers, Working(d)'
        PROVE  records'[call'[d].target].key = call'[d].key
    <3>1. CASE d = c
      BY <1>4, <2>1, <3>1, TargetsHaveKeys
    <3>2. CASE d # c
      <4>1. call'[d] = call[d]
        BY <1>4, <3>2, OthersWait
      <4> QED
        BY <1>1, <2>1, <4>1 DEF KeyInv, Working
    <3> QED
      BY <3>1, <3>2
  <2>2. ASSUME NEW d \in Callers, d # c, ~At(c, "idle")', ~At(d, "idle")',
               call'[c].key = call'[d].key
        PROVE  call'[c].key \in shared'
    <3>1. call'[d] = call[d]
      BY <1>4, <2>2, OthersWait
    <3>2. CASE Call(c)
      <4>1. call'[c].key = revision
        BY <3>2 DEF Call, SpawnTypeOK, Idle
      <4>2. InFlight(revision, c)
        BY <2>2, <3>1, <4>1 DEF InFlight, At
      <4> QED
        BY <3>2, <4>1, <4>2 DEF Call
    <3>3. CASE ~Call(c)
      <4>1. call'[c].key = call[c].key /\ ~At(c, "idle")
        BY <1>4, <2>2, <3>3, KeyStays
      <4> QED
        BY <2>2, <3>1, <4>1, SharedStays DEF KeyInv, At
    <3> QED
      BY <3>2, <3>3
  <2>3. ASSUME NEW d \in Callers, NEW e \in Callers, d # c, e # c, d # e,
               ~At(d, "idle")', ~At(e, "idle")', call'[d].key = call'[e].key
        PROVE  call'[d].key \in shared'
    <3>1. call'[d] = call[d] /\ call'[e] = call[e]
      BY <1>4, <2>3, OthersWait
    <3> QED
      BY <2>3, <3>1, SharedStays DEF KeyInv, At
  <2> QED
    BY <2>1, <2>2, <2>3 DEF KeyInv
<1> QED
  BY <1>2, <1>3, <1>4, CallsOutside DEF SpawnNext, ChildStep, vars, List, MissionMoves

-----------------------------------------------------------------------------
(* Attempts whose calls came one after the other                            *)

\* A binding is made in a preparation and discarded only by its maker.
LEMMA BindingsFrom ==
  ASSUME [SpawnNext]_vars
  PROVE  \A n \in bindings \ bindings' :
           \E c \in Callers : Discard(c) /\ At(c, "discarding") /\ call[c].target = n
<1>1. ASSUME NEW c \in Callers, SpawnStep(c) PROVE bindings \subseteq bindings' \/ Discard(c)
  BY <1>1 DEF SpawnStep, hostVars, Call, ReserveNew, ReserveReplay, ReserveLocked, BindAgent,
     FindBinding, Prepare, Accept, SendRecovered, SendEnded, Lease, SendFails, Admit, AdmitFails,
     Start, Compensate, Inspect, MarkFailure
<1>2. ASSUME NEW m \in Numbers, ChildStep(m) PROVE bindings' = bindings
  BY <1>2 DEF ChildStep, hostVars, Beat, ChildEnds, Cleanup, LeaseRunsOut, Reconcile
<1>3. CASE List \/ MissionMoves \/ HostCrash \/ UNCHANGED vars
  BY <1>3 DEF List, MissionMoves, HostCrash, vars, hostVars
<1>4. \A c \in Callers : Discard(c) =>
        At(c, "discarding") /\ bindings \ bindings' \subseteq {call[c].target}
  BY DEF Discard
<1> QED
  BY <1>1, <1>2, <1>3, <1>4 DEF SpawnNext, ChildStep

\* Only the preparation of an attempt gives it a binding.
LEMMA BindingsMade ==
  ASSUME [SpawnNext]_vars
  PROVE  \A n \in bindings' \ bindings :
           \E c \in Callers : Prepare(c) /\ At(c, "preparing") /\ call[c].target = n
<1>1. ASSUME NEW c \in Callers, SpawnStep(c) PROVE bindings' \subseteq bindings \/ Prepare(c)
  BY <1>1 DEF SpawnStep, hostVars, Call, ReserveNew, ReserveReplay, ReserveLocked, BindAgent,
     FindBinding, Accept, SendRecovered, SendEnded, Lease, SendFails, Admit, AdmitFails,
     Start, Compensate, Discard, Inspect, MarkFailure
<1>2. ASSUME NEW m \in Numbers, ChildStep(m) PROVE bindings' = bindings
  BY <1>2 DEF ChildStep, hostVars, Beat, ChildEnds, Cleanup, LeaseRunsOut, Reconcile
<1>3. CASE List \/ MissionMoves \/ HostCrash \/ UNCHANGED vars
  BY <1>3 DEF List, MissionMoves, HostCrash, vars, hostVars
<1>4. \A c \in Callers : Prepare(c) =>
        At(c, "preparing") /\ bindings' \ bindings \subseteq {call[c].target}
  BY DEF Prepare
<1> QED
  BY <1>1, <1>2, <1>3, <1>4 DEF SpawnNext, ChildStep

\* A child is admitted by the call that was accepted for it.
LEMMA ChildrenStayBound ==
  ASSUME CallersInv, UnsharedInv, [SpawnNext]_vars
  PROVE  ChildrenAreBound'
<1> SUFFICES ASSUME NEW n \in Attempts, child'[n] # "none"
             PROVE  /\ n \in Numbers'
                    /\ Unshared(n)' => n \in bindings' /\ records'[n].dispatch # "PENDING"
  BY DEF ChildrenAreBound, Attempts
<1>1. Numbers \subseteq Numbers'
  BY StepBasics
<1>2. CASE child[n] # "none"
  <2>1. n \in Numbers /\ n \in Numbers'
    BY <1>1, <1>2 DEF UnsharedInv, ChildrenAreBound
  <2>2. ASSUME Unshared(n)' PROVE n \in bindings' /\ records'[n].dispatch # "PENDING"
    <3>1. Unshared(n)
      BY <2>1, <2>2, UnsharedBefore
    <3>2. n \in bindings /\ records[n].dispatch # "PENDING"
      BY <1>2, <3>1 DEF UnsharedInv, ChildrenAreBound
    <3>3. n \in bindings'
      BY <1>2, <3>1, <3>2, BindingsFrom
         DEF UnsharedInv, FailuresAreChildless, Knowing, FailsTheChildless
    <3>4. \A c : MarksFor(c, n) => records'[n].dispatch # "PENDING"
      BY DEF MarksFor, DispatchStep
    <3> QED
      BY <2>1, <3>2, <3>3, <3>4, DispatchFrom
         DEF CallersInv, SameDispatch, SettledWithReceipt, DispatchEnded
  <2> QED
    BY <2>1, <2>2
<1>3. CASE child[n] = "none"
  <2>1. PICK c \in Callers : At(c, "admitting") /\ call[c].target = n
                            /\ (Admit(c) \/ AdmitFails(c))
    BY <1>3, ChildFrom DEF CallersInv
  <2>2. n \in Numbers /\ n \in Numbers'
    BY <1>1, <2>1 DEF CallersInv, TargetsExist, At
  <2>3. ASSUME Unshared(n)' PROVE n \in bindings /\ records[n].dispatch # "PENDING"
    <3>1. Unshared(n)
      BY <2>2, <2>3, UnsharedBefore
    <3> QED
      BY <2>1, <3>1 DEF UnsharedInv, AskedIsAccepted, Asks, Asking, Accepted, At
  <2> QED
    BY <2>1, <2>2, <2>3 DEF Admit, AdmitFails, ledgerVars
<1> QED
  BY <1>2, <1>3

\* The child of an attempt cannot come up behind the back of its only call.
LEMMA StaysChildless ==
  ASSUME CallersInv, KeyInv, [SpawnNext]_vars, NEW c \in Callers, Working(c),
         ~At(c, "admitting"), Unshared(call[c].target), child[call[c].target] = "none"
  PROVE  child'[call[c].target] = "none"
<1> SUFFICES ASSUME child'[call[c].target] # "none" PROVE FALSE
  OBVIOUS
<1>1. call[c].target \in Attempts
  BY NumbersAreAttempts DEF CallersInv, TargetsExist, Working
<1>2. PICK d \in Callers : At(d, "admitting") /\ call[d].target = call[c].target
  BY <1>1, ChildFrom DEF CallersInv
<1>3. c = d
  BY <1>2, OnlyCall DEF Working, At
<1> QED
  BY <1>2, <1>3

LEMMA CallForms ==
  ASSUME SpawnTypeOK, NEW c \in Callers
  PROVE  /\ \A stage : Goto(c, stage) =>
              /\ call'[c].at = stage
              /\ call'[c].ours = call[c].ours
              /\ call'[c].verdict = call[c].verdict
         /\ \A outcome : Throw(c, outcome) =>
              /\ call'[c].at = IF call[c].ours THEN "compensating" ELSE "failing"
              /\ call'[c].verdict = outcome
         /\ Return(c) => call'[c].at = "idle" /\ ~call'[c].ours
         /\ Prepare(c) => call'[c].at \in {"accepting", "compensating", "failing"}
         /\ Inspect(c) => \/ call'[c].at = "idle" /\ ~call'[c].ours
                          \/ /\ call'[c].at = "marking"
                             /\ call'[c].verdict = "FAILED" => Dispatch(c) = "PENDING"
<1>1. call \in [Callers -> CallRecord]
  BY DEF SpawnTypeOK
<1>2. ASSUME NEW stage, Goto(c, stage)
      PROVE  /\ call'[c].at = stage
             /\ call'[c].ours = call[c].ours
             /\ call'[c].verdict = call[c].verdict
  BY <1>1, <1>2 DEF Goto, CallRecord
<1>3. ASSUME NEW outcome, Throw(c, outcome)
      PROVE  /\ call'[c].at = IF call[c].ours THEN "compensating" ELSE "failing"
             /\ call'[c].verdict = outcome
  BY <1>1, <1>3 DEF Throw, CallRecord
<1>4. Return(c) => call'[c].at = "idle" /\ ~call'[c].ours
  BY <1>1 DEF Return, Idle
<1>5. ASSUME Prepare(c) PROVE call'[c].at \in {"accepting", "compensating", "failing"}
  <2>1. CASE call' = [call EXCEPT ![c] = [@ EXCEPT !.at = "accepting", !.ours = TRUE]]
    BY <1>1, <2>1 DEF CallRecord
  <2> QED
    BY <1>2, <1>5, <2>1 DEF Prepare
<1>6. ASSUME Inspect(c)
      PROVE  \/ call'[c].at = "idle" /\ ~call'[c].ours
             \/ /\ call'[c].at = "marking"
                /\ call'[c].verdict = "FAILED" => Dispatch(c) = "PENDING"
  <2>1. PICK v : v = IF Dispatch(c) = "PENDING" THEN "FAILED" ELSE "RECOVERY_REQUIRED"
    OBVIOUS
  <2>2. CASE call' = [call EXCEPT ![c] = [@ EXCEPT !.at = "marking", !.verdict = v]]
    <3>1. call'[c].at = "marking" /\ call'[c].verdict = v
      BY <1>1, <2>2 DEF CallRecord
    <3> QED
      BY <2>1, <3>1
  <2> QED
    BY <1>4, <1>6, <2>1, <2>2 DEF Inspect
<1> QED
  BY <1>2, <1>3, <1>4, <1>5, <1>6


\* What a call that goes on knows of its attempt.
LEMMA MoverKnows ==
  ASSUME CallersInv, UnsharedInv, [SpawnNext]_vars, NEW c \in Callers, SpawnStep(c)
  PROVE  Knowing(c)'
<1> USE DEF CallersInv
<1> SUFFICES ASSUME Unshared(call[c].target)',
                    FailsTheChildless(c)' \/ At(c, "preparing")'
             PROVE  /\ FailsTheChildless(c)' => child'[call'[c].target] = "none"
                    /\ At(c, "preparing")' => call'[c].target \notin bindings'
  BY DEF Knowing
<1>1. Numbers \subseteq Attempts /\ call \in [Callers -> CallRecord]
  BY NumbersAreAttempts DEF SpawnTypeOK
<1>2. /\ call'[c].target = call[c].target
      /\ call[c].target \in Numbers
      /\ Working(c)
  <2>1. \/ FindBinding(c) \/ Prepare(c) \/ Accept(c) \/ SendFails(c) \/ AdmitFails(c)
        \/ Start(c) \/ Compensate(c) \/ Inspect(c)
    BY StageReached DEF FailsTheChildless
  <2>2. Working(c)
    BY <2>1 DEF FindBinding, Prepare, Accept, SendFails, AdmitFails, Start, Startable, Compensate,
       Inspect, Working, At
  <2> QED
    BY <2>2, TargetStays DEF TargetsExist, Working, FailsTheChildless, At
<1>3. Unshared(call[c].target)
  BY <1>2, UnsharedBefore DEF Unshared
<1>4. Knowing(c)
  BY DEF UnsharedInv, FailuresAreChildless
<1>5. ASSUME At(c, "preparing") PROVE child[call[c].target] = "none"
  BY <1>1, <1>2, <1>3, <1>4, <1>5 DEF Knowing, UnsharedInv, ChildrenAreBound
<1>6. ASSUME At(c, "accepting")', call'[c].ours PROVE child'[call'[c].target] = "none"
  <2>1. CASE FindBinding(c)
    BY <1>1, <1>6, <2>1 DEF FindBinding, Goto, At, UnsharedInv, FailuresAreChildless, Early,
       CallRecord
  <2>2. CASE Prepare(c)
    BY <1>2, <1>5, <2>2 DEF Prepare
  <2> QED
    BY <1>6, <2>1, <2>2, StageReached
<1>7. ASSUME At(c, "compensating")', call'[c].verdict = "FAILED"
      PROVE  child'[call'[c].target] = "none"
  <2>1. CASE Prepare(c)
    BY <1>2, <1>5, <2>1 DEF Prepare
  <2>2. CASE Accept(c)
    <3>1. call[c].ours /\ At(c, "accepting") /\ UNCHANGED child
      BY <1>7, <2>2, CallForms DEF Accept, At, hostVars
    <3> QED
      BY <1>2, <1>3, <1>4, <3>1 DEF Knowing, FailsTheChildless
  <2>3. CASE SendFails(c) \/ AdmitFails(c)
    BY <1>7, <2>3, CallForms DEF SendFails, AdmitFails
  <2>4. CASE Start(c)
    BY <1>7, <2>4, CallForms DEF Start, At
  <2> QED
    BY <1>7, <2>1, <2>2, <2>3, <2>4, StageReached
<1>8. ASSUME At(c, "marking")', call'[c].verdict = "FAILED"
      PROVE  child'[call'[c].target] = "none"
  <2>1. Inspect(c)
    BY <1>8, StageReached
  <2>2. records[call[c].target].dispatch = "PENDING"
    BY <1>8, <2>1, CallForms DEF At, Dispatch
  <2>3. child[call[c].target] = "none"
    BY <1>1, <1>2, <1>3, <2>2 DEF UnsharedInv, ChildrenAreBound
  <2> QED
    BY <1>2, <2>1, <2>3 DEF Inspect, hostVars
<1>9. ASSUME At(c, "discarding")' PROVE child'[call'[c].target] = "none"
  <2>1. Compensate(c)
    BY <1>9, StageReached
  <2>2. call[c].verdict = "FAILED"
    BY <1>1, <1>9, <2>1 DEF Compensate, Goto, At, CallRecord
  <2> QED
    BY <1>2, <1>3, <1>4, <2>1, <2>2 DEF Compensate, hostVars, Knowing, FailsTheChildless
<1>10. ASSUME At(c, "preparing")' PROVE call'[c].target \notin bindings'
  <2>1. FindBinding(c)
    BY <1>10, StageReached
  <2> QED
    BY <1>1, <1>10, <2>1 DEF FindBinding, Goto, At, CallRecord, hostVars
<1> QED
  BY <1>6, <1>7, <1>8, <1>9, <1>10 DEF FailsTheChildless

\* Only a preparation makes a binding the call's own.
LEMMA EarlyIsNotOurs ==
  ASSUME CallersInv, FailuresAreChildless, NEW c \in Callers, SpawnStep(c), call'[c].at \in Early
  PROVE  ~call'[c].ours
<1> USE DEF CallersInv, Early
<1>1. call \in [Callers -> CallRecord]
  BY DEF SpawnTypeOK
<1>2. CASE Return(c)
  BY <1>1, <1>2 DEF Return, Idle
<1>3. CASE Call(c) \/ ReserveNew(c) \/ ReserveReplay(c)
  <2>1. ~call[c].ours
    BY <1>3 DEF Call, ReserveNew, ReserveReplay, At, FailuresAreChildless
  <2>2. CASE Call(c)
    BY <1>1, <2>2 DEF Call, Idle
  <2>3. CASE ReserveNew(c)
    BY <1>1, <2>1, <2>3 DEF ReserveNew, CallRecord
  <2>4. CASE ReserveReplay(c)
    BY <1>1, <2>1, <2>4 DEF ReserveReplay, CallRecord
  <2> QED
    BY <1>3, <2>2, <2>3, <2>4
<1>4. CASE BindAgent(c) \/ FindBinding(c)
  <2>1. ~call[c].ours
    BY <1>4 DEF BindAgent, FindBinding, At, FailuresAreChildless
  <2>2. \A stage : Goto(c, stage) => call'[c].ours = call[c].ours
    BY <1>1 DEF Goto, CallRecord
  <2> QED
    BY <1>4, <2>1, <2>2 DEF BindAgent, FindBinding
<1>5. \A stage : Goto(c, stage) => call'[c].at = stage
  BY <1>1 DEF Goto, CallRecord
<1>6. \A outcome : Throw(c, outcome) => call'[c].at \in {"compensating", "failing"}
  BY <1>1 DEF Throw, CallRecord
<1>7. CASE Prepare(c) \/ Inspect(c)
  BY <1>7, CallForms
<1>8. CASE Accept(c) \/ SendFails(c) \/ AdmitFails(c) \/ Start(c)
  BY <1>2, <1>5, <1>6, <1>8 DEF Accept, SendFails, AdmitFails, Start
<1>9. CASE Compensate(c) \/ Discard(c) \/ SendRecovered(c) \/ SendEnded(c)
  BY <1>5, <1>9 DEF Compensate, Discard, SendRecovered, SendEnded
<1>10. CASE Lease(c) \/ Admit(c)
  BY <1>5, <1>10 DEF Lease, Admit
<1> QED
  BY <1>2, <1>3, <1>4, <1>7, <1>8, <1>9, <1>10 DEF SpawnStep, ReserveLocked, MarkFailure

\* A call that waits still knows what it knew.
LEMMA WaiterKnows ==
  ASSUME CallersInv, UnsharedInv, [SpawnNext]_vars, NEW d \in Callers, call'[d] = call[d]
  PROVE  Knowing(d)'
<1> USE DEF CallersInv
<1> SUFFICES ASSUME Unshared(call[d].target)', FailsTheChildless(d) \/ At(d, "preparing")
             PROVE  /\ FailsTheChildless(d) => child'[call[d].target] = "none"
                    /\ At(d, "preparing") => call[d].target \notin bindings'
  BY DEF Knowing, FailsTheChildless, At, Unshared
<1>1. Working(d) /\ ~At(d, "admitting") /\ call[d].target \in Numbers
  BY DEF FailsTheChildless, Working, At, TargetsExist
<1>2. Unshared(call[d].target)
  BY <1>1, UnsharedBefore DEF Unshared
<1>3. Knowing(d) /\ KeyInv
  BY DEF UnsharedInv, FailuresAreChildless
<1>4. FailsTheChildless(d) => child'[call[d].target] = "none"
  BY <1>1, <1>2, <1>3, StaysChildless DEF Knowing
<1>5. ASSUME At(d, "preparing"), call[d].target \in bindings' PROVE FALSE
  <2>1. call[d].target \notin bindings
    BY <1>2, <1>3, <1>5 DEF Knowing
  <2>2. PICK c \in Callers : Prepare(c) /\ At(c, "preparing") /\ call[c].target = call[d].target
    BY <1>5, <2>1, BindingsMade
  <2>3. c = d
    BY <1>1, <1>2, <1>3, <2>2, OnlyCall DEF Working, At
  <2>4. call'[d].at # "preparing"
    BY <2>2, <2>3, CallForms
  <2> QED
    BY <1>5, <2>4 DEF At
<1> QED
  BY <1>4, <1>5

LEMMA FailuresStayChildless ==
  ASSUME CallersInv, UnsharedInv, [SpawnNext]_vars
  PROVE  FailuresAreChildless'
<1>1. FailuresAreChildless /\ SpawnTypeOK
  BY DEF UnsharedInv, CallersInv
<1>2. ASSUME NEW c \in Callers, SpawnStep(c) PROVE FailuresAreChildless'
  <2>1. Knowing(c)' /\ (call'[c].at \in Early => ~call'[c].ours)
    BY <1>1, <1>2, MoverKnows, EarlyIsNotOurs
  <2>2. ASSUME NEW d \in Callers, d # c
        PROVE  Knowing(d)' /\ (call'[d].at \in Early => ~call'[d].ours)
    <3>1. call'[d] = call[d]
      BY <1>1, <1>2, <2>2, OthersWait
    <3>2. Knowing(d)'
      BY <1>2, <3>1, WaiterKnows DEF SpawnNext
    <3> QED
      BY <1>1, <3>1, <3>2 DEF FailuresAreChildless
  <2> QED
    BY <2>1, <2>2 DEF FailuresAreChildless
<1>3. CASE UNCHANGED call
  <2>1. \A d \in Callers : Knowing(d)'
    BY <1>3, WaiterKnows
  <2> QED
    BY <1>1, <1>3, <2>1 DEF FailuresAreChildless
<1>4. CASE HostCrash
  BY <1>4 DEF FailuresAreChildless, Knowing, FailsTheChildless, HostCrash, At, Idle
<1> QED
  BY <1>2, <1>3, <1>4, CallsOutside DEF SpawnNext, ChildStep, vars, List, MissionMoves

\* The only call of an attempt keeps the binding it works under ...
LEMMA BindingStays ==
  ASSUME CallersInv, UnsharedInv, [SpawnNext]_vars, NEW d \in Callers, Working(d),
         ~At(d, "discarding"), Unshared(call[d].target), call[d].target \in bindings
  PROVE  call[d].target \in bindings'
<1> SUFFICES ASSUME call[d].target \notin bindings' PROVE FALSE
  OBVIOUS
<1>1. PICK c \in Callers : At(c, "discarding") /\ call[c].target = call[d].target
  BY BindingsFrom
<1>2. c = d
  BY <1>1, OnlyCall DEF Working, At, UnsharedInv
<1> QED
  BY <1>1, <1>2

\* ... and a dispatch that was accepted for it stays so until that call gives up.
LEMMA AcceptedStays ==
  ASSUME CallersInv, UnsharedInv, [SpawnNext]_vars, NEW d \in Callers, Working(d),
         call[d].at \notin {"compensating", "marking"}, Unshared(call[d].target),
         Accepted(records[call[d].target])
  PROVE  Accepted(records'[call[d].target])
<1> DEFINE n == call[d].target
<1>1. n \in Numbers /\ n \in Numbers'
  BY StepBasics DEF CallersInv, TargetsExist, Working
<1>2. CASE SameDispatch(n)
  BY <1>2 DEF SameDispatch, Accepted
<1>3. CASE SettledWithReceipt(n)
  BY <1>3 DEF SettledWithReceipt, Accepted, DispatchEnded
<1>4. ASSUME NEW c \in Callers, MarksFor(c, n) PROVE Accepted(records'[n])
  <2>1. Working(c) /\ call[c].target = n
    BY <1>4 DEF MarksFor, Working, At
  <2>2. c = d
    BY <2>1, OnlyCall DEF UnsharedInv
  <2> QED
    BY <1>4, <2>2 DEF MarksFor, At, Accepted
<1> QED
  BY <1>1, <1>2, <1>3, <1>4, DispatchFrom DEF CallersInv

\* A call asks the transport under its binding and with an accepted dispatch.
LEMMA MoverAsks ==
  ASSUME CallersInv, UnsharedInv, [SpawnNext]_vars, NEW c \in Callers, SpawnStep(c)
  PROVE  Asks(c)'
<1> USE DEF CallersInv
<1> SUFFICES ASSUME Unshared(call[c].target)', call'[c].at \in Asking
             PROVE  /\ call'[c].target \in bindings'
                    /\ call'[c].at \in Asking \ {"accepting"} => Accepted(records'[call'[c].target])
  BY DEF Asks, Asking
<1>1. \/ FindBinding(c)
      \/ Prepare(c)
      \/ Accept(c) /\ At(c, "sending")'
      \/ /\ call[c].at \in {"sending", "admitting"}
         /\ call'[c].at \in {"converging", "admitting", "starting"}
  BY StageReached DEF Asking, At, SendEnded, Lease, SendRecovered, Admit
<1>2. Working(c) /\ call[c].target \in Numbers /\ call'[c].target = call[c].target
  <2>1. Working(c)
    BY <1>1 DEF FindBinding, Prepare, Accept, Working, At
  <2> QED
    BY <2>1, TargetStays DEF TargetsExist, Working, Asking, At
<1>3. Unshared(call[c].target)
  BY <1>2, UnsharedBefore DEF Unshared
<1>4. Asks(c)
  BY DEF UnsharedInv, AskedIsAccepted
<1>5. CASE FindBinding(c)
  <2>1. call'[c].at = IF call[c].target \in bindings THEN "accepting" ELSE "preparing"
    BY <1>5, CallForms DEF FindBinding
  <2> QED
    BY <1>2, <1>5, <2>1 DEF FindBinding, hostVars, Asking
<1>6. CASE Prepare(c)
  <2>1. At(c, "accepting")'
    BY <1>6, CallForms DEF Asking, At
  <2>2. ~Goto(c, "compensating") /\ ~Goto(c, "failing")
    BY <2>1, CallForms DEF At
  <2> QED
    BY <1>2, <1>6, <2>1, <2>2 DEF Prepare, At
<1>7. CASE Accept(c) /\ At(c, "sending")'
  <2>1. call[c].target \in bindings /\ bindings' = bindings
    BY <1>3, <1>4, <1>7 DEF Accept, At, hostVars, Asks, Asking
  <2>2. CASE Mark(call[c].target, "ACCEPTED")
    BY <1>2, <2>1, <2>2, MarkedDispatch DEF Accepted
  <2>3. CASE Dispatch(c) = "ACCEPTED" /\ UNCHANGED ledgerVars
    BY <1>2, <2>1, <2>3 DEF Dispatch, Accepted, ledgerVars
  <2> QED
    BY <1>7, <2>2, <2>3, CallForms DEF Accept, At
<1>8. CASE /\ call[c].at \in {"sending", "admitting"}
           /\ call'[c].at \in {"converging", "admitting", "starting"}
  <2>1. call[c].target \in bindings /\ Accepted(records[call[c].target])
    BY <1>3, <1>4, <1>8 DEF Asks, Asking
  <2>2. call[c].target \in bindings'
    BY <1>2, <1>3, <1>8, <2>1, BindingStays DEF At
  <2>3. Accepted(records'[call[c].target])
    BY <1>2, <1>3, <1>8, <2>1, AcceptedStays
  <2> QED
    BY <1>2, <2>2, <2>3
<1> QED
  BY <1>1, <1>5, <1>6, <1>7, <1>8

\* A call that waits for its turn loses nothing it needs.
LEMMA WaiterAsks ==
  ASSUME CallersInv, UnsharedInv, [SpawnNext]_vars, NEW d \in Callers, call'[d] = call[d]
  PROVE  Asks(d)'
<1> SUFFICES ASSUME Unshared(call[d].target)', call[d].at \in Asking
             PROVE  /\ call[d].target \in bindings'
                    /\ call[d].at \in Asking \ {"accepting"} => Accepted(records'[call[d].target])
  BY DEF Asks, Unshared, Accepted
<1>1. Working(d) /\ call[d].target \in Numbers
  BY DEF CallersInv, TargetsExist, Working, Asking
<1>2. Unshared(call[d].target)
  BY <1>1, UnsharedBefore DEF Unshared
<1>3. Asks(d)
  BY DEF UnsharedInv, AskedIsAccepted
<1> QED
  BY <1>1, <1>2, <1>3, BindingStays, AcceptedStays DEF Asks, Asking, At

LEMMA AskedStaysAccepted ==
  ASSUME CallersInv, UnsharedInv, [SpawnNext]_vars
  PROVE  AskedIsAccepted'
<1>1. ASSUME NEW c \in Callers, SpawnStep(c), NEW d \in Callers PROVE Asks(d)'
  BY <1>1, MoverAsks, WaiterAsks, OthersWait DEF CallersInv
<1>2. CASE UNCHANGED call
  <2>1. \A d \in Callers : Asks(d)'
    BY <1>2, WaiterAsks
  <2> QED
    BY <2>1 DEF AskedIsAccepted
<1>3. CASE HostCrash
  BY <1>3 DEF AskedIsAccepted, Asks, Asking, HostCrash, Idle
<1>4. ASSUME NEW c \in Callers, SpawnStep(c) PROVE AskedIsAccepted'
  BY <1>1, <1>4 DEF AskedIsAccepted
<1> QED
  BY <1>2, <1>3, <1>4, CallsOutside DEF SpawnNext, ChildStep, vars, List, MissionMoves

LEMMA FailedStayChildless ==
  ASSUME CallersInv, UnsharedInv, [SpawnNext]_vars
  PROVE  FailedHadNoChild'
<1> USE DEF CallersInv
<1> SUFFICES ASSUME NEW n \in Numbers', Unshared(n)', records'[n].dispatch = "FAILED",
                    records'[n].receipt = "none"
             PROVE  child'[n] = "none"
  BY DEF FailedHadNoChild
<1>1. n \in Attempts
  BY StepBasics
<1>2. CASE n \in Numbers /\ SameDispatch(n)
  <2>1. Unshared(n) /\ child[n] = "none" /\ ~Accepted(records[n])
    BY <1>2, UnsharedBefore DEF SameDispatch, UnsharedInv, FailedHadNoChild, Accepted
  <2>2. ASSUME child'[n] # "none" PROVE FALSE
    <3>1. PICK c \in Callers : At(c, "admitting") /\ call[c].target = n
      BY <1>1, <2>1, <2>2, ChildFrom
    <3> QED
      BY <2>1, <3>1 DEF UnsharedInv, AskedIsAccepted, Asks, Asking, At
  <2> QED
    BY <2>2
<1>3. CASE n \in Numbers /\ SettledWithReceipt(n)
  BY <1>3 DEF SettledWithReceipt
<1>4. ASSUME n \in Numbers, NEW c \in Callers, MarksFor(c, n) PROVE child'[n] = "none"
  <2>1. Unshared(n) /\ Knowing(c)
    BY <1>4, UnsharedBefore DEF UnsharedInv, FailuresAreChildless
  <2> QED
    BY <1>4, <2>1 DEF MarksFor, Knowing, FailsTheChildless
<1> QED
  BY <1>2, <1>3, <1>4, DispatchFrom

-----------------------------------------------------------------------------
(* Who gives the Task back                                                  *)

\* A release that succeeds does not leave the Task executing.
LEMMA ReleaseFrees ==
  ASSUME faults \in Nat, NEW n, Release(n), faults' = 0, task' = "executing"
  PROVE  holder # n /\ UNCHANGED taskVars
BY DEF Release, taskVars

\* Call c is about to start the worker's child.
Starter(c) == At(c, "admitting") /\ call[c].target = holder

LEMMA AttendanceStays ==
  ASSUME CallersInv, UnsharedInv, [SpawnNext]_vars
  PROVE  AttendanceInv'
<1> USE DEF CallersInv
<1> SUFFICES ASSUME faults' = 0, task' = "executing"
             PROVE  holder' \in Numbers' /\ (Unshared(holder)' => Attended')
  BY DEF AttendanceInv, Attended, At, Unshared
<1>1. /\ Numbers \subseteq Attempts /\ Numbers \subseteq Numbers'
      /\ child \in [Attempts -> {"none", "alive", "ending", "dead", "gone"}]
      /\ faults \in Nat
  BY StepBasics, KeysAreRevisions DEF SpawnTypeOK
<1>2. ASSUME faults = 0, task = "executing", UNCHANGED holder
      PROVE  /\ holder \in Numbers /\ holder' \in Numbers'
             /\ Unshared(holder)' => Unshared(holder) /\ Attended
  BY <1>1, <1>2, UnsharedBefore DEF UnsharedInv, AttendanceInv, Unshared
<1>3. ASSUME NEW c \in Callers, Starter(c), UNCHANGED holder, call'[c] = call[c]
      PROVE  Attended'
  BY <1>3 DEF Starter, Attended, At
<1>4. CASE UNCHANGED <<task, holder, faults, child>> /\ \A c \in Callers : Starter(c) => call'[c] = call[c]
  BY <1>1, <1>2, <1>3, <1>4 DEF Starter, Attended
<1>5. ASSUME NEW c \in Callers, SpawnStep(c)
      PROVE  holder' \in Numbers' /\ (Unshared(holder)' => Attended')
  <2>1. \A d \in Callers : d # c => call'[d] = call[d]
    BY <1>5, OthersWait
  <2>2. ASSUME UNCHANGED <<task, holder, faults>>,
               holder \in Attempts /\ (child[holder] = "alive" \/ Starter(c))
                 => child'[holder] = "alive"
        PROVE  holder' \in Numbers' /\ (Unshared(holder)' => Attended')
    BY <1>1, <1>2, <1>3, <2>1, <2>2 DEF Starter, Attended
  <2>3. CASE Lease(c)
    <3>1. CASE UNCHANGED taskVars
      BY <2>2, <2>3, <3>1 DEF Lease, Starter, At, taskVars
    <3>2. CASE holder' = call[c].target
      <4>1. At(c, "admitting")'
        BY <2>3, CallForms DEF Lease, At
      <4>2. call'[c].target = call[c].target
        BY <1>5, <2>3, <4>1, TargetStays DEF Lease, At
      <4>3. call[c].target \in Numbers
        BY <2>3 DEF Lease, At, TargetsExist
      <4> QED
        BY <1>1, <3>2, <4>1, <4>2, <4>3 DEF Attended, At
    <3> QED
      BY <2>3, <3>1, <3>2 DEF Lease, TakeTask
  <2>4. CASE Admit(c)
    <3>1. call[c].target \in Attempts
      BY <1>1, <2>4 DEF Admit, At, TargetsExist
    <3>2. child'[call[c].target] = "alive" /\ child[call[c].target] = "none"
      BY <1>1, <2>4, <3>1 DEF Admit
    <3>3. \A n \in Attempts : n # call[c].target => child'[n] = child[n]
      BY <1>1, <2>4 DEF Admit
    <3> QED
      BY <2>2, <2>4, <3>2, <3>3 DEF Admit, taskVars, Starter
  <2>5. CASE AdmitFails(c) \/ SendEnded(c)
    <3>1. holder # call[c].target /\ UNCHANGED taskVars
      BY <1>1, <2>5, ReleaseFrees DEF AdmitFails, SendEnded
    <3>2. holder \in Attempts => child'[holder] = child[holder]
      BY <1>1, <2>5, <3>1 DEF AdmitFails, SendEnded
    <3> QED
      BY <2>2, <3>1, <3>2 DEF taskVars, Starter
  <2>6. CASE UNCHANGED <<task, holder, faults, child>> /\ ~At(c, "admitting")
    BY <2>2, <2>6 DEF Starter
  <2> QED
    BY <1>5, <2>3, <2>4, <2>5, <2>6
       DEF SpawnStep, hostVars, taskVars, At, Call, ReserveNew, ReserveReplay, ReserveLocked,
           BindAgent, FindBinding, Prepare, Accept, SendRecovered, SendFails, Start, Startable,
           Compensate, Discard, Inspect, MarkFailure
<1>6. ASSUME NEW n \in Numbers, ChildStep(n)
      PROVE  holder' \in Numbers' /\ (Unshared(holder)' => Attended')
  <2>1. UNCHANGED call
    BY <1>6, CallsOutside
  <2>2. ASSUME UNCHANGED <<task, holder, faults>>,
               holder \in Attempts /\ Unshared(holder) /\ child[holder] = "alive"
                 => child'[holder] = "alive"
        PROVE  holder' \in Numbers' /\ (Unshared(holder)' => Attended')
    BY <1>1, <1>2, <1>3, <2>1, <2>2 DEF Starter, Attended
  <2>3. CASE ChildEnds(n)
    <3>1. UNCHANGED taskVars /\ (n \in bindings => holder # n)
      BY <1>1, <2>3, ReleaseFrees DEF ChildEnds
    <3>2. ASSUME Unshared(holder), holder = n PROVE n \in bindings
      BY <1>1, <2>3, <3>2 DEF ChildEnds, UnsharedInv, ChildrenAreBound
    <3>3. holder \in Attempts /\ holder # n => child'[holder] = child[holder]
      BY <1>1, <2>3 DEF ChildEnds
    <3> QED
      BY <2>2, <3>1, <3>2, <3>3 DEF taskVars
  <2>4. CASE Cleanup(n)
    BY <1>1, <2>2, <2>4 DEF Cleanup, taskVars
  <2>5. CASE UNCHANGED hostVars
    BY <2>2, <2>5 DEF hostVars, taskVars
  <2> QED
    BY <1>6, <2>3, <2>4, <2>5 DEF ChildStep, Beat, LeaseRunsOut, Reconcile
<1>7. CASE MissionMoves
  <2>1. faults = 0 /\ task = "executing" /\ UNCHANGED <<holder, child, call>>
    BY <1>7 DEF MissionMoves
  <2> QED
    BY <1>2, <2>1 DEF Attended, At
<1>8. CASE HostCrash
  BY <1>1, <1>8 DEF HostCrash
<1>9. CASE List \/ UNCHANGED vars
  BY <1>4, <1>9 DEF List, vars, hostVars, taskVars
<1> QED
  BY <1>5, <1>6, <1>7, <1>8, <1>9 DEF SpawnNext, ChildStep

-----------------------------------------------------------------------------
(* Every behaviour, of any number of calls                                  *)

LEMMA UnsharedInvariance == SpawnSpec => [](CallersInv /\ UnsharedInv)
<1>1. SpawnInit => UnsharedInv
  <2> SUFFICES ASSUME SpawnInit PROVE UnsharedInv
    OBVIOUS
  <2> USE DEF SpawnInit, Init, Idle
  <2>1. ChildrenAreBound /\ FailedHadNoChild /\ AttendanceInv
    BY DEF ChildrenAreBound, FailedHadNoChild, AttendanceInv, Numbers
  <2>2. FailuresAreChildless /\ AskedIsAccepted
    BY DEF FailuresAreChildless, Knowing, FailsTheChildless, AskedIsAccepted, Asks, Asking, At
  <2>3. KeyInv
    BY DEF KeyInv, Working, At
  <2> QED
    BY <2>1, <2>2, <2>3 DEF UnsharedInv
<1>2. CallersInv /\ UnsharedInv /\ [SpawnNext]_vars => UnsharedInv'
  BY KeysAreKept, ChildrenStayBound, FailuresStayChildless, AskedStaysAccepted,
     FailedStayChildless, AttendanceStays DEF UnsharedInv
<1> QED
  BY <1>1, <1>2, CallersInitially, CallersNext, PTL DEF SpawnSpec

\* A failed dispatch that nobody settled never had a child, unless equal calls
\* were under way together: FAILED is safe to retry, whatever other calls,
\* crashes and the reconciliation do.
THEOREM FailedIsChildless == SpawnSpec => []FailedHadNoChild
<1>1. UnsharedInv => FailedHadNoChild
  BY DEF UnsharedInv
<1> QED
  BY <1>1, UnsharedInvariance, PTL

\* A running child always finds its execution binding, unless equal calls were
\* under way together.
THEOREM RunningChildIsBound == SpawnSpec => []LiveChildHasBinding
<1>1. UnsharedInv => LiveChildHasBinding
  BY DEF UnsharedInv, ChildrenAreBound, LiveChildHasBinding, Alive
<1> QED
  BY <1>1, UnsharedInvariance, PTL

\* As long as nothing was lost, an executing Task has a worker who gives it
\* back, unless equal calls for that worker were under way together.
THEOREM ExecutingTaskIsAttended == SpawnSpec => []ExecutingIsAttended
<1>1. UnsharedInv => ExecutingIsAttended
  BY DEF UnsharedInv, AttendanceInv, ExecutingIsAttended, Attended
<1> QED
  BY <1>1, UnsharedInvariance, PTL
=============================================================================

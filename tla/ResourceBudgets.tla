---------------------------- MODULE ResourceBudgets ----------------------------
(***************************************************************************)
(* The books of one budget scope (storage-sqlite/src/budget-repository.ts) *)
(* and those who write them: the model requests of the agents              *)
(* (plugin-host/src/model-budget.ts), their tool calls                     *)
(* (plugin-host/src/tool-authorization.ts, tool-pipeline.ts), the outbox   *)
(* that settles what could not be settled, and the operator who revokes    *)
(* what has expired.  All of them change one record with a revision        *)
(* (storage-sqlite/src/state-records.ts): an update reads it, computes its *)
(* successor, and throws when the revision has moved before it commits.    *)
(* One counter stands for the nine of the code.                            *)
(***************************************************************************)
EXTENDS Integers, FiniteSets, FiniteSetsExt

CONSTANTS
  Steps, Tools,     \* the model requests and the tool calls
  Limits, Grant,    \* the limits a scope may have, and what a call reserves
  Actuals,          \* what a call may use
  Operator, Starter,
  MaxTries,         \* deliveries of an outbox message
  MaxCrashes,       \* bounds the crashes of the process
  MaxStarts,        \* bounds the starts of another process
  None

Calls == Steps \cup Tools
Writers == Calls \cup {Operator, Starter}

ASSUME AmountsAssumption == Limits \subseteq Nat /\ Grant \in Nat /\ Actuals \subseteq Nat
ASSUME WritersAssumption == Steps \cap Tools = {} /\ Operator # Starter
                            /\ {Operator, Starter} \cap Calls = {}

ReservationStates == {"RESERVED", "SETTLED", "EXPIRED", "REVOKED"}
Books == [consumed : Nat, reserved : Nat, state : [Calls -> ReservationStates \cup {None}],
          usage : [Calls -> Nat \cup {None}]]
Updates == [next : Books, moved : BOOLEAN]
ASSUME NoneAssumption == None \notin Nat \cup ReservationStates /\ None \notin Updates

VARIABLES
  limit,            \* the limit of the scope
  books,            \* the record
  update,           \* per writer, its update between read and commit, and
                    \* whether the record's revision has moved meanwhile
  overdue,          \* the reservations whose expiry has passed
  call,             \* where each call is
  used,             \* what it has used
  tries,            \* per tool call, the deliveries of its settlement
  listed,           \* what the operator has found expired
  crashes, starts

vars == <<limit, books, update, overdue, call, used, tries, listed, crashes, starts>>

EmptyBooks == [consumed |-> 0, reserved |-> 0,
               state |-> [c \in Calls |-> None], usage |-> [c \in Calls |-> None]]

Init ==
  /\ limit \in Limits
  /\ books = EmptyBooks
  /\ update = [w \in Writers |-> None]
  /\ overdue = {} /\ listed = {}
  /\ call = [c \in Calls |-> "idle"]
  /\ used = [c \in Calls |-> None]
  /\ tries = [c \in Tools |-> 0]
  /\ crashes = 0 /\ starts = 0

-----------------------------------------------------------------------------
(* The transitions of the record.                                          *)

SubtractFloor(a, b) == IF a < b THEN 0 ELSE a - b
Held(b) == {c \in Calls : b.state[c] = "RESERVED"}

(* A reservation that ends: it is held no longer.                          *)
End(b, S, state) ==
  [b EXCEPT !.reserved = SubtractFloor(@, Grant * Cardinality(S)),
            !.state = [c \in Calls |-> IF c \in S THEN state ELSE @[c]]]

ExpireReservations(b) == End(b, Held(b) \cap overdue, "EXPIRED")

ExhaustedByUse(b) == b.consumed + Grant > limit
Exhausted(b) == b.consumed + b.reserved + Grant > limit
Reserve(b, c) == [b EXCEPT !.reserved = @ + Grant, !.state[c] = "RESERVED"]

SettleNet(b, c, actual) ==
  [End(b, {c}, "SETTLED") EXCEPT !.consumed = @ + actual - Grant, !.usage[c] = actual]
Settle(b, c, actual) ==
  [End(b, {c}, "SETTLED") EXCEPT !.consumed = @ + actual, !.usage[c] = actual]

RevokeAnyhow(b, c) == End(b, {c}, "REVOKED")
Revoke(b, c) == End(b, {c} \cap Held(b), "REVOKED")

(* update, up to its transaction.                                          *)
BeginUpdate(w, next) == update' = [update EXCEPT ![w] = [next |-> next, moved |-> FALSE]]

(* A write moves the revision under all updates that have read the record. *)
Write(w, next) ==
  /\ books' = next
  /\ update' = [v \in Writers |-> IF v = w \/ update[v] = None THEN None
                                  ELSE [update[v] EXCEPT !.moved = TRUE]]

(* The transaction of an update.                                           *)
IsUnchanged(w) == ~update[w].moved
EndUpdateBlindly(w) == Write(w, update[w].next)
EndUpdate(w) == IF IsUnchanged(w) THEN Write(w, update[w].next)
                                  ELSE update' = [update EXCEPT ![w] = None] /\ UNCHANGED books
Goto(c, stage) == call' = [call EXCEPT ![c] = stage]

-----------------------------------------------------------------------------
(* A model request or a tool call: reserve, run, settle.                   *)

BeginReserve(c) ==
  /\ call[c] = "idle"
  /\ LET b == ExpireReservations(books) IN
       IF Exhausted(b) THEN Goto(c, "refused") /\ UNCHANGED update
                       ELSE Goto(c, "reserving") /\ BeginUpdate(c, Reserve(b, c))
  /\ UNCHANGED <<limit, books, overdue, used, tries, listed, crashes, starts>>

EndReserve(c) ==
  /\ call[c] = "reserving"
  /\ EndUpdate(c)
  /\ Goto(c, IF IsUnchanged(c) THEN "running" ELSE "refused")
  /\ UNCHANGED <<limit, overdue, used, tries, listed, crashes, starts>>

(* The capability grant refuses the tool: its reservation is revoked, or   *)
(* left to expire when that fails.                                         *)
BeginDeny(c) ==
  /\ c \in Tools /\ call[c] = "running"
  /\ Goto(c, "revoking") /\ BeginUpdate(c, Revoke(books, c))
  /\ UNCHANGED <<limit, books, overdue, used, tries, listed, crashes, starts>>

EndDeny(c) ==
  /\ call[c] = "revoking"
  /\ EndUpdate(c)
  /\ Goto(c, "refused")
  /\ UNCHANGED <<limit, overdue, used, tries, listed, crashes, starts>>

(* The call is made; a Session event or a post-execute hook tells of it.   *)
Run(c) ==
  /\ call[c] = "running"
  /\ \E actual \in Actuals : used' = [used EXCEPT ![c] = actual]
  /\ Goto(c, "ran")
  /\ UNCHANGED <<limit, books, update, overdue, tries, listed, crashes, starts>>

(* Settlement: nothing to do for what is settled, an error for what has    *)
(* been ended otherwise.  An unsettled request is only logged, an          *)
(* unsettled tool call goes to the outbox.                                 *)
IsSettled(c) == books.state[c] = "SETTLED"
CanSettle(c) == books.state[c] = "RESERVED"
Unsettled(c) == IF c \in Tools THEN "queued" ELSE "unsettled"

BeginSettle(c) ==
  /\ call[c] = "ran"
  /\ IF CanSettle(c) THEN Goto(c, "settling") /\ BeginUpdate(c, Settle(books, c, used[c]))
                     ELSE Goto(c, Unsettled(c)) /\ UNCHANGED update
  /\ UNCHANGED <<limit, books, overdue, used, tries, listed, crashes, starts>>

EndSettle(c) ==
  /\ call[c] = "settling"
  /\ EndUpdate(c)
  /\ Goto(c, IF IsUnchanged(c) THEN "over" ELSE Unsettled(c))
  /\ UNCHANGED <<limit, overdue, used, tries, listed, crashes, starts>>

(* tool-execution.settle, delivered again and again by the outbox.         *)
Undelivered(c) == IF tries[c] + 1 < MaxTries THEN "queued" ELSE "dead"

DeliverOnce(c) ==
  /\ c \in Tools /\ call[c] = "queued"
  /\ tries[c] = 0 /\ CanSettle(c)
  /\ Goto(c, "delivering") /\ BeginUpdate(c, Settle(books, c, used[c]))
  /\ UNCHANGED <<limit, books, overdue, used, tries, listed, crashes, starts>>
BeginDeliver(c) ==
  /\ c \in Tools /\ call[c] = "queued"
  /\ IF CanSettle(c)
       THEN Goto(c, "delivering") /\ BeginUpdate(c, Settle(books, c, used[c])) /\ UNCHANGED tries
       ELSE /\ Goto(c, IF IsSettled(c) THEN "over" ELSE Undelivered(c))
            /\ tries' = [tries EXCEPT ![c] = @ + 1]
            /\ UNCHANGED update
  /\ UNCHANGED <<limit, books, overdue, used, listed, crashes, starts>>

EndDeliver(c) ==
  /\ call[c] = "delivering"
  /\ EndUpdate(c)
  /\ Goto(c, IF IsUnchanged(c) THEN "delivered" ELSE Undelivered(c))
  /\ tries' = [tries EXCEPT ![c] = @ + 1]
  /\ UNCHANGED <<limit, overdue, used, listed, crashes, starts>>

Acknowledge(c) ==
  /\ call[c] = "delivered"
  /\ Goto(c, "over")
  /\ UNCHANGED <<limit, books, update, overdue, used, tries, listed, crashes, starts>>

(* reconcileModelRequestBudgets, when an agent starts again: a request     *)
(* whose answer is in the Session is settled for all that it reserved.     *)
BeginReconcile(c) ==
  /\ call[c] = "recovering"
  /\ IF CanSettle(c) THEN Goto(c, "settling") /\ BeginUpdate(c, Settle(books, c, Grant))
                     ELSE Goto(c, "over") /\ UNCHANGED update
  /\ UNCHANGED <<limit, books, overdue, used, tries, listed, crashes, starts>>

-----------------------------------------------------------------------------
(* The operator, other processes, time and crashes.                        *)

(* RELEASE_EXPIRED: the reservations that have expired, one by one.        *)
ListExpired ==
  /\ listed = {} /\ update[Operator] = None
  /\ listed' = Held(books) \cap overdue
  /\ UNCHANGED <<limit, books, update, overdue, call, used, tries, crashes, starts>>

BeginRelease ==
  /\ update[Operator] = None
  /\ \E c \in listed : listed' = listed \ {c} /\ BeginUpdate(Operator, Revoke(books, c))
  /\ UNCHANGED <<limit, books, overdue, call, used, tries, crashes, starts>>

EndRelease ==
  /\ update[Operator] # None
  /\ EndUpdate(Operator)
  /\ listed' = IF IsUnchanged(Operator) THEN listed ELSE {}
  /\ UNCHANGED <<limit, overdue, call, used, tries, crashes, starts>>

(* registerPolicy, by a process that starts: it reads the record and puts  *)
(* it back with its policies, whatever has become of it.                   *)
BeginRegister ==
  /\ starts < MaxStarts /\ update[Starter] = None
  /\ starts' = starts + 1
  /\ BeginUpdate(Starter, books)
  /\ UNCHANGED <<limit, books, overdue, call, used, tries, listed, crashes>>

RegisterPolicy ==
  /\ update[Starter] # None
  /\ Write(Starter, update[Starter].next)
  /\ UNCHANGED <<limit, overdue, call, used, tries, listed, crashes, starts>>

Elapse(c) ==
  /\ books.state[c] = "RESERVED" /\ c \notin overdue
  /\ overdue' = overdue \cup {c}
  /\ UNCHANGED <<limit, books, update, call, used, tries, listed, crashes, starts>>

(* Updates are lost, calls interrupted; what the Session and the outbox    *)
(* have remains.                                                           *)
AfterCrash(c) ==
  CASE call[c] \in {"reserving", "running", "revoking"} -> "interrupted"
    [] call[c] \in {"ran", "settling"} /\ c \in Tools -> "interrupted"
    [] c \in Steps /\ used[c] # None -> "recovering"
    [] call[c] \in {"delivering", "delivered"} -> "queued"
    [] OTHER -> call[c]

Crash ==
  /\ crashes < MaxCrashes
  /\ crashes' = crashes + 1
  /\ call' = [c \in Calls |-> AfterCrash(c)]
  /\ update' = [w \in Writers |-> IF w = Starter THEN update[w] ELSE None]
  /\ listed' = {}
  /\ UNCHANGED <<limit, books, overdue, used, tries, starts>>

-----------------------------------------------------------------------------
Next ==
  \/ \E c \in Calls : \/ BeginReserve(c) \/ EndReserve(c) \/ Run(c) \/ BeginSettle(c)
                      \/ EndSettle(c) \/ BeginDeny(c) \/ EndDeny(c) \/ BeginDeliver(c)
                      \/ EndDeliver(c) \/ Acknowledge(c) \/ BeginReconcile(c) \/ Elapse(c)
  \/ ListExpired \/ BeginRelease \/ EndRelease
  \/ BeginRegister \/ RegisterPolicy \/ Crash

Spec == Init /\ [][Next]_vars

(* Settlement follows by itself; the outbox is polled.                     *)
FairSpec ==
  /\ Spec
  /\ \A c \in Tools : /\ WF_vars(BeginSettle(c) \/ EndSettle(c))
                      /\ WF_vars(BeginDeliver(c) \/ EndDeliver(c))

-----------------------------------------------------------------------------
(* Properties                                                              *)

Stages == {"idle", "reserving", "refused", "running", "revoking", "ran", "settling", "unsettled",
           "queued", "delivering", "delivered", "dead", "recovering", "interrupted", "over"}

TypeOK ==
  /\ limit \in Limits /\ books \in Books
  /\ update \in [Writers -> Updates \cup {None}]
  /\ overdue \subseteq Calls /\ listed \subseteq Calls
  /\ call \in [Calls -> Stages] /\ used \in [Calls -> Actuals \cup {None}]
  /\ tries \in [Tools -> Nat] /\ crashes \in Nat /\ starts \in Nat

Charged == {c \in Calls : books.usage[c] # None}
Total(S, f(_)) == MapThenSumSet(f, S)

(* The counters are never anything but the sums of what they stand for,    *)
(* though they are only ever added to and subtracted from, in updates that *)
(* crashes, expiry, revocation and conflicts may cut off or reorder.       *)
BooksBalance ==
  /\ books.reserved = Grant * Cardinality(Held(books))
  /\ books.consumed = Total(Charged, LAMBDA c : books.usage[c])

(* The limit is kept, but for what a call used beyond its reservation.     *)
Overage(c) == SubtractFloor(books.usage[c], Grant)
LimitIsKept == books.consumed + books.reserved <= limit + Total(Charged, Overage)

(* A call is charged once and for all, by whomever: the live settlement,   *)
(* the outbox or the recovery.  Only a process that starts may undo it, by *)
(* putting back the record it has read.                                    *)
ChargesStand == \A c \in Charged : books'.usage[c] = books.usage[c]
ChargedOnce == [][RegisterPolicy \/ ChargesStand]_vars

(* The books are one snapshot changed by compare-and-swap                  *)
(* (storage-sqlite/src/budget-repository.ts:47), and balances are never    *)
(* restored by deleting reservations (docs/docs/50:181): no charge is      *)
(* ever undone.                                                            *)
ChargesPersist == [][ChargesStand]_vars

(* Who is charged is who had a reservation, and it is not given back.      *)
ChargesAreSettled == Charged = {c \in Calls : books.state[c] = "SETTLED"}

(* A tool call that was made is charged, unless its reservation ends       *)
(* first, its process crashes before it is told of, or its message dies.   *)
ToolsAreCharged ==
  \A c \in Tools : call[c] = "ran" ~>
    c \in Charged \/ books.state[c] \in {"EXPIRED", "REVOKED"} \/ call[c] \in {"interrupted", "dead"}
=============================================================================

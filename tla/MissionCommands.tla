--------------------------- MODULE MissionCommands ---------------------------
(***************************************************************************)
(* What SqliteMilitaryLedger.transactCommand promises the callers of one   *)
(* mission, with the leases, retries and processes left out: at most one   *)
(* command is open at a time, and when it settles its receipt is written   *)
(* once, for good, over the stretch of the event stream that began where   *)
(* the command was opened.  CommandSaga is shown to implement it.          *)
(***************************************************************************)
EXTENDS Naturals

CONSTANTS Keys,      \* idempotency keys of the mission's commands
          Payloads,  \* semantic payloads (fingerprints) of a command
          Values,    \* results an operation can return
          None

VARIABLES length,    \* length of the mission's event stream
          open,      \* the open command, [key, payload, from], or None
          receipts   \* the receipt of each key, or None

vars == <<length, open, receipts>>

Receipts == [payload: Payloads, from: Nat, to: Nat, value: Values]

Init ==
  /\ length = 0
  /\ open = None
  /\ receipts = [k \in Keys |-> None]

(* A command is admitted: its admission event starts its stretch.          *)
Open(k, p) ==
  /\ open = None
  /\ receipts[k] = None
  /\ open' = [key |-> k, payload |-> p, from |-> length]
  /\ length' = length + 1
  /\ UNCHANGED receipts

(* Any other event of the mission.                                         *)
Extend ==
  /\ length' = length + 1
  /\ UNCHANGED <<open, receipts>>

(* The open command settles: one receipt over everything since it opened.  *)
Settle(v) ==
  /\ open # None
  /\ receipts' = [receipts EXCEPT ![open.key] =
                   [payload |-> open.payload, from |-> open.from,
                    to |-> length, value |-> v]]
  /\ open' = None
  /\ UNCHANGED length

Next ==
  \/ \E k \in Keys, p \in Payloads : Open(k, p)
  \/ Extend
  \/ \E v \in Values : Settle(v)

Spec == Init /\ [][Next]_vars
=============================================================================

--------------------------- MODULE AttemptHistory ---------------------------
(***************************************************************************)
(* What the execution lifecycle promises of one immutable Task version:    *)
(* its execution attempts follow one another, the next begins only after   *)
(* every earlier one has ended, and an outcome is never revised.           *)
(***************************************************************************)
EXTENDS Naturals, Sequences

CONSTANT Outcomes

VARIABLE history    \* one entry per attempt: "open" or the outcome it ended with

Init == history = << >>

Begin ==
  /\ \A i \in DOMAIN history : history[i] \in Outcomes
  /\ history' = Append(history, "open")

End(i) ==
  /\ history[i] = "open"
  /\ \E o \in Outcomes : history' = [history EXCEPT ![i] = o]

Next == Begin \/ \E i \in DOMAIN history : End(i)

Spec == Init /\ [][Next]_history
=============================================================================

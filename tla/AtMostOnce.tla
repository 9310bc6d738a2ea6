----------------------------- MODULE AtMostOnce -----------------------------
(***************************************************************************)
(* What the tool journal promises whoever asks for a write: the write is   *)
(* performed at most once, only after it was recorded as begun, and once   *)
(* its outcome is recorded nothing more happens.  A write that was begun   *)
(* may stay without an outcome for ever; it is never begun again.          *)
(***************************************************************************)
EXTENDS Integers

CONSTANT Writes

VARIABLES
    record,     \* [Writes -> "fresh", "begun", "done" or "uncertain"]
    performed   \* [Writes -> number of times the write was performed]

vars == <<record, performed>>

Init ==
    /\ record = [w \in Writes |-> "fresh"]
    /\ performed = [w \in Writes |-> 0]

Begin(w) ==
    /\ record[w] = "fresh"
    /\ record' = [record EXCEPT ![w] = "begun"]
    /\ UNCHANGED performed

Perform(w) ==
    /\ record[w] = "begun" /\ performed[w] = 0
    /\ performed' = [performed EXCEPT ![w] = 1]
    /\ UNCHANGED record

Confirm(w) ==
    /\ record[w] = "begun" /\ performed[w] = 1
    /\ record' = [record EXCEPT ![w] = "done"]
    /\ UNCHANGED performed

GiveUp(w) ==
    /\ record[w] = "begun"
    /\ record' = [record EXCEPT ![w] = "uncertain"]
    /\ UNCHANGED performed

Next == \E w \in Writes : Begin(w) \/ Perform(w) \/ Confirm(w) \/ GiveUp(w)

Spec == Init /\ [][Next]_vars
=============================================================================

---------------------------- MODULE AtLeastOnce ----------------------------
(***************************************************************************)
(* What the outbox promises its producers and listeners: an event that was *)
(* accepted is heard by every listener, in their order and possibly again, *)
(* before it is closed as done or as dead; and it is closed eventually.    *)
(***************************************************************************)
EXTENDS Integers

CONSTANTS Events, Listeners

VARIABLES
    state,  \* [Events -> "unknown", "pending", "done" or "dead"]
    heard   \* [Events -> the listeners that were invoked with the event]

vars == <<state, heard>>

Init ==
    /\ state = [e \in Events |-> "unknown"]
    /\ heard = [e \in Events |-> {}]

Accept(e) ==
    /\ state[e] = "unknown"
    /\ state' = [state EXCEPT ![e] = "pending"]
    /\ UNCHANGED heard

\* The next listener hears an event that is not closed yet.
Hear(e, l) ==
    /\ state[e] = "pending"
    /\ l \notin heard[e]
    /\ \A k \in Listeners : k < l => k \in heard[e]
    /\ heard' = [heard EXCEPT ![e] = @ \cup {l}]
    /\ UNCHANGED state

Close(e) ==
    /\ state[e] = "pending"
    /\ heard[e] = Listeners
    /\ \E outcome \in {"done", "dead"} : state' = [state EXCEPT ![e] = outcome]
    /\ UNCHANGED heard

Progress(e) == Close(e) \/ \E l \in Listeners : Hear(e, l)

Next == \E e \in Events : Accept(e) \/ Progress(e)

Spec == Init /\ [][Next]_vars

\* An accepted event does not stay pending for ever.
FairSpec == Spec /\ \A e \in Events : WF_vars(Progress(e))
=============================================================================

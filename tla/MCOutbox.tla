------------------------------ MODULE MCOutbox ------------------------------
(* Values of the constants of Outbox for TLC. *)
EXTENDS Outbox, TLC

Callers == Permutations(Producers)
=============================================================================

--------------------------- MODULE MCScheduledJobs ---------------------------
(* Values of the constants of ScheduledJobs for TLC. *)
EXTENDS ScheduledJobs

CONSTANTS t1, c1, k1
=============================================================================

-------------------------- MODULE MCServiceTimers ---------------------------
(* A small instance of ServiceTimers for TLC. *)
EXTENDS ServiceTimers

\* A pipeline whose period is shorter than the thread's, and one whose is longer.
ShortAndLong == {"short", "long"}
TwoPeriods == [p \in ShortAndLong |-> IF p = "short" THEN 2 ELSE 5]
=============================================================================

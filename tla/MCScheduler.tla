---------------------------- MODULE MCScheduler ----------------------------
(* Instances of Scheduler for TLC. *)
EXTENDS Scheduler

\* Slots up to one after the time the clock reaches, but for a gap at 1.
SomeSlots == (0..(MaxTime + 1)) \ {1}
=============================================================================

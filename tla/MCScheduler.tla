---------------------------- MODULE MCScheduler ----------------------------
(* Small instances of Scheduler for TLC.                                   *)
EXTENDS Scheduler, TLC

\* Slots are interchangeable, and so are schedules: sound for the safety run.
SlotSymmetry == Permutations(Slots)
ScheduleSymmetry == Permutations(Schedules)
Symmetry == SlotSymmetry \cup ScheduleSymmetry

MCCreateIntervals == {0}
MCPatchIntervals == {-5}
=============================================================================

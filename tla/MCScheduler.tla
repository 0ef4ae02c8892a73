---------------------------- MODULE MCScheduler ----------------------------
(* Instances of the scheduler small enough for TLC.                          *)
EXTENDS SchedulerRefinement, TLC

\* The faults of the runs: the combinations the README explains.
OomFailStop == {"oom", "fail", "stop"}
OomFailSpurious == {"oom", "fail", "spurious"}
OomSpurious == {"oom", "spurious"}

\* Workers, cells and every thread but the first are interchangeable.
Symmetry == Permutations(Workers) \cup Permutations(Threads \ {Main})
              \cup Permutations(Cells)
=============================================================================

------------------------ MODULE SchedulerRefinement ------------------------
(***************************************************************************)
(* VMScheduler implements GreenThreads.  A thread is ready from the moment *)
(* a worker decides to resume it, before it reaches the queue; the machine *)
(* is collecting while the supervisor is in vm_gc, and off once it goes on *)
(* to join the workers or exits.  Besides an error and vm_stop a spurious  *)
(* wake-up aborts it: after a collection it finds every worker parked and  *)
(* no command, VM_FATAL("bad cmd"), with threads in the queue.             *)
(***************************************************************************)
EXTENDS VMScheduler

ThreadState(t) ==
  CASE t \notin born     -> "new"
    [] t \in finished    -> "done"
    [] Running(t)        -> "running"
    [] Blocked(t)        -> "blocked"
    [] OTHER             -> "ready"

Machine ==
  CASE spc = "gc"                             -> "collecting"
    [] spc \in {"join", "returned", "fatal"}  -> "off"
    [] OTHER                                  -> "on"

Abstract == INSTANCE GreenThreads WITH
  state <- [t \in Threads |-> ThreadState(t)],
  machine <- Machine,
  MaxRunning <- Cardinality(Workers),
  MayAbort <- Faults \cap {"fail", "stop", "spurious"} # {}

\* Every behaviour of the workers and the supervisor is, thread by thread, a
\* behaviour of the abstract scheduler: with interleaved critical sections,
\* chains resumed in flight and threads requeued on the way to a collection,
\* no thread runs twice, is skipped, or runs while the heap moves.
ImplementsGreenThreads == Abstract!Spec
=============================================================================

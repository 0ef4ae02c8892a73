---------------------------- MODULE GreenThreads ----------------------------
(***************************************************************************)
(* What the scheduler promises to the green threads, with no worker, mutex *)
(* or condition variable in sight: a thread runs only while the machine is *)
(* on, at most MaxRunning of them at a time; a blocked thread moves only   *)
(* when a running thread wakes it; the heap is collected and the machine   *)
(* switched off only when no thread runs; and it is switched off with      *)
(* threads left to run only if it may be aborted or has no memory left.    *)
(***************************************************************************)
EXTENDS Naturals, FiniteSets

CONSTANTS Threads, Main, MaxRunning, MayAbort

VARIABLES
  state,    \* the state of each thread
  machine   \* "on", "collecting" or "off"

vars == <<state, machine>>

In(s) == {t \in Threads : state[t] = s}
Move(t, from, to) == state[t] = from /\ state' = [state EXCEPT ![t] = to]

Init == /\ state = [t \in Threads |-> IF t = Main THEN "ready" ELSE "new"]
        /\ machine = "on"

Dispatch(t) == Move(t, "ready", "running") /\ Cardinality(In("running")) < MaxRunning
Create(t) == Move(t, "new", "ready") /\ In("running") # {}
Requeue(t) == Move(t, "running", "ready")
Block(t) == Move(t, "running", "blocked")
Finish(t) == Move(t, "running", "done")

\* One binding wakes every thread that waits for the cell.
Wake(S) ==
  /\ In("running") # {}
  /\ S # {} /\ S \subseteq In("blocked")
  /\ state' = [t \in Threads |-> IF t \in S THEN "ready" ELSE state[t]]

ThreadStep ==
  /\ machine = "on"
  /\ UNCHANGED machine
  /\ \/ \E t \in Threads : Dispatch(t) \/ Create(t) \/ Requeue(t) \/ Block(t) \/ Finish(t)
     \/ \E S \in SUBSET Threads : Wake(S)

Collect ==
  /\ machine = "on" /\ In("running") = {}
  /\ machine' = "collecting" /\ UNCHANGED state

Resume == machine = "collecting" /\ machine' = "on" /\ UNCHANGED state

SwitchOff ==
  /\ \/ machine = "on" /\ In("running") = {} /\ (MayAbort \/ In("ready") = {})
     \/ machine = "collecting"
  /\ machine' = "off" /\ UNCHANGED state

Next == ThreadStep \/ Collect \/ Resume \/ SwitchOff

Spec == Init /\ [][Next]_vars
=============================================================================

---------------------------- MODULE ThreadQueues ----------------------------
(***************************************************************************)
(* What the linked lists of threads stand for: one queue of threads that   *)
(* can run, and one per unbound variable of those that wait for it, in the *)
(* order in which they came.  VMScheduler uses it in this form.            *)
(***************************************************************************)
EXTENDS Sequences, FiniteSets

CONSTANTS Threads, Main, Variables

VARIABLES ready, waiting, running, born

Init ==
  /\ ready = <<Main>> /\ born = {Main}
  /\ waiting = [x \in Variables |-> <<>>]
  /\ running = {}

Take ==
  /\ ready # <<>>
  /\ running' = running \cup {Head(ready)} /\ ready' = Tail(ready)
  /\ UNCHANGED <<waiting, born>>
Put(t) == ready' = Append(ready, t) /\ running' = running \ {t} /\ UNCHANGED <<waiting, born>>
Exit(t) == running' = running \ {t} /\ UNCHANGED <<ready, waiting, born>>
Spawn(t) ==
  /\ t \notin born
  /\ ready' = Append(ready, t) /\ born' = born \cup {t}
  /\ UNCHANGED <<waiting, running>>
Wait(t, x) ==
  /\ waiting' = [waiting EXCEPT ![x] = Append(@, t)] /\ running' = running \ {t}
  /\ UNCHANGED <<ready, born>>
Wake(x) ==
  /\ ready' = ready \o waiting[x] /\ waiting' = [waiting EXCEPT ![x] = <<>>]
  /\ UNCHANGED <<running, born>>
Join(x, y) ==
  /\ waiting' = [waiting EXCEPT ![x] = <<>>, ![y] = @ \o waiting[x]]
  /\ UNCHANGED <<ready, running, born>>

Next ==
  \/ Take
  \/ \E t \in running :
       \/ Put(t) \/ Exit(t)
       \/ \E x \in Variables : Wait(t, x) \/ Wake(x)
       \/ \E x, y \in Variables : x # y /\ Join(x, y)
       \/ \E s \in Threads : Spawn(s)

Spec == Init /\ [][Next]_<<ready, waiting, running, born>>
=============================================================================

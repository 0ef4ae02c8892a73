------------------------------ MODULE MCMemory ------------------------------
(***************************************************************************)
(* The instances of ThreadStack and of Collector, as parts of one          *)
(* specification: an initial state chooses the memory of a thread, or a    *)
(* collection.                                                             *)
(***************************************************************************)
EXTENDS MCThreadStack, MCCollector

VARIABLE part

\* A collection that does not begin.
IdleHeap == CHOOSE h \in Fill({Object("leaf", <<>>, 1)}) : TRUE
Idle == obj = IdleHeap /\ base = 0 /\ Init

MemoryInit ==
  \/ part = "thread" /\ StackInit /\ Idle
  \/ part = "collector" /\ Init /\ StackInit

MemoryNext ==
  /\ UNCHANGED part
  /\ \/ part = "thread" /\ StackNext /\ UNCHANGED vars
     \/ part = "collector" /\ Next /\ UNCHANGED stackVars

\* Of the parts.
MemoryTypeOK == TypeOK /\ StackTypeOK

MemorySpec == MemoryInit /\ [][MemoryNext]_<<part, vars, stackVars>>
=============================================================================

----------------------- MODULE SingleAssignmentStore -----------------------
(***************************************************************************)
(* What binding promises: the cells of the program are partitioned into    *)
(* classes, each undetermined or with a value for good, and the only thing *)
(* that ever happens is that a whole undetermined class joins another one. *)
(***************************************************************************)
CONSTANTS Cells, Values


VARIABLE rep   \* the representative of a cell's class, or its value

Init == rep = [c \in Cells |-> c]

Join(u, n) ==
  /\ u \in Cells /\ rep[u] = u
  /\ n \in Values \/ (n \in Cells /\ rep[n] = n /\ n # u)
  /\ rep' = [c \in Cells |-> IF rep[c] = u THEN n ELSE rep[c]]

Next == \E u \in Cells, n \in Cells \cup Values : Join(u, n)

Spec == Init /\ [][Next]_rep
=============================================================================

---------------------------- MODULE MCCollector -----------------------------
(***************************************************************************)
(* Instances of Collector: the queue's first thread with two operands, a   *)
(* second thread that is queued, blocked or forgotten, and three objects   *)
(* that point to each other and to a static object in every way.           *)
(***************************************************************************)
EXTENDS Collector, TLC

CONSTANTS th1, th2, x, y, z, static

MCIds == {th1, th2, x, y, z}
MCStatics == {static}
Targets == {x, y, z, static}

Object(k, ptrs, w) == [kind |-> k, ptrs |-> ptrs, words |-> w]

Plain ==
  {Object("leaf", <<>>, 1)}
    \cup {Object("undef", <<w>>, 0) : w \in {Null, th2}}
    \cup {Object(k, <<p>>, 0) : k \in {"ref", "function"}, p \in Targets}
    \cup {Object("record", <<p>>, 1) : p \in Targets}
    \cup {Object("pair", <<p, q>>, 0) : p \in Targets \ {static}, q \in Targets}
Tuples == {Object("tuple", <<p>>, 0) : p \in Targets}

\* Three words of a saved environment and of the unused memory are no pointers.
Thread(next, operands) == Object("thread", <<next, static>> \o operands, 3)

Fill(objects) ==
  {(x :> ox) @@ (y :> oy) @@ (z :> oz) @@ (th1 :> Thread(n, <<x, y>>)) @@ (th2 :> Thread(Null, <<z>>)) :
     ox, oy, oz \in objects, n \in {Null, th2}}

PlainHeaps == {h \in Fill(Plain) : WellFormed(h)}
TupleHeaps == {h \in Fill(Tuples \cup {Object("leaf", <<>>, 1)}) : WellFormed(h)}
=============================================================================

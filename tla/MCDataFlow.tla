----------------------------- MODULE MCDataFlow -----------------------------
(* Instances of DataFlow: two or three cells, an atom, and two pairs that  *)
(* each hold one of the cells.                                             *)
EXTENDS DataFlow, TLC

CONSTANTS x, y, a, b, p, q

FlatValues == {a, b}
FlatLabel == (a :> "a") @@ (b :> "b")
FlatItems == (a :> <<>>) @@ (b :> <<>>)

\* p = x|a and q = b|y where a and b are equal integers at two addresses.
PairValues == {a, b, p, q}
PairLabel == (a :> "1") @@ (b :> "1") @@ (p :> "pair") @@ (q :> "pair")
PairItems == (a :> <<>>) @@ (b :> <<>>) @@ (p :> <<x, a>>) @@ (q :> <<b, y>>)

\* Variables bound to each other both ways round and to two atoms, and read.
CrossBinds == {<<x, y>>, <<y, x>>, <<x, a>>, <<y, b>>}
Reads == {x, y}

\* A pair to a pair, both ways round; a variable to another and to a hole.
TermBinds == {<<p, q>>, <<q, p>>, <<x, y>>, <<x, Hole>>}
OneRead == {x}
=============================================================================

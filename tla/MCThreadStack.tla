--------------------------- MODULE MCThreadStack ----------------------------
(***************************************************************************)
(* Instances of ThreadStack: one function without arguments, one of two    *)
(* arguments, and one native of one argument.                              *)
(***************************************************************************)
EXTENDS ThreadStack

CONSTANTS main, two, native

MCFunctions == {main, two, native}
MCNatives == {native}
MCArity == [f \in MCFunctions |-> CASE f = main -> 0 [] f = two -> 2 [] OTHER -> 1]
=============================================================================

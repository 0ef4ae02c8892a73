------------------------------ MODULE MCParts -------------------------------
(***************************************************************************)
(* Instances of PageHeap, Expressions, Matching, SymbolTree, ThreadLists,  *)
(* and of Assembler with Interpreter, as parts of one specification: an    *)
(* initial state chooses the part that acts.                               *)
(***************************************************************************)
EXTENDS PageHeap, Expressions, Matching, SymbolTree, ThreadLists, Interpreter, TLC

CONSTANTS w1, w2
MCWorkers == {w1, w2}
MCWaits == {"x", "y"}       \* variables, of an expression and of a match

VARIABLE part

-----------------------------------------------------------------------------
(* Expressions: every operator on all pairs of values, and operators       *)
(* inside operators on a few.  Sums, differences and products of floats    *)
(* have the signs that IEEE 754 gives to zeros; the power and quotient are *)
(* nothing but some float.                                                 *)
Negated(b) == b ^^ 1
MCSum(x, y) == IF x = MinusZero /\ y = MinusZero THEN x ELSE ToFloat(Whole(x) + Whole(y))
MCFloat(o, x, y) ==
  CASE o = "ADD" -> MCSum(x, y)
    [] o = "SUB" -> MCSum(x, Negated(y))
    [] o = "MUL" -> 2 * ((x \div 2) * (y \div 2)) + ((x + y) % 2)
    [] OTHER -> ToFloat(2 * Whole(x) - Whole(y))

Numbers == {IntV(n) : n \in Ints} \cup {FloatV(ToFloat(n)) : n \in {-1, 0, 2}} \cup {FloatV(MinusZero)}
             \cup {BoolV(b) : b \in BOOLEAN} \cup {Other}
Few == {IntV(2), IntV(-1), FloatV(ToFloat(0)), BoolV(TRUE)}
Simple ==
  {Apply(o, <<Leaf("x"), Leaf("y")>>) : o \in Dyadic} \cup {Apply(o, <<Leaf("x")>>) : o \in Monadic}
Nested ==
  {Apply(o, <<a, Leaf("acc")>>) : o \in Dyadic, a \in Simple}
    \cup {Apply(o, <<Leaf("acc"), a>>) : o \in Dyadic, a \in Simple}
    \cup {Apply(o, <<a>>) : o \in Monadic, a \in Simple}

MCPrograms ==
  (Simple \X {("x" :> a) @@ ("y" :> b) @@ ("acc" :> BoolV(TRUE)) : a, b \in Numbers})
    \cup (Nested \X {("x" :> a) @@ ("y" :> b) @@ ("acc" :> c) : a, b \in Few, c \in {IntV(-1), BoolV(TRUE)}})
IdleRpn == <<Leaf("acc"), [n \in {"x", "y", "acc"} |-> IntV(0)]>>

-----------------------------------------------------------------------------
(* Patterns: pairs inside a pair, and records with a key that may differ.  *)
AtomA == Node("a", 1, FALSE, <<>>)
AtomB == Node("b", 2, FALSE, <<>>)
Pair(a, b, h, t) == Node("pair", a, b, <<Item(0, h), Item(0, t)>>)
Record(a, k, h, t) == Node("record", a, FALSE, <<Item(1, h), Item(k, t)>>)

Static1 == {AtomA, Hole, Wild, Local(1), Local(2)}
Dynamic1 == {AtomA, Var("x"), Local(2)}

MCQuestions ==
  ({Pair(3, FALSE, h, Pair(4, FALSE, t, u)) : h, t, u \in Static1}
     \X {Pair(6, FALSE, h, Pair(7, FALSE, t, u)) : h, t, u \in Dynamic1})
  \cup ({Record(5, 2, h, t) : h, t \in Static1}
     \X ({Record(8, k, h, t) : h, t \in Dynamic1, k \in {2, 3}} \cup {Pair(6, FALSE, h, t) : h, t \in Dynamic1}))
MCStructures ==
  {Pair(3, b, h, Pair(4, c, t, u)) : b, c \in BOOLEAN, h, t, u \in Static1}
    \cup {Pair(3, b, Pair(4, c, t, u), Pair(5, d, u, h)) : b, c, d \in BOOLEAN, h, t, u \in Static1}
MCContents ==
  {("x" :> a) @@ ("y" :> b) : a \in {AtomA, Pair(9, FALSE, Var("y"), AtomB)}, b \in {AtomA, AtomB}}
MCLocals == {<<a, Var("y")>> : a \in {Var("x"), AtomA}}

-----------------------------------------------------------------------------
(* Programs for the assembler and the interpreter.                         *)
AP == INSTANCE AssemblerPrograms
MCSources == AP!MCSources
MCLib == AP!MCLib
MCExecuted == AP!MCExecuted

-----------------------------------------------------------------------------
IdleMatch ==
  MatchStart(Wild, Wild, [c \in Cells |-> AtomA], <<AtomA, AtomA>>, "true")
IdleAsm == AsmStart(<<>>) /\ ExecStart("never")

Init ==
  \/ part = "heap" /\ HeapInit /\ RpnStart(IdleRpn) /\ IdleMatch /\ TreeInit /\ ListInit /\ IdleAsm
  \/ part = "expressions" /\ RpnInit /\ HeapInit /\ IdleMatch /\ TreeInit /\ ListInit /\ IdleAsm
  \/ part = "patterns" /\ MatchInit /\ HeapInit /\ RpnStart(IdleRpn) /\ TreeInit /\ ListInit /\ IdleAsm
  \/ part = "symbols" /\ TreeInit /\ HeapInit /\ RpnStart(IdleRpn) /\ IdleMatch /\ ListInit /\ IdleAsm
  \/ part = "lists" /\ ListInit /\ HeapInit /\ RpnStart(IdleRpn) /\ IdleMatch /\ TreeInit /\ IdleAsm
  \/ part = "assembler" /\ ExecInit /\ HeapInit /\ RpnStart(IdleRpn) /\ IdleMatch /\ TreeInit /\ ListInit

Next ==
  /\ UNCHANGED part
  /\ \/ part = "heap" /\ HeapNext /\ UNCHANGED <<rpnVars, matchVars, treeVars, listVars, asmVars, execVars>>
     \/ part = "expressions" /\ RpnNext /\ UNCHANGED <<heapVars, matchVars, treeVars, listVars, asmVars, execVars>>
     \/ part = "patterns" /\ MatchNext /\ UNCHANGED <<heapVars, rpnVars, treeVars, listVars, asmVars, execVars>>
     \/ part = "symbols" /\ TreeNext /\ UNCHANGED <<heapVars, rpnVars, matchVars, listVars, asmVars, execVars>>
     \/ part = "lists" /\ ListNext /\ UNCHANGED <<heapVars, rpnVars, matchVars, treeVars, asmVars, execVars>>
     \/ /\ part = "assembler"
        /\ (AsmNext /\ UNCHANGED execVars) \/ ExecNext
        /\ UNCHANGED <<heapVars, rpnVars, matchVars, treeVars, listVars>>

\* Of the parts.
PartsTypeOK == HeapTypeOK /\ RpnTypeOK /\ MatchTypeOK /\ TreeTypeOK /\ ListTypeOK /\ AsmTypeOK /\ ExecTypeOK

Spec == Init /\ [][Next]_<<part, heapVars, rpnVars, matchVars, treeVars, listVars, asmVars, execVars>>
=============================================================================

------------------------- MODULE AssemblerPrograms --------------------------
(* Small programs for the assembler, by what they are about.                 *)
EXTENDS SourceText, Naturals, TLC

MCLib == ("Write" :> 1) @@ ("Readint" :> 0)
RpnPush == 0

Def(f, arity, closure) == <<"def", <<Call("function", f), Refer("OTHER", arity), Refer("OTHER", closure)>>>>
Extern(f) == <<"extern", <<Call("function", f)>>>>
Label(l) == <<"label", <<Call("label", l)>>>>
One(op, o) == <<op, <<o>>>>
Two(op, o, p) == <<op, <<o, p>>>>
Ret == <<"ret", <<>>>>

\* Statement i is on line lines[i], or each is on a line of its own.
OnLines(p, lines) == [i \in DOMAIN p |-> Statement(p[i][1], p[i][2], lines[i])]
Source(p) == OnLines(p, [i \in DOMAIN p |-> i])

Stack0 == Refer("LOCAL", 0)
Closure1 == Refer("CLOSURE", 1)
Acc == Refer("ACC", 0)
ToL == Call("label", "l")
ToM == Call("label", "m")

\* Jumps forward, backward, to the own place, to labels that the function does not
\* have or that another one has, and labels given twice.
Flow == {Label("l"), Label("m"), One("jmp", ToL), Two("branch", Acc, ToM), One("push", Acc)}
Jumps ==
  {Source(<<Def("Main", 0, 0), a, b, c, Ret, Def("F", 1, 0), d, e, Ret>>) : a, b, c, d, e \in Flow}

\* Instructions of every length, before and after a label.
Instructions ==
  {Ret, <<"create", <<>>>>, <<"yield", <<>>>>, One("pop", Refer("OTHER", 2)), One("push", Acc), One("push", Closure1),
   One("rcall", Stack0), One("closure", Acc), Two("key", Stack0, Call("key", "k")), Two("key", Stack0, Refer("OTHER", 2)),
   Two("mov", Closure1, Stack0), Two("match", Stack0, Closure1), Two("branch", Stack0, ToL),
   Two("rpn", Refer("OTHER", RpnPush), Acc), One("rpn", Refer("OTHER", 1)),
   Two("rpn", Refer("OTHER", RpnPush), Write(Constant("INT", "", 3, FALSE, <<>>)))}
Lengths == {Source(<<Def("Main", 0, 0), a, Label("l"), b, One("jmp", ToL)>>) : a, b \in Instructions}

\* Functions that are declared, or not, in any order, and used in any way.
Uses == {One(op, Write(FunctionNamed(f))) : op \in {"tcall"}, f \in {"F", "Write"}}
          \cup {One("inst", Call("function", f)) : f \in {"F", "Write"}} \cup {Ret}
Parts ==
  {<<Extern(f)>> : f \in {"F", "Write"}}
    \cup {<<Def("Main", 2, 0), u>> : u \in Uses}
    \cup {<<Def("F", 1, k), u>> : k \in 0 .. 1, u \in Uses}
Links == {Source(p \o q \o r) : p, q, r \in Parts}

\* Constants that share static variables with others, or parts of them.
Num(n) == Constant("INT", "", n, FALSE, <<>>)
List(b, t, u) == Constant("PAIR", "", 0, b, <<Entry("", t), Entry("", u)>>)
Tuple(b, t) == Constant("TUPLE", "a", 0, b, <<Entry("", t)>>)
Rec(k, t) == Constant("RECORD", "a", 0, FALSE, <<Entry("k", AtomNamed("k")), Entry(k, t)>>)
PatternOf(o) == Constant("PATTERN", o.kind, o.n, FALSE, <<>>)
Special(ty) == Constant(ty, "", 0, FALSE, <<>>)
Terms ==
  {AtomNamed("a"), Num(1), FunctionNamed("Main"), FunctionNamed("F"), Special("WILDCHAR"),
   Tuple(FALSE, AtomNamed("a")), Tuple(FALSE, FunctionNamed("Main")),
   Rec("a", Num(1)), Rec("k", Special("PLACEHOLDER"))}
    \cup {List(b, Tuple(d, PatternOf(Stack0)), PatternOf(o)) : b, d \in BOOLEAN, o \in {Stack0, Closure1}}
\* A structure may name a function before it has been a constant.
FirstTerms == Terms \cup {Tuple(b, FunctionNamed("F")) : b \in BOOLEAN}
WithConstants ==
  {Source(<<Def("Main", 0, 0), Two("match", Write(t), Stack0), Two("bind", Write(u), Write(v)), One("tcall", Write(FunctionNamed("F"))),
            Def("F", 0, 0), Two("match", Write(v), Write(u)), Ret>>) :
     t, u, v \in FirstTerms}

\* Structures that are alone to name a function, behind a new operand or not.
LateFunctions ==
  {Source(<<Def("Main", 0, 0)>> \o before \o <<Two("bind", Write(t), Write(u)), Two("match", Write(t), Write(u)), Ret, Def("F", 0, 0), Ret>>) :
     t, u \in FirstTerms,
     before \in {<<>>} \cup {<<Two("match", Write(v), Stack0), <<"yield", <<>>>>>> : v \in {Num(1), Tuple(FALSE, FunctionNamed("F"))}}}

\* Several statements on a line, and lines without any.
Lined ==
  {OnLines(<<Def("Main", 0, 0), One("push", Acc), Label("l"), One("pop", Refer("OTHER", 1)), One("jmp", ToL), Ret>>, f) :
     f \in {g \in [1 .. 6 -> 1 .. 7] : \A i \in 1 .. 5 : g[i] <= g[i + 1]}}

-----------------------------------------------------------------------------
(* Programs to execute.  Every operand that they take is there, or the text  *)
(* says which exception there is; none expects anything behind its end.      *)
RecordOf2(t, u) == Constant("RECORD", "r", 0, FALSE, <<Entry("k", t), Entry("n", u)>>)
TupleOf2 == Constant("TUPLE", "r", 0, FALSE, <<Entry("", Num(3)), Entry("", AtomNamed("a"))>>)
Push(o) == One("push", o)
CallOf(f) == One("call", Write(FunctionNamed(f)))
Local(n) == Refer("LOCAL", n)
Kept(n) == Refer("CLOSURE", n)

\* What a function may do with its operand and its closure; l is a label.
Deeds(l) ==
  {<<Push(Kept(0))>>, <<Push(Kept(2))>>, <<Push(Kept(1)), CallOf("Write")>>, <<Two("mov", Local(0), Kept(1)), <<"yield", <<>>>>>>,
   <<Push(Local(0)), CallOf("G"), Push(Kept(0))>>, <<Push(Kept(0)), One("call", Kept(1))>>,
   <<One("inst", Call("function", "H")), One("closure", Local(0)), One("closure", Kept(0)), One("call", Local(1))>>,
   <<Two("key", Local(0), Call("key", "n")), CallOf("Readint")>>, <<Two("key", Local(0), Call("key", "m"))>>,
   <<Two("key", Local(0), Refer("OTHER", 2)), Push(Local(0))>>,
   <<Two("match", Local(0), Write(AtomNamed("a"))), Two("branch", Acc, Call("label", l)), One("pop", Refer("OTHER", 1)),
     Push(Kept(0)), Label(l)>>,
   <<Two("branch", Local(0), Call("label", l)), Push(Local(0)), One("rcall", Kept(1)), Label(l)>>}
Closures ==
  {Source(<<Extern("Write"), Def("Main", 0, 0), Push(Write(t)), One("inst", Call("function", "F")), One("closure", Local(0)),
            One("closure", Write(u)), Push(Local(0)), One("call", Local(1)), CallOf("Write"), Ret,
            Def("H", 0, 2), Push(Kept(1)), CallOf("G"), Push(Kept(0)), One("ret", Refer("OTHER", 2)),
            Def("F", 1, 2)>> \o d \o e \o <<One("ret", Refer("OTHER", 1)), Extern("Readint"),
            Def("G", 1, 0), CallOf("Write"), Push(Write(AtomNamed("a"))), One("ret", Refer("OTHER", 1))>>) :
     t \in {AtomNamed("a"), AtomNamed("true"), TupleOf2, RecordOf2(Num(1), AtomNamed("false"))}, u \in {FunctionNamed("G"), Num(1)},
     d \in Deeds("l"), e \in Deeds("m")}

\* A list that is walked, by calls or by one that replaces the other.
Walks ==
  {Source(<<Extern("Write"), Def("Main", 0, 0), Push(Write(RecordOf2(Num(1), RecordOf2(Num(0), AtomNamed("nil"))))), CallOf("Walk"), Ret,
            Def("Walk", 1, 0), Two("match", Write(AtomNamed("nil")), Local(0)), Two("branch", Acc, ToL),
            Two("key", Local(0), Call("key", "k")), CallOf("Write"), Two("key", Local(0), Call("key", "n")),
            One(op, Write(FunctionNamed("Walk"))), Label("l"), Ret>>) : op \in {"call", "rcall"}}

MCExecuted == Closures \cup Walks
MCSources == Jumps \cup Lengths \cup Links \cup WithConstants \cup LateFunctions \cup Lined
=============================================================================

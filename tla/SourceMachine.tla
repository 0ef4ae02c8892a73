--------------------------- MODULE SourceMachine ----------------------------
(***************************************************************************)
(* What a program of the assembler's language means, read as it is         *)
(* written: a machine that goes from statement to statement of the text    *)
(* and knows nothing of offsets, tables, words, or of being put aside.     *)
(*                                                                         *)
(* A value is a constant as it is written; an instance of a function is    *)
(* the function's constant with its closure as items.                      *)
(***************************************************************************)
EXTENDS SourceText, Naturals

CONSTANTS
  Natives,   \* a function from names to arities
  Typed      \* the numbers that Readint may read

VARIABLES
  program,   \* the statements
  machine,   \* at: the statement to execute; the operands, where those of the function
             \* begin, the function itself, what it returns to; the result of a match
  out        \* what has been written

Init ==
  /\ machine = [at |-> 0, operands |-> <<>>, base |-> 0, fun |-> FunctionNamed("Main"), callers |-> <<>>,
                acc |-> FALSE, outcome |-> "not begun"]
  /\ out = <<>>

Following(j) == CHOOSE i \in j .. Len(program) : IsInstruction(program[i]) /\ \A k \in j .. i - 1 : ~IsInstruction(program[k])
Says(i, f) == program[i].op \in {"def", "extern"} /\ program[i].args[1].name = f
Declaration(f) == CHOOSE i \in DOMAIN program : Says(i, f) /\ \A k \in i + 1 .. Len(program) : ~Says(k, f)
Body(f) == Following(Declaration(f))
IsNative(f) == program[Declaration(f)].op = "extern"
HeadOf(j) == CHOOSE i \in 1 .. j : program[i].op = "def" /\ \A k \in i + 1 .. j : program[k].op # "def"
Place(l) ==
  Following(CHOOSE i \in DOMAIN program :
              program[i].op = "label" /\ program[i].args[1].name = l /\ HeadOf(i) = HeadOf(machine.at))

Begin ==
  /\ machine.outcome = "not begun" /\ \E i \in DOMAIN program : Says(i, "Main")
  /\ machine' = [machine EXCEPT !.outcome = "running", !.at = Body("Main")]
  /\ UNCHANGED <<program, out>>

Here == program[machine.at]
Does(op) == machine.outcome = "running" /\ Here.op = op
Goes(m) == machine' = m /\ UNCHANGED <<program, out>>
Steps(m) == Goes([m EXCEPT !.at = Following(@ + 1)])
Fails(e) == Goes([machine EXCEPT !.outcome = e])

Given(o) ==
  CASE o.kind = "LOCAL" -> machine.base + o.n < Len(machine.operands)
    [] o.kind = "CLOSURE" -> o.n < Len(machine.fun.items)
    [] OTHER -> TRUE
Operands(s) == \A n \in DOMAIN s.args : Given(s.args[n])
ValueOf(o) ==
  CASE o.kind = "LOCAL" -> machine.operands[machine.base + o.n + 1]
    [] o.kind = "CLOSURE" -> machine.fun.items[o.n + 1].term
    [] OTHER -> o.term
First == ValueOf(Here.args[1])
Second == ValueOf(Here.args[2])
Number == IF Here.args = <<>> THEN 0 ELSE Here.args[1].n

OutOfBounds ==
  /\ machine.outcome = "running"
  /\ IF Here.op = "mov" THEN ~Given(Here.args[2]) ELSE ~Operands(Here)
  /\ Fails("out of bounds")
Executes(op) == Does(op) /\ Operands(Here)

Push == Executes("push") /\ Steps([machine EXCEPT !.operands = Append(@, First)])
Pop == Does("pop") /\ Steps([machine EXCEPT !.operands = SubSeq(@, 1, Len(@) - Number)])
Match == Executes("match") /\ Steps([machine EXCEPT !.acc = (First = Second)])
Move == Does("mov") /\ Steps([machine EXCEPT !.operands[machine.base + Number + 1] = Second])

\* A function, with the values of the closure instructions behind this one.
Instance ==
  LET f == Here.args[1].name
      kept == [i \in 1 .. program[Declaration(f)].args[3].n |->
                 Entry("", ValueOf(program[machine.at + i].args[1]))]
  IN
  /\ Does("inst")
  /\ Goes([machine EXCEPT !.operands = Append(@, Constant("FUNCTION", f, 0, FALSE, kept)),
                          !.at = Following(@ + Len(kept) + 1)])

Selected ==
  CASE First.type = "RECORD" -> {i \in DOMAIN First.items : First.items[i].key = Here.args[2].name}
    [] First.type = "TUPLE" -> {Here.args[2].n} \cap DOMAIN First.items
    [] OTHER -> {}
Key ==
  /\ Executes("key")
  /\ IF First.type \notin {"RECORD", "TUPLE"} THEN Fails("type error")
     ELSE IF Selected = {} THEN Fails("key error")
     ELSE Steps([machine EXCEPT !.operands = Append(@, First.items[CHOOSE i \in Selected : \A k \in Selected : i <= k].term)])

\* The last n operands, and what is below those of the function.
Last(n) == SubSeq(machine.operands, Len(machine.operands) - n + 1, Len(machine.operands))
Below == SubSeq(machine.operands, 1, machine.base)

NoFunction ==
  /\ Executes("call") \/ Executes("rcall")
  /\ First.type # "FUNCTION" /\ Fails("type error")
Enter ==
  LET arity == program[Declaration(First.name)].args[2].n IN
  /\ Executes("call") /\ First.type = "FUNCTION" /\ ~IsNative(First.name)
  /\ Goes([machine EXCEPT !.callers = Append(@, [at |-> machine.at, base |-> machine.base, fun |-> machine.fun]),
                          !.base = Len(machine.operands) - arity, !.fun = First, !.at = Body(First.name)])
EnterInstead ==
  LET arity == program[Declaration(First.name)].args[2].n IN
  /\ Executes("rcall") /\ First.type = "FUNCTION" /\ ~IsNative(First.name)
  /\ Goes([machine EXCEPT !.operands = Below \o Last(arity), !.fun = First, !.at = Body(First.name)])
CallNative ==
  LET arity == Natives[First.name]
      m == [machine EXCEPT !.operands = SubSeq(@, 1, Len(@) - arity), !.at = Following(@ + 1)]
  IN
  /\ Executes("call") /\ First.type = "FUNCTION" /\ IsNative(First.name)
  /\ \/ First.name = "Write" /\ machine' = m /\ out' = Append(out, Last(1)[1])
     \/ First.name = "Readint" /\ UNCHANGED out
          /\ \E n \in Typed : machine' = [m EXCEPT !.operands = Append(@, Constant("INT", "", n, FALSE, <<>>))]
  /\ UNCHANGED program
Return ==
  LET m == [machine EXCEPT !.operands = Below \o Last(Number)]
      c == machine.callers[Len(machine.callers)]
  IN
  /\ Does("ret")
  /\ IF machine.callers = <<>> THEN Goes([m EXCEPT !.outcome = "exit"])
     ELSE Goes([m EXCEPT !.callers = SubSeq(@, 1, Len(@) - 1), !.at = Following(c.at + 1),
                         !.base = c.base, !.fun = c.fun])

Jump == Does("jmp") /\ Goes([machine EXCEPT !.at = Place(Here.args[1].name)])
\* The condition is the result of the last match, or an operand.
Condition ==
  CASE Here.args[1].kind = "ACC" -> AtomNamed(IF machine.acc THEN "true" ELSE "false")
    [] OTHER -> First
Branch ==
  /\ Executes("branch")
  /\ CASE Condition = AtomNamed("true") -> Goes([machine EXCEPT !.at = Place(Here.args[2].name)])
       [] Condition = AtomNamed("false") -> Steps(machine)
       [] OTHER -> Fails("type error")
Yield == Does("yield") /\ Steps(machine)

Next ==
  \/ Begin \/ OutOfBounds \/ Push \/ Pop \/ Match \/ Move \/ Instance \/ Key \/ NoFunction \/ Enter
  \/ EnterInstead \/ CallNative \/ Return \/ Jump \/ Branch \/ Yield

Spec == Init /\ [][Next]_<<program, machine, out>>
=============================================================================

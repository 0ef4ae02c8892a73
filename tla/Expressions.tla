---------------------------- MODULE Expressions -----------------------------
(***************************************************************************)
(* The evaluation of expressions (vm_rpn.h).  An expression is a run of    *)
(* VM_OP_RPN instructions: pushes of variables or of the accumulator, and  *)
(* operators, in postfix order.  vm_rpn executes them on a stack of their  *)
(* own, and leaves the value in the accumulator.  When it needs a variable *)
(* that is unbound the green thread waits for it, and then evaluates the   *)
(* expression again from its start.                                        *)
(*                                                                         *)
(* A number is an int of Width bits or a float.  Both are in one union, of *)
(* which some operators read the int whatever was written, so a float is   *)
(* its bits here: its sign, in bit 0, and a whole number.  There are two   *)
(* zeros; NaN and the infinities are left out.  What the arithmetic of     *)
(* floats gives is the parameter Float.  vm_int_t is as long as a float,   *)
(* as it is in the 64-bit build.                                           *)
(***************************************************************************)
EXTENDS Integers, Sequences, Bitwise

CONSTANTS
  Width,            \* bits of vm_int_t
  Names,            \* variables of the program
  Programs,         \* pairs of an expression, and the values of Names and "acc"
  Float(_, _, _)    \* the bits that an operator gives for the bits of two floats

IntV(n) == [t |-> "int", v |-> n]
FloatV(b) == [t |-> "float", v |-> b]
BoolV(b) == [t |-> "bool", v |-> IF b THEN 1 ELSE 0]
Other == [t |-> "other", v |-> 0]         \* any other atom, or a structure

\* The float that is a whole number, and the whole number that a float is.
ToFloat(n) == IF n < 0 THEN 1 - 2 * n ELSE 2 * n
MinusZero == 1
Whole(b) == IF b % 2 = 1 THEN -(b \div 2) ELSE b \div 2
NumberOf(x) == IF x.t = "float" THEN Whole(x.v) ELSE x.v
CastFloat(x) == IF x.t = "int" THEN ToFloat(x.v) ELSE x.v

\* An exception, the signal of a division that overflows, or the bits of two
\* booleans taken for floats (vm_rpn_floatcast lets them pass, vm_rpn.h:9),
\* which is not followed further.
Fault(name) == [t |-> name, v |-> 0]
Faults == {"type_error", "zero_divide", "sigfpe", "punned"}

Least == -(2 ^ (Width - 1))
Ints == Least .. -Least - 1
Wrap(n) == ((n - Least) % 2 ^ Width) + Least
Bits(n) == n % 2 ^ Width

\* An expression: a name, or an operator with its operands.
Leaf(x) == [op |-> "push", args |-> <<x>>]
Apply(o, args) == [op |-> o, args |-> args]
Arithmetic == {"ADD", "SUB", "MUL", "DIV", "POW"}
Order == {"LEQ", "GEQ", "LE", "GE"}
Logic == {"OR", "AND", "XOR"}
Dyadic == Arithmetic \cup Order \cup Logic \cup {"MOD", "EQ", "NEQ"}
Monadic == {"NEG", "NOT"}

VARIABLES
  expr,     \* the expression
  given,    \* values that the variables have or will have, and the first acc
  bound,    \* the variables that have theirs
  todo,     \* instructions from context->env.pc on, while they are executed
  rpnStack, \* context->rpn_stack, its top last
  acc,      \* context->env.acc
  rpnMode   \* "run", "end", a fault, or "wait" for a variable

rpnVars == <<expr, given, bound, todo, rpnStack, acc, rpnMode>>

\* The postfix code of an expression.
RECURSIVE Code(_)
Code(e) ==
  IF e.op = "push" THEN <<e>>
  ELSE IF Len(e.args) = 1 THEN Append(Code(e.args[1]), e)
  ELSE Append(Code(e.args[1]) \o Code(e.args[2]), e)

Values == [t : {"int"}, v : Ints] \cup [t : {"float"}, v : Nat] \cup [t : {"bool"}, v : {0, 1}]

RpnTypeOK ==
  /\ bound \subseteq Names
  /\ \A i \in DOMAIN rpnStack : rpnStack[i] \in Values
  /\ acc \in Values
  /\ rpnMode \in {"run", "wait", "end"} \cup Faults
  /\ Len(todo) <= Len(Code(expr))

RpnStart(p) ==
  /\ expr = p[1] /\ given = p[2]
  /\ bound = {}
  /\ todo = Code(expr) /\ rpnStack = <<>>
  /\ acc = given["acc"]
  /\ rpnMode = "run"
RpnInit == \E p \in Programs : RpnStart(p)

-----------------------------------------------------------------------------
(* vm_rpn_execute.  x is stack[-2] and y is stack[-1].                     *)

\* Division and remainder of C, which round towards zero.
Sign(n) == IF n < 0 THEN -1 ELSE 1
Quotient(x, y) == Sign(x) * Sign(y) * ((x * Sign(x)) \div (y * Sign(y)))
Divides(x, y, n) ==
  IF y = 0 THEN Fault("zero_divide")
  ELSE IF x = Least /\ y = -1 THEN Fault("sigfpe") ELSE IntV(n)

\* Seeded fault: the base is squared before it is used.
Power_SquareFirst(x, y) ==
  LET loop[v, b \in Ints, e \in Nat] ==
        IF e = 0 THEN v
        ELSE loop[IF e % 2 = 1 THEN Wrap(v * Wrap(b * b)) ELSE v, Wrap(b * b), e \div 2]
  IN IF y >= 0 THEN IntV(loop[1, x, y])
     ELSE IF x = 0 THEN Fault("zero_divide")
     ELSE IntV(IF Wrap(x * x) # 1 THEN 0 ELSE IF y % 2 = 1 THEN x ELSE 1)

Power(x, y) ==
  LET loop[v, b \in Ints, e \in Nat] ==
        IF e = 0 THEN v
        ELSE loop[IF e % 2 = 1 THEN Wrap(v * b) ELSE v, Wrap(b * b), e \div 2]
  IN IF y >= 0 THEN IntV(loop[1, x, y])
     ELSE IF x = 0 THEN Fault("zero_divide")
     ELSE IntV(IF Wrap(x * x) # 1 THEN 0 ELSE IF y % 2 = 1 THEN x ELSE 1)

IntOp(o, x, y) ==
  CASE o = "ADD" -> IntV(Wrap(x + y))
    [] o = "SUB" -> IntV(Wrap(x - y))
    [] o = "MUL" -> IntV(Wrap(x * y))
    [] o = "DIV" -> Divides(x, y, Quotient(x, y))
    [] o = "MOD" -> Divides(x, y, x - y * Quotient(x, y))
    [] o = "POW" -> Power(x, y)

\* Two booleans come here too: their bits are those of two floats that are not
\* in the model, except for 0.
FloatOp(o, x, y) ==
  IF (o = "DIV" /\ NumberOf(y) = 0) \/ (o = "POW" /\ NumberOf(x) = 0) THEN Fault("zero_divide")
  ELSE IF x.t = "bool" THEN Fault("punned")
  ELSE FloatV(Float(o, CastFloat(x), CastFloat(y)))

\* And here, where the bits of 0 and 1 are in order as floats.
Compare(o, x, y) ==
  CASE o = "LEQ" -> BoolV(x <= y)
    [] o = "GEQ" -> BoolV(x >= y)
    [] o = "LE" -> BoolV(x < y)
    [] o = "GE" -> BoolV(x > y)

BitOp(o, m, n) == CASE o = "OR" -> m | n [] o = "AND" -> m & n [] o = "XOR" -> m ^^ n

\* vm_rpn_floatcast throws for a boolean and a number.
Mixable(x, y) == x.t = y.t \/ "bool" \notin {x.t, y.t}

Execute(o, x, y) ==
  CASE o \in Arithmetic \cup Order /\ ~Mixable(x, y) -> Fault("type_error")
    [] o \in Order /\ Mixable(x, y) -> Compare(o, NumberOf(x), NumberOf(y))
    [] o \in Arithmetic /\ x.t = "int" /\ y.t = "int" -> IntOp(o, x.v, y.v)
    [] o \in Arithmetic /\ Mixable(x, y) /\ ~(x.t = "int" /\ y.t = "int") -> FloatOp(o, x, y)
    [] o = "MOD" -> IF x.t = "int" /\ y.t = "int" THEN IntOp(o, x.v, y.v) ELSE Fault("type_error")
    [] o = "EQ" -> BoolV(x.t = y.t /\ x.v = y.v)       \* v_int, of two floats too
    [] o = "NEQ" -> BoolV(x.t # y.t \/ x.v # y.v)
    [] o \in Logic -> IF x.t # y.t \/ y.t = "float" THEN Fault("type_error")
                      ELSE [y EXCEPT !.v = IF y.t = "bool" THEN BitOp(o, x.v, y.v)
                                           ELSE Wrap(BitOp(o, Bits(x.v), Bits(y.v)))]

ExecuteOne(o, y) ==
  CASE o = "NEG" -> IF y.t = "bool" THEN Fault("type_error")
                    ELSE [y EXCEPT !.v = IF y.t = "int" THEN Wrap(-y.v) ELSE y.v ^^ 1]
    [] o = "NOT" -> IF y.t = "float" THEN Fault("type_error")
                    ELSE [y EXCEPT !.v = IF y.t = "bool" THEN (-y.v - 1) % 2 ELSE -y.v - 1]

-----------------------------------------------------------------------------
(* vm_rpn.                                                                 *)

Running(op) == rpnMode = "run" /\ todo # <<>> /\ todo[1].op = op
Static == <<expr, given, bound>>

\* The rest of the stack with a value, or the end of the instruction.
Leaves(rest, value) ==
  \/ /\ value.t \in Faults
     /\ rpnMode' = value.t
     /\ UNCHANGED <<rpnStack, todo>>
  \/ /\ value.t \notin Faults
     /\ rpnStack' = Append(rest, value)
     /\ todo' = Tail(todo)
     /\ UNCHANGED rpnMode

PushAcc ==
  /\ Running("push") /\ todo[1].args[1] = "acc"
  /\ rpnStack' = Append(rpnStack, acc) /\ todo' = Tail(todo)
  /\ UNCHANGED <<Static, acc, rpnMode>>

PushVar ==
  LET x == todo[1].args[1] IN
  /\ Running("push") /\ x \in bound
  /\ Leaves(rpnStack, IF given[x] = Other THEN Fault("type_error") ELSE given[x])
  /\ UNCHANGED <<Static, acc>>

\* vm_dereferance stops the thread; env.pc is still at the first instruction.
WaitVar ==
  LET x == todo[1].args[1] IN
  /\ Running("push") /\ x \in Names \ bound
  /\ rpnMode' = "wait"
  /\ UNCHANGED <<Static, todo, rpnStack, acc>>

Operate2 ==
  LET n == Len(rpnStack) IN
  /\ \E o \in Dyadic : Running(o) /\ Leaves(SubSeq(rpnStack, 1, n - 2), Execute(o, rpnStack[n - 1], rpnStack[n]))
  /\ UNCHANGED <<Static, acc>>

Operate1 ==
  LET n == Len(rpnStack) IN
  /\ \E o \in Monadic : Running(o) /\ Leaves(SubSeq(rpnStack, 1, n - 1), ExecuteOne(o, rpnStack[n]))
  /\ UNCHANGED <<Static, acc>>

Finish ==
  /\ rpnMode = "run" /\ todo = <<>>
  /\ acc' = rpnStack[Len(rpnStack)]
  /\ rpnMode' = "end"
  /\ UNCHANGED <<Static, todo, rpnStack>>

\* Another thread binds a variable.
BindVar(x) ==
  /\ x \in Names \ bound
  /\ bound' = bound \cup {x}
  /\ UNCHANGED <<expr, given, todo, rpnStack, acc, rpnMode>>

ResumeRpn ==
  /\ rpnMode = "wait" /\ todo[1].args[1] \in bound
  /\ rpnMode' = "run" /\ rpnStack' = <<>>
  /\ todo' = Code(expr)
  /\ UNCHANGED <<Static, acc>>

RpnNext ==
  \/ PushAcc \/ PushVar \/ WaitVar \/ Operate2 \/ Operate1 \/ Finish \/ ResumeRpn
  \/ \E x \in Names : BindVar(x)

-----------------------------------------------------------------------------
(* The meaning of an expression, apart from how it is computed.            *)

\* The int that is n modulo 2 ^ Width; the int with given bits that are 1.
TheInt(n) == IntV(CHOOSE i \in Ints : (i - n) % 2 ^ Width = 0)
BitsOf(n) == {i \in 0 .. Width - 1 : (n \div 2 ^ i) % 2 = 1}
TheBits(S) == IntV(CHOOSE n \in Ints : BitsOf(n) = S)

\* q is x / y and r is x % y: x = q * y + r with a remainder smaller than y, of x's sign.
Rounded(x, y) ==
  CHOOSE d \in Ints \X Ints :
    /\ x = d[1] * y + d[2]
    /\ d[2] * Sign(d[2]) < y * Sign(y) /\ (d[2] # 0 => Sign(d[2]) = Sign(x))

MeansInt(o, x, y) ==
  CASE o = "ADD" -> TheInt(x + y)
    [] o = "SUB" -> TheInt(x - y)
    [] o = "MUL" -> TheInt(x * y)
    [] o \in {"DIV", "MOD"} ->
         IF y = 0 THEN Fault("zero_divide")
         ELSE IF x = Least /\ y = -1 THEN Fault("sigfpe")
         ELSE IntV(Rounded(x, y)[IF o = "DIV" THEN 1 ELSE 2])
    [] o = "POW" ->     \* 1 / x is an int if x is its own inverse
         IF y = 0 THEN IntV(1)
         ELSE IF y > 0 THEN TheInt(x ^ y)
         ELSE IF x = 0 THEN Fault("zero_divide")
         ELSE IF (x * x - 1) % 2 ^ Width = 0 THEN TheInt(x ^ (-y)) ELSE IntV(0)

\* The two zeros are one number, but have each its sign.
Negative(x) == x.t = "float" /\ (NumberOf(x) < 0 \/ x.v = MinusZero)
Negation(x) == IF NumberOf(x) = 0 /\ ~Negative(x) THEN FloatV(MinusZero) ELSE FloatV(ToFloat(-NumberOf(x)))

\* A float is EQ to itself only: 0.0 is not EQ to -0.0.
Means(o, x, y) ==
  LET numbers == {x.t, y.t} \subseteq {"int", "float"}
      ints == x.t = "int" /\ y.t = "int"
      bools == x.t = "bool" /\ y.t = "bool" IN
  CASE o \in {"EQ", "NEQ"} ->
         BoolV((o = "EQ") <=> (x.t = y.t /\ NumberOf(x) = NumberOf(y) /\ Negative(x) = Negative(y)))
    [] o \in Order -> IF ~numbers /\ ~bools THEN Fault("type_error")
                      ELSE BoolV(\/ NumberOf(x) < NumberOf(y) /\ o \in {"LE", "LEQ"}
                                 \/ NumberOf(x) > NumberOf(y) /\ o \in {"GE", "GEQ"}
                                 \/ NumberOf(x) = NumberOf(y) /\ o \in {"LEQ", "GEQ"})
    [] o \in Arithmetic -> IF ints THEN MeansInt(o, x.v, y.v)
                           ELSE IF bools \/ ~numbers THEN Fault("type_error")
                           ELSE IF (o = "DIV" /\ NumberOf(y) = 0) \/ (o = "POW" /\ NumberOf(x) = 0)
                           THEN Fault("zero_divide")
                           ELSE FloatV(Float(o, CastFloat(x), CastFloat(y)))
    [] o = "MOD" -> IF ints THEN MeansInt(o, x.v, y.v) ELSE Fault("type_error")
    [] o \in Logic ->
         LET S == BitsOf(x.v)
             T == BitsOf(y.v)
             B == CASE o = "OR" -> S \cup T
                    [] o = "AND" -> S \cap T
                    [] o = "XOR" -> (S \cup T) \ (S \cap T)
         IN IF ints THEN TheBits(B) ELSE IF bools THEN BoolV(0 \in B) ELSE Fault("type_error")

MeansOne(o, y) ==
  CASE y.t = "int" -> IF o = "NEG" THEN TheInt(-y.v) ELSE TheBits((0 .. Width - 1) \ BitsOf(y.v))
    [] y.t = "float" -> IF o = "NEG" THEN Negation(y) ELSE Fault("type_error")
    [] y.t = "bool" -> IF o = "NOT" THEN BoolV(y.v = 0) ELSE Fault("type_error")

RECURSIVE Meaning(_)
Meaning(e) ==
  IF e.op = "push" THEN IF given[e.args[1]] = Other THEN Fault("type_error") ELSE given[e.args[1]]
  ELSE LET x == Meaning(e.args[1]) IN
       IF x.t \in Faults THEN x
       ELSE IF e.op \in Monadic THEN MeansOne(e.op, x)
       ELSE LET y == Meaning(e.args[2]) IN IF y.t \in Faults THEN y ELSE Means(e.op, x, y)

\* However often the thread had to wait and start again, and whatever was in
\* the accumulator, evaluation ends with the meaning of the expression, or with
\* the exception of its leftmost fault.  Arithmetic on two booleans should be a
\* type error: vm_rpn_floatcast misses it, and the result is called punned, or
\* a division by zero.
ResultRight ==
  /\ rpnMode = "end" => acc = Meaning(expr)
  /\ rpnMode \in {"type_error", "sigfpe"} => Meaning(expr).t = rpnMode
  /\ rpnMode = "zero_divide" => Meaning(expr).t \in {"zero_divide", "type_error"}
  /\ rpnMode = "punned" => Meaning(expr).t = "type_error"

\* vm_bind compares two floats as numbers (vm_bind.c:70), and so do the orders
\* (vm_rpn.h:118, 126): for two that vm_bind takes for one value EQ gives TRUE.
\* False: the zeros.
EqualAsNumbers ==
  rpnMode = "end" /\ expr = Apply("EQ", <<Leaf("x"), Leaf("y")>>)
    /\ given["x"].t = "float" /\ given["y"].t = "float" =>
  (acc = BoolV(TRUE) <=> NumberOf(given["x"]) = NumberOf(given["y"]))
=============================================================================

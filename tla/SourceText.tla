---------------------------- MODULE SourceText ------------------------------
(***************************************************************************)
(* Programs of the assembler's language, as the lexer and the grammar have *)
(* them: sequences of statements.                                          *)
(***************************************************************************)
EXTENDS Sequences

\* A constant as it is written: an "INT" n, an "ATOM" or a "FUNCTION" with a
\* name, a "PATTERN" (the reference name.n), a "WILDCHAR", a "PLACEHOLDER", or a
\* "PAIR", "TUPLE" or "RECORD" of items, with a name or without, and with a !.
Constant(ty, name, n, bang, items) ==
  [type |-> ty, name |-> name, n |-> n, bang |-> bang, items |-> items]
Entry(key, t) == [key |-> key, term |-> t]
AtomNamed(a) == Constant("ATOM", a, 0, FALSE, <<>>)
FunctionNamed(f) == Constant("FUNCTION", f, 0, FALSE, <<>>)

\* An operand is a "CONSTANT", a reference ("LOCAL", "CLOSURE", "ACC") with its
\* number, a number ("OTHER"), or the name of a "label", a "function" or a "key".
Operand(kind, name, n, t) == [kind |-> kind, name |-> name, n |-> n, term |-> t]
Refer(kind, n) == Operand(kind, "", n, AtomNamed(""))
Call(kind, name) == Operand(kind, name, 0, AtomNamed(""))
Write(t) == Operand("CONSTANT", "", 0, t)

\* "def" and "extern" declare the function that their first operand names, "label"
\* marks a place; all others are instructions.
Statement(op, args, line) == [op |-> op, args |-> args, line |-> line]
IsInstruction(s) == s.op \notin {"def", "extern", "label"}
=============================================================================

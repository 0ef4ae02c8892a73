----------------------------- MODULE Assembler ------------------------------
(***************************************************************************)
(* The assembler: what the reductions of the grammar (parser.y) do to the  *)
(* context (asm_struct.c), statement by statement, and the image that      *)
(* asm_convert makes of it.                                                *)
(*                                                                         *)
(* The search trees are sequences here, in the order of their arrays, which*)
(* is that of insertion while there are at most 128 entries (SymbolTree    *)
(* has the tree itself); a string is its own number, and memory for all of *)
(* them is there.  Offsets count words of 4 bytes.                         *)
(***************************************************************************)
EXTENDS SourceText, Integers, FiniteSets
LOCAL INSTANCE SequencesExt

CONSTANTS
  Sources,   \* programs, in which every function ends with an instruction
  Lib        \* the natives: a function from names to arities

RPNPUSH == 0
Infinity == -1      \* 0xFFFFFFFF
NULL == 0

VARIABLES
  unread,    \* statements that have not been read
  context,   \* the asm_context_t
  verdict,   \* "reading", "syntax error", "link error" or "linked"
  image,     \* what asm_convert has made
  read       \* the statements that have been read; not in the code

asmVars == <<unread, context, verdict, image, read>>

AsmTypeOK ==
  /\ verdict \in {"reading", "syntax error", "link error", "linked"}
  /\ \A i \in DOMAIN context.funs : context.funs[i].state \in 0 .. 2 /\ context.funs[i].addr \in 0 .. Len(context.code)
  /\ \A i \in DOMAIN context.vars : context.vars[i].index \in -1 .. context.next
  /\ \A l \in DOMAIN context.labels : context.labels[l] \in DOMAIN context.cells
  /\ \A i \in DOMAIN context.cells : context.cells[i] \in 0 .. Len(context.code)

-----------------------------------------------------------------------------
(* The tables of the context.                                              *)

Place(seq, x) == CHOOSE i \in DOMAIN seq : seq[i] = x
Interned(seq, x) == IF x \in Range(seq) THEN seq ELSE Append(seq, x)
AddAtom(c, a) == [c EXCEPT !.atoms = Interned(@, a)]
AtomNo(c, a) == Place(c.atoms, a) - 1

NamesOf(c) == [i \in DOMAIN c.funs |-> c.funs[i].name]
AddFunction(c, f) ==
  IF f \in Range(NamesOf(c)) THEN c
  ELSE [c EXCEPT !.funs = Append(@, [name |-> f, arity |-> 0, closure |-> 0, addr |-> NULL, state |-> 0])]
FunctionAt(c, f) == Place(NamesOf(c), f)

IsStructure(t) == t.type \in {"PAIR", "TUPLE", "RECORD"}

\* The asm_varible_t of a constant, with all that cmp_var compares: numbers for
\* names, and the clone flags of asm_push_pattern, inside a ! if b.
RECURSIVE Numbered(_, _, _)
Numbered(c, t, b) ==
  LET inside == b \/ t.bang
      items == [i \in DOMAIN t.items |->
                  [key |-> IF t.items[i].key = "" THEN -1 ELSE AtomNo(c, t.items[i].key),
                   var |-> Numbered(c, t.items[i].term, inside)]]
  IN [type |-> t.type,
      ref |-> IF t.type = "PATTERN" THEN t.name ELSE "",
      num |-> CASE t.type \in {"ATOM", "TUPLE", "RECORD"} -> AtomNo(c, t.name)
                [] t.type = "FUNCTION" -> FunctionAt(c, t.name) - 1
                [] OTHER -> t.n,
      clone |-> \E i \in DOMAIN items :
                  items[i].var.clone \/ (items[i].var.type = "PATTERN" /\ inside),
      items |-> items]

VarNo(c, v) == CHOOSE i \in DOMAIN c.vars : c.vars[i].var = v
AllocateVar(c, v) ==
  IF \E i \in DOMAIN c.vars : c.vars[i].var = v THEN c
  ELSE [c EXCEPT !.vars = Append(@, [var |-> v, registered |-> FALSE,
                                     index |-> IF v.type = "FUNCTION" THEN c.next ELSE -1])]
RegisterVar(c, v) ==
  LET i == VarNo(c, v) IN
  IF c.vars[i].registered THEN c
  ELSE [c EXCEPT !.vars[i].registered = TRUE, !.vars[i].index = c.next, !.next = @ + 1]

\* What the reductions of a constant add, leaves first.
RECURSIVE Parse(_, _)
Parse(c, t) ==
  LET AddItem(d, i) == LET e == Parse(d, i.term) IN IF i.key = "" THEN e ELSE AddAtom(e, i.key)
      inner == FoldLeft(AddItem, c, t.items)
      AddFun(d) ==
        LET e == AddFunction(d, t.name)
            i == FunctionAt(e, t.name)
        IN IF e.funs[i].state = 0 THEN [e EXCEPT !.funs[i].state = 1] ELSE e
      named == CASE t.type \in {"ATOM", "TUPLE", "RECORD"} -> AddAtom(inner, t.name)
                 [] t.type = "FUNCTION" -> AddFun(inner)
                 [] OTHER -> inner
  IN IF IsStructure(t) THEN named ELSE AllocateVar(named, Numbered(named, t, FALSE))

\* What asm_push_pattern adds: the structures, inner ones first.
RECURSIVE PushPattern(_, _, _)
PushPattern(c, t, b) ==
  LET PushItem(d, i) == PushPattern(d, i.term, b \/ t.bang) IN
  IF IsStructure(t) THEN AllocateVar(FoldLeft(PushItem, c, t.items), Numbered(c, t, b)) ELSE c

AddConstant(c, t) == PushPattern(Parse(c, t), t, FALSE)

\* asm_allocate_label, with b the instruction before the label or NULL.
AllocateLabel(c, l, b) ==
  IF l \notin DOMAIN c.labels
  THEN [c EXCEPT !.cells = Append(@, b),
                 !.labels = [k \in DOMAIN @ \cup {l} |-> IF k = l THEN Len(c.cells) + 1 ELSE @[k]]]
  ELSE IF b = NULL THEN c
  ELSE [c EXCEPT !.cells[c.labels[l]] = b]

-----------------------------------------------------------------------------
(* Reading.                                                                *)

Instruction(op, a, b, line) == [op |-> op, a |-> a, b |-> b, line |-> line]
Nothing == [type |-> "OTHER", value |-> 0]
EmptyContext ==
  [atoms |-> <<>>, funs |-> <<>>, vars |-> <<>>, next |-> 0, labels |-> <<>>, cells |-> <<>>,
   code |-> <<Instruction("int", Nothing, Nothing, 0)>>]
Known == <<AtomNamed("false"), AtomNamed("true"), AtomNamed("nil"), FunctionNamed("Main")>>
NewContext ==
  LET Add(c, t) == LET d == AddConstant(c, t) IN RegisterVar(d, Numbered(d, t, FALSE))
  IN FoldLeft(Add, EmptyContext, Known)
NoImage == [program |-> <<>>]

AsmStart(p) ==
  /\ unread = p /\ read = <<>>
  /\ context = NewContext
  /\ verdict = "reading"
  /\ image = NoImage
AsmInit == \E p \in Sources : AsmStart(p)

\* The next statement is read, with the context c after it.
Reads(c) ==
  /\ context' = c
  /\ unread' = Tail(unread) /\ read' = Append(read, Head(unread))
  /\ UNCHANGED <<verdict, image>>
Next1(op) == verdict = "reading" /\ unread # <<>> /\ Head(unread).op = op
Stops(v) == verdict' = v /\ UNCHANGED <<unread, read, context, image>>

Tailed == Len(context.code)      \* context->tail

ReadExtern ==
  LET c == AddFunction(context, Head(unread).args[1].name)
      f == FunctionAt(c, Head(unread).args[1].name)
  IN
  /\ Next1("extern")
  /\ Reads([c EXCEPT !.funs[f].addr = NULL, !.funs[f].state = 2])

\* Seeded fault: the labels of the function before stay known.
ReadHead_KeepsLabels ==
  LET s == Head(unread)
      c == AddFunction(context, s.args[1].name)
      f == FunctionAt(c, s.args[1].name)
  IN
  /\ Next1("def")
  /\ IF c.funs[f].state = 2 THEN Stops("syntax error")
     ELSE Reads([c EXCEPT !.funs[f] = [@ EXCEPT !.arity = s.args[2].n, !.closure = s.args[3].n,
                                                !.addr = Tailed, !.state = 2]])

ReadHead ==
  LET s == Head(unread)
      c == AddFunction(context, s.args[1].name)
      f == FunctionAt(c, s.args[1].name)
  IN
  /\ Next1("def")
  /\ IF c.funs[f].state = 2 THEN Stops("syntax error")
     ELSE Reads([c EXCEPT !.funs[f] = [@ EXCEPT !.arity = s.args[2].n, !.closure = s.args[3].n,
                                                !.addr = Tailed, !.state = 2],
                          !.labels = <<>>])

ReadLabel ==
  LET l == Head(unread).args[1].name IN
  /\ Next1("label")
  /\ IF l \in DOMAIN context.labels /\ context.cells[context.labels[l]] # NULL
     THEN Stops("syntax error")
     ELSE Reads(AllocateLabel(context, l, Tailed))

\* Constants are allocated while the operands are read, and registered after that.
ReadOperand(c, o) ==
  CASE o.kind = "CONSTANT" -> AddConstant(c, o.term)
    [] o.kind = "function" -> AddFunction(c, o.name)
    [] o.kind = "key" -> AddAtom(c, o.name)
    [] o.kind = "label" -> AllocateLabel(c, o.name, NULL)
    [] OTHER -> c
Register(c, o) == IF o.kind = "CONSTANT" THEN RegisterVar(c, Numbered(c, o.term, FALSE)) ELSE c

Encoded(c, o) ==
  CASE o.kind = "CONSTANT" ->
         [type |-> "CONSTANT", value |-> c.vars[VarNo(c, Numbered(c, o.term, FALSE))].index]
    [] o.kind = "function" -> [type |-> "OTHER", value |-> FunctionAt(c, o.name) - 1]
    [] o.kind = "key" -> [type |-> "OTHER", value |-> AtomNo(c, o.name)]
    [] o.kind = "label" -> [type |-> "OTHER", value |-> c.labels[o.name]]
    [] OTHER -> [type |-> o.kind, value |-> o.n]

\* An instruction without the number of operands that it takes: ret, create, yield.
Default(op) == [type |-> "OTHER", value |-> IF op = "create" THEN 1 ELSE 0]

ReadInstruction ==
  LET s == Head(unread)
      c == FoldLeft(Register, FoldLeft(ReadOperand, context, s.args), s.args)
      Arg(n) == IF n <= Len(s.args) THEN Encoded(c, s.args[n])
                ELSE IF n = 1 THEN Default(s.op) ELSE Nothing
  IN
  /\ verdict = "reading" /\ unread # <<>> /\ IsInstruction(s)
  /\ Reads([c EXCEPT !.code = Append(@, Instruction(s.op, Arg(1), Arg(2), s.line % 2^16))])

-----------------------------------------------------------------------------
(* asm_convert.                                                            *)

Branches == {"branch", "key", "bind", "match", "mov"}   \* with two operands

\* Seeded fault: room for the number of acc.
Words_PushAcc(b) ==
  CASE b.op \in {"int", "yield"} -> 0
    [] b.op \in Branches \/ (b.op = "rpn" /\ b.a.value = RPNPUSH) -> 2
    [] OTHER -> 1

\* The words after the first one: asm_progmem_size.
Words(b) ==
  CASE b.op \in {"int", "yield"} \/ (b.op = "push" /\ b.a.type = "ACC") -> 0
    [] b.op \in Branches \/ (b.op = "rpn" /\ b.a.value = RPNPUSH) -> 2
    [] OTHER -> 1

Offset ==
  LET off[k \in 1 .. Len(context.code)] ==
        IF k = 1 THEN 0 ELSE off[k - 1] + 1 + Words(context.code[k - 1])
  IN off

\* dereferance_label: the instruction after the one that the label follows.
Dereferenced(cell) == IF context.cells[cell] = NULL THEN 0 ELSE Offset[context.cells[cell] + 1]

Emitted(b) ==
  LET first == IF b.op = "jmp" THEN Dereferenced(b.a.value) ELSE b.a.value
      second == IF b.op = "branch" THEN Dereferenced(b.b.value) ELSE b.b.value
  IN [op |-> b.op, type |-> <<b.a.type, b.b.type>>, value |-> SubSeq(<<first, second>>, 1, Words(b))]

UndefinedLabel ==
  \E i \in DOMAIN context.code :
    LET b == context.code[i] IN
    \/ b.op = "jmp" /\ Dereferenced(b.a.value) = 0
    \/ b.op = "branch" /\ Dereferenced(b.b.value) = 0

\* One entry per line: the offset of the first instruction of a later one.
LineTable ==
  LET code == context.code
      After(l) == {k \in 2 .. Len(code) : code[k].line > l}
  IN [l \in 1 .. code[Len(code)].line |->
        IF After(l) = {} THEN Infinity ELSE Offset[CHOOSE k \in After(l) : \A j \in After(l) : k <= j]]

Prototype(f) ==
  IF f.addr = NULL
  THEN [type |-> "NATIVE", addr |-> f.name, arity |-> Lib[f.name], closure |-> f.closure]
  ELSE [type |-> "DYNAMIC", addr |-> Offset[f.addr + 1], arity |-> f.arity, closure |-> f.closure]

UndeclaredFunction ==
  \E i \in DOMAIN context.funs :
    LET f == context.funs[i] IN f.state # 2 \/ (f.addr = NULL /\ f.name \notin DOMAIN Lib)

\* Some static variable is a function that needs a closure.
StaticClosure ==
  \E i \in DOMAIN context.vars :
    LET v == context.vars[i].var IN v.type = "FUNCTION" /\ context.funs[v.num + 1].closure # 0

\* asm_varible_convert, and the pointers after it: only a record keeps its keys.
RECURSIVE Converted(_)
Converted(v) ==
  [v EXCEPT !.items = [i \in DOMAIN @ |->
     [key |-> IF v.type = "RECORD" THEN @[i].key ELSE -1, var |-> Converted(@[i].var)]]]

\* Every variable that has an index is stored, in the order of the array.
Constants ==
  LET Store(cs, v) == IF v.index >= 0 THEN [i \in DOMAIN cs \cup {v.index} |->
                                              IF i = v.index THEN Converted(v.var) ELSE cs[i]] ELSE cs
  IN FoldLeft(Store, <<>>, context.vars)

ConvertFails ==
  /\ verdict = "reading" /\ unread = <<>>
  /\ UndefinedLabel \/ UndeclaredFunction \/ StaticClosure
  /\ Stops("link error")

Convert ==
  /\ verdict = "reading" /\ unread = <<>>
  /\ ~UndefinedLabel /\ ~UndeclaredFunction /\ ~StaticClosure
  /\ image' = [program |-> [o \in Range(Offset) |-> Emitted(context.code[Place(Offset, o)])],
               lines |-> LineTable,
               prototypes |-> [i \in DOMAIN context.funs |-> Prototype(context.funs[i])],
               constants |-> Constants,
               atoms |-> context.atoms,
               functions |-> NamesOf(context)]
  /\ verdict' = "linked"
  /\ UNCHANGED <<unread, read, context>>

AsmNext == ReadExtern \/ ReadHead \/ ReadLabel \/ ReadInstruction \/ ConvertFails \/ Convert

-----------------------------------------------------------------------------
(* How the interpreter reads the image, and what it should find.           *)

\* vm_bytecode_next, as vm_exec, vm_rpn and vm_instance_function call it.
Step(b) ==
  CASE b.op = "yield" \/ (b.op = "push" /\ b.type[1] = "ACC") -> 1
    [] b.op \in {"branch", "key", "bind", "match", "mov"} -> 3
    [] b.op = "rpn" /\ b.value[1] = RPNPUSH -> 3
    [] OTHER -> 2

\* find_line; 0 stands for what it finds behind the table.
FindLine(o) ==
  LET later == {l \in DOMAIN image.lines : image.lines[l] = Infinity \/ image.lines[l] > o}
  IN IF later = {} THEN 0 ELSE CHOOSE l \in later : \A k \in later : l <= k

\* Where the interpreter finds the nth instruction, after the one that natives run.
At(n) ==
  LET Past(o) == IF o \in DOMAIN image.program THEN o + Step(image.program[o]) ELSE o
      at[k \in 1 .. n] == IF k = 1 THEN 1 ELSE Past(at[k - 1])
  IN at[n]

\* Of the source: the number of the first instruction from place j on, the head
\* of the function around j, the last declaration of a function.
Nth(j) == 1 + Cardinality({i \in 1 .. j - 1 : IsInstruction(read[i])})
Around(j) == CHOOSE i \in 1 .. j : read[i].op = "def" /\ \A k \in i + 1 .. j : read[k].op # "def"
Declares(i, f) == read[i].op \in {"def", "extern"} /\ read[i].args[1].name = f
Declarations(f) == {i \in DOMAIN read : Declares(i, f)}
Latest(f) == CHOOSE i \in Declarations(f) : \A k \in Declarations(f) : k <= i
LabelsOf(j, l) == {i \in DOMAIN read : read[i].op = "label" /\ read[i].args[1].name = l /\ Around(i) = Around(j)}

IsPrototype(p, f) ==
  LET d == read[Latest(f)] IN
  IF d.op = "extern" THEN p.type = "NATIVE" /\ p.addr = f /\ p.arity = Lib[f]
  ELSE /\ p.type = "DYNAMIC" /\ p.addr = At(Nth(Latest(f)))
       /\ p.arity = d.args[2].n /\ p.closure = d.args[3].n

\* The static variable v is what has been written as t, inside a ! if b.
RECURSIVE IsVariable(_, _, _)
IsVariable(v, t, b) ==
  /\ v.type = t.type
  /\ CASE t.type = "INT" -> v.num = t.n
       [] t.type = "PATTERN" -> v.ref = t.name /\ v.num = t.n
       [] t.type = "FUNCTION" -> IsPrototype(image.prototypes[v.num + 1], t.name)
       [] t.type \in {"ATOM", "TUPLE", "RECORD"} -> image.atoms[v.num + 1] = t.name
       [] OTHER -> TRUE
  /\ Len(v.items) = Len(t.items)
  /\ \A i \in DOMAIN v.items :
       /\ t.items[i].key # "" => image.atoms[v.items[i].key + 1] = t.items[i].key
       /\ IsVariable(v.items[i].var, t.items[i].term, b \/ t.bang)

IsOperand(ty, value, o, j) ==
  CASE o.kind = "CONSTANT" ->
         ty = "CONSTANT" /\ value \in DOMAIN image.constants /\ IsVariable(image.constants[value], o.term, FALSE)
    [] o.kind = "label" -> \E i \in LabelsOf(j, o.name) : value = At(Nth(i))
    [] o.kind = "function" -> IsPrototype(image.prototypes[value + 1], o.name)
    [] o.kind = "key" -> image.atoms[value + 1] = o.name
    [] OTHER -> ty = o.kind /\ value = o.n

RECURSIVE FunctionsIn(_)
FunctionsIn(t) ==
  (IF t.type = "FUNCTION" THEN {t.name} ELSE {}) \cup UNION {FunctionsIn(t.items[i].term) : i \in DOMAIN t.items}
\* The operands of a kind, with their places.
Operands(kind) ==
  {<<j, n>> \in (DOMAIN read) \X (1 .. 2) :
     IsInstruction(read[j]) /\ n \in DOMAIN read[j].args /\ read[j].args[n].kind = kind}
Arg(q) == read[q[1]].args[q[2]]

NumberAt(q) == image.program[At(Nth(q[1]))].value[q[2]]
\* The operands before q, in the order in which they are reduced.
Earlier(q) == {p \in Operands("CONSTANT") : p[1] < q[1] \/ (p[1] = q[1] /\ p[2] < q[2])}

\* The first operand of the instruction at j is a new constant, and the second
\* one a structure that names a function before all others do, which no operand
\* ever is: the number that asm_allocate_function gives the function
\* (asm_struct.c:141) is then given to the first operand, too, and the function
\* takes its place.
Overtakes(j) ==
  LET fst == <<j, 1>>
      snd == <<j, 2>>
  IN
  /\ {fst, snd} \subseteq Operands("CONSTANT")
  /\ \A p \in Earlier(fst) : NumberAt(p) # NumberAt(fst)
  /\ NumberAt(fst) >= Len(Known)
  /\ \E f \in FunctionsIn(Arg(snd).term) :
       /\ \A p \in Earlier(snd) : f \notin FunctionsIn(Arg(p).term)
       /\ \A t \in Range(Known) \cup {Arg(p).term : p \in Operands("CONSTANT")} : FunctionNamed(f) # t

\* q is that operand, or the same constant elsewhere.
Overtaken(q) ==
  q \in Operands("CONSTANT") /\ \E j \in DOMAIN read : Overtakes(j) /\ NumberAt(<<j, 1>>) = NumberAt(q)

\* Read as the interpreter steps through it, the image has at the place of every
\* instruction of the source that instruction: its constants are the ones that were
\* written, however they share static variables, its labels the ones of its own
\* function, its functions begin with their first instruction, and the line that a
\* listing or an exception shows for it is its own.  The one exception are the
\* operands that a function has overtaken.
ImageRight ==
  verdict = "linked" =>
    \A j \in DOMAIN read :
      IsInstruction(read[j]) =>
        LET b == image.program[At(Nth(j))] IN
        /\ At(Nth(j)) \in DOMAIN image.program
        /\ b.op = read[j].op
        /\ \A n \in DOMAIN read[j].args :
             \/ b.op = "push" /\ read[j].args[n].kind = "ACC"
             \/ IsOperand(b.type[n], b.value[n], read[j].args[n], j) <=> ~Overtaken(<<j, n>>)
        /\ FindLine(At(Nth(j))) = read[j].line

UsedAsConstant == {"Main"} \cup UNION {FunctionsIn(Arg(q).term) : q \in Operands("CONSTANT")}

Linkable ==
  /\ \A q \in Operands("label") : LabelsOf(q[1], Arg(q).name) # {}
  /\ \A f \in UsedAsConstant \cup {Arg(q).name : q \in Operands("function")} : Declarations(f) # {}
  /\ \A i \in DOMAIN read :
       LET f == read[i].args[1].name IN
       /\ (read[i].op = "extern" /\ i = Latest(f)) => f \in DOMAIN Lib
       /\ (read[i].op = "def" /\ read[i].args[3].n # 0) => f \notin UsedAsConstant

Redefines(i) ==
  \/ read[i].op = "def" /\ \E j \in 1 .. i - 1 : Declares(j, read[i].args[1].name)
  \/ read[i].op = "label" /\ Cardinality(LabelsOf(i, read[i].args[1].name)) > 1

\* An image is made of exactly the programs in which every label that a function
\* jumps to is in that function, every function that is named is defined or a
\* native, and none that needs a closure is a constant; and no definition is
\* read that says again what a label or a function is.
LinksRight ==
  /\ verdict = "linked" => Linkable
  /\ verdict = "link error" => ~Linkable
  /\ \A i \in DOMAIN read : ~Redefines(i)
=============================================================================

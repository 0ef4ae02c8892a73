------------------------------ MODULE Matching ------------------------------
(***************************************************************************)
(* Structures with patterns in them: how the assembler marks the static    *)
(* ones that must be copied (asm_struct.c:187-212), how vm_clone copies    *)
(* them (vm_bind.h:13-25, vm_bind.c:134-164), and how vm_match compares a  *)
(* structure with another (vm_bind.c:166-226), waiting for the variables   *)
(* that it needs and starting again when they are bound.                   *)
(*                                                                         *)
(* A term is a node with a label (a type, with the value, or the size and  *)
(* the id) and items with their keys; or "var", a variable; or it occurs   *)
(* in static structures only: "hole" (@), "wild" (_), or "local", a        *)
(* VM_VARIBLE_PATTERN, which names a local variable.  Two nodes with one   *)
(* address are one node.  A bang is the ! before a structure.              *)
(***************************************************************************)
EXTENDS Integers, Sequences, FiniteSets

CONSTANTS
  Cells,        \* variables that are unbound at first
  Contents,     \* functions from Cells to the nodes that they will be bound to
  Locals,       \* functions from the names of locals to "var" terms and nodes
  Structures,   \* static structures
  Questions     \* pairs <<dst, src>> for vm_match

Term(k, l, a, b, is) == [kind |-> k, label |-> l, at |-> a, bang |-> b, items |-> is]
Node(l, a, b, is) == Term("node", l, a, b, is)
Item(key, t) == [key |-> key, term |-> t]
Var(x) == Term("var", x, 0, FALSE, <<>>)
Local(n) == Term("local", n, 0, FALSE, <<>>)
Hole == Term("hole", "@", 0, FALSE, <<>>)
Wild == Term("wild", "_", 0, FALSE, <<>>)
Fresh == -1        \* the address of a copy

VARIABLES
  dst, src,   \* the operands
  cells,      \* what each variable is bound to, or will be
  local,      \* context->stack from env.bp on
  known,      \* the variables that are bound
  left,       \* items that vm_match_recursion has still to compare, first one first
  pushed,     \* what vm_stack_tpush has put above the stack
  operands,   \* what vm_stack_commit has added to the stack
  made,       \* the result of vm_clone
  outcome     \* "clone", "run", "wait"; "cloned", "true", "false"

Fixed == <<dst, src, cells, local>>
matchVars == <<Fixed, known, left, pushed, operands, made, outcome>>

IsTerm(t) == t.kind \in {"node", "var", "local", "hole", "wild"} /\ t.bang \in BOOLEAN
MatchTypeOK ==
  /\ IsTerm(dst) /\ IsTerm(src) /\ IsTerm(made)
  /\ known \subseteq Cells
  /\ \A i \in DOMAIN left : IsTerm(left[i].dst) /\ IsTerm(left[i].src) /\ left[i].keys \in BOOLEAN
  /\ \A i \in DOMAIN pushed : pushed[i].kind \in {"node", "var"}
  /\ outcome \in {"clone", "run", "wait", "cloned", "true", "false"}

Question == <<[dst |-> dst, src |-> src, keys |-> TRUE]>>
MatchStart(d, s, c, l, o) ==
  /\ dst = d /\ src = s /\ cells = c /\ local = l
  /\ known = {}
  /\ left = Question
  /\ pushed = <<>> /\ operands = <<>> /\ made = Hole
  /\ outcome = o
MatchInit ==
  \E c \in Contents, l \in Locals :
    \/ \E q \in Questions : MatchStart(q[1], q[2], c, l, "run")
    \/ \E t \in Structures : MatchStart(t, t, c, l, "clone")

-----------------------------------------------------------------------------
(* asm_push_pattern and vm_clone.                                          *)

\* Seeded fault: a ! does not reach the structures inside.
RECURSIVE ToCopy_Shallow(_, _)
ToCopy_Shallow(t, b) ==
  IF t.kind = "local" THEN b
  ELSE \E i \in DOMAIN t.items : ToCopy_Shallow(t.items[i].term, t.bang)

\* The clone flag that asm_push_pattern gives a structure, b when inside a !.
RECURSIVE ToCopy(_, _)
ToCopy(t, b) ==
  IF t.kind = "local" THEN b
  ELSE \E i \in DOMAIN t.items : ToCopy(t.items[i].term, b \/ t.bang)

\* vm_dereferance_pattern.
Resolved(t) == IF t.kind = "local" THEN local[t.label] ELSE t

\* vm_clone, vm_clone_resolve: a wildcard has no clone flag and stays what it is.
RECURSIVE Clone(_, _)
Clone(t, b) ==
  IF t.kind = "local" \/ ~ToCopy(t, b) THEN Resolved(t)
  ELSE [t EXCEPT !.at = Fresh,
                 !.items = [i \in DOMAIN @ |-> Item(@[i].key, Clone(@[i].term, b \/ t.bang))]]

MakeClone ==
  /\ outcome = "clone"
  /\ made' = Clone(dst, FALSE)
  /\ outcome' = "cloned"
  /\ UNCHANGED <<Fixed, known, left, pushed, operands>>

-----------------------------------------------------------------------------
(* vm_match.                                                               *)

\* The variable or the node at the end of the references from t.
Found(t) ==
  LET r == Resolved(t) IN IF r.kind = "var" /\ r.label \in known THEN cells[r.label] ELSE r

Comparing == outcome = "run" /\ left # <<>>
Goes(o) == outcome' = o /\ UNCHANGED <<Fixed, known, operands, made>>

\* The key of the item is looked at before its value.
WrongKey ==
  /\ Comparing /\ ~left[1].keys
  /\ Goes("false")
  /\ UNCHANGED <<left, pushed>>

MatchHole ==
  LET t == left[1] IN
  /\ Comparing /\ t.keys /\ t.dst.kind = "hole"
  /\ pushed' = Append(pushed, Resolved(t.src))
  /\ left' = Tail(left)
  /\ Goes("run")

MatchWild ==
  /\ Comparing /\ left[1].keys /\ left[1].dst.kind = "wild"
  /\ left' = Tail(left)
  /\ Goes("run")
  /\ UNCHANGED pushed

Deeper == Comparing /\ left[1].keys /\ left[1].dst.kind \notin {"hole", "wild"}
Needs(t) == LET d == Found(t.dst) IN IF d.kind = "var" THEN d ELSE Found(t.src)

\* vm_dereferance of dst, and then of src, stops the thread.
MatchWait ==
  /\ Deeper /\ Needs(left[1]).kind = "var"
  /\ Goes("wait")
  /\ UNCHANGED <<left, pushed>>

Alike(d, s) == d.label = s.label /\ Len(d.items) = Len(s.items)

MatchNode ==
  LET t == left[1]
      d == Found(t.dst)
      s == Found(t.src)
      items == [i \in DOMAIN d.items |->
                  [dst |-> d.items[i].term, src |-> s.items[i].term,
                   keys |-> d.items[i].key = s.items[i].key]]
  IN
  /\ Deeper /\ d.kind = "node" /\ s.kind = "node"
  /\ UNCHANGED pushed
  /\ \/ d.at = s.at /\ left' = Tail(left) /\ Goes("run")
     \/ d.at # s.at /\ Alike(d, s) /\ left' = items \o Tail(left) /\ Goes("run")
     \/ d.at # s.at /\ ~Alike(d, s) /\ left' = left /\ Goes("false")

\* vm_stack_commit.
MatchEnd ==
  /\ outcome = "run" /\ left = <<>>
  /\ operands' = pushed
  /\ outcome' = "true"
  /\ UNCHANGED <<Fixed, known, left, pushed, made>>

\* Another thread binds a variable.
BindCell(x) ==
  /\ x \in Cells \ known
  /\ known' = known \cup {x}
  /\ UNCHANGED <<Fixed, left, pushed, operands, made, outcome>>

\* Seeded fault: the instruction is executed again without vm_stack_transaction.
Rematch_NoTransaction ==
  /\ outcome = "wait" /\ Needs(left[1]).kind = "node"
  /\ left' = Question
  /\ Goes("run")
  /\ UNCHANGED pushed

Rematch ==
  /\ outcome = "wait" /\ Needs(left[1]).kind = "node"
  /\ left' = Question
  /\ pushed' = <<>>
  /\ Goes("run")

MatchNext ==
  \/ MakeClone \/ WrongKey \/ MatchHole \/ MatchWild \/ MatchWait \/ MatchNode \/ MatchEnd \/ Rematch
  \/ \E x \in Cells : BindCell(x)

-----------------------------------------------------------------------------
(* What both mean, by positions: a position is the numbers of the items on *)
(* the way to a term.                                                      *)

\* A term, with its local and all variables followed.
Seen(t) == LET r == Resolved(t) IN IF r.kind = "var" THEN cells[r.label] ELSE r

RECURSIVE Positions(_)
Positions(t) ==
  {<<>>} \cup UNION {{<<i>> \o p : p \in Positions(Seen(t).items[i].term)} : i \in DOMAIN Seen(t).items}

RECURSIVE Sub(_, _)
Sub(t, p) == IF p = <<>> THEN t ELSE Sub(Seen(t).items[p[1]].term, Tail(p))

Key(t, p) == IF p = <<>> THEN 0
             ELSE Seen(Sub(t, SubSeq(p, 1, Len(p) - 1))).items[p[Len(p)]].key
Above(p) == {SubSeq(p, 1, n) : n \in 0 .. Len(p) - 1}

Fits(d, s) ==
  \A p \in Positions(d) :
    /\ p \in Positions(s)
    /\ Key(d, p) = Key(s, p)
    /\ Sub(d, p).kind \notin {"hole", "wild"} => Alike(Seen(Sub(d, p)), Seen(Sub(s, p)))

Before(p, q) == \* the order in which a reader meets them
  \E n \in 1 .. Len(p) : n <= Len(q) /\ p[n] < q[n] /\ \A m \in 1 .. n - 1 : p[m] = q[m]
Holes(d) == {p \in Positions(d) : Sub(d, p).kind = "hole"}

\* However often the match had to wait and start again, it succeeds exactly
\* when src has the shape, the keys and the values of dst wherever dst has no
\* hole and no wildcard; then the stack grows by what src has at the holes, in
\* their order, also if that is unbound; and else it does not grow.
MatchRight ==
  /\ outcome = "true" =>
       /\ Fits(dst, src)
       /\ Len(operands) = Cardinality(Holes(dst))
       /\ \A p \in Holes(dst) :
            operands[Cardinality({q \in Holes(dst) : q = p \/ Before(q, p)})] = Resolved(Sub(src, p))
  /\ outcome = "false" => ~Fits(dst, src)
  /\ outcome # "true" => operands = <<>>

\* In a structure that is bound, every local inside a ! has been replaced by
\* the variable that it names; what has none inside is shared with the program.
\* Wildcards and holes stay what they are, also in a copy (of wildcards the
\* comment at vm_enum.h:36 says "new undef on copy").
Bang(t, p) == \E q \in Above(p) : Sub(t, q).bang
CloneRight ==
  outcome = "cloned" =>
    LET Own(t) == {p \in Positions(t) : \A q \in Above(p) : Sub(t, q).kind = "node"}
        named == {p \in Own(dst) : Sub(dst, p).kind = "local" /\ Bang(dst, p)}
    IN \A p \in Own(dst) :
         /\ p \in named => Sub(made, p) = local[Sub(dst, p).label]
         /\ Sub(dst, p).kind \in {"hole", "wild"} => Sub(made, p) = Sub(dst, p)
         /\ Sub(dst, p).kind = "node" =>
              /\ Alike(Sub(made, p), Sub(dst, p)) /\ Key(made, p) = Key(dst, p)
              /\ IF \E q \in named : p \in Above(q) THEN Sub(made, p).at = Fresh
                 ELSE Sub(made, p) = Sub(dst, p)
=============================================================================

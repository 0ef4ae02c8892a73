----------------------------- MODULE Collector ------------------------------
(***************************************************************************)
(* One collection (vm_gc.c), while nothing else runs.  vm_gc_copy copies   *)
(* what the head of the run queue reaches into the other half of the       *)
(* memory, with a mark stack at the far end of that half; vm_gc_relax      *)
(* walks the copies and turns their pointers into pointers to copies;      *)
(* vm_gc_realloc may move the half, and vm_gc_offset walks it again.       *)
(*                                                                         *)
(* An object has a kind, its pointers (in the order of the walks) and a    *)
(* number of other words.  A pointer is Null, a static object, an object   *)
(* of the old half, or an address.  Sizes are in units of four bytes.      *)
(***************************************************************************)
EXTENDS Integers, Sequences, FiniteSetsExt

CONSTANTS
  Ids,        \* the objects of the old half
  Statics,    \* objects of the program, which have VM_NOCOPY_MUTEX
  Null,
  Heaps,      \* the contents that the old half may have
  First,      \* of the run queue
  Bases       \* where realloc may put the memory

NoAddress == -1
Pointers == Ids \cup Statics \cup {Null}
Kinds == {"undef", "ref", "leaf", "pair", "function", "tuple", "record", "thread"}

ASSUME PointersAssumption ==
  /\ Null \notin Ids \cup Statics /\ Ids \cap Statics = {} /\ First \in Ids
  /\ IsFiniteSet(Ids)
  /\ \A p \in Pointers : p \notin {"at"} \X Nat    \* the addresses of copies
ASSUME BasesAssumption == Bases \subseteq Nat /\ Bases # {}

At(a) == <<"at", a>>
IsLink(k, i) == i = 1 /\ k \in {"undef", "thread"}   \* a waiting or next thread

\* Of an object, without the pointers and the other words that are counted.
Header(k) == CASE k \in {"undef", "ref", "leaf", "pair"} -> 1
               [] k = "function" -> 3
               [] k \in {"tuple", "record"} -> 4
               [] k = "thread" -> 11
Size(o) == Header(o.kind) + 2 * (Len(o.ptrs) + o.words)

\* What becomes of x when f is applied as often as there are objects.
Repeated(f, x) ==
  LET after[k \in 0 .. Cardinality(Ids)] == IF k = 0 THEN x ELSE f[after[k - 1]]
  IN after[Cardinality(Ids)]

EndOfRefs(h, p) ==
  Repeated([q \in Pointers |-> IF q \in Ids /\ h[q].kind = "ref" THEN h[q].ptrs[1] ELSE q], p)

\* The last thread of the run queue, which vm_thread_queue keeps in tail.
QueueTail(h) ==
  Repeated([t \in Ids |-> IF h[t].ptrs[1] = Null THEN t ELSE h[t].ptrs[1]], First)

\* The objects are as the machine makes them: each as large as its kind needs,
\* links lead to threads and fields do not, a thread is linked from one place
\* at most and the first one from none, and references form no cycle.
WellFormed(h) ==
  /\ h \in [Ids -> [kind : Kinds, ptrs : Seq(Pointers), words : Nat]]
  /\ \A x \in Ids :
       /\ h[x].kind \in {"undef", "ref"} => Len(h[x].ptrs) = 1
       /\ h[x].kind \in {"pair", "thread"} => Len(h[x].ptrs) >= 2
       /\ h[x].kind = "leaf" => h[x].words >= 1
       /\ \A i \in DOMAIN h[x].ptrs :
            LET p == h[x].ptrs[i] IN
            IF IsLink(h[x].kind, i) THEN p # Null => p \in Ids \ {First} /\ h[p].kind = "thread"
            ELSE p \in Ids => h[p].kind # "thread"
       /\ EndOfRefs(h, x) \in Ids => h[EndOfRefs(h, x)].kind # "ref"
  /\ \A x, y \in Ids :
       IsLink(h[x].kind, 1) /\ IsLink(h[y].kind, 1) /\ h[x].ptrs[1] = h[y].ptrs[1] /\ h[x].ptrs[1] # Null
         => x = y
  /\ h[First].kind = "thread"

ASSUME HeapsAssumption == \A h \in Heaps : WellFormed(h)

VARIABLES
  obj,       \* the old half
  marked,    \* objects whose clone flag is set
  stack,     \* the mark stack, its top last
  src, field,\* the object being copied, and its pointer to look at next
  fwd,       \* the copy that VM_VARIBLE_GCREF refers to
  to,        \* the copies, by their offset in root->dmem.data
  top,       \* dst_ptr in vm_gc_copy
  cursor,    \* dst_ptr in vm_gc_relax and vm_gc_offset
  base,      \* root->dmem.data
  old,       \* its value before vm_gc_realloc
  roots,     \* root->queue.head and tail
  phase

copyVars == <<marked, stack, src, field, fwd>>
vars == <<obj, copyVars, to, top, cursor, base, old, roots, phase>>

\* The step of vm_gc_relax: over a tuple, sizeof(vm_variable_t) for an item.
Stride(o) == IF o.kind = "tuple" THEN Header("tuple") + 15 * Len(o.ptrs) ELSE Size(o)

TypeOK ==
  /\ obj \in [Ids -> [kind : Kinds, ptrs : Seq(Pointers), words : Nat]]
  /\ marked \subseteq Ids
  /\ stack \in Seq(Ids)
  /\ src \in Ids \cup {Null} /\ field \in Nat
  /\ fwd \in [Ids -> Nat \cup {NoAddress}]
  /\ top \in Nat /\ cursor \in Nat /\ base \in Nat /\ old \in Nat
  /\ DOMAIN to \subseteq Nat
  /\ Len(roots) = 2
  /\ phase \in {"copy", "relax", "resize", "offset", "done"}

Init ==
  /\ obj \in Heaps
  /\ marked = {First}
  /\ stack = <<First>>
  /\ src = Null /\ field = 0
  /\ fwd = [x \in Ids |-> NoAddress]
  /\ to = <<>>
  /\ top = 0 /\ cursor = 0
  /\ base \in Bases /\ old = base
  /\ roots = <<First, QueueTail(obj)>>
  /\ phase = "copy"

-----------------------------------------------------------------------------
(* vm_gc_copy.                                                             *)

\* The object at the end of the references from p.
Target(p) == EndOfRefs(obj, p)

StackPop ==
  /\ phase = "copy" /\ src = Null /\ stack # <<>>
  /\ src' = stack[Len(stack)]
  /\ stack' = SubSeq(stack, 1, Len(stack) - 1)
  /\ field' = 1
  /\ to' = [a \in DOMAIN to \cup {top} |->
              IF a = top THEN [obj[src'] EXCEPT !.ptrs = <<>>] ELSE to[a]]
  /\ UNCHANGED <<obj, marked, fwd, top, cursor, base, old, roots, phase>>

StackAdd(x) == stack' = Append(stack, x) /\ marked' = marked \cup {x}

\* Seeded fault: the end of the queue is not recognised.
CopyLink_NoTest ==
  LET p == obj[src].ptrs[field] IN
  /\ phase = "copy" /\ src # Null /\ field <= Len(obj[src].ptrs) /\ IsLink(obj[src].kind, field)
  /\ to' = [to EXCEPT ![top].ptrs = Append(@, p)]
  /\ StackAdd(p)
  /\ field' = field + 1
  /\ UNCHANGED <<obj, src, fwd, top, cursor, base, old, roots, phase>>

\* A waiting or next thread is pushed whether or not it is marked.
CopyLink ==
  LET p == obj[src].ptrs[field] IN
  /\ phase = "copy" /\ src # Null /\ field <= Len(obj[src].ptrs) /\ IsLink(obj[src].kind, field)
  /\ to' = [to EXCEPT ![top].ptrs = Append(@, p)]
  /\ \/ p = Null /\ UNCHANGED <<stack, marked>>
     \/ p # Null /\ StackAdd(p)
  /\ field' = field + 1
  /\ UNCHANGED <<obj, src, fwd, top, cursor, base, old, roots, phase>>

\* Seeded fault: the clone flag is not tested.
CopyField_NoClone ==
  LET q == Target(obj[src].ptrs[field]) IN
  /\ phase = "copy" /\ src # Null /\ field <= Len(obj[src].ptrs) /\ ~IsLink(obj[src].kind, field)
  /\ to' = [to EXCEPT ![top].ptrs = Append(@, q)]
  /\ \/ q \notin Ids /\ UNCHANGED <<stack, marked>>
     \/ q \in Ids /\ StackAdd(q)
  /\ field' = field + 1
  /\ UNCHANGED <<obj, src, fwd, top, cursor, base, old, roots, phase>>

\* Seeded fault: the copy keeps the pointer to the reference.
CopyField_KeepsRef ==
  LET q == Target(obj[src].ptrs[field]) IN
  /\ phase = "copy" /\ src # Null /\ field <= Len(obj[src].ptrs) /\ ~IsLink(obj[src].kind, field)
  /\ to' = [to EXCEPT ![top].ptrs = Append(@, obj[src].ptrs[field])]
  /\ \/ q \notin Ids \ marked /\ UNCHANGED <<stack, marked>>
     \/ q \in Ids \ marked /\ StackAdd(q)
  /\ field' = field + 1
  /\ UNCHANGED <<obj, src, fwd, top, cursor, base, old, roots, phase>>

\* stack_add.
CopyField ==
  LET q == Target(obj[src].ptrs[field]) IN
  /\ phase = "copy" /\ src # Null /\ field <= Len(obj[src].ptrs) /\ ~IsLink(obj[src].kind, field)
  /\ to' = [to EXCEPT ![top].ptrs = Append(@, q)]
  /\ \/ q \notin Ids \ marked /\ UNCHANGED <<stack, marked>>
     \/ q \in Ids \ marked /\ StackAdd(q)
  /\ field' = field + 1
  /\ UNCHANGED <<obj, src, fwd, top, cursor, base, old, roots, phase>>

\* The object becomes a VM_VARIBLE_GCREF.
Forward ==
  /\ phase = "copy" /\ src # Null /\ field = Len(obj[src].ptrs) + 1
  /\ fwd' = [fwd EXCEPT ![src] = top]
  /\ top' = top + Size(obj[src])
  /\ src' = Null
  /\ UNCHANGED <<obj, marked, stack, field, to, cursor, base, old, roots, phase>>

-----------------------------------------------------------------------------
(* vm_gc_relax and vm_gc_offset.                                           *)

\* VM_GC_CDREF: the copy of an object that has one.
Relaxed(p) == IF p \in Ids /\ fwd[p] # NoAddress THEN At(base + fwd[p]) ELSE p

StartRelax ==
  /\ phase = "copy" /\ src = Null /\ stack = <<>>
  /\ phase' = "relax"
  /\ cursor' = 0
  /\ roots' = [i \in 1 .. 2 |-> Relaxed(roots[i])]
  /\ UNCHANGED <<obj, copyVars, to, top, base, old>>

\* A step of a walk: the object at the cursor gets its new pointers.  There is
\* no step from a word that is not the start of an object.
Walk(from, ptrs, step) ==
  /\ phase = from /\ cursor < top /\ cursor \in DOMAIN to
  /\ to' = [to EXCEPT ![cursor].ptrs = ptrs]
  /\ cursor' = cursor + step
  /\ UNCHANGED <<obj, copyVars, top, base, old, roots, phase>>

Relax ==
  Walk("relax", [i \in DOMAIN to[cursor].ptrs |-> Relaxed(to[cursor].ptrs[i])], Stride(to[cursor]))

EndRelax ==
  /\ phase = "relax" /\ cursor >= top
  /\ phase' = "resize"
  /\ UNCHANGED <<obj, copyVars, to, top, cursor, base, old, roots>>

\* VM_GC_COFF: the new address of what was in the memory that moved.
Moved(p) ==
  IF p \notin Pointers /\ p[2] >= old /\ p[2] < old + top
  THEN At(p[2] + (base - old)) ELSE p

\* The memory is not resized, or realloc leaves it where it is.
KeepPlace ==
  /\ phase = "resize"
  /\ phase' = "done"
  /\ UNCHANGED <<obj, copyVars, to, top, cursor, base, old, roots>>

ChangePlace(b) ==
  /\ phase = "resize" /\ b # base
  /\ base' = b
  /\ phase' = "offset"
  /\ cursor' = 0
  /\ roots' = [i \in 1 .. 2 |-> At(roots[i][2] + (b - base))]
  /\ UNCHANGED <<obj, copyVars, to, top, old>>

Offset ==
  Walk("offset", [i \in DOMAIN to[cursor].ptrs |-> Moved(to[cursor].ptrs[i])], Size(to[cursor]))

EndOffset ==
  /\ phase = "offset" /\ cursor >= top
  /\ phase' = "done"
  /\ UNCHANGED <<obj, copyVars, to, top, cursor, base, old, roots>>

Ended == phase = "done" /\ UNCHANGED vars

Next ==
  \/ StackPop \/ CopyLink \/ CopyField \/ Forward
  \/ StartRelax \/ Relax \/ EndRelax
  \/ KeepPlace \/ (\E b \in Bases : ChangePlace(b)) \/ Offset \/ EndOffset
  \/ Ended

Spec == Init /\ [][Next]_vars

-----------------------------------------------------------------------------
(* Properties.                                                             *)

\* What the collection must keep: the objects that the queue reaches.
Children(x) ==
  {IF IsLink(obj[x].kind, i) THEN obj[x].ptrs[i] ELSE Target(obj[x].ptrs[i]) : i \in DOMAIN obj[x].ptrs}
Reached == Repeated([S \in SUBSET Ids |-> S \cup ((UNION {Children(x) : x \in S}) \cap Ids)], {First})

\* The mark stack (eight bytes for an entry) never meets the copies, even if
\* the old half is full of live objects (vm_gc.c:42-44).
MarkStackApart ==
  top + (IF src = Null THEN 0 ELSE Size(obj[src])) + 2 * Len(stack)
    <= MapThenSumSet(LAMBDA x : Size(obj[x]), Ids)

\* The walks go from object to object to the end of the copies: they never
\* take the inside of an object for a type (VM_FATAL, vm_gc.c:183 and 252).
CursorOnObject == phase \in {"relax", "offset"} => cursor \in DOMAIN to \cup {top}

\* At the end there is one copy of each object that the queue reaches, of
\* nothing else, and every pointer that led to an object, perhaps over
\* references, leads to its copy, wherever the memory is now.
Image(q) == IF q \in Ids THEN At(base + fwd[q]) ELSE q
CopyIsFaithful ==
  phase = "done" =>
    /\ {x \in Ids : fwd[x] # NoAddress} = Reached
    /\ DOMAIN to = {fwd[x] : x \in Reached}
    /\ \A x \in Reached :
         LET c == to[fwd[x]] IN
         /\ c.kind = obj[x].kind /\ c.words = obj[x].words
         /\ c.ptrs = [i \in DOMAIN obj[x].ptrs |->
                        Image(IF IsLink(c.kind, i) THEN obj[x].ptrs[i] ELSE Target(obj[x].ptrs[i]))]
    /\ roots = <<Image(First), Image(QueueTail(obj))>>
=============================================================================

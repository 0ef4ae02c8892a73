---------------------------- MODULE ThreadStack -----------------------------
(***************************************************************************)
(* The memory of one green thread (vm_exec.h, vm_util.h:70-89,             *)
(* vm_thread.h:65-79): operands grow from its bottom up to sp, and the     *)
(* saved environments (three words: function, pc, bp) grow from its top    *)
(* down to rsp.  When the two would meet, VM_EXCEPTION_THREAD_OOM doubles  *)
(* the memory and the instruction is executed again.                       *)
(*                                                                         *)
(* An instruction is one step, whatever the program: a pc is one of a few  *)
(* addresses, and the program does anything it can next.  Words of neither *)
(* stack are Junk, so that a use of one shows; what the program does after *)
(* an access outside the memory is not modelled.                           *)
(***************************************************************************)
EXTENDS Integers, Sequences

CONSTANTS
  Functions, Natives,
  Arity,
  Main,       \* function of the first activation
  Operands,   \* the values
  Sites,      \* number of addresses in a function
  InitSize,   \* VM_THREAD_STACK_SIZE
  Width,      \* bits of sp, rsp, bp and size (32)
  MaxDepth, MaxSp    \* bounds on the model

ASSUME StackAssumption ==
  /\ Natives \subseteq Functions /\ Main \in Functions \ Natives
  /\ Arity \in [Functions -> Nat] /\ Arity[Main] <= InitSize
  /\ Sites \in Nat \ {0} /\ InitSize \in Nat \ {0} /\ Width \in Nat
  /\ MaxDepth \in Nat /\ MaxSp \in Nat

\* The memory outgrows neither the bounds, doubled, nor the registers.
ASSUME SizeAssumption ==
  /\ Arity[Main] <= MaxSp
  /\ InitSize < 2 ^ Width /\ 2 * (MaxSp + 3 * MaxDepth + 1) < 2 ^ Width

VARIABLES
  mem,      \* context->stack[0 .. size-1]
  size, sp, rsp, bp, fun, pc,   \* context->env
  mode      \* "run"; "grow" after THREAD_OOM; "exit" after THREAD_EXIT;
            \* "wild" from the first access outside mem

regs == <<sp, rsp, bp, fun, pc>>
stackVars == <<mem, size, regs, mode>>

INT == -1                \* smem.program, the VM_OP_INT placed there
UInt == 0 .. 2 ^ Width - 1
Wrap(n) == n % (2 ^ Width)  \* uint32_t arithmetic
After(p) == IF p = INT THEN INT ELSE (p + 1) % Sites
Entry(f) == IF f \in Natives THEN INT ELSE 0

Junk == <<"junk", -1>>
Val(v) == <<"val", v>>
Words == {Junk} \cup {Val(v) : v \in Operands} \cup {<<"fun", f>> : f \in Functions}
         \cup {<<"pc", p>> : p \in 0 .. Sites - 1} \cup {<<"bp", n>> : n \in UInt}

StackTypeOK ==
  /\ size \in UInt \ {0}
  /\ mem \in [0 .. size - 1 -> Words]
  /\ sp \in UInt /\ rsp \in UInt /\ bp \in 0 .. size
  /\ fun \in Functions
  /\ pc \in {INT} \cup 0 .. Sites - 1
  /\ mode \in {"run", "grow", "exit", "wild"}

\* vm_tcall, on the stack of the new thread.
StackInit ==
  /\ size = InitSize
  /\ \E args \in [0 .. Arity[Main] - 1 -> Operands] :
       mem = [i \in 0 .. size - 1 |-> IF i < Arity[Main] THEN Val(args[i]) ELSE Junk]
  /\ sp = Arity[Main] /\ rsp = size /\ bp = 0
  /\ fun = Main /\ pc = 0
  /\ mode = "run"

-----------------------------------------------------------------------------
\* stack[to ..] = the n words at from; then what no stack holds is forgotten.
Copy(m, from, n, to) ==
  [i \in DOMAIN m |-> IF i \in to .. to + n - 1 THEN m[from + (i - to)] ELSE m[i]]
Forget(m, s, r) == [i \in DOMAIN m |-> IF i >= s /\ i < r THEN Junk ELSE m[i]]

Running == mode = "run" /\ pc # INT
Overflow == mode' = "grow" /\ UNCHANGED <<mem, size, regs>>
Depth == (size - rsp) \div 3

Store(vs) == [i \in DOMAIN mem |-> IF i \in sp .. sp + Len(vs) - 1 THEN Val(vs[i - sp + 1]) ELSE mem[i]]

\* Seeded fault: a transaction commits what it pushed before the overflow.
Push_Partial(vs) ==
  /\ Running /\ sp + Len(vs) <= MaxSp
  /\ \/ /\ sp + Len(vs) <= rsp
        /\ mem' = Store(vs)
        /\ sp' = sp + Len(vs)
        /\ pc' = After(pc)
        /\ UNCHANGED <<size, rsp, bp, fun, mode>>
     \/ /\ sp + Len(vs) > rsp
        /\ mem' = Store(SubSeq(vs, 1, rsp - sp))
        /\ sp' = rsp
        /\ mode' = "grow"
        /\ UNCHANGED <<size, rsp, bp, fun, pc>>

\* vm_stack_push, and vm_stack_transaction ... vm_stack_commit around
\* vm_stack_tpush: all the words are pushed, or none is.
Push(vs) ==
  /\ Running /\ sp + Len(vs) <= MaxSp
  /\ \/ /\ sp + Len(vs) <= rsp
        /\ mem' = Store(vs)
        /\ sp' = sp + Len(vs)
        /\ pc' = After(pc)
        /\ UNCHANGED <<size, rsp, bp, fun, mode>>
     \/ sp + Len(vs) > rsp /\ Overflow

Pop(n) ==
  /\ Running /\ n <= sp - bp
  /\ sp' = sp - n
  /\ mem' = Forget(mem, sp - n, rsp)
  /\ pc' = After(pc)
  /\ UNCHANGED <<size, rsp, bp, fun, mode>>

\* VM_OP_MOVE to a local.
Move(k, v) ==
  /\ Running /\ bp + k < sp
  /\ mem' = [mem EXCEPT ![bp + k] = Val(v)]
  /\ pc' = After(pc)
  /\ UNCHANGED <<size, sp, rsp, bp, fun, mode>>

\* VM_OP_JMP, VM_OP_BRANCH.
Jump(p) ==
  /\ Running
  /\ pc' = p
  /\ UNCHANGED <<mem, size, sp, rsp, bp, fun, mode>>

-----------------------------------------------------------------------------
\* vm_save_environment.
SaveOverflows == Wrap(rsp - 3) < sp
Saved(m) == [i \in DOMAIN m |-> CASE i = rsp - 1 -> <<"bp", bp>>
                                  [] i = rsp - 2 -> <<"pc", pc>>
                                  [] i = rsp - 3 -> <<"fun", fun>>
                                  [] OTHER -> m[i]]

\* Seeded fault: room for two words is enough.
Call_TwoWords(f) ==
  /\ Running /\ Arity[f] <= sp - bp /\ Depth < MaxDepth
  /\ \/ Wrap(rsp - 2) < sp /\ Overflow
     \/ /\ Wrap(rsp - 2) >= sp
        /\ mem' = Saved(mem)
        /\ rsp' = Wrap(rsp - 3)
        /\ mode' = IF rsp < 3 THEN "wild" ELSE mode
        /\ bp' = sp - Arity[f]
        /\ fun' = f
        /\ pc' = Entry(f)
        /\ UNCHANGED <<size, sp>>

\* vm_call.  A native runs at once, in RunNative, or again there if it is interrupted.
Call(f) ==
  /\ Running /\ Arity[f] <= sp - bp /\ Depth < MaxDepth
  /\ \/ SaveOverflows /\ Overflow
     \/ /\ ~SaveOverflows
        /\ mem' = Saved(mem)
        /\ rsp' = Wrap(rsp - 3)
        /\ mode' = IF rsp < 3 THEN "wild" ELSE mode
        /\ bp' = sp - Arity[f]
        /\ fun' = f
        /\ pc' = Entry(f)
        /\ UNCHANGED <<size, sp>>

\* vm_rcall, of a function that is not a native.
RCall(f) ==
  /\ Running /\ f \notin Natives /\ Arity[f] <= sp - bp
  /\ mem' = Forget(Copy(mem, sp - Arity[f], Arity[f], bp), bp + Arity[f], rsp)
  /\ sp' = bp + Arity[f]
  /\ fun' = f
  /\ pc' = 0
  /\ UNCHANGED <<size, rsp, bp, mode>>

\* Seeded fault: the words are read back in the order they were pushed.
Restore_InOrder(m, n) ==
  LET s == bp + n IN
  /\ sp' = s
  /\ UNCHANGED size
  /\ \/ /\ rsp = size
        /\ mem' = Forget(m, s, rsp)
        /\ mode' = "exit"
        /\ UNCHANGED <<rsp, bp, fun, pc>>
     \/ /\ rsp # size /\ rsp + 2 >= size
        /\ mem' = Forget(m, s, rsp)
        /\ mode' = "wild"
        /\ UNCHANGED <<rsp, bp, fun, pc>>
     \/ /\ rsp + 2 < size
        /\ bp' = m[rsp][2]
        /\ pc' = After(m[rsp + 1][2])
        /\ fun' = m[rsp + 2][2]
        /\ rsp' = rsp + 3
        /\ mem' = Forget(m, s, rsp + 3)
        /\ UNCHANGED mode

\* vm_restore_environment, after n results were moved down to bp in m.
Restore(m, n) ==
  LET s == bp + n IN
  /\ sp' = s
  /\ UNCHANGED size
  /\ \/ /\ rsp = size
        /\ mem' = Forget(m, s, rsp)
        /\ mode' = "exit"
        /\ UNCHANGED <<rsp, bp, fun, pc>>
     \/ /\ rsp # size /\ rsp + 2 >= size
        /\ mem' = Forget(m, s, rsp)
        /\ mode' = "wild"
        /\ UNCHANGED <<rsp, bp, fun, pc>>
     \/ /\ rsp + 2 < size
        /\ fun' = m[rsp][2]
        /\ pc' = After(m[rsp + 1][2])
        /\ bp' = m[rsp + 2][2]
        /\ rsp' = rsp + 3
        /\ mem' = Forget(m, s, rsp + 3)
        /\ UNCHANGED mode

\* vm_return.
Return(n) ==
  /\ Running /\ n <= sp - bp
  /\ Restore(Copy(mem, sp - n, n, bp), n)

\* VM_OP_INT: a native pushes its results and returns them.
RunNative(vs) ==
  /\ mode = "run" /\ pc = INT /\ bp + Len(vs) <= MaxSp
  /\ \/ /\ sp + Len(vs) <= rsp
        /\ Restore(Copy(Store(vs), sp, Len(vs), bp), Len(vs))
     \/ sp + Len(vs) > rsp /\ Overflow

\* Seeded fault: the loop goes on to rsp, and the word after it is copied too.
Grow_OneMore ==
  LET top == size + rsp - 1 IN
  /\ mode = "grow"
  /\ size' = 2 * size
  /\ mem' = [i \in 0 .. 2 * size - 1 |->
               CASE i < sp -> mem[i] [] i >= top -> mem[rsp - 1 + (i - top)] [] OTHER -> Junk]
  /\ rsp' = top
  /\ mode' = "run"
  /\ UNCHANGED <<sp, bp, fun, pc>>

-----------------------------------------------------------------------------
\* vm_thread_grow: the words from rsp up move to the new top.  The last one is
\* copied after the loop, whether or not a saved environment ends there.
Grow ==
  LET top == IF rsp < size THEN size + rsp ELSE 2 * size - 1
      from == IF rsp < size THEN rsp ELSE size - 1
  IN
  /\ mode = "grow"
  /\ size' = 2 * size
  /\ mem' = [i \in 0 .. 2 * size - 1 |->
               CASE i < sp -> mem[i] [] i >= top -> mem[from + (i - top)] [] OTHER -> Junk]
  /\ rsp' = top
  /\ mode' = "run"
  /\ UNCHANGED <<sp, bp, fun, pc>>

Exited == mode \in {"exit", "wild"} /\ UNCHANGED stackVars

StackNext ==
  \/ \E n \in 0 .. 2 : \E vs \in [1 .. n -> Operands] : n > 0 /\ Push(vs)
  \/ \E n \in 0 .. 1 : \E vs \in [1 .. n -> Operands] : RunNative(vs)
  \/ \E n \in 0 .. 2 : Pop(n) \/ Return(n)
  \/ \E k \in 0 .. 1, v \in Operands : Move(k, v)
  \/ \E p \in 0 .. Sites - 1 : Jump(p)
  \/ \E f \in Functions : Call(f) \/ RCall(f)
  \/ Grow
  \/ Exited

StackSpec == StackInit /\ [][StackNext]_stackVars

-----------------------------------------------------------------------------
(* Properties.  A program meets two edges that nothing guards: a call      *)
(* with fewer than three words below rsp, where rsp - 3 wraps around, and  *)
(* the growth of a memory without saved environments, which leaves a stray *)
(* word above those saved later.                                           *)

\* The two stacks never overlap and stay in the memory, as long as every
\* access was in it: an instruction that does not fit overflows before it
\* writes (vm_exec.h:12, vm_util.h:71).
StacksApart == mode # "wild" => sp <= rsp /\ rsp <= size

\* The words at the top of the memory that belong to no environment, and where
\* the environments end.
Stray == (size - rsp) % 3
Top == size - Stray

\* From rsp up there are whole environments, then at most one stray word: what
\* vm_restore_environment reads (vm_exec.h:23), after any growth in between.
WholeFrames ==
  mode # "wild" =>
    /\ Stray \in {0, 1}
    /\ \A i \in rsp .. Top - 1 :
         mem[i][1] = CASE (i - rsp) % 3 = 0 -> "fun" [] (i - rsp) % 3 = 1 -> "pc" [] OTHER -> "bp"

\* Those edges are the only ones: an access outside the memory is a call with
\* rsp below three or the last return past a stray word, and a stray word
\* comes only from a growth without environments (vm_thread.h:71-75).
OnlyTwoEdges ==
  [][/\ mode # "wild" /\ mode' = "wild" => pc # INT /\ (rsp < 3 \/ (Stray = 1 /\ rsp = size - 1))
     /\ mode' # "wild" /\ Stray' # Stray => mode = "grow" /\ rsp = size]_stackVars

\* What the memory stands for.
Operand == [i \in 1 .. sp |-> mem[i - 1][2]]
Frame(i) == [fun |-> mem[i][2], pc |-> mem[i + 1][2], bp |-> mem[i + 2][2]]
Frames == [d \in 1 .. Depth |-> Frame(Top - 3 * d)]

Abstract == INSTANCE TwoStacks WITH
  operands <- Operand, frames <- Frames,
  running <- [fun |-> fun, pc |-> pc, bp |-> bp], exited <- mode = "exit"

\* Whatever is pushed, called, returned and grown, the memory acts as two
\* unbounded stacks until an access is outside it: an operand or an
\* environment comes back as it was put in, whatever grew in between.
ImplementsTwoStacks ==
  Abstract!Init /\ [][mode' = "wild" \/ Abstract!Next \/ UNCHANGED Abstract!vars]_stackVars

\* Every access is in the memory: the test of vm_save_environment for the room
\* of an environment (vm_exec.h:12) is meant to see to it.
InMemory == mode # "wild"

\* The environments end where the memory ends, which is how
\* vm_restore_environment knows the last one (vm_exec.h:24) and the collector
\* walks them in steps of three words (vm_gc.c:109).
FramesToTop == mode # "wild" => Stray = 0
=============================================================================

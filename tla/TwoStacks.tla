----------------------------- MODULE TwoStacks ------------------------------
(***************************************************************************)
(* What the memory of a green thread stands for: an unbounded stack of     *)
(* operands and an unbounded stack of the activations that wait for the    *)
(* running one.  The target of the refinement of ThreadStack.              *)
(***************************************************************************)
EXTENDS Integers, Sequences, SequencesExt

CONSTANTS Functions, Natives, Arity, Main, Operands, Sites

INT == -1                \* address of the instruction that runs a native
Entry(f) == IF f \in Natives THEN INT ELSE 0
After(p) == (p + 1) % Sites

VARIABLES operands, frames, running, exited

vars == <<operands, frames, running, exited>>

Init ==
  /\ operands \in UNION {[1 .. n -> Operands] : n \in {Arity[Main]}}
  /\ frames = <<>>
  /\ running = [fun |-> Main, pc |-> 0, bp |-> 0]
  /\ exited = FALSE

\* The last n operands, above the first k.
Keep(k, n) == SubSeq(operands, 1, k) \o SubSeq(operands, Len(operands) - n + 1, Len(operands))

Step(ops) ==
  /\ ~exited
  /\ operands' = ops
  /\ running' = [running EXCEPT !.pc = After(@)]
  /\ UNCHANGED <<frames, exited>>

Extend(vs) == Step(operands \o vs)
Drop(n) == n <= Len(operands) /\ Step(SubSeq(operands, 1, Len(operands) - n))
Assign(i, v) == i \in DOMAIN operands /\ Step([operands EXCEPT ![i] = v])
Jump(p) == ~exited /\ running' = [running EXCEPT !.pc = p] /\ UNCHANGED <<operands, frames, exited>>

Call(f) ==
  /\ ~exited /\ Arity[f] <= Len(operands)
  /\ frames' = Append(frames, running)
  /\ running' = [fun |-> f, pc |-> Entry(f), bp |-> Len(operands) - Arity[f]]
  /\ UNCHANGED <<operands, exited>>

\* A tail call: the arguments replace the operands of the running activation.
Replace(f) ==
  /\ ~exited /\ Arity[f] <= Len(operands) - running.bp
  /\ operands' = Keep(running.bp, Arity[f])
  /\ running' = [running EXCEPT !.fun = f, !.pc = 0]
  /\ UNCHANGED <<frames, exited>>

\* The results replace the operands of the activation that ends.
Return(n) ==
  /\ ~exited /\ n <= Len(operands) - running.bp
  /\ operands' = Keep(running.bp, n)
  /\ IF frames = <<>>
     THEN exited' = TRUE /\ UNCHANGED <<frames, running>>
     ELSE /\ running' = [Last(frames) EXCEPT !.pc = After(@)]
          /\ frames' = Front(frames)
          /\ UNCHANGED exited

\* The results of a native.
Yield(vs) ==
  /\ ~exited /\ running.pc = INT /\ frames # <<>>
  /\ operands' = SubSeq(operands, 1, running.bp) \o vs
  /\ running' = [Last(frames) EXCEPT !.pc = After(@)]
  /\ frames' = Front(frames)
  /\ UNCHANGED exited

Next ==
  \/ \E n \in 0 .. 2 : \E vs \in [1 .. n -> Operands] : Extend(vs) \/ Yield(vs)
  \/ \E n \in 0 .. Len(operands) : Drop(n) \/ Return(n)
  \/ \E i \in DOMAIN operands, v \in Operands : Assign(i, v)
  \/ \E p \in 0 .. Sites - 1 : Jump(p)
  \/ \E f \in Functions : Call(f) \/ Replace(f)

Spec == Init /\ [][Next]_vars
=============================================================================

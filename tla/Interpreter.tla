---------------------------- MODULE Interpreter -----------------------------
(***************************************************************************)
(* The interpreter (vm_exec.c, vm_exec.h) on an image that the assembler   *)
(* has made, with one green thread that runs Main.  Its memory is two      *)
(* stacks here, as TwoStacks has it, and its values are immutable: what    *)
(* unbound variables and structures with holes need is in DataFlow and     *)
(* Matching, arithmetic in Expressions, several threads in VMScheduler.    *)
(*                                                                         *)
(* A value is a static variable, or an instance of a function: a variable  *)
(* whose items are the closure.                                            *)
(***************************************************************************)
EXTENDS Assembler
LOCAL INSTANCE SequencesExt

CONSTANTS
  Executed,   \* more sources, whose images are executed
  TypedInts   \* the numbers that Readint may read

VARIABLES
  env,        \* context->env: pc, bp, function and acc
  opstack,    \* the operands, up to sp
  saved,      \* the environments, from rsp on: function, pc, bp
  closure,    \* context->closure
  mode,       \* "never", "off", "running", "aside", "exit" or an exception
  printed,    \* what Write has written
  position    \* the statement at each offset of the image; not in the code

execVars == <<env, opstack, saved, closure, mode, printed, position>>

VM_VECTOR_MAIN == 3
VM_ATOM_FALSE == 0
VM_ATOM_TRUE == 1

PrototypeOf(fun) == image.prototypes[fun.num + 1]
ClosureOf(fun) == [i \in DOMAIN fun.items |-> fun.items[i].var]
IntVar(n) == [type |-> "INT", ref |-> "", num |-> n, clone |-> FALSE, items |-> <<>>]

ExecTypeOK ==
  /\ mode \in {"never", "off", "running", "aside", "exit", "type error", "key error", "out of bounds"}
  /\ env.pc \in 0 .. 3 * Len(context.code) /\ env.bp \in 0 .. Len(opstack)
  /\ \A i \in DOMAIN saved : saved[i].bp \in 0 .. Len(opstack)

ExecStart(m) ==
  /\ env = [pc |-> 0, bp |-> 0, function |-> IntVar(0), acc |-> FALSE]
  /\ opstack = <<>> /\ saved = <<>> /\ closure = <<>> /\ printed = <<>> /\ position = <<>>
  /\ mode = m
ExecInit ==
  \/ AsmInit /\ ExecStart("never")
  \/ \E p \in Executed : AsmStart(p) /\ ExecStart("off")

Instructions == {j \in DOMAIN read : IsInstruction(read[j])}

\* vm_run: the thread for Main, and the worker that takes it.
StartMain ==
  LET main == image.constants[VM_VECTOR_MAIN] IN
  /\ verdict = "linked" /\ mode = "off"
  /\ env' = [env EXCEPT !.pc = PrototypeOf(main).addr, !.function = main]
  /\ closure' = ClosureOf(main)
  /\ mode' = "running"
  /\ position' = [o \in {At(Nth(j)) : j \in Instructions} |-> CHOOSE j \in Instructions : At(Nth(j)) = o]
  /\ UNCHANGED <<opstack, saved, printed>>

-----------------------------------------------------------------------------
Instr == image.program[env.pc]
AtOp(op) == mode = "running" /\ Instr.op = op
VmBytecodeNext(o, words) == o + 1 + words

\* vm_dereferance_bytecode, with sp operands on the stack.
InBounds(b, n, sp) ==
  CASE b.type[n] = "LOCAL" -> env.bp + b.value[n] < sp
    [] b.type[n] = "CLOSURE" -> b.value[n] < PrototypeOf(env.function).closure
    [] OTHER -> TRUE
ValueAt(b, n) ==
  CASE b.type[n] = "LOCAL" -> opstack[env.bp + b.value[n] + 1]
    [] b.type[n] = "CLOSURE" -> closure[b.value[n] + 1]
    [] b.type[n] = "CONSTANT" -> image.constants[b.value[n]]
V1 == ValueAt(Instr, 1)
V2 == ValueAt(Instr, 2)
ReadPlaces(b) ==
  CASE b.op = "match" -> {1, 2}
    [] b.op = "mov" -> {2}
    [] b.op \in {"push", "call", "rcall", "key", "branch"} -> {1}
    [] OTHER -> {}
Legal == \A n \in ReadPlaces(Instr) : InBounds(Instr, n, Len(opstack))

\* An exception ends the program; nobody looks at the thread again.
Throw(e) == mode' = e /\ UNCHANGED <<env, opstack, saved, closure, printed>>
\* The next instruction, behind this one and its words.
Continue(words, stack) ==
  /\ env' = [env EXCEPT !.pc = VmBytecodeNext(@, words)]
  /\ opstack' = stack
  /\ UNCHANGED <<saved, closure, mode, printed>>

ThrowOutOfBounds == mode = "running" /\ ~Legal /\ Throw("out of bounds")
OpPush == AtOp("push") /\ Legal /\ Continue(1, Append(opstack, V1))
OpPop == AtOp("pop") /\ Continue(1, SubSeq(opstack, 1, Len(opstack) - Instr.value[1]))
OpMove == AtOp("mov") /\ Legal /\ Continue(2, [opstack EXCEPT ![env.bp + Instr.value[1] + 1] = V2])

\* Of a pattern that is an atom or a number: Matching has all others.
OpMatch ==
  /\ AtOp("match") /\ Legal
  /\ env' = [env EXCEPT !.pc = VmBytecodeNext(@, 2), !.acc = (V1.type = V2.type /\ V1.num = V2.num)]
  /\ UNCHANGED <<opstack, saved, closure, mode, printed>>

OpKey ==
  LET n == Instr.value[2]
      places == CASE V1.type = "RECORD" -> {i \in DOMAIN V1.items : V1.items[i].key = n}
                  [] V1.type = "TUPLE" -> {n} \cap DOMAIN V1.items
                  [] OTHER -> {}
  IN
  /\ AtOp("key") /\ Legal
  /\ IF V1.type \notin {"RECORD", "TUPLE"} THEN Throw("type error")
     ELSE IF places = {} THEN Throw("key error")
     ELSE Continue(2, Append(opstack, V1.items[CHOOSE i \in places : \A k \in places : i <= k].var))

\* vm_instance_function: the function is on the stack before its closure is read.
OpInst ==
  LET p == Instr.value[1]
      At2(i) == env.pc + 2 * i
      b(i) == image.program[At2(i)]
      size == image.prototypes[p + 1].closure
      Kept(i) == [key |-> -1, var |-> ValueAt(b(i), 1)]
      fun == [type |-> "FUNCTION", ref |-> "", num |-> p, clone |-> FALSE,
              items |-> [i \in 1 .. size |-> Kept(i)]]
  IN
  /\ AtOp("inst")
  /\ opstack' = Append(opstack, fun)
  /\ env' = [env EXCEPT !.pc = At2(size + 1)]
  /\ UNCHANGED <<saved, closure, mode, printed>>

-----------------------------------------------------------------------------
(* Calls and returns.                                                      *)

Environment(e) == [function |-> e.function, pc |-> e.pc, bp |-> e.bp]
TopOf(stack, n) == SubSeq(stack, Len(stack) - n + 1, Len(stack))

\* Seeded fault: the function that returns stays the function of the environment.
VmReturn_KeepsFunction(stack, e, envs, n) ==
  /\ opstack' = SubSeq(stack, 1, e.bp) \o TopOf(stack, n)
  /\ IF envs = <<>> THEN mode' = "exit" /\ UNCHANGED <<env, saved, closure>>
     ELSE /\ env' = [pc |-> VmBytecodeNext(Last(envs).pc, 1), bp |-> Last(envs).bp,
                     function |-> e.function, acc |-> e.acc]
          /\ saved' = Front(envs)
          /\ closure' = ClosureOf(Last(envs).function)
          /\ mode' = "running"

\* vm_return of n operands from e, and the step over the call that it returns to.
VmReturn(stack, e, envs, n) ==
  /\ opstack' = SubSeq(stack, 1, e.bp) \o TopOf(stack, n)
  /\ IF envs = <<>> THEN mode' = "exit" /\ UNCHANGED <<env, saved, closure>>
     ELSE /\ env' = [pc |-> VmBytecodeNext(Last(envs).pc, 1), bp |-> Last(envs).bp,
                     function |-> Last(envs).function, acc |-> e.acc]
          /\ saved' = Front(envs)
          /\ closure' = ClosureOf(Last(envs).function)
          /\ mode' = "running"

\* A native called from e.
Native(e, envs) ==
  LET name == PrototypeOf(e.function).addr IN
  \/ name = "Write" /\ printed' = Append(printed, opstack[e.bp + 1]) /\ VmReturn(opstack, e, envs, 0)
  \/ name = "Readint" /\ UNCHANGED printed
       /\ \E n \in TypedInts : VmReturn(Append(opstack, IntVar(n)), e, envs, 1)

Called ==
  [env EXCEPT !.bp = Len(opstack) - PrototypeOf(V1).arity, !.function = V1,
              !.pc = IF PrototypeOf(V1).type = "NATIVE" THEN 0 ELSE PrototypeOf(V1).addr]
IsCall == AtOp("call") /\ Legal
OpCall ==
  /\ IsCall /\ V1.type = "FUNCTION" /\ PrototypeOf(V1).type = "DYNAMIC"
  /\ saved' = Append(saved, Environment(env))
  /\ env' = Called
  /\ closure' = ClosureOf(V1)
  /\ UNCHANGED <<opstack, mode, printed>>
OpCallNative ==
  /\ IsCall /\ V1.type = "FUNCTION" /\ PrototypeOf(V1).type = "NATIVE"
  /\ Native(Called, Append(saved, Environment(env)))
\* Readint finds no memory, or its thread none for its result.
NativeStops ==
  /\ IsCall /\ V1.type = "FUNCTION" /\ PrototypeOf(V1).type = "NATIVE" /\ PrototypeOf(V1).addr = "Readint"
  /\ env' = Called
  /\ saved' = Append(saved, Environment(env))
  /\ closure' = <<>>
  /\ mode' = "aside"
  /\ UNCHANGED <<opstack, printed>>
\* The first instruction of every image: a native that was stopped is called again.
OpInt == AtOp("int") /\ Native(env, saved)
ThrowNoFunction == (IsCall \/ (AtOp("rcall") /\ Legal)) /\ V1.type # "FUNCTION" /\ Throw("type error")

\* The assembler accepts a native here, and the program would go anywhere.
OpRcall ==
  /\ AtOp("rcall") /\ Legal /\ V1.type = "FUNCTION"
  /\ opstack' = SubSeq(opstack, 1, env.bp) \o TopOf(opstack, PrototypeOf(V1).arity)
  /\ env' = [env EXCEPT !.function = V1, !.pc = PrototypeOf(V1).addr]
  /\ closure' = ClosureOf(V1)
  /\ UNCHANGED <<saved, mode, printed>>
OpRet == AtOp("ret") /\ VmReturn(opstack, env, saved, Instr.value[1]) /\ UNCHANGED printed

Goto(o) == env' = [env EXCEPT !.pc = o] /\ UNCHANGED <<opstack, saved, closure, mode, printed>>
OpJmp == AtOp("jmp") /\ Goto(Instr.value[1])
OpBranch ==
  LET isAcc == Instr.type[1] = "ACC" IN
  /\ AtOp("branch") /\ Legal
  /\ IF ~isAcc /\ (V1.type # "ATOM" \/ V1.num \notin {VM_ATOM_TRUE, VM_ATOM_FALSE}) THEN Throw("type error")
     ELSE Goto(IF (isAcc /\ env.acc) \/ (~isAcc /\ V1.num = VM_ATOM_TRUE) THEN Instr.value[2]
               ELSE VmBytecodeNext(env.pc, 2))

\* Other threads use the context while this one is put aside.
SetAside(o) ==
  /\ env' = [env EXCEPT !.pc = o]
  /\ closure' = <<>>
  /\ mode' = "aside"
  /\ UNCHANGED <<opstack, saved, printed>>
OpYield == AtOp("yield") /\ SetAside(VmBytecodeNext(env.pc, 0))
\* A collection is to begin, or there is no memory for the function.
Halted == (AtOp("call") \/ AtOp("rcall") \/ AtOp("inst")) /\ SetAside(env.pc)
TakeUp ==
  /\ mode = "aside"
  /\ closure' = ClosureOf(env.function)
  /\ mode' = "running"
  /\ UNCHANGED <<env, opstack, saved, printed>>

VmExec ==
  /\ UNCHANGED position
  /\ \/ ThrowOutOfBounds \/ OpPush \/ OpPop \/ OpMove \/ OpMatch \/ OpKey \/ OpInst
     \/ OpCall \/ OpCallNative \/ NativeStops \/ OpInt \/ ThrowNoFunction \/ OpRcall \/ OpRet
     \/ OpJmp \/ OpBranch \/ OpYield \/ Halted \/ TakeUp
ExecNext == UNCHANGED asmVars /\ (StartMain \/ VmExec)

-----------------------------------------------------------------------------
(* The image stands for the source.                                        *)

\* A value, by names instead of numbers.
RECURSIVE Named(_)
Named(v) ==
  LET name == CASE v.type \in {"ATOM", "TUPLE", "RECORD"} -> image.atoms[v.num + 1]
                [] v.type = "FUNCTION" -> image.functions[v.num + 1]
                [] OTHER -> ""
      KeyName(k) == IF k = -1 THEN "" ELSE image.atoms[k + 1]
  IN Constant(v.type, name, IF v.type = "INT" THEN v.num ELSE 0, FALSE,
              [i \in DOMAIN v.items |-> Entry(KeyName(v.items[i].key), Named(v.items[i].var))])
AllNamed(vs) == [i \in DOMAIN vs |-> Named(vs[i])]

\* A native that was stopped is called again by the statement that called it.
Retried == env.pc = 0
Present == IF Retried THEN Last(saved) ELSE Environment(env)
Callers == IF Retried THEN Front(saved) ELSE saved

SM == INSTANCE SourceMachine WITH
  Natives <- Lib, Typed <- TypedInts,
  program <- read \o unread, out <- AllNamed(printed),
  machine <- IF mode \in {"never", "off"}
             THEN [at |-> 0, operands |-> <<>>, base |-> 0, fun |-> FunctionNamed("Main"), callers |-> <<>>,
                   acc |-> FALSE, outcome |-> "not begun"]
             ELSE [at |-> position[Present.pc], operands |-> AllNamed(opstack), base |-> Present.bp,
                   fun |-> Named(Present.function),
                   callers |-> [i \in DOMAIN Callers |->
                                  [at |-> position[Callers[i].pc], base |-> Callers[i].bp, fun |-> Named(Callers[i].function)]],
                   acc |-> env.acc, outcome |-> IF mode = "aside" THEN "running" ELSE mode]

\* The program does what its source says, whatever offsets, prototypes, numbers of
\* atoms and shared constants it was translated to, and however often its thread is
\* put aside and taken up, in a native as well: every function runs with its own
\* closure and operands, and returns behind the call that called it.
ImplementsSource == SM!Spec
=============================================================================

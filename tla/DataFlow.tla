------------------------------ MODULE DataFlow ------------------------------
(***************************************************************************)
(* Dataflow variables (vm_bind.c, vm_dereferance.h, vm_thread.h:54-63):    *)
(* threads unify pairs of nodes and wait for values, with one mutex per    *)
(* variable taken from a small pool.  A node is a cell (a variable, which  *)
(* is VM_VARIBLE_UNDEF or VM_VARIBLE_REF), a value (an atom, number, pair, *)
(* tuple or record: a label and its items) or the hole of a pattern        *)
(* (VM_VARIBLE_PLACEHOLDER).                                               *)
(*                                                                         *)
(* The type of a node is read without its mutex and read again under it.   *)
(* One step is one such read, one lock, or what is done under the locks    *)
(* between two of them.  The workers are left out: every thread that is    *)
(* not blocked may step, as if there were a worker for each.               *)
(***************************************************************************)
EXTENDS Integers, Sequences, FiniteSets

CONSTANTS
  Threads, Cells, Values, Hole,
  Label,        \* of each value: its type, and number, atom or id (and the keys)
  Items,        \* of each value: the nodes it is made of
  Mutexes,      \* the pool context->mutex[0 .. mutex_cnt-1]
  NoMutex,      \* -1, in dst_lock and src_lock
  Nobody,       \* owner of a free mutex
  Undef,        \* value of a cell without one
  BindOps,      \* the pairs of nodes that VM_OP_BIND may be given
  ReadOps,      \* the nodes that other instructions dereference
  MaxOps,       \* instructions a thread executes: a bound on the model
  MayRestart,   \* whether allocations fail, so that instructions start over
  MayOverflow   \* whether a thread's stack may be full

Nodes == Cells \cup Values \cup {Hole}
Ops == {<<"bind", p[1], p[2]>> : p \in BindOps} \cup {<<"read", n, n>> : n \in ReadOps}

ASSUME NodesAssumption ==
  /\ Cells \cap Values = {} /\ Hole \notin Cells \cup Values /\ Undef \notin Nodes
  /\ Items \in [Values -> Seq(Nodes)] /\ DOMAIN Label = Values
ASSUME CellsAssumption == IsFiniteSet(Cells)
ASSUME OpsAssumption ==
  BindOps \subseteq Nodes \X Nodes /\ ReadOps \subseteq Cells \cup Values /\ MaxOps \in Nat
ASSUME MutexAssumption == NoMutex \notin Mutexes /\ Nobody \notin Threads

VARIABLES
  val,       \* the node a cell refers to, or Undef
  mutexOf,   \* v->mutex_id of each cell, drawn by vm_random_mutex
  owner,     \* the thread whose worker holds each mutex
  waiting,   \* the threads linked behind each undefined cell
  pc, op,    \* where each thread is, and in which instruction
  todo,      \* the pairs still to bind in that instruction: the recursion
  dst, src,  \* the nodes of vm_bind, or of vm_dereferance (dst)
  dlock, slock,  \* dst_lock and src_lock
  count,     \* the instructions a thread has begun
  woken,     \* TRUE from a thread's wake-up to the end of its instruction
  restarted, \* the threads whose instruction was started over
  told       \* the pairs whose binding ended without an error

store == <<val, mutexOf>>
frame == <<op, count, restarted, told>>
vars == <<store, owner, waiting, pc, todo, dst, src, dlock, slock, woken, frame>>

PCs == {"idle", "begin", "dst", "dstlock", "src", "srclock", "unify", "setref",
        "read", "readlock", "blocked", "failed"}

TypeOK ==
  /\ val \in [Cells -> Nodes \cup {Undef}]
  /\ mutexOf \in [Cells -> Mutexes]
  /\ owner \in [Mutexes -> Threads \cup {Nobody}]
  /\ waiting \in [Cells -> Seq(Threads)]
  /\ pc \in [Threads -> PCs]
  /\ op \in [Threads -> Ops \cup {<<>>}]
  /\ todo \in [Threads -> Seq(Nodes \X Nodes)]
  /\ dst \in [Threads -> Nodes] /\ src \in [Threads -> Nodes]
  /\ dlock \in [Threads -> Mutexes \cup {NoMutex}]
  /\ slock \in [Threads -> Mutexes \cup {NoMutex}]
  /\ count \in [Threads -> 0 .. MaxOps]
  /\ woken \in [Threads -> BOOLEAN]
  /\ restarted \subseteq Threads
  /\ told \subseteq BindOps

Init ==
  /\ val = [c \in Cells |-> Undef]
  /\ mutexOf \in [Cells -> Mutexes]
  /\ owner = [m \in Mutexes |-> Nobody]
  /\ waiting = [c \in Cells |-> <<>>]
  /\ pc = [t \in Threads |-> "idle"]
  /\ op = [t \in Threads |-> <<>>]
  /\ todo = [t \in Threads |-> <<>>]
  /\ dst = [t \in Threads |-> Hole] /\ src = [t \in Threads |-> Hole]
  /\ dlock = [t \in Threads |-> NoMutex] /\ slock = [t \in Threads |-> NoMutex]
  /\ count = [t \in Threads |-> 0]
  /\ woken = [t \in Threads |-> FALSE]
  /\ restarted = {}
  /\ told = {}

-----------------------------------------------------------------------------
IsUndef(n) == n \in Cells /\ val[n] = Undef
IsRef(n) == n \in Cells /\ val[n] # Undef
Goto(t, from, to) == pc[t] = from /\ pc' = [pc EXCEPT ![t] = to]
Free(c) == owner[mutexOf[c]] = Nobody
Take(c, t) == owner' = [owner EXCEPT ![mutexOf[c]] = t]

\* vm_mutex_unlock of dst_lock and src_lock, whichever is held.
UnlockBoth(t) ==
  /\ owner' = [m \in Mutexes |-> IF m \in {dlock[t], slock[t]} THEN Nobody ELSE owner[m]]
  /\ dlock' = [dlock EXCEPT ![t] = NoMutex]
  /\ slock' = [slock EXCEPT ![t] = NoMutex]

\* Line up the items of two values for the recursive calls.
ItemPairs(v, w) == [i \in 1 .. Len(Items[v]) |-> <<Items[v][i], Items[w][i]>>]

-----------------------------------------------------------------------------
(* Instructions.                                                           *)

Issue(t, o) ==
  /\ Goto(t, "idle", IF o[1] = "bind" THEN "begin" ELSE "read")
  /\ count[t] < MaxOps
  /\ count' = [count EXCEPT ![t] = @ + 1]
  /\ op' = [op EXCEPT ![t] = o]
  /\ todo' = [todo EXCEPT ![t] = IF o[1] = "bind" THEN <<<<o[2], o[3]>>>> ELSE <<>>]
  /\ dst' = [dst EXCEPT ![t] = o[2]]
  /\ UNCHANGED <<store, owner, waiting, src, dlock, slock, woken, restarted, told>>

\* The next pair of the recursion: BEGIN in vm_bind.
Begin(t) ==
  /\ Goto(t, "begin", "dst")
  /\ todo[t] # <<>>
  /\ dst' = [dst EXCEPT ![t] = Head(todo[t])[1]]
  /\ src' = [src EXCEPT ![t] = Head(todo[t])[2]]
  /\ todo' = [todo EXCEPT ![t] = Tail(@)]
  /\ UNCHANGED <<store, owner, waiting, dlock, slock, woken, frame>>

EndBind(t) ==
  /\ Goto(t, "begin", "idle")
  /\ todo[t] = <<>>
  /\ told' = told \cup {<<op[t][2], op[t][3]>>}
  /\ UNCHANGED <<store, owner, waiting, todo, dst, src, dlock, slock, woken, op, count, restarted>>

\* vm_clone at BEGIN throws VM_EXCEPTION_OOM: the thread is requeued and, after
\* the collection, its instruction is executed from the start.
Restart(t) ==
  /\ MayRestart /\ t \notin restarted
  /\ pc[t] = "begin"
  /\ restarted' = restarted \cup {t}
  /\ todo' = [todo EXCEPT ![t] = <<<<op[t][2], op[t][3]>>>>]
  /\ UNCHANGED <<store, owner, waiting, pc, dst, src, dlock, slock, woken, op, count, told>>

-----------------------------------------------------------------------------
(* The search for the two ends of a binding: DST_DREF and SRC_DREF.        *)

\* Seeded fault: the loop follows a variable that is not a reference.
FollowDst_Undef(t) ==
  /\ pc[t] \in {"dst", "read"} /\ dst[t] \in Cells
  /\ dst' = [dst EXCEPT ![t] = val[dst[t]]]
  /\ UNCHANGED <<store, owner, waiting, pc, todo, src, dlock, slock, woken, frame>>

\* The same loop starts vm_dereferance.
FollowDst(t) ==
  /\ pc[t] \in {"dst", "read"}
  /\ IsRef(dst[t])
  /\ dst' = [dst EXCEPT ![t] = val[dst[t]]]
  /\ UNCHANGED <<store, owner, waiting, pc, todo, src, dlock, slock, woken, frame>>

FoundDst(t) ==
  /\ Goto(t, "dst", IF IsUndef(dst[t]) THEN "dstlock" ELSE "src")
  /\ ~IsRef(dst[t])
  /\ UNCHANGED <<store, owner, waiting, todo, dst, src, dlock, slock, woken, frame>>

\* Seeded fault: the type is not read again under the mutex.
LockDst_NoRecheck(t) ==
  /\ Goto(t, "dstlock", "src")
  /\ Free(dst[t]) /\ Take(dst[t], t)
  /\ dlock' = [dlock EXCEPT ![t] = mutexOf[dst[t]]]
  /\ UNCHANGED <<store, waiting, todo, dst, src, slock, woken, frame>>

LockDst(t) ==
  /\ pc[t] = "dstlock" /\ Free(dst[t])
  /\ \/ /\ IsUndef(dst[t])
        /\ Goto(t, "dstlock", "src")
        /\ Take(dst[t], t)
        /\ dlock' = [dlock EXCEPT ![t] = mutexOf[dst[t]]]
     \/ /\ IsRef(dst[t])
        /\ Goto(t, "dstlock", "dst")
        /\ UNCHANGED <<owner, dlock>>
  /\ UNCHANGED <<store, waiting, todo, dst, src, slock, woken, frame>>

FollowSrc(t) ==
  /\ pc[t] = "src"
  /\ IsRef(src[t])
  /\ src' = [src EXCEPT ![t] = val[src[t]]]
  /\ UNCHANGED <<store, owner, waiting, pc, todo, dst, dlock, slock, woken, frame>>

\* A mutex that dst_lock already holds is not locked again.
FoundSrc(t) ==
  /\ Goto(t, "src", IF IsUndef(src[t]) /\ mutexOf[src[t]] # dlock[t] THEN "srclock" ELSE "unify")
  /\ ~IsRef(src[t])
  /\ UNCHANGED <<store, owner, waiting, todo, dst, src, dlock, slock, woken, frame>>

LockSrc(t) ==
  /\ pc[t] = "srclock" /\ Free(src[t])
  /\ \/ /\ IsUndef(src[t])
        /\ Goto(t, "srclock", "unify")
        /\ Take(src[t], t)
        /\ slock' = [slock EXCEPT ![t] = mutexOf[src[t]]]
     \/ /\ IsRef(src[t])
        /\ Goto(t, "srclock", "src")
        /\ UNCHANGED <<owner, slock>>
  /\ UNCHANGED <<store, waiting, todo, dst, src, dlock, woken, frame>>

-----------------------------------------------------------------------------
(* Both ends are found, and locked if undefined.                           *)

\* The same node: nothing to do.  (Only dst_lock can be held.)
UnifySame(t) ==
  /\ Goto(t, "unify", "begin")
  /\ dst[t] = src[t]
  /\ UnlockBoth(t)
  /\ UNCHANGED <<store, waiting, todo, dst, src, woken, frame>>

\* Seeded fault: the recursion stops after the first item.
UnifyValues_HeadsOnly(t) ==
  LET v == dst[t]  w == src[t] IN
  /\ Goto(t, "unify", "begin")
  /\ v # w /\ v \in Values /\ w \in Values
  /\ todo' = [todo EXCEPT ![t] = SubSeq(ItemPairs(v, w), 1, 1) \o @]
  /\ UNCHANGED <<store, owner, waiting, dst, src, dlock, slock, woken, frame>>

\* Two values: their items are unified in turn, or the thread fails.
UnifyValues(t) ==
  LET v == dst[t]  w == src[t] IN
  /\ pc[t] = "unify" /\ v # w /\ v \in Values /\ w \in Values
  /\ \/ /\ Label[v] = Label[w] /\ Len(Items[v]) = Len(Items[w])
        /\ Goto(t, "unify", "begin")
        /\ todo' = [todo EXCEPT ![t] = ItemPairs(v, w) \o @]
     \/ /\ Label[v] # Label[w] \/ Len(Items[v]) # Len(Items[w])
        /\ Goto(t, "unify", "failed")
        /\ UNCHANGED todo
  /\ UNCHANGED <<store, owner, waiting, dst, src, dlock, slock, woken, frame>>

\* Seeded fault: the return after a hole without its vm_mutex_unlock.
UnifyHole_KeepsLock(t) ==
  /\ Goto(t, "unify", "begin")
  /\ dst[t] # src[t] /\ Hole \in {dst[t], src[t]}
  /\ dlock' = [dlock EXCEPT ![t] = NoMutex] /\ slock' = [slock EXCEPT ![t] = NoMutex]
  /\ UNCHANGED <<store, owner, waiting, todo, dst, src, woken, frame>>

\* A hole takes the other end, onto the stack, with that end still locked.
UnifyHole(t) ==
  /\ Goto(t, "unify", "begin")
  /\ dst[t] # src[t] /\ Hole \in {dst[t], src[t]}
  /\ UnlockBoth(t)
  /\ UNCHANGED <<store, waiting, todo, dst, src, woken, frame>>

\* vm_stack_tpush finds the stack full and throws VM_EXCEPTION_THREAD_OOM: the
\* stack is grown and the instruction starts over, the mutex still locked.
OverflowHole(t) ==
  /\ MayOverflow /\ t \notin restarted
  /\ Goto(t, "unify", "begin")
  /\ dst[t] # src[t] /\ Hole \in {dst[t], src[t]}
  /\ restarted' = restarted \cup {t}
  /\ todo' = [todo EXCEPT ![t] = <<<<op[t][2], op[t][3]>>>>]
  /\ dlock' = [dlock EXCEPT ![t] = NoMutex]
  /\ slock' = [slock EXCEPT ![t] = NoMutex]
  /\ UNCHANGED <<store, owner, waiting, dst, src, woken, op, count, told>>

\* The undefined end that becomes a reference, and the end it will refer to.
From(t) == IF IsUndef(dst[t]) THEN dst[t] ELSE src[t]
To(t) == IF IsUndef(dst[t]) THEN src[t] ELSE dst[t]

\* Seeded fault: the threads stay where they are.
UnifyWake_LeavesWaiters(t) ==
  /\ Goto(t, "unify", "setref")
  /\ dst[t] # src[t] /\ Hole \notin {dst[t], src[t]} /\ IsUndef(From(t))
  /\ UNCHANGED <<store, owner, waiting, todo, dst, src, dlock, slock, woken, frame>>

\* Seeded fault: threads that should follow an undefined end are resumed.
UnifyWake_Always(t) ==
  LET c == From(t)
      Resumed == {u \in Threads : \E i \in DOMAIN waiting[c] : waiting[c][i] = u}
  IN
  /\ pc[t] = "unify" /\ dst[t] # src[t] /\ Hole \notin {dst[t], src[t]} /\ IsUndef(c)
  /\ pc' = [u \in Threads |-> CASE u = t -> "setref" [] u \in Resumed -> "read" [] OTHER -> pc[u]]
  /\ dst' = [u \in Threads |-> IF u \in Resumed THEN op[u][2] ELSE dst[u]]
  /\ woken' = [u \in Threads |-> woken[u] \/ u \in Resumed]
  /\ waiting' = [waiting EXCEPT ![c] = <<>>]
  /\ UNCHANGED <<store, owner, todo, src, dlock, slock, frame>>

\* The threads behind the undefined end follow it, or are resumed ...
UnifyWake(t) ==
  LET c == From(t)  n == To(t)
      Resumed == {u \in Threads : n \notin Cells /\ \E i \in DOMAIN waiting[c] : waiting[c][i] = u}
  IN
  /\ pc[t] = "unify" /\ dst[t] # src[t] /\ Hole \notin {dst[t], src[t]} /\ IsUndef(c)
  /\ pc' = [u \in Threads |-> CASE u = t -> "setref" [] u \in Resumed -> "read" [] OTHER -> pc[u]]
  /\ dst' = [u \in Threads |-> IF u \in Resumed THEN op[u][2] ELSE dst[u]]
  /\ woken' = [u \in Threads |-> woken[u] \/ u \in Resumed]
  /\ waiting' = IF n \in Cells THEN [waiting EXCEPT ![c] = <<>>, ![n] = @ \o waiting[c]]
                ELSE [waiting EXCEPT ![c] = <<>>]
  /\ UNCHANGED <<store, owner, todo, src, dlock, slock, frame>>

\* ... and then it becomes a reference and the mutexes are released.
SetRef(t) ==
  /\ Goto(t, "setref", "begin")
  /\ val' = [val EXCEPT ![From(t)] = To(t)]
  /\ UnlockBoth(t)
  /\ UNCHANGED <<mutexOf, waiting, todo, dst, src, woken, frame>>

-----------------------------------------------------------------------------
(* vm_dereferance, by an instruction that needs a value.                   *)

FoundRead(t) ==
  /\ Goto(t, "read", IF IsUndef(dst[t]) THEN "readlock" ELSE "idle")
  /\ ~IsRef(dst[t])
  /\ woken' = [woken EXCEPT ![t] = @ /\ IsUndef(dst[t])]
  /\ UNCHANGED <<store, owner, waiting, todo, dst, src, dlock, slock, frame>>

\* Seeded fault: the thread is linked without reading the type again.
LockRead_NoRecheck(t) ==
  /\ Goto(t, "readlock", "blocked")
  /\ Free(dst[t])
  /\ waiting' = [waiting EXCEPT ![dst[t]] = Append(@, t)]
  /\ UNCHANGED <<store, owner, todo, dst, src, dlock, slock, woken, frame>>

\* Seeded fault: a stale read goes back to the lock, not to the lookup.
LockRead_Relock(t) ==
  /\ pc[t] = "readlock" /\ Free(dst[t])
  /\ IF IsUndef(dst[t])
     THEN /\ pc' = [pc EXCEPT ![t] = "blocked"]
          /\ waiting' = [waiting EXCEPT ![dst[t]] = Append(@, t)]
     ELSE UNCHANGED <<pc, waiting>>
  /\ UNCHANGED <<store, owner, todo, dst, src, dlock, slock, woken, frame>>

LockRead(t) ==
  /\ pc[t] = "readlock" /\ Free(dst[t])
  /\ \/ /\ IsUndef(dst[t])
        /\ Goto(t, "readlock", "blocked")
        /\ waiting' = [waiting EXCEPT ![dst[t]] = Append(@, t)]
     \/ /\ IsRef(dst[t])
        /\ Goto(t, "readlock", "read")
        /\ UNCHANGED waiting
  /\ UNCHANGED <<store, owner, todo, dst, src, dlock, slock, woken, frame>>

-----------------------------------------------------------------------------
Proceed(t) ==
  \/ Begin(t) \/ EndBind(t)
  \/ FollowDst(t) \/ FoundDst(t) \/ LockDst(t)
  \/ FollowSrc(t) \/ FoundSrc(t) \/ LockSrc(t)
  \/ UnifySame(t) \/ UnifyValues(t) \/ UnifyHole(t) \/ UnifyWake(t) \/ SetRef(t)
  \/ FoundRead(t) \/ LockRead(t)

ThreadStep(t) == (\E o \in Ops : Issue(t, o)) \/ Restart(t) \/ OverflowHole(t) \/ Proceed(t)

\* Every thread is done, blocked for ever or failed.
Ended ==
  /\ \A t \in Threads : \/ pc[t] \in {"blocked", "failed"}
                        \/ pc[t] = "idle" /\ count[t] = MaxOps
  /\ UNCHANGED vars

Next == (\E t \in Threads : ThreadStep(t)) \/ Ended

Spec == Init /\ [][Next]_vars

(* A thread in the middle of an instruction has a worker, which the system *)
(* schedules; a mutex that is released and wanted for ever is granted.     *)
FairSpec == Spec /\ \A t \in Threads : WF_vars(Proceed(t))

-----------------------------------------------------------------------------
(* Properties.                                                             *)

\* The node at the end of the references from n, in at most one hop per cell.
Root(n) ==
  LET hop[k \in 0 .. Cardinality(Cells)] ==
        IF k = 0 THEN n ELSE LET m == hop[k - 1] IN IF IsRef(m) THEN val[m] ELSE m
  IN hop[Cardinality(Cells)]

\* Two nodes with the same root, or whose roots are values that match item by
\* item, to the depth of the values of the model.
SameNode(m, n) ==
  \/ Hole \in {m, n} \/ Root(m) = Root(n)
  \/ {Root(m), Root(n)} \subseteq Values /\ Label[Root(m)] = Label[Root(n)]
SameTerm(m, n) ==
  /\ SameNode(m, n)
  /\ {Root(m), Root(n)} \subseteq Values =>
       \A i \in DOMAIN Items[Root(m)] : SameNode(Items[Root(m)][i], Items[Root(n)][i])

Store == INSTANCE SingleAssignmentStore WITH rep <- [c \in Cells |-> Root(c)]

\* However the searches, locks and recursions of several binders interleave,
\* a cell is assigned once, and only by joining one whole class to another.
ImplementsStore == Store!Spec

\* Following references ends: concurrent bindings of variables to each other
\* (X = Y and Y = X) never close a cycle, on which vm_dereferance would spin.
Acyclic == \A c \in Cells : ~IsRef(Root(c))

\* A binding that ended made its two ends equal, for good, although both were
\* looked up before they were locked and part of it may have run twice.
Unified == \A p \in told : SameTerm(p[1], p[2])

\* A blocked thread is linked once, behind the cell at the end of its operand,
\* unless a binder has just moved it on behalf of that cell.
BlockedAtRoot ==
  \A t \in Threads : pc[t] = "blocked" =>
    /\ Cardinality(UNION {{c} \X {i \in DOMAIN waiting[c] : waiting[c][i] = t} : c \in Cells}) = 1
    /\ \E c \in Cells :
         /\ \E i \in DOMAIN waiting[c] : waiting[c][i] = t
         /\ \/ c = Root(op[t][2])
            \/ \E b \in Threads : pc[b] = "setref" /\ From(b) = Root(op[t][2]) /\ To(b) = c

\* Nobody is linked behind a cell that has a value: such a thread would sleep
\* for ever.
NoLateWaiter == \A c \in Cells : waiting[c] # <<>> => IsUndef(c)

\* The mutexes that their owner no longer knows of: nobody will unlock them.
Stranded == {m \in Mutexes : owner[m] # Nobody /\ m \notin {dlock[owner[m]], slock[owner[m]]}}

\* vm_bind gives back every mutex it takes, as it says of a hole's other end
\* (vm_bind.c:104, 112).  False: a full stack throws with that end locked.
NoLeakedMutex == Stranded = {}

\* That is the only leak: over all returns, stale reads and restarts a mutex is
\* left locked only when the push of the undefined end of a hole overflows, and
\* then for ever.
LeaksOnlyInHole ==
  [][/\ Stranded \subseteq Stranded'
     /\ \A m \in Stranded' \ Stranded : \E t \in Threads :
          /\ pc[t] = "unify" /\ Hole \in {dst[t], src[t]} /\ m \in {dlock[t], slock[t]}
          /\ t \in restarted' \ restarted]_vars

\* A thread that was resumed finds a value: it is resumed before the cell
\* becomes a reference, but cannot get the mutex until it has.
NoSecondWait == [][\A t \in Threads : woken[t] => pc'[t] # "blocked"]_vars

\* With one mutex for all the variables, every instruction ends, blocks on an
\* undefined variable or fails.
InstructionEnds ==
  \A t \in Threads : (pc[t] # "idle") ~> (pc[t] \in {"idle", "blocked", "failed"})
=============================================================================

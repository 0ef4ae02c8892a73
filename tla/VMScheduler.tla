---------------------------- MODULE VMScheduler ----------------------------
(***************************************************************************)
(* The scheduler of the virtual machine (vm_base.c, vm_thread.h): a pool   *)
(* of workers (pthreads running vm_fork) takes green threads from one      *)
(* queue, and a supervisor (vm_run) stops all the workers to collect       *)
(* garbage or to shut the machine down.  queue_mutex protects the queue,   *)
(* halt, the supervisor's command and idle_cnt; queue_cond and             *)
(* supervisor_cond are the two condition variables.                        *)
(*                                                                         *)
(* A section of code under queue_mutex that neither waits nor throws is    *)
(* one step; throwing VM_EXCEPTION_HALT keeps the mutex, so the sections   *)
(* it joins are separate steps with the mutex held.  Dataflow variables    *)
(* ("cells") are operated on atomically: each has its own mutex in the     *)
(* code.                                                                   *)
(***************************************************************************)
EXTENDS Integers, Sequences, FiniteSets

CONSTANTS
  Workers,     \* the pthreads root->process[0 .. process_cnt-1]
  Threads,     \* the green threads a run may create: a bound on vm_tcall
  Main,        \* the first one, which runs the function Main
  Cells,       \* the dataflow variables the threads share
  Supervisor,  \* the pthread that called vm_run
  Nobody,      \* owner of a free mutex
  NoThread,    \* a worker with no green thread
  Faults       \* which of the environment's events may happen, see below

(* "oom":      an allocation fails (VM_EXCEPTION_OOM);                     *)
(* "fail":     a thread raises an error or calls Exit;                     *)
(* "stop":     the embedding program calls vm_stop;                        *)
(* "spurious": a condition wait returns without a signal, as POSIX allows. *)
ASSUME FaultsAssumption == Faults \subseteq {"oom", "fail", "stop", "spurious"}
ASSUME WorkersAssumption == IsFiniteSet(Workers) /\ Workers # {}
ASSUME MainAssumption == Main \in Threads
ASSUME NamesAssumption ==
  Supervisor \notin Workers /\ Nobody \notin Workers \cup {Supervisor} /\ NoThread \notin Threads

VARIABLES
  mutex,       \* owner of synch.queue_mutex
  queueCond,   \* the workers asleep on synch.queue_cond
  supAsleep,   \* TRUE while the supervisor is asleep on synch.supervisor_cond
  queue,       \* root->queue: the green threads ready to run, in order
  halt,        \* root->halt
  cmd,         \* root->supervisor_cmd
  idleCnt,     \* root->idle_cnt, which counts the workers that are NOT idle
  pc,          \* where each worker is
  thread,      \* context->thread of each worker
  chain,       \* the linked threads a worker is handing to vm_thread_resume
  spc,         \* where the supervisor is
  waiters,     \* for each undefined cell, the threads blocked on it, in order
  undef,       \* the cells that are still VM_VARIBLE_UNDEF
  born,        \* the threads created so far
  finished     \* the threads that returned, failed or called Exit

schedVars == <<mutex, queueCond, supAsleep, queue, halt, cmd, idleCnt, spc>>
dataVars == <<waiters, undef, born, finished>>
vars == <<schedVars, pc, thread, chain, dataVars>>

(* The control points of a worker:                                         *)
(*   get       before vm_queue_lock in vm_thread_get                       *)
(*   scan      in the loop of vm_thread_get, halt seen clear               *)
(*   idle      in the vm_queue_wait of vm_thread_get                       *)
(*   run       executing bytecode                                          *)
(*   resume    before vm_queue_lock in vm_thread_resume                    *)
(*   stopping  before vm_queue_lock in vm_thread_halt                      *)
(*   halt      VM_EXCEPTION_HALT caught by vm_fork                         *)
(*   park      in the while(halt) loop of vm_fork                          *)
(*   parked    in the vm_queue_wait of that loop                           *)
(*   done      vm_fork returned                                            *)
PCs == {"get", "scan", "idle", "run", "resume", "stopping",
        "halt", "park", "parked", "done"}
ActivePCs == {"get", "scan", "run", "resume", "stopping", "halt"}
LockedPCs == {"scan", "halt", "park"}
ThreadPCs == {"run", "stopping"}

(* The control points of the supervisor: before its first lock, testing    *)
(* idle_cnt, waiting, in vm_gc, joining the workers, back from vm_run, and *)
(* out through VM_FATAL, which ends the process.                           *)
SupPCs == {"lock", "check", "wait", "gc", "join", "returned", "fatal"}

TypeOK ==
  /\ mutex \in Workers \cup {Supervisor, Nobody}
  /\ queueCond \subseteq Workers
  /\ supAsleep \in BOOLEAN
  /\ queue \in Seq(Threads)
  /\ halt \in BOOLEAN
  /\ cmd \in {"NOP", "GC", "TERMINATE"}
  /\ idleCnt \in Nat
  /\ pc \in [Workers -> PCs]
  /\ thread \in [Workers -> Threads \cup {NoThread}]
  /\ chain \in [Workers -> Seq(Threads)]
  /\ spc \in SupPCs
  /\ waiters \in [Cells -> Seq(Threads)]
  /\ undef \subseteq Cells
  /\ born \subseteq Threads
  /\ finished \subseteq Threads

Init ==
  /\ mutex = Nobody
  /\ queueCond = {}
  /\ supAsleep = FALSE
  /\ queue = <<Main>>
  /\ halt = FALSE
  /\ cmd = "NOP"
  /\ idleCnt = Cardinality(Workers)
  /\ pc = [w \in Workers |-> "get"]
  /\ thread = [w \in Workers |-> NoThread]
  /\ chain = [w \in Workers |-> <<>>]
  /\ spc = "lock"
  /\ waiters = [x \in Cells |-> <<>>]
  /\ undef = Cells
  /\ born = {Main}
  /\ finished = {}

-----------------------------------------------------------------------------
(* Synchronisation primitives.                                             *)

Goto(w, from, to) == pc[w] = from /\ pc' = [pc EXCEPT ![w] = to]
Acquire(p) == mutex = Nobody /\ mutex' = p
Release(p) == mutex = p /\ mutex' = Nobody

SignalQueue == IF queueCond = {} THEN UNCHANGED queueCond
               ELSE \E w \in queueCond : queueCond' = queueCond \ {w}

\* A worker gives its green thread up.
Drop(w) == thread' = [thread EXCEPT ![w] = NoThread]

\* Seeded fault: vm_terminate without its broadcast.
Terminate_Silent == cmd' = "TERMINATE" /\ halt' = TRUE /\ UNCHANGED queueCond

\* vm_terminate, up to the throw that keeps the mutex.
Terminate == cmd' = "TERMINATE" /\ halt' = TRUE /\ queueCond' = {}

-----------------------------------------------------------------------------
(* Seeded faults: actions as a plausible mistake would have them.  None is  *)
(* part of Next; each shows that some property can fail.                   *)

\* The halt flag is tested before idle_cnt is incremented.
IdleWake_HaltFirst(w) ==
  /\ Goto(w, "idle", IF halt THEN "halt" ELSE "scan")
  /\ w \notin queueCond
  /\ Acquire(w)
  /\ idleCnt' = IF halt THEN idleCnt ELSE idleCnt + 1
  /\ UNCHANGED <<queueCond, supAsleep, queue, halt, cmd, spc, thread, chain, dataVars>>

\* Two active workers are taken for the last one.
LastOneOut_OffByOne(w) ==
  /\ Goto(w, "scan", "halt")
  /\ queue = <<>> /\ idleCnt <= 2
  /\ cmd' = "TERMINATE" /\ halt' = TRUE /\ queueCond' = {}
  /\ UNCHANGED <<mutex, supAsleep, queue, idleCnt, spc, thread, chain, dataVars>>

\* The last worker to park does not signal the supervisor.
EnterHalt_Silent(w) ==
  /\ Goto(w, "halt", "park")
  /\ idleCnt' = idleCnt - 1
  /\ UNCHANGED <<mutex, queueCond, supAsleep, queue, halt, cmd, spc, thread, chain, dataVars>>

\* The waiters stay behind the cell that became a reference.
AliasCell_LeavesWaiters(w, x, y) ==
  /\ pc[w] = "run" /\ {x, y} \subseteq undef /\ x # y
  /\ undef' = undef \ {x}
  /\ UNCHANGED <<schedVars, pc, thread, chain, waiters, born, finished>>

\* Only the first thread of the chain reaches the queue.
Resume_HeadOnly(w) ==
  /\ Goto(w, "resume", IF thread[w] = NoThread THEN "get" ELSE "run")
  /\ mutex = Nobody
  /\ queue' = Append(queue, Head(chain[w]))
  /\ chain' = [chain EXCEPT ![w] = <<>>]
  /\ SignalQueue
  /\ UNCHANGED <<mutex, supAsleep, halt, cmd, idleCnt, spc, thread, dataVars>>

\* The chain goes to the front of the queue.
Resume_AtFront(w) ==
  /\ Goto(w, "resume", IF thread[w] = NoThread THEN "get" ELSE "run")
  /\ mutex = Nobody
  /\ queue' = chain[w] \o queue
  /\ chain' = [chain EXCEPT ![w] = <<>>]
  /\ SignalQueue
  /\ UNCHANGED <<mutex, supAsleep, halt, cmd, idleCnt, spc, thread, dataVars>>

\* vm_thread_halt releases the mutex before it throws.
ThreadHalt_Unlocks(w) ==
  /\ Goto(w, "stopping", "halt")
  /\ mutex = Nobody
  /\ queue' = Append(queue, thread[w])
  /\ Drop(w)
  /\ UNCHANGED <<mutex, queueCond, supAsleep, halt, cmd, idleCnt, spc, chain, dataVars>>

\* The thread whose allocation failed is not requeued.
OutOfMemory_Forgets(w) ==
  /\ Goto(w, "run", "halt")
  /\ Acquire(w)
  /\ Drop(w)
  /\ cmd' = "GC" /\ halt' = TRUE
  /\ UNCHANGED <<queueCond, supAsleep, queue, idleCnt, spc, chain, dataVars>>

-----------------------------------------------------------------------------
(* vm_thread_get: the worker looks for a green thread.                     *)

GetLock(w) ==
  /\ Goto(w, "get", IF halt THEN "halt" ELSE "scan")
  /\ Acquire(w)
  /\ UNCHANGED <<queueCond, supAsleep, queue, halt, cmd, idleCnt, spc, thread, chain, dataVars>>

TakeThread(w) ==
  /\ Goto(w, "scan", "run")
  /\ queue # <<>>
  /\ thread' = [thread EXCEPT ![w] = Head(queue)]
  /\ queue' = Tail(queue)
  /\ Release(w)
  /\ UNCHANGED <<queueCond, supAsleep, halt, cmd, idleCnt, spc, chain, dataVars>>

\* The last active worker finds nothing to run: the program is over.
LastOneOut(w) ==
  /\ Goto(w, "scan", "halt")
  /\ queue = <<>> /\ idleCnt = 1
  /\ Terminate
  /\ UNCHANGED <<mutex, supAsleep, queue, idleCnt, spc, thread, chain, dataVars>>

IdleWait(w) ==
  /\ Goto(w, "scan", "idle")
  /\ queue = <<>> /\ idleCnt # 1
  /\ idleCnt' = idleCnt - 1
  /\ queueCond' = queueCond \cup {w}
  /\ Release(w)
  /\ UNCHANGED <<supAsleep, queue, halt, cmd, spc, thread, chain, dataVars>>

IdleWake(w) ==
  /\ Goto(w, "idle", IF halt THEN "halt" ELSE "scan")
  /\ w \notin queueCond
  /\ Acquire(w)
  /\ idleCnt' = idleCnt + 1
  /\ UNCHANGED <<queueCond, supAsleep, queue, halt, cmd, spc, thread, chain, dataVars>>

-----------------------------------------------------------------------------
(* The VM_EXCEPTION_HALT handler of vm_fork: entered with the mutex held.  *)

EnterHalt(w) ==
  /\ Goto(w, "halt", "park")
  /\ idleCnt' = idleCnt - 1
  /\ supAsleep' = (supAsleep /\ idleCnt' # 0)
  /\ UNCHANGED <<mutex, queueCond, queue, halt, cmd, spc, thread, chain, dataVars>>

ParkWait(w) ==
  /\ Goto(w, "park", "parked")
  /\ halt /\ cmd # "TERMINATE"
  /\ queueCond' = queueCond \cup {w}
  /\ Release(w)
  /\ UNCHANGED <<supAsleep, queue, halt, cmd, idleCnt, spc, thread, chain, dataVars>>

ParkWake(w) ==
  /\ Goto(w, "parked", "park")
  /\ w \notin queueCond
  /\ Acquire(w)
  /\ UNCHANGED <<queueCond, supAsleep, queue, halt, cmd, idleCnt, spc, thread, chain, dataVars>>

ParkReturn(w) ==
  /\ Goto(w, "park", "done")
  /\ halt /\ cmd = "TERMINATE"
  /\ Release(w)
  /\ UNCHANGED <<queueCond, supAsleep, queue, halt, cmd, idleCnt, spc, thread, chain, dataVars>>

ParkLeave(w) ==
  /\ Goto(w, "park", "get")
  /\ ~halt
  /\ idleCnt' = idleCnt + 1
  /\ Release(w)
  /\ UNCHANGED <<queueCond, supAsleep, queue, halt, cmd, spc, thread, chain, dataVars>>

-----------------------------------------------------------------------------
(* A worker executes the bytecode of its green thread.                     *)

\* vm_dereferance of an undefined cell: VM_EXCEPTION_THREAD_STOP.
BlockOn(w, x) ==
  /\ Goto(w, "run", "get")
  /\ x \in undef
  /\ waiters' = [waiters EXCEPT ![x] = Append(@, thread[w])]
  /\ Drop(w)
  /\ UNCHANGED <<schedVars, chain, undef, born, finished>>

\* vm_bind of an undefined cell to a value: its waiters are resumed, if any.
BindCell(w, x) ==
  /\ Goto(w, "run", IF waiters[x] = <<>> THEN "run" ELSE "resume")
  /\ x \in undef
  /\ undef' = undef \ {x}
  /\ chain' = [chain EXCEPT ![w] = waiters[x]]
  /\ waiters' = [waiters EXCEPT ![x] = <<>>]
  /\ UNCHANGED <<schedVars, thread, born, finished>>

\* vm_bind of an undefined cell to another one, which inherits its waiters.
AliasCell(w, x, y) ==
  /\ pc[w] = "run"
  /\ {x, y} \subseteq undef /\ x # y
  /\ undef' = undef \ {x}
  /\ waiters' = [waiters EXCEPT ![x] = <<>>, ![y] = @ \o waiters[x]]
  /\ UNCHANGED <<schedVars, pc, thread, chain, born, finished>>

\* VM_OP_TCALL: the halt flag is read without the mutex, then vm_tcall.
Spawn(w, t) ==
  /\ Goto(w, "run", "resume")
  /\ ~halt
  /\ t \in Threads \ born
  /\ born' = born \cup {t}
  /\ chain' = [chain EXCEPT ![w] = <<t>>]
  /\ UNCHANGED <<schedVars, thread, waiters, undef, finished>>

\* VM_OP_YIELD: the thread resumes itself and its worker looks for another.
Yield(w) ==
  /\ Goto(w, "run", "resume")
  /\ chain' = [chain EXCEPT ![w] = <<thread[w]>>]
  /\ Drop(w)
  /\ UNCHANGED <<schedVars, dataVars>>

\* vm_thread_resume: the whole chain is queued and ONE sleeper is woken.
Resume(w) ==
  /\ Goto(w, "resume", IF thread[w] = NoThread THEN "get" ELSE "run")
  /\ mutex = Nobody
  /\ queue' = queue \o chain[w]
  /\ chain' = [chain EXCEPT ![w] = <<>>]
  /\ SignalQueue
  /\ UNCHANGED <<mutex, supAsleep, halt, cmd, idleCnt, spc, thread, dataVars>>

\* VM_EXCEPTION_THREAD_EXIT: the thread returned from its last function.
ExitThread(w) ==
  /\ Goto(w, "run", "get")
  /\ finished' = finished \cup {thread[w]}
  /\ Drop(w)
  /\ UNCHANGED <<schedVars, chain, waiters, undef, born>>

\* A call instruction reads halt, without the mutex, and finds it set ...
NoticeHalt(w) ==
  /\ Goto(w, "run", "stopping")
  /\ halt
  /\ UNCHANGED <<schedVars, thread, chain, dataVars>>

\* ... and vm_thread_halt requeues the thread and throws with the mutex held.
ThreadHalt(w) ==
  /\ Goto(w, "stopping", "halt")
  /\ Acquire(w)
  /\ queue' = Append(queue, thread[w])
  /\ Drop(w)
  /\ UNCHANGED <<queueCond, supAsleep, halt, cmd, idleCnt, spc, chain, dataVars>>

\* VM_EXCEPTION_OOM: the thread is requeued and a collection is requested.
OutOfMemory(w) ==
  /\ Goto(w, "run", "halt")
  /\ Acquire(w)
  /\ queue' = Append(queue, thread[w])
  /\ Drop(w)
  /\ cmd' = "GC" /\ halt' = TRUE
  /\ UNCHANGED <<queueCond, supAsleep, idleCnt, spc, chain, dataVars>>

\* An error exception, or the native function Exit: the thread is abandoned.
Fail(w) ==
  /\ Goto(w, "run", "halt")
  /\ Acquire(w)
  /\ Terminate
  /\ finished' = finished \cup {thread[w]}
  /\ Drop(w)
  /\ UNCHANGED <<supAsleep, queue, idleCnt, spc, chain, waiters, undef, born>>

-----------------------------------------------------------------------------
(* vm_run: the supervisor.                                                 *)

SupGoto(from, to) == spc = from /\ spc' = to
WorkerVars == <<pc, thread, chain, dataVars>>

\* Seeded faults of the supervisor: a wake-up taken for a signal without the
\* loop that tests idle_cnt again; a collection while one worker is active; one
\* that does not wait for the next signal.
SupWake_NoRecheck ==
  /\ SupGoto("wait", IF cmd = "GC" THEN "gc" ELSE "check")
  /\ ~supAsleep
  /\ Acquire(Supervisor)
  /\ UNCHANGED <<queueCond, supAsleep, queue, halt, cmd, idleCnt, WorkerVars>>

SupStartGC_OffByOne ==
  /\ SupGoto("check", "gc")
  /\ idleCnt <= 1 /\ cmd = "GC"
  /\ UNCHANGED <<mutex, queueCond, supAsleep, queue, halt, cmd, idleCnt, WorkerVars>>

SupEndGC_NoWait ==
  /\ SupGoto("gc", "check")
  /\ queueCond' = {} /\ halt' = FALSE /\ cmd' = "NOP"
  /\ UNCHANGED <<mutex, supAsleep, queue, idleCnt, WorkerVars>>

SupLock ==
  /\ SupGoto("lock", "check")
  /\ Acquire(Supervisor)
  /\ UNCHANGED <<queueCond, supAsleep, queue, halt, cmd, idleCnt, WorkerVars>>

SupWait ==
  /\ SupGoto("check", "wait")
  /\ idleCnt > 0
  /\ supAsleep' = TRUE
  /\ Release(Supervisor)
  /\ UNCHANGED <<queueCond, queue, halt, cmd, idleCnt, WorkerVars>>

SupWake ==
  /\ SupGoto("wait", "check")
  /\ ~supAsleep
  /\ Acquire(Supervisor)
  /\ UNCHANGED <<queueCond, supAsleep, queue, halt, cmd, idleCnt, WorkerVars>>

\* VM_FATAL("bad cmd"): every worker is parked but nothing was asked for.
SupBadCmd ==
  /\ SupGoto("check", "fatal")
  /\ idleCnt <= 0 /\ cmd = "NOP"
  /\ UNCHANGED <<mutex, queueCond, supAsleep, queue, halt, cmd, idleCnt, WorkerVars>>

SupTerminate ==
  /\ SupGoto("check", "join")
  /\ idleCnt <= 0 /\ cmd = "TERMINATE"
  /\ Release(Supervisor)
  /\ UNCHANGED <<queueCond, supAsleep, queue, halt, cmd, idleCnt, WorkerVars>>

SupStartGC ==
  /\ SupGoto("check", "gc")
  /\ idleCnt <= 0 /\ cmd = "GC"
  /\ UNCHANGED <<mutex, queueCond, supAsleep, queue, halt, cmd, idleCnt, WorkerVars>>

\* vm_gc made room; the last line of the loop waits whatever idle_cnt is.
SupEndGC ==
  /\ SupGoto("gc", "wait")
  /\ queueCond' = {}
  /\ halt' = FALSE
  /\ cmd' = "NOP"
  /\ supAsleep' = TRUE
  /\ Release(Supervisor)
  /\ UNCHANGED <<queue, idleCnt, WorkerVars>>

\* VM_FATAL("out of memory"): vm_gc changed nothing.
SupNoMemory ==
  /\ SupGoto("gc", "fatal")
  /\ UNCHANGED <<mutex, queueCond, supAsleep, queue, halt, cmd, idleCnt, WorkerVars>>

SupJoin ==
  /\ SupGoto("join", "returned")
  /\ \A w \in Workers : pc[w] = "done"
  /\ UNCHANGED <<mutex, queueCond, supAsleep, queue, halt, cmd, idleCnt, WorkerVars>>

-----------------------------------------------------------------------------
(* The environment.                                                        *)

\* vm_stop, called by a pthread that is neither a worker nor the supervisor.
VmStop ==
  /\ spc # "returned"
  /\ mutex = Nobody
  /\ Terminate
  /\ UNCHANGED <<mutex, supAsleep, queue, idleCnt, spc, WorkerVars>>

SpuriousWorkerWake(w) ==
  /\ w \in queueCond
  /\ queueCond' = queueCond \ {w}
  /\ UNCHANGED <<mutex, supAsleep, queue, halt, cmd, idleCnt, spc, WorkerVars>>

SpuriousSupervisorWake ==
  /\ supAsleep
  /\ supAsleep' = FALSE
  /\ UNCHANGED <<mutex, queueCond, queue, halt, cmd, idleCnt, spc, WorkerVars>>

-----------------------------------------------------------------------------
ThreadGet(w) == GetLock(w) \/ TakeThread(w) \/ LastOneOut(w) \/ IdleWait(w) \/ IdleWake(w)

HaltHandler(w) == EnterHalt(w) \/ ParkWait(w) \/ ParkWake(w) \/ ParkReturn(w) \/ ParkLeave(w)

\* The ways a green thread hands its worker back of its own accord.
GiveUp(w) == ExitThread(w) \/ Yield(w) \/ \E x \in Cells : BlockOn(w, x)

Execute(w) ==
  \/ GiveUp(w)
  \/ \E x \in Cells : BindCell(w, x)
  \/ \E x, y \in Cells : AliasCell(w, x, y)
  \/ \E t \in Threads : Spawn(w, t)
  \/ Resume(w)
  \/ NoticeHalt(w)
  \/ ThreadHalt(w)

WorkerFault(w) ==
  \/ "oom" \in Faults /\ OutOfMemory(w)
  \/ "fail" \in Faults /\ Fail(w)
  \/ "spurious" \in Faults /\ SpuriousWorkerWake(w)

WorkerStep(w) == ThreadGet(w) \/ HaltHandler(w) \/ Execute(w) \/ WorkerFault(w)

SupervisorLoop ==
  \/ SupLock \/ SupWait \/ SupWake
  \/ SupBadCmd \/ SupTerminate \/ SupStartGC
  \/ SupEndGC \/ SupJoin

Step ==
  \/ \E w \in Workers : WorkerStep(w)
  \/ SupervisorLoop
  \/ "oom" \in Faults /\ SupNoMemory
  \/ "stop" \in Faults /\ VmStop
  \/ "spurious" \in Faults /\ SpuriousSupervisorWake

\* vm_run returned and every worker was joined, or exit() was called.
Ended == spc \in {"returned", "fatal"} /\ UNCHANGED vars

Next == (spc # "fatal" /\ Step) \/ Ended

Spec == Init /\ [][Next]_vars

(* Fairness.  The operating system schedules every pthread and grants a    *)
(* mutex that stays free.  Scheduling is cooperative: nothing is promised  *)
(* of a running thread while halt is clear.  Once halt is set, a thread    *)
(* that keeps running makes calls, since a loop of the source language is  *)
(* a recursive call, and a call sees halt.  (Only hand-written bytecode    *)
(* that jumps back for ever would not.)                                    *)
Fairness ==
  /\ \A w \in Workers :
       /\ WF_vars(spc # "fatal" /\ ThreadGet(w))
       /\ WF_vars(spc # "fatal" /\ HaltHandler(w))
       /\ WF_vars(spc # "fatal" /\ Resume(w))
       /\ WF_vars(spc # "fatal" /\ NoticeHalt(w))
       /\ WF_vars(spc # "fatal" /\ ThreadHalt(w))
  /\ WF_vars(spc # "fatal" /\ SupervisorLoop)

FairSpec == Spec /\ Fairness

-----------------------------------------------------------------------------
(* Properties.                                                             *)

Active == {w \in Workers : pc[w] \in ActivePCs}
Running(t) == \E w \in Workers : thread[w] = t
Within(t, s) == \E i \in 1 .. Len(s) : s[i] = t
Queued(t) == Within(t, queue)
Blocked(t) == \E x \in Cells : Within(t, waiters[x])
InFlight(t) == \E w \in Workers : Within(t, chain[w])
Alive(t) == t \in born \ finished

\* A worker that is not executing or resuming anything holds no green thread;
\* the thread of a running worker is its only one.
HandsFree ==
  \A w \in Workers :
    /\ pc[w] \notin ThreadPCs \cup {"resume"} => thread[w] = NoThread
    /\ pc[w] \in ThreadPCs => thread[w] \in Threads
    /\ pc[w] # "resume" => chain[w] = <<>>

\* idle_cnt, adjusted on eight paths of which some end in a longjmp, counts
\* exactly the workers that are neither waiting, parked nor gone: the test
\* for the last active worker (vm_thread.h:12) and the supervisor's wait for
\* quiescence (vm_base.c:111) both rely on it.
ActiveCount == idleCnt = Cardinality(Active)

\* queue_mutex is owned by the worker that is in a section that needs it, and
\* by it alone, across every throw of VM_EXCEPTION_HALT ("queue_mutex is
\* locked", vm_base.c:66); the supervisor keeps it during a collection.
MutexOwner ==
  /\ \A w \in Workers : mutex = w <=> pc[w] \in LockedPCs
  /\ spc # "fatal" => (mutex = Supervisor <=> spc \in {"check", "gc"})

\* While vm_gc moves the heap no worker can touch it: none holds a green
\* thread, holds a chain of them, or can leave its wait; and every live
\* thread is where vm_gc finds it, in the queue or behind a cell.
GCExclusive ==
  spc = "gc" =>
    /\ \A w \in Workers : /\ pc[w] \in {"idle", "parked", "done"}
                          /\ thread[w] = NoThread /\ chain[w] = <<>>
    /\ \A t \in Threads : Alive(t) => Queued(t) \/ Blocked(t)

\* vm_gc starts from the head of the queue (vm_gc.c:45): the thread whose
\* allocation failed is there, whatever the other workers did meanwhile.
GCHasRoot == spc = "gc" => queue # <<>>

\* The supervisor never finds every worker parked with no command: the
\* assertion VM_FATAL("bad cmd") of vm_base.c:115.
NoBadCmd == ~(spc = "check" /\ idleCnt <= 0 /\ cmd = "NOP")

\* A green thread is in one place: on one worker, or once in the queue, or
\* once behind one cell, or once in one chain being resumed; and none is lost.
At(s, t) == {i \in 1 .. Len(s) : s[i] = t}
PlacesIn(f, t) == UNION {{a} \X At(f[a], t) : a \in DOMAIN f}
PlaceCount(t) ==
  Cardinality({w \in Workers : thread[w] = t}) + Cardinality(At(queue, t))
    + Cardinality(PlacesIn(waiters, t)) + Cardinality(PlacesIn(chain, t))

ThreadConservation ==
  \A t \in Threads : PlaceCount(t) = IF Alive(t) THEN 1 ELSE 0

\* A cell that got its value leaves no thread behind.
NoForgottenWaiter == \A x \in Cells : waiters[x] # <<>> => x \in undef

\* A worker that saw halt without the mutex finds it still set under the
\* mutex, and so does everyone in the handler before it decrements idle_cnt.
HaltStable == \A w \in Workers : pc[w] \in {"stopping", "halt"} => halt

\* A request for a collection is served, or the machine ends or shuts down.
GCServed == (halt /\ cmd = "GC") ~> (~halt \/ cmd = "TERMINATE" \/ spc = "fatal")

\* A shutdown that was asked for is only ever withdrawn by a thread that runs out
\* of memory while the workers are stopping (vm_base.c:63); no collection in
\* progress and no resumed worker clears it.
Withdrawn ==
  cmd = "TERMINATE" /\ cmd' # "TERMINATE" =>
    cmd' = "GC" /\ \E w \in Workers : pc[w] = "run" /\ pc'[w] = "halt"

\* The worker that takes itself for the last one (vm_thread.h:12) is right: no
\* thread is running, queued or on its way to the queue.
ProgramOver ==
  cmd' = "TERMINATE" /\ (\E w \in Workers : pc[w] = "scan" /\ pc'[w] = "halt") =>
    \A t \in Threads : Alive(t) => Blocked(t)

\* A shutdown starts and is withdrawn only as above.  If it is not withdrawn, and
\* some worker was still active, it ends vm_run with every worker joined, unless
\* the machine dies.  When no worker is active (vm_stop, after a collection has
\* cleared halt and before a parked worker has left) nobody is there to signal the
\* supervisor, and vm_run waits for ever.
ShutdownCompletes ==
  /\ [][Withdrawn /\ ProgramOver]_vars
  /\ (cmd = "TERMINATE" /\ idleCnt > 0) ~> (cmd # "TERMINATE" \/ spc \in {"returned", "fatal"})

\* While threads are ready the workers do not all sleep.  And the queue is fair:
\* if some worker always comes looking again, however little the other running
\* threads cooperate, every ready thread gets one.  Unless the machine ends first.
ReadyRuns ==
  /\ queue # <<>> ~> ((\E t \in Threads : Running(t)) \/ cmd = "TERMINATE" \/ spc = "fatal")
  /\ []<>(\E w \in Workers : pc[w] = "scan") =>
       \A t \in Threads : Queued(t) ~> (Running(t) \/ cmd = "TERMINATE" \/ spc = "fatal")
=============================================================================

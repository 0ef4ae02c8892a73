------------------------- MODULE VMSchedulerProofs -------------------------
(* Theorems about the scheduler, for every number of workers, threads and  *)
(* cells and every set of faults, with proofs checked by TLAPS.            *)
EXTENDS VMScheduler, FunctionTheorems, FiniteSetTheorems, SequenceTheorems, TLAPS

USE DEF schedVars, dataVars, WorkerVars, Goto, Acquire, Release, Drop, SupGoto,
        PCs, ActivePCs, LockedPCs, ThreadPCs, SupPCs

IInv == TypeOK /\ HandsFree /\ ActiveCount

(* Moving one worker changes the number of active workers by at most one.  *)
LEMMA ActiveMove ==
  ASSUME pc \in [Workers -> PCs], NEW w \in Workers, NEW q \in PCs,
         pc' = [pc EXCEPT ![w] = q]
  PROVE  /\ Cardinality(Active) \in Nat /\ Cardinality(Active') \in Nat
         /\ pc[w] \in ActivePCs => Cardinality(Active) > 0
         /\ (pc[w] \in ActivePCs <=> q \in ActivePCs) => Active' = Active
         /\ pc[w] \in ActivePCs /\ q \notin ActivePCs
               => Cardinality(Active') = Cardinality(Active) - 1
         /\ pc[w] \notin ActivePCs /\ q \in ActivePCs
               => Cardinality(Active') = Cardinality(Active) + 1
<1>1. IsFiniteSet(Active) /\ IsFiniteSet(Active')
  BY FS_Subset, WorkersAssumption DEF Active
<1>2. Cardinality(Active) \in Nat /\ Cardinality(Active') \in Nat
  BY <1>1, FS_CardinalityType
<1>3. w \in Active <=> pc[w] \in ActivePCs
  BY DEF Active
<1>4. (pc[w] \in ActivePCs <=> q \in ActivePCs) => Active' = Active
  BY DEF Active
<1>5. q \notin ActivePCs => Active' = Active \ {w}
  BY DEF Active
<1>6. q \in ActivePCs => Active' = Active \cup {w}
  BY DEF Active
<1>7. w \in Active => Cardinality(Active \ {w}) = Cardinality(Active) - 1
  BY <1>1, FS_RemoveElement
<1>8. w \notin Active => Cardinality(Active \cup {w}) = Cardinality(Active) + 1
  BY <1>1, FS_AddElement
<1>9. w \in Active => Cardinality(Active) # 0
  BY <1>1, FS_EmptySet
<1> QED
  BY <1>2, <1>3, <1>4, <1>5, <1>6, <1>7, <1>8, <1>9

(* The operations on the queue, the chains and the waiters keep their type. *)
LEMMA SeqTypes ==
  ASSUME NEW S, NEW s \in Seq(S), NEW e \in S
  PROVE  /\ <<>> \in Seq(S) /\ <<e>> \in Seq(S) /\ Append(s, e) \in Seq(S)
         /\ \A u \in Seq(S) : s \o u \in Seq(S)
         /\ s # <<>> => Head(s) \in S /\ Tail(s) \in Seq(S)
OBVIOUS

LEMMA TypeInit == Init => TypeOK /\ HandsFree /\ ActiveCount
<1> SUFFICES ASSUME Init PROVE TypeOK /\ HandsFree /\ ActiveCount
  OBVIOUS
<1>1. Active = Workers
  BY DEF Init, Active
<1>2. Cardinality(Workers) \in Nat
  BY FS_CardinalityType, WorkersAssumption
<1>3. queue \in Seq(Threads) /\ \A s \in Seq(Threads) : <<>> \in Seq(Threads)
  BY MainAssumption DEF Init
<1>4. /\ thread \in [Workers -> Threads \cup {NoThread}]
      /\ chain \in [Workers -> Seq(Threads)] /\ waiters \in [Cells -> Seq(Threads)]
  BY <1>3 DEF Init
<1>5. TypeOK
  BY <1>2, <1>3, <1>4, MainAssumption DEF Init, TypeOK
<1>6. HandsFree /\ ActiveCount
  BY <1>1 DEF Init, HandsFree, ActiveCount
<1> QED
  BY <1>5, <1>6

LEMMA TypeThreadGet ==
  ASSUME IInv, NEW w \in Workers, ThreadGet(w)
  PROVE IInv'
<1>1. CASE GetLock(w)
  <2>1. CASE halt
    BY <1>1, <2>1, ActiveMove DEF IInv, TypeOK, HandsFree, ActiveCount, GetLock
  <2>2. CASE ~halt
    BY <1>1, <2>2, ActiveMove DEF IInv, TypeOK, HandsFree, ActiveCount, GetLock
  <2> QED
    BY <2>1, <2>2
<1>2. CASE TakeThread(w)
  <2>0. queue' \in Seq(Threads) /\ thread' \in [Workers -> Threads \cup {NoThread}]
    BY <1>2, SeqTypes DEF IInv, TypeOK, HandsFree, TakeThread
  <2>1. TypeOK'
    BY <1>2, <2>0, ActiveMove DEF IInv, TypeOK, ActiveCount, TakeThread
  <2>2. HandsFree'
    BY <1>2 DEF IInv, TypeOK, HandsFree, TakeThread
  <2>3. ActiveCount'
    BY <1>2, ActiveMove DEF IInv, TypeOK, ActiveCount, TakeThread
  <2> QED
    BY <2>1, <2>2, <2>3 DEF IInv
<1>3. CASE LastOneOut(w)
  BY <1>3, ActiveMove DEF IInv, TypeOK, HandsFree, ActiveCount, LastOneOut, Terminate
<1>4. CASE IdleWait(w)
  BY <1>4, ActiveMove DEF IInv, TypeOK, HandsFree, ActiveCount, IdleWait
<1>5. CASE IdleWake(w)
  BY <1>5, ActiveMove DEF IInv, TypeOK, HandsFree, ActiveCount, IdleWake
<1> QED
  BY <1>1, <1>2, <1>3, <1>4, <1>5 DEF ThreadGet

LEMMA TypeHaltHandler ==
  ASSUME IInv, NEW w \in Workers, HaltHandler(w)
  PROVE IInv'
<1>1. CASE EnterHalt(w)
  BY <1>1, ActiveMove DEF IInv, TypeOK, HandsFree, ActiveCount, EnterHalt
<1>2. CASE ParkWait(w)
  BY <1>2, ActiveMove DEF IInv, TypeOK, HandsFree, ActiveCount, ParkWait
<1>3. CASE ParkWake(w)
  BY <1>3, ActiveMove DEF IInv, TypeOK, HandsFree, ActiveCount, ParkWake
<1>4. CASE ParkReturn(w)
  BY <1>4, ActiveMove DEF IInv, TypeOK, HandsFree, ActiveCount, ParkReturn
<1>5. CASE ParkLeave(w)
  BY <1>5, ActiveMove DEF IInv, TypeOK, HandsFree, ActiveCount, ParkLeave
<1> QED
  BY <1>1, <1>2, <1>3, <1>4, <1>5 DEF HaltHandler

LEMMA TypeExecute ==
  ASSUME IInv, NEW w \in Workers, Execute(w) \/ OutOfMemory(w) \/ Fail(w)
  PROVE IInv'
<1>1. CASE ExitThread(w)
  BY <1>1, ActiveMove DEF IInv, TypeOK, HandsFree, ActiveCount, ExitThread
<1>2. CASE Yield(w)
  <2>0. chain' \in [Workers -> Seq(Threads)]
    BY <1>2, SeqTypes DEF IInv, TypeOK, HandsFree, Yield
  <2>1. TypeOK'
    BY <1>2, <2>0, ActiveMove DEF IInv, TypeOK, ActiveCount, Yield
  <2>2. HandsFree'
    BY <1>2 DEF IInv, TypeOK, HandsFree, Yield
  <2>3. ActiveCount'
    BY <1>2, ActiveMove DEF IInv, TypeOK, ActiveCount, Yield
  <2> QED
    BY <2>1, <2>2, <2>3 DEF IInv
<1>3. ASSUME NEW x \in Cells, BlockOn(w, x) PROVE IInv'
  <2>0. waiters' \in [Cells -> Seq(Threads)]
    BY <1>3, SeqTypes DEF IInv, TypeOK, HandsFree, BlockOn
  <2>1. TypeOK'
    BY <1>3, <2>0, ActiveMove DEF IInv, TypeOK, ActiveCount, BlockOn
  <2>2. HandsFree'
    BY <1>3 DEF IInv, TypeOK, HandsFree, BlockOn
  <2>3. ActiveCount'
    BY <1>3, ActiveMove DEF IInv, TypeOK, ActiveCount, BlockOn
  <2> QED
    BY <2>1, <2>2, <2>3 DEF IInv
<1>4. ASSUME NEW x \in Cells, BindCell(w, x) PROVE IInv'
  <2>0. waiters' \in [Cells -> Seq(Threads)] /\ chain' \in [Workers -> Seq(Threads)]
    BY <1>4, SeqTypes DEF IInv, TypeOK, HandsFree, BindCell
  <2>1. TypeOK'
    BY <1>4, <2>0, ActiveMove DEF IInv, TypeOK, ActiveCount, BindCell
  <2>2. HandsFree'
    BY <1>4 DEF IInv, TypeOK, HandsFree, BindCell
  <2>3. ActiveCount'
    BY <1>4, ActiveMove DEF IInv, TypeOK, ActiveCount, BindCell
  <2> QED
    BY <2>1, <2>2, <2>3 DEF IInv
<1>5. ASSUME NEW x \in Cells, NEW y \in Cells, AliasCell(w, x, y) PROVE IInv'
  <2>0. waiters' \in [Cells -> Seq(Threads)]
    <3>1. waiters \in [Cells -> Seq(Threads)]
      BY DEF IInv, TypeOK
    <3>2. waiters[y] \o waiters[x] \in Seq(Threads) /\ <<>> \in Seq(Threads)
      BY <3>1, SeqTypes
    <3>3. waiters' = [waiters EXCEPT ![x] = <<>>, ![y] = waiters[y] \o waiters[x]]
      BY <1>5 DEF AliasCell
    <3> QED
      BY <3>1, <3>2, <3>3
  <2>1. TypeOK'
    BY <1>5, <2>0 DEF IInv, TypeOK, AliasCell
  <2>2. HandsFree' /\ ActiveCount'
    BY <1>5 DEF IInv, HandsFree, ActiveCount, Active, AliasCell
  <2> QED
    BY <2>1, <2>2 DEF IInv
<1>6. ASSUME NEW t \in Threads, Spawn(w, t) PROVE IInv'
  <2>0. chain' \in [Workers -> Seq(Threads)]
    BY <1>6, SeqTypes DEF IInv, TypeOK, HandsFree, Spawn
  <2>1. TypeOK'
    BY <1>6, <2>0, ActiveMove DEF IInv, TypeOK, ActiveCount, Spawn
  <2>2. HandsFree'
    BY <1>6 DEF IInv, TypeOK, HandsFree, Spawn
  <2>3. ActiveCount'
    BY <1>6, ActiveMove DEF IInv, TypeOK, ActiveCount, Spawn
  <2> QED
    BY <2>1, <2>2, <2>3 DEF IInv
<1>7. CASE Resume(w)
  <2>0. queue' \in Seq(Threads) /\ chain' \in [Workers -> Seq(Threads)]
    BY <1>7, SeqTypes DEF IInv, TypeOK, HandsFree, Resume
  <2>1. TypeOK'
    BY <1>7, <2>0, ActiveMove DEF IInv, TypeOK, ActiveCount, Resume, SignalQueue
  <2>2. HandsFree'
    BY <1>7 DEF IInv, TypeOK, HandsFree, Resume, SignalQueue
  <2>3. ActiveCount'
    BY <1>7, ActiveMove DEF IInv, TypeOK, ActiveCount, Resume, SignalQueue
  <2> QED
    BY <2>1, <2>2, <2>3 DEF IInv
<1>8. CASE NoticeHalt(w)
  BY <1>8, ActiveMove DEF IInv, TypeOK, HandsFree, ActiveCount, NoticeHalt
<1>9. CASE ThreadHalt(w)
  <2>0. queue' \in Seq(Threads)
    BY <1>9, SeqTypes DEF IInv, TypeOK, HandsFree, ThreadHalt
  <2>1. TypeOK'
    BY <1>9, <2>0, ActiveMove DEF IInv, TypeOK, ActiveCount, ThreadHalt
  <2>2. HandsFree'
    BY <1>9 DEF IInv, TypeOK, HandsFree, ThreadHalt
  <2>3. ActiveCount'
    BY <1>9, ActiveMove DEF IInv, TypeOK, ActiveCount, ThreadHalt
  <2> QED
    BY <2>1, <2>2, <2>3 DEF IInv
<1>10. CASE OutOfMemory(w)
  <2>0. queue' \in Seq(Threads)
    BY <1>10, SeqTypes DEF IInv, TypeOK, HandsFree, OutOfMemory
  <2>1. TypeOK'
    BY <1>10, <2>0, ActiveMove DEF IInv, TypeOK, ActiveCount, OutOfMemory
  <2>2. HandsFree'
    BY <1>10 DEF IInv, TypeOK, HandsFree, OutOfMemory
  <2>3. ActiveCount'
    BY <1>10, ActiveMove DEF IInv, TypeOK, ActiveCount, OutOfMemory
  <2> QED
    BY <2>1, <2>2, <2>3 DEF IInv
<1>11. CASE Fail(w)
  BY <1>11, ActiveMove DEF IInv, TypeOK, HandsFree, ActiveCount, Fail, Terminate
<1> QED
  BY <1>1, <1>2, <1>3, <1>4, <1>5, <1>6, <1>7, <1>8, <1>9, <1>10, <1>11
     DEF Execute, GiveUp

(* Neither the supervisor nor the environment moves a worker.              *)
SupStep == SupervisorLoop \/ SupNoMemory
EnvStep == \/ VmStop \/ SpuriousSupervisorWake
           \/ \E w \in Workers : SpuriousWorkerWake(w)

LEMMA TypeOthers ==
  ASSUME IInv, SupStep \/ EnvStep \/ UNCHANGED vars
  PROVE IInv'
<1>1. UNCHANGED <<pc, thread, chain, waiters, undef, born, finished, queue, idleCnt>>
  BY DEF SupStep, EnvStep, vars, SupervisorLoop, SupLock, SupWait, SupWake, SupBadCmd,
     SupTerminate, SupStartGC, SupEndGC, SupJoin, SupNoMemory, VmStop,
     SpuriousSupervisorWake, SpuriousWorkerWake
<1>2. HandsFree' /\ ActiveCount'
  BY <1>1 DEF IInv, HandsFree, ActiveCount, Active
<1>3. TypeOK'
  BY <1>1 DEF IInv, TypeOK, SupStep, EnvStep, vars, SupervisorLoop, SupLock, SupWait,
     SupWake, SupBadCmd, SupTerminate, SupStartGC, SupEndGC, SupJoin, SupNoMemory,
     VmStop, Terminate, SpuriousSupervisorWake, SpuriousWorkerWake
<1> QED
  BY <1>2, <1>3 DEF IInv

(* Every step is one of these, which is how the proofs divide it.          *)
LEMMA StepCases ==
  ASSUME [Next]_vars
  PROVE  \/ \E w \in Workers : \/ ThreadGet(w) \/ HaltHandler(w) \/ Execute(w)
                               \/ OutOfMemory(w) \/ Fail(w)
         \/ SupStep \/ EnvStep \/ UNCHANGED vars
BY DEF Next, Step, Ended, WorkerStep, WorkerFault, SupStep, EnvStep

(* The state keeps its types, idle_cnt is the number of active workers and *)
(* only a worker that executes or resumes holds green threads: vm_fork and *)
(* vm_thread_get adjust idle_cnt on every path, longjmp included.          *)
THEOREM CountCorrect == Spec => [](TypeOK /\ HandsFree /\ ActiveCount)
<1>1. Init => IInv
  BY TypeInit DEF IInv
<1>2. IInv /\ [Next]_vars => IInv'
  BY StepCases, TypeThreadGet, TypeHaltHandler, TypeExecute, TypeOthers
<1>3. IInv => TypeOK /\ HandsFree /\ ActiveCount
  BY DEF IInv
<1> QED
  BY <1>1, <1>2, <1>3, PTL DEF Spec

(* Every variable keeps its type, for any number of workers and threads.    *)
THEOREM TypeCorrect == Spec => []TypeOK
<1>1. TypeOK /\ HandsFree /\ ActiveCount => TypeOK
  OBVIOUS
<1> QED
  BY <1>1, CountCorrect, PTL

-----------------------------------------------------------------------------
(* Mutual exclusion and the stop-the-world collection.                     *)

GCQuiet == spc = "gc" => idleCnt = 0
HaltMeansCmd == halt <=> cmd # "NOP"
LockInv == MutexOwner /\ GCQuiet /\ HaltMeansCmd /\ HaltStable

LEMMA NoneActive ==
  ASSUME IInv, idleCnt = 0
  PROVE  \A w \in Workers : pc[w] \notin ActivePCs
<1>1. IsFiniteSet(Active)
  BY FS_Subset, WorkersAssumption DEF Active
<1>2. Active = {}
  BY <1>1, FS_EmptySet DEF IInv, ActiveCount
<1> QED
  BY <1>2 DEF Active

LEMMA LockThreadGet ==
  ASSUME IInv, LockInv, NEW w \in Workers, ThreadGet(w)
  PROVE  LockInv'
<1>1. MutexOwner'
  BY NamesAssumption DEF IInv, TypeOK, LockInv, MutexOwner, ThreadGet, GetLock,
     TakeThread, LastOneOut, IdleWait, IdleWake
<1>2. GCQuiet'
  BY NamesAssumption DEF IInv, TypeOK, LockInv, MutexOwner, GCQuiet, ThreadGet, GetLock,
     TakeThread, LastOneOut, IdleWait, IdleWake
<1>3. HaltMeansCmd' /\ HaltStable'
  BY DEF IInv, TypeOK, LockInv, HaltMeansCmd, HaltStable, ThreadGet, GetLock,
     TakeThread, LastOneOut, Terminate, IdleWait, IdleWake
<1> QED
  BY <1>1, <1>2, <1>3 DEF LockInv

LEMMA LockHaltHandler ==
  ASSUME IInv, LockInv, NEW w \in Workers, HaltHandler(w)
  PROVE  LockInv'
<1>1. MutexOwner'
  <2>1. CASE EnterHalt(w)
    BY <2>1 DEF IInv, TypeOK, LockInv, MutexOwner, EnterHalt
  <2>2. CASE ParkWait(w) \/ ParkReturn(w) \/ ParkLeave(w)
    BY <2>2, NamesAssumption DEF IInv, TypeOK, LockInv, MutexOwner, ParkWait,
       ParkReturn, ParkLeave
  <2>3. CASE ParkWake(w)
    BY <2>3, NamesAssumption DEF IInv, TypeOK, LockInv, MutexOwner, ParkWake
  <2> QED
    BY <2>1, <2>2, <2>3 DEF HaltHandler
<1>2. GCQuiet'
  BY NamesAssumption DEF IInv, TypeOK, LockInv, MutexOwner, GCQuiet, HaltHandler,
     EnterHalt, ParkWait, ParkWake, ParkReturn, ParkLeave
<1>3. HaltMeansCmd' /\ HaltStable'
  BY DEF IInv, TypeOK, LockInv, HaltMeansCmd, HaltStable, HaltHandler, EnterHalt,
     ParkWait, ParkWake, ParkReturn, ParkLeave
<1> QED
  BY <1>1, <1>2, <1>3 DEF LockInv

LEMMA LockExecute ==
  ASSUME IInv, LockInv, NEW w \in Workers, Execute(w) \/ OutOfMemory(w) \/ Fail(w)
  PROVE  LockInv'
<1>1. MutexOwner'
  BY NamesAssumption DEF IInv, TypeOK, LockInv, MutexOwner, Execute, GiveUp, ExitThread,
     Yield, BlockOn, BindCell, AliasCell, Spawn, Resume, NoticeHalt, ThreadHalt,
     OutOfMemory, Fail
<1>2. GCQuiet'
  BY DEF IInv, TypeOK, LockInv, GCQuiet, Execute, GiveUp, ExitThread,
     Yield, BlockOn, BindCell, AliasCell, Spawn, Resume, NoticeHalt, ThreadHalt,
     OutOfMemory, Fail
<1>3. HaltMeansCmd' /\ HaltStable'
  <2>1. CASE Execute(w)
    <3>1. UNCHANGED <<halt, cmd>>
      BY <2>1 DEF Execute, GiveUp, ExitThread, Yield, BlockOn, BindCell, AliasCell,
         Spawn, Resume, NoticeHalt, ThreadHalt
    <3>2. \A v \in Workers \ {w} : pc'[v] = pc[v]
      BY <2>1 DEF IInv, TypeOK, Execute, GiveUp, ExitThread, Yield, BlockOn, BindCell,
         AliasCell, Spawn, Resume, NoticeHalt, ThreadHalt
    <3>3. pc'[w] \in {"stopping", "halt"} => halt
      BY <2>1 DEF IInv, TypeOK, LockInv, HaltStable, Execute, GiveUp, ExitThread, Yield,
         BlockOn, BindCell, AliasCell, Spawn, Resume, NoticeHalt, ThreadHalt
    <3> QED
      BY <3>1, <3>2, <3>3 DEF LockInv, HaltMeansCmd, HaltStable
  <2>2. CASE OutOfMemory(w) \/ Fail(w)
    BY <2>2 DEF IInv, TypeOK, LockInv, HaltMeansCmd, HaltStable, OutOfMemory, Fail,
       Terminate
  <2> QED
    BY <2>1, <2>2
<1> QED
  BY <1>1, <1>2, <1>3 DEF LockInv

LEMMA LockOthers ==
  ASSUME IInv, LockInv, SupStep \/ EnvStep \/ UNCHANGED vars
  PROVE  LockInv'
<1>1. CASE SupEndGC
  <2>1. \A w \in Workers : pc[w] \notin ActivePCs
    BY <1>1, NoneActive DEF LockInv, GCQuiet, SupEndGC
  <2>2. MutexOwner' /\ GCQuiet'
    BY <1>1, NamesAssumption DEF LockInv, MutexOwner, GCQuiet, SupEndGC
  <2>3. HaltMeansCmd' /\ HaltStable'
    BY <1>1, <2>1 DEF HaltMeansCmd, HaltStable, SupEndGC
  <2> QED
    BY <2>2, <2>3 DEF LockInv
<1>2. CASE SupStep /\ ~SupEndGC
  BY <1>2, NamesAssumption DEF IInv, TypeOK, LockInv, MutexOwner, GCQuiet, HaltMeansCmd,
     HaltStable, SupStep, SupervisorLoop, SupLock, SupWait, SupWake, SupBadCmd,
     SupTerminate, SupStartGC, SupJoin, SupNoMemory
<1>3. CASE EnvStep
  BY <1>3 DEF LockInv, MutexOwner, GCQuiet, HaltMeansCmd, HaltStable, EnvStep, VmStop,
     Terminate, SpuriousSupervisorWake, SpuriousWorkerWake
<1>4. CASE UNCHANGED vars
  BY <1>4 DEF LockInv, MutexOwner, GCQuiet, HaltMeansCmd, HaltStable, vars
<1> QED
  BY <1>1, <1>2, <1>3, <1>4

LEMMA LockInit == Init => LockInv
BY NamesAssumption DEF Init, LockInv, MutexOwner, GCQuiet, HaltMeansCmd, HaltStable

LEMMA LockAlways == Spec => [](IInv /\ LockInv)
<1>1. Init => IInv /\ LockInv
  BY TypeInit, LockInit DEF IInv
<1>2. IInv /\ LockInv /\ [Next]_vars => IInv' /\ LockInv'
  BY StepCases, TypeThreadGet, TypeHaltHandler, TypeExecute, TypeOthers,
     LockThreadGet, LockHaltHandler, LockExecute, LockOthers
<1> QED
  BY <1>1, <1>2, PTL DEF Spec

(* queue_mutex is held by exactly the worker in a section that needs it,   *)
(* across each throw of VM_EXCEPTION_HALT that keeps it, and by the        *)
(* supervisor from the test of idle_cnt to the end of a collection.        *)
THEOREM MutexSafe == Spec => []MutexOwner
<1>1. IInv /\ LockInv => MutexOwner
  BY DEF LockInv
<1> QED
  BY <1>1, LockAlways, PTL

(* A worker that read halt outside the mutex finds it set inside.          *)
THEOREM HaltStableAlways == Spec => []HaltStable
<1>1. IInv /\ LockInv => HaltStable
  BY DEF LockInv
<1> QED
  BY <1>1, LockAlways, PTL

-----------------------------------------------------------------------------
(* The supervisor never finds all the workers parked without a command.    *)

(* Between a collection and the first worker that leaves its loop idle_cnt *)
(* is zero although halt is clear: the supervisor must be asleep then.     *)
SupReady == idleCnt = 0 /\ ~halt => spc = "wait" /\ supAsleep

LEMMA ReadyWorker ==
  ASSUME IInv, LockInv, SupReady, NEW w \in Workers,
         ThreadGet(w) \/ HaltHandler(w) \/ Execute(w) \/ OutOfMemory(w) \/ Fail(w)
  PROVE  SupReady'
<1>1. CASE IdleWait(w)
  <2>1. pc[w] \in ActivePCs /\ pc' = [pc EXCEPT ![w] = "idle"] /\ pc \in [Workers -> PCs]
    BY <1>1 DEF IdleWait, IInv, TypeOK
  <2>2. Cardinality(Active) > 0 /\ Cardinality(Active) \in Nat
    BY <2>1, ActiveMove
  <2> QED
    BY <1>1, <2>2 DEF IInv, ActiveCount, SupReady, IdleWait
<1>2. CASE LastOneOut(w)
  BY <1>2 DEF SupReady, LastOneOut, Terminate
<1>3. CASE GetLock(w) \/ TakeThread(w) \/ IdleWake(w)
  BY <1>3 DEF IInv, TypeOK, SupReady, GetLock, TakeThread, IdleWake
<1>4. CASE EnterHalt(w)
  BY <1>4 DEF LockInv, HaltStable, SupReady, EnterHalt
<1>5. CASE ParkWait(w) \/ ParkWake(w) \/ ParkReturn(w) \/ ParkLeave(w)
  BY <1>5 DEF IInv, TypeOK, SupReady, ParkWait, ParkWake, ParkReturn, ParkLeave
<1>6. CASE Execute(w)
  BY <1>6 DEF SupReady, Execute, GiveUp, ExitThread, Yield, BlockOn, BindCell, AliasCell,
     Spawn, Resume, NoticeHalt, ThreadHalt
<1>7. CASE OutOfMemory(w) \/ Fail(w)
  BY <1>7 DEF SupReady, OutOfMemory, Fail, Terminate
<1> QED
  BY <1>1, <1>2, <1>3, <1>4, <1>5, <1>6, <1>7 DEF ThreadGet, HaltHandler

LEMMA ReadySupervisor ==
  ASSUME SupReady, SupStep \/ VmStop \/ UNCHANGED vars
  PROVE  SupReady'
BY DEF SupReady, SupStep, SupervisorLoop, SupLock, SupWait, SupWake, SupBadCmd,
   SupTerminate, SupStartGC, SupEndGC, SupJoin, SupNoMemory, VmStop, Terminate, vars

LEMMA StepCasesNoSpurious ==
  ASSUME [Next]_vars, "spurious" \notin Faults
  PROVE  \/ \E w \in Workers : \/ ThreadGet(w) \/ HaltHandler(w) \/ Execute(w)
                               \/ OutOfMemory(w) \/ Fail(w)
         \/ SupStep \/ VmStop \/ UNCHANGED vars
BY DEF Next, Step, Ended, WorkerStep, WorkerFault, SupStep

(* If condition waits only return when signalled, VM_FATAL("bad cmd") is   *)
(* never reached (vm_base.c:115): the unconditional wait after a           *)
(* collection is what makes it so, which is why one spurious wake-up of    *)
(* the supervisor breaks it.                                               *)
THEOREM NoBadCmdAlways ==
  ASSUME "spurious" \notin Faults
  PROVE  Spec => []NoBadCmd
<1>1. Init => SupReady
  <2>1. IsFiniteSet(Workers) /\ Workers # {}
    BY WorkersAssumption
  <2>2. Cardinality(Workers) # 0
    BY <2>1, FS_EmptySet
  <2> QED
    BY <2>2 DEF Init, SupReady
<1>2. IInv /\ LockInv /\ SupReady /\ [Next]_vars => SupReady'
  BY StepCasesNoSpurious, ReadyWorker, ReadySupervisor
<1>3. IInv /\ LockInv /\ SupReady => NoBadCmd
  BY DEF IInv, TypeOK, LockInv, HaltMeansCmd, SupReady, NoBadCmd
<1> QED
  BY <1>1, <1>2, <1>3, LockAlways, PTL DEF Spec

-----------------------------------------------------------------------------
(* No green thread is lost, and a collection has the heap to itself.       *)

Located ==
  \A t \in Threads : Alive(t) => Running(t) \/ Queued(t) \/ Blocked(t) \/ InFlight(t)

(* Which threads a sequence holds after the operations of the scheduler.   *)
LEMMA WithinFacts ==
  ASSUME NEW S, NEW s \in Seq(S), NEW t
  PROVE  /\ \A e \in S : Within(t, Append(s, e)) <=> Within(t, s) \/ t = e
         /\ \A u \in Seq(S) : Within(t, s \o u) <=> Within(t, s) \/ Within(t, u)
         /\ s # <<>> /\ Within(t, s) => t = Head(s) \/ Within(t, Tail(s))
         /\ ~Within(t, <<>>) /\ (\A e \in S : Within(e, <<e>>))
<1>1. \A e \in S : Within(t, Append(s, e)) <=> Within(t, s) \/ t = e
  BY DEF Within
<1>2. ASSUME NEW u \in Seq(S) PROVE Within(t, s \o u) <=> Within(t, s) \/ Within(t, u)
  <2>1. ASSUME Within(t, s \o u) PROVE Within(t, s) \/ Within(t, u)
    BY <2>1 DEF Within
  <2>2. ASSUME Within(t, s) PROVE Within(t, s \o u)
    BY <2>2 DEF Within
  <2>3. ASSUME Within(t, u) PROVE Within(t, s \o u)
    <3>1. PICK i \in 1 .. Len(u) : u[i] = t
      BY <2>3 DEF Within
    <3>2. Len(s) + i \in 1 .. Len(s \o u) /\ (s \o u)[Len(s) + i] = t
      BY <3>1
    <3> QED
      BY <3>2 DEF Within
  <2> QED
    BY <2>1, <2>2, <2>3
<1>3. s # <<>> /\ Within(t, s) => t = Head(s) \/ Within(t, Tail(s))
  <2>1. ASSUME s # <<>>, NEW i \in 1 .. Len(s), s[i] = t, i # 1 PROVE Within(t, Tail(s))
    <3>1. i - 1 \in 1 .. Len(Tail(s)) /\ Tail(s)[i - 1] = t
      BY <2>1
    <3> QED
      BY <3>1 DEF Within
  <2> QED
    BY <2>1 DEF Within
<1>4. ~Within(t, <<>>) /\ (\A e \in S : Within(e, <<e>>))
  BY DEF Within
<1> QED
  BY <1>1, <1>2, <1>3, <1>4

(* A worker whose chain is empty fills it: nothing in flight is lost.       *)
LEMMA ChainSet ==
  ASSUME IInv, NEW w \in Workers, pc[w] # "resume", NEW c,
         chain' = [chain EXCEPT ![w] = c], NEW t
  PROVE  /\ InFlight(t) => InFlight(t)'
         /\ Within(t, c) => InFlight(t)'
<1>1. chain[w] = <<>> /\ chain'[w] = c /\ \A v \in Workers \ {w} : chain'[v] = chain[v]
  BY DEF IInv, TypeOK, HandsFree
<1>2. ~Within(t, chain[w])
  BY <1>1 DEF Within
<1>3. Within(t, c) => InFlight(t)'
  BY <1>1 DEF InFlight, Within
<1>4. ASSUME NEW v \in Workers, Within(t, chain[v]) PROVE InFlight(t)'
  <2>1. v # w
    BY <1>2, <1>4
  <2> QED
    BY <1>1, <1>4, <2>1 DEF InFlight, Within
<1> QED
  BY <1>3, <1>4 DEF InFlight

LEMMA LocatedFrame ==
  ASSUME Located, UNCHANGED <<thread, queue, waiters, chain, born, finished>>
  PROVE  Located'
BY DEF Located, Alive, Running, Queued, Blocked, InFlight, Within

LEMMA LocatedQueue ==
  ASSUME IInv, Located, NEW w \in Workers,
         TakeThread(w) \/ Resume(w) \/ ThreadHalt(w) \/ OutOfMemory(w)
  PROVE  Located'
<1> SUFFICES ASSUME NEW t \in Threads, Alive(t)'
             PROVE  (Running(t) \/ Queued(t) \/ Blocked(t) \/ InFlight(t))'
  BY DEF Located
<1>1. UNCHANGED <<waiters, born, finished>>
  BY DEF TakeThread, Resume, ThreadHalt, OutOfMemory
<1>2. Running(t) \/ Queued(t) \/ Blocked(t) \/ InFlight(t)
  BY <1>1 DEF Located, Alive
<1>3. CASE Blocked(t)
  BY <1>1, <1>3 DEF Blocked, Within
<1>4. CASE TakeThread(w)
  <2>1. Queued(t) => t = Head(queue) \/ Within(t, Tail(queue))
    BY <1>4, WithinFacts DEF IInv, TypeOK, TakeThread, Queued
  <2>2. CASE Queued(t)
    BY <1>4, <2>1, <2>2 DEF IInv, TypeOK, TakeThread, Running, Queued, Within
  <2>3. CASE Running(t)
    BY <1>4, <2>3, NamesAssumption DEF IInv, TypeOK, HandsFree, TakeThread, Running
  <2>4. CASE InFlight(t)
    BY <1>4, <2>4 DEF TakeThread, InFlight, Within
  <2> QED
    BY <1>2, <1>3, <2>2, <2>3, <2>4
<1>5. CASE Resume(w)
  <2>1. Queued(t) \/ Within(t, chain[w]) => Queued(t)'
    BY <1>5, WithinFacts DEF IInv, TypeOK, Resume, Queued
  <2>2. InFlight(t) /\ ~Within(t, chain[w]) => InFlight(t)'
    BY <1>5 DEF IInv, TypeOK, Resume, InFlight, Within
  <2>3. Running(t) => Running(t)'
    BY <1>5 DEF Resume, Running
  <2> QED
    BY <1>2, <1>3, <2>1, <2>2, <2>3
<1>6. CASE ThreadHalt(w) \/ OutOfMemory(w)
  <2>1. queue' = Append(queue, thread[w]) /\ thread[w] \in Threads /\ UNCHANGED chain
    BY <1>6 DEF IInv, HandsFree, ThreadHalt, OutOfMemory
  <2>2. Queued(t) \/ t = thread[w] => Queued(t)'
    BY <2>1, WithinFacts DEF IInv, TypeOK, Queued
  <2>3. Running(t) => t = thread[w] \/ Running(t)'
    BY <1>6 DEF IInv, TypeOK, ThreadHalt, OutOfMemory, Running
  <2>4. InFlight(t) => InFlight(t)'
    BY <2>1 DEF InFlight, Within
  <2> QED
    BY <1>2, <1>3, <2>2, <2>3, <2>4
<1> QED
  BY <1>4, <1>5, <1>6

LEMMA LocatedCells ==
  ASSUME IInv, Located, NEW w \in Workers, NEW x \in Cells, NEW y \in Cells,
         BlockOn(w, x) \/ BindCell(w, x) \/ AliasCell(w, x, y)
  PROVE  Located'
<1> SUFFICES ASSUME NEW t \in Threads, Alive(t)'
             PROVE  (Running(t) \/ Queued(t) \/ Blocked(t) \/ InFlight(t))'
  BY DEF Located
<1>1. UNCHANGED <<queue, born, finished>>
  BY DEF BlockOn, BindCell, AliasCell
<1>2. Running(t) \/ Queued(t) \/ Blocked(t) \/ InFlight(t)
  BY <1>1 DEF Located, Alive
<1>3. CASE Queued(t)
  BY <1>1, <1>3 DEF Queued, Within
<1>4. CASE BlockOn(w, x)
  <2>a. thread[w] \in Threads /\ waiters[x] \in Seq(Threads)
    BY <1>4 DEF IInv, TypeOK, HandsFree, BlockOn
  <2>b. /\ waiters'[x] = Append(waiters[x], thread[w])
        /\ \A z \in Cells \ {x} : waiters'[z] = waiters[z]
    BY <1>4 DEF IInv, TypeOK, BlockOn
  <2>c. Within(t, waiters[x]) \/ t = thread[w] => Within(t, waiters'[x])
    BY <2>a, <2>b, WithinFacts
  <2>1. Blocked(t) => Blocked(t)'
    BY <2>b, <2>c DEF Blocked, Within
  <2>2. t = thread[w] => Blocked(t)'
    BY <2>c DEF Blocked, Within
  <2>3. Running(t) => t = thread[w] \/ Running(t)'
    BY <1>4 DEF IInv, TypeOK, BlockOn, Running
  <2>4. InFlight(t) => InFlight(t)'
    BY <1>4 DEF BlockOn, InFlight, Within
  <2> QED
    BY <1>2, <1>3, <2>1, <2>2, <2>3, <2>4
<1>5. CASE BindCell(w, x)
  <2>1. Within(t, waiters[x]) => InFlight(t)'
    BY <1>5 DEF IInv, TypeOK, BindCell, InFlight, Within
  <2>2. Blocked(t) /\ ~Within(t, waiters[x]) => Blocked(t)'
    BY <1>5 DEF IInv, TypeOK, BindCell, Blocked, Within
  <2>3. InFlight(t) => InFlight(t)'
    BY <1>5, ChainSet DEF BindCell
  <2>4. Running(t) => Running(t)'
    BY <1>5 DEF BindCell, Running
  <2> QED
    BY <1>2, <1>3, <2>1, <2>2, <2>3, <2>4
<1>6. CASE AliasCell(w, x, y)
  <2>1. waiters[x] \in Seq(Threads) /\ waiters[y] \in Seq(Threads)
    BY DEF IInv, TypeOK
  <2>2. waiters'[y] = waiters[y] \o waiters[x]
    BY <1>6 DEF IInv, TypeOK, AliasCell
  <2>3. Within(t, waiters[x]) \/ Within(t, waiters[y]) => Within(t, waiters'[y])
    BY <2>1, <2>2, WithinFacts
  <2>4. \A z \in Cells \ {x, y} : waiters'[z] = waiters[z]
    BY <1>6 DEF IInv, TypeOK, AliasCell
  <2>5. Blocked(t) => Blocked(t)'
    BY <2>3, <2>4 DEF Blocked, Within
  <2>6. (Running(t) => Running(t)') /\ (InFlight(t) => InFlight(t)')
    BY <1>6 DEF AliasCell, Running, InFlight, Within
  <2> QED
    BY <1>2, <1>3, <2>5, <2>6
<1> QED
  BY <1>4, <1>5, <1>6

LEMMA LocatedThread ==
  ASSUME IInv, Located, NEW w \in Workers, NEW u \in Threads,
         Spawn(w, u) \/ Yield(w) \/ ExitThread(w) \/ Fail(w)
  PROVE  Located'
<1> SUFFICES ASSUME NEW t \in Threads, Alive(t)'
             PROVE  (Running(t) \/ Queued(t) \/ Blocked(t) \/ InFlight(t))'
  BY DEF Located
<1>1. UNCHANGED <<queue, waiters>>
  BY DEF Spawn, Yield, ExitThread, Fail
<1>2. (Queued(t) => Queued(t)') /\ (Blocked(t) => Blocked(t)')
  BY <1>1 DEF Queued, Blocked, Within
<1>3. CASE Spawn(w, u)
  <2>1. t = u => InFlight(t)'
    BY <1>3 DEF IInv, TypeOK, Spawn, InFlight, Within
  <2>2. InFlight(t) => InFlight(t)'
    BY <1>3, ChainSet DEF Spawn
  <2>3. Running(t) => Running(t)'
    BY <1>3 DEF Spawn, Running
  <2>4. t = u \/ Running(t) \/ Queued(t) \/ Blocked(t) \/ InFlight(t)
    BY <1>3 DEF Located, Alive, Spawn
  <2> QED
    BY <1>2, <2>1, <2>2, <2>3, <2>4
<1>4. CASE Yield(w)
  <2>1. t = thread[w] => InFlight(t)'
    <3>1. Within(thread[w], <<thread[w]>>)
      BY DEF Within
    <3> QED
      BY <1>4, <3>1, ChainSet DEF Yield
  <2>2. InFlight(t) => InFlight(t)'
    BY <1>4, ChainSet DEF Yield
  <2>3. Running(t) => t = thread[w] \/ Running(t)'
    BY <1>4 DEF IInv, TypeOK, Yield, Running
  <2>4. Running(t) \/ Queued(t) \/ Blocked(t) \/ InFlight(t)
    BY <1>4 DEF Located, Alive, Yield
  <2> QED
    BY <1>2, <2>1, <2>2, <2>3, <2>4
<1>5. CASE ExitThread(w) \/ Fail(w)
  <2>1. t # thread[w] /\ Alive(t)
    BY <1>5 DEF Alive, ExitThread, Fail
  <2>2. Running(t) => Running(t)'
    BY <1>5, <2>1 DEF IInv, TypeOK, ExitThread, Fail, Running
  <2>3. InFlight(t) => InFlight(t)'
    BY <1>5 DEF ExitThread, Fail, InFlight, Within
  <2>4. Running(t) \/ Queued(t) \/ Blocked(t) \/ InFlight(t)
    BY <2>1 DEF Located
  <2> QED
    BY <1>2, <2>2, <2>3, <2>4
<1> QED
  BY <1>3, <1>4, <1>5

LEMMA LocatedStep == IInv /\ Located /\ [Next]_vars => Located'
<1> SUFFICES ASSUME IInv, Located, [Next]_vars PROVE Located'
  OBVIOUS
<1>1. ASSUME NEW w \in Workers, ThreadGet(w) \/ HaltHandler(w) PROVE Located'
  <2>1. CASE TakeThread(w)
    BY <2>1, LocatedQueue
  <2>2. CASE ~TakeThread(w)
    <3>1. UNCHANGED <<thread, queue, waiters, chain, born, finished>>
      BY <1>1, <2>2 DEF ThreadGet, GetLock, LastOneOut, IdleWait, IdleWake, HaltHandler,
         EnterHalt, ParkWait, ParkWake, ParkReturn, ParkLeave
    <3> QED
      BY <3>1, LocatedFrame
  <2> QED
    BY <2>1, <2>2
<1>2. ASSUME NEW w \in Workers, Execute(w) \/ OutOfMemory(w) \/ Fail(w) PROVE Located'
  <2>1. CASE NoticeHalt(w)
    BY <2>1, LocatedFrame DEF NoticeHalt
  <2> QED
    BY <1>2, <2>1, LocatedQueue, LocatedCells, LocatedThread, MainAssumption
       DEF Execute, GiveUp
<1>3. CASE SupStep \/ EnvStep \/ UNCHANGED vars
  <2>1. UNCHANGED <<thread, queue, waiters, chain, born, finished>>
    BY <1>3 DEF SupStep, EnvStep, vars, SupervisorLoop, SupLock, SupWait, SupWake,
       SupBadCmd, SupTerminate, SupStartGC, SupEndGC, SupJoin, SupNoMemory, VmStop,
       SpuriousSupervisorWake, SpuriousWorkerWake
  <2> QED
    BY <2>1, LocatedFrame
<1> QED
  BY <1>1, <1>2, <1>3, StepCases

(* Stop the world: while vm_gc runs no worker holds a green thread, holds  *)
(* a chain of them or can leave its wait, and every live thread is in the  *)
(* queue or behind a cell, where the collector looks for it.               *)
THEOREM CollectionExclusive == Spec => []GCExclusive
<1>1. Init => Located
  BY MainAssumption DEF Init, Located, Alive, Queued, Within
<1>2. IInv /\ LockInv /\ Located => GCExclusive
  <2> SUFFICES ASSUME IInv, LockInv, Located, spc = "gc"
               PROVE  /\ \A w \in Workers : /\ pc[w] \in {"idle", "parked", "done"}
                                            /\ thread[w] = NoThread /\ chain[w] = <<>>
                      /\ \A t \in Threads : Alive(t) => Queued(t) \/ Blocked(t)
    BY DEF GCExclusive
  <2>1. \A w \in Workers : pc[w] \notin ActivePCs
    BY NoneActive DEF LockInv, GCQuiet
  <2>2. \A w \in Workers : pc[w] \notin LockedPCs
    BY NamesAssumption DEF LockInv, MutexOwner
  <2>3. \A w \in Workers : /\ pc[w] \in {"idle", "parked", "done"}
                          /\ thread[w] = NoThread /\ chain[w] = <<>>
    BY <2>1, <2>2 DEF IInv, TypeOK, HandsFree
  <2>4. ASSUME NEW t \in Threads, Alive(t) PROVE Queued(t) \/ Blocked(t)
    BY <2>3, <2>4, NamesAssumption DEF Located, Running, InFlight, Within
  <2> QED
    BY <2>3, <2>4
<1> QED
  BY <1>1, <1>2, LocatedStep, LockAlways, PTL DEF Spec
-----------------------------------------------------------------------------
(* A bound cell has no waiters, and a collection always has its root.      *)

LEMMA ForgottenCells ==
  ASSUME IInv, NoForgottenWaiter, NEW w \in Workers, NEW x \in Cells, NEW y \in Cells,
         BlockOn(w, x) \/ BindCell(w, x) \/ AliasCell(w, x, y)
  PROVE  NoForgottenWaiter'
<1>1. CASE BlockOn(w, x)
  <2>1. x \in undef' /\ undef' = undef /\ \A z \in Cells \ {x} : waiters'[z] = waiters[z]
    BY <1>1 DEF IInv, TypeOK, BlockOn
  <2> QED
    BY <2>1 DEF NoForgottenWaiter
<1>2. CASE BindCell(w, x)
  <2>1. waiters'[x] = <<>> /\ \A z \in Cells \ {x} : waiters'[z] = waiters[z]
    BY <1>2 DEF IInv, TypeOK, BindCell
  <2> QED
    BY <1>2, <2>1 DEF NoForgottenWaiter, BindCell
<1>3. CASE AliasCell(w, x, y)
  <2>1. waiters'[x] = <<>> /\ y \in undef'
    BY <1>3 DEF IInv, TypeOK, AliasCell
  <2>2. \A z \in Cells \ {x, y} : waiters'[z] = waiters[z]
    BY <1>3 DEF IInv, TypeOK, AliasCell
  <2> QED
    BY <1>3, <2>1, <2>2 DEF NoForgottenWaiter, AliasCell
<1> QED
  BY <1>1, <1>2, <1>3

LEMMA ForgottenStep == IInv /\ NoForgottenWaiter /\ [Next]_vars => NoForgottenWaiter'
<1> SUFFICES ASSUME IInv, NoForgottenWaiter, [Next]_vars PROVE NoForgottenWaiter'
  OBVIOUS
<1>1. CASE UNCHANGED <<waiters, undef>>
  BY <1>1 DEF NoForgottenWaiter
<1>2. ASSUME NEW w \in Workers, Execute(w) PROVE NoForgottenWaiter'
  <2>1. \/ UNCHANGED <<waiters, undef>>
        \/ \E x \in Cells : BlockOn(w, x) \/ BindCell(w, x)
        \/ \E x, y \in Cells : AliasCell(w, x, y)
    BY <1>2 DEF Execute, GiveUp, ExitThread, Yield, Spawn, Resume, NoticeHalt, ThreadHalt
  <2> QED
    BY <1>1, <2>1, ForgottenCells
<1>3. ASSUME NEW w \in Workers,
             ThreadGet(w) \/ HaltHandler(w) \/ OutOfMemory(w) \/ Fail(w)
      PROVE  UNCHANGED <<waiters, undef>>
  BY <1>3 DEF ThreadGet, GetLock, TakeThread, LastOneOut, IdleWait, IdleWake, HaltHandler,
     EnterHalt, ParkWait, ParkWake, ParkReturn, ParkLeave, OutOfMemory, Fail
<1>4. CASE SupStep \/ EnvStep \/ UNCHANGED vars
  BY <1>1, <1>4 DEF SupStep, EnvStep, vars, SupervisorLoop, SupLock, SupWait, SupWake,
     SupBadCmd, SupTerminate, SupStartGC, SupEndGC, SupJoin, SupNoMemory, VmStop,
     SpuriousSupervisorWake, SpuriousWorkerWake
<1> QED
  BY <1>1, <1>2, <1>3, <1>4, StepCases

(* Whatever the order in which threads block on a cell, alias it and bind  *)
(* it, a cell that got its value has no waiters: vm_bind.c:52 hands them   *)
(* all to the queue, or to the cell that is still undefined.               *)
THEOREM NoForgottenWaiterAlways == Spec => []NoForgottenWaiter
<1>1. Init => NoForgottenWaiter
  BY DEF Init, NoForgottenWaiter
<1>2. Spec => []IInv
  BY LockAlways, PTL
<1> QED
  BY <1>1, <1>2, ForgottenStep, PTL DEF Spec

(* Why the queue is not empty when vm_gc starts: the thread that ran out of *)
(* memory was queued with the request, and from then on no worker is in     *)
(* the loop that takes threads with halt set.                               *)
RootInv ==
  /\ cmd = "GC" => queue # <<>>
  /\ \A w \in Workers : pc[w] = "scan" => ~halt
  /\ spc = "gc" => cmd = "GC"

(* Queueing a thread or a chain of them never empties the queue.           *)
LEMMA QueueGrows ==
  ASSUME NEW S, NEW s \in Seq(S)
  PROVE  /\ \A e \in S : Append(s, e) # <<>>
         /\ \A u \in Seq(S) : s # <<>> => s \o u # <<>>
<1>1. ASSUME NEW e \in S PROVE Append(s, e) # <<>>
  <2>1. Len(Append(s, e)) = Len(s) + 1 /\ Len(s) \in Nat
    OBVIOUS
  <2> QED
    BY <2>1
<1>2. ASSUME NEW u \in Seq(S), s # <<>> PROVE s \o u # <<>>
  <2>1. Len(s \o u) = Len(s) + Len(u) /\ Len(u) \in Nat
    OBVIOUS
  <2>2. Len(s) \in Nat /\ Len(s) # 0
    BY <1>2
  <2> QED
    BY <2>1, <2>2
<1> QED
  BY <1>1, <1>2

LEMMA RootWorker ==
  ASSUME IInv, LockInv, RootInv, NEW w \in Workers,
         ThreadGet(w) \/ HaltHandler(w) \/ Execute(w) \/ OutOfMemory(w) \/ Fail(w)
  PROVE  RootInv'
<1>1. CASE TakeThread(w)
  <2>1. ~halt /\ cmd = "NOP"
    BY <1>1 DEF RootInv, TakeThread, LockInv, HaltMeansCmd
  <2> QED
    BY <1>1, <2>1 DEF IInv, TypeOK, RootInv, TakeThread
<1>2. CASE LastOneOut(w) \/ Fail(w)
  <2>1. (mutex' = w /\ spc # "gc") \/ spc = "fatal"
    BY <1>2, NamesAssumption DEF LockInv, MutexOwner, LastOneOut, Fail
  <2>2. \A v \in Workers : pc'[v] # "scan"
    BY <1>2, NamesAssumption DEF IInv, TypeOK, LockInv, MutexOwner, LastOneOut, Fail
  <2> QED
    BY <1>2, <2>1, <2>2 DEF RootInv, LastOneOut, Fail, Terminate
<1>3. CASE OutOfMemory(w)
  <2>1. queue' # <<>>
    BY <1>3, QueueGrows DEF IInv, TypeOK, HandsFree, OutOfMemory
  <2>2. \A v \in Workers : pc'[v] # "scan"
    BY <1>3, NamesAssumption DEF IInv, TypeOK, LockInv, MutexOwner, OutOfMemory
  <2> QED
    BY <1>3, <2>1, <2>2 DEF RootInv, OutOfMemory
<1>4. CASE GetLock(w) \/ IdleWait(w) \/ IdleWake(w)
  BY <1>4 DEF IInv, TypeOK, RootInv, GetLock, IdleWait, IdleWake
<1>5. CASE HaltHandler(w)
  BY <1>5 DEF IInv, TypeOK, RootInv, HaltHandler, EnterHalt, ParkWait, ParkWake,
     ParkReturn, ParkLeave
<1>6. CASE Execute(w)
  <2>1. UNCHANGED <<halt, cmd, spc>>
    BY <1>6 DEF Execute, GiveUp, ExitThread, Yield, BlockOn, BindCell, AliasCell, Spawn,
       Resume, NoticeHalt, ThreadHalt
  <2>2. queue # <<>> => queue' # <<>>
    <3>1. \/ UNCHANGED queue \/ queue' = queue \o chain[w]
          \/ queue' = Append(queue, thread[w]) /\ thread[w] \in Threads
      BY <1>6 DEF IInv, HandsFree, Execute, GiveUp, ExitThread, Yield, BlockOn, BindCell,
         AliasCell, Spawn, Resume, NoticeHalt, ThreadHalt
    <3>2. queue \in Seq(Threads) /\ chain[w] \in Seq(Threads)
      BY DEF IInv, TypeOK
    <3> QED
      BY <3>1, <3>2, QueueGrows
  <2>3. \A v \in Workers : pc'[v] = "scan" => pc[v] = "scan"
    BY <1>6 DEF IInv, TypeOK, Execute, GiveUp, ExitThread, Yield, BlockOn, BindCell,
       AliasCell, Spawn, Resume, NoticeHalt, ThreadHalt
  <2> QED
    BY <2>1, <2>2, <2>3 DEF RootInv
<1> QED
  BY <1>1, <1>2, <1>3, <1>4, <1>5, <1>6 DEF ThreadGet

LEMMA RootOthers ==
  ASSUME IInv, LockInv, RootInv, SupStep \/ EnvStep \/ UNCHANGED vars
  PROVE  RootInv'
<1>1. CASE VmStop
  <2>1. spc # "gc" /\ \A w \in Workers : pc[w] # "scan"
    BY <1>1, NamesAssumption DEF LockInv, MutexOwner, VmStop
  <2> QED
    BY <1>1, <2>1 DEF RootInv, VmStop, Terminate
<1>2. CASE SupStep
  BY <1>2 DEF RootInv, SupStep, SupervisorLoop, SupLock, SupWait, SupWake, SupBadCmd,
     SupTerminate, SupStartGC, SupEndGC, SupJoin, SupNoMemory
<1>3. CASE (EnvStep /\ ~VmStop) \/ UNCHANGED vars
  BY <1>3 DEF RootInv, EnvStep, SpuriousSupervisorWake, SpuriousWorkerWake, vars
<1> QED
  BY <1>1, <1>2, <1>3

(* vm_gc starts from the head of the queue without testing that there is   *)
(* one (vm_gc.c:45): the thread whose allocation failed is always there.   *)
THEOREM GCHasRootAlways == Spec => []GCHasRoot
<1>1. Init => RootInv
  BY DEF Init, RootInv
<1>2. IInv /\ LockInv /\ RootInv /\ [Next]_vars => RootInv'
  BY StepCases, RootWorker, RootOthers
<1>3. RootInv => GCHasRoot
  BY DEF RootInv, GCHasRoot
<1> QED
  BY <1>1, <1>2, <1>3, LockAlways, PTL DEF Spec
-----------------------------------------------------------------------------
(* No green thread is ever lost, duplicated or run by two workers: it is   *)
(* in exactly one place, for any number of workers, threads and cells and  *)
(* any faults.  The places of a thread are counted: the lemmas say what    *)
(* each operation on a list of threads, and on a family of them, does to   *)
(* the count.                                                              *)

Unit(e, t) == IF e = t THEN 1 ELSE 0

LEMMA DisjointCount ==
  ASSUME NEW A, NEW B, NEW C, IsFiniteSet(A), IsFiniteSet(B), A \cap B = {}, C = A \cup B
  PROVE  /\ IsFiniteSet(C) /\ Cardinality(C) = Cardinality(A) + Cardinality(B)
         /\ Cardinality(A) \in Nat /\ Cardinality(B) \in Nat /\ Cardinality(C) \in Nat
<1>1. /\ IsFiniteSet(A \cup B)
      /\ Cardinality(A \cup B) = Cardinality(A) + Cardinality(B) - Cardinality(A \cap B)
  BY FS_Union
<1>2. Cardinality(A \cap B) = 0
  BY FS_EmptySet, Zenon
<1>3. IsFiniteSet(C) /\ Cardinality(C) = Cardinality(A \cup B)
  BY <1>1, Zenon
<1>4. Cardinality(A) \in Nat /\ Cardinality(B) \in Nat
  BY FS_CardinalityType
<1> QED
  BY <1>1, <1>2, <1>3, <1>4

(* How often a thread occurs in a list.                                    *)
LEMMA AtFinite ==
  ASSUME NEW S, NEW s \in Seq(S), NEW t
  PROVE  /\ IsFiniteSet(At(s, t)) /\ Cardinality(At(s, t)) \in Nat
         /\ At(s, t) \subseteq 1 .. Len(s)
<1>1. At(s, t) \subseteq 1 .. Len(s) /\ Len(s) \in Nat
  BY DEF At
<1>2. IsFiniteSet(1 .. Len(s))
  BY <1>1, FS_Interval
<1> QED
  BY <1>1, <1>2, FS_Subset, FS_CardinalityType

LEMMA Shift ==
  ASSUME NEW A, A \subseteq Int, IsFiniteSet(A), NEW k \in Int
  PROVE  /\ IsFiniteSet({i + k : i \in A})
         /\ Cardinality({i + k : i \in A}) = Cardinality(A)
<1> DEFINE T == {i + k : i \in A}
           f == [i \in A |-> i + k]
<1>1. f \in Bijection(A, T)
  <2>1. f \in [A -> T] /\ \A i, j \in A : f[i] = f[j] => i = j
    OBVIOUS
  <2>2. \A y \in T : \E i \in A : f[i] = y
    OBVIOUS
  <2> QED
    BY <2>1, <2>2, Fun_IsBij
<1> QED
  BY <1>1, FS_Bijection DEF ExistsBijection

LEMMA AtConcat ==
  ASSUME NEW S, NEW s \in Seq(S), NEW u \in Seq(S), NEW t
  PROVE  Cardinality(At(s \o u, t)) = Cardinality(At(s, t)) + Cardinality(At(u, t))
<1> DEFINE U == {i + Len(s) : i \in At(u, t)}
<1>1. At(s \o u, t) = At(s, t) \cup U
  <2>1. s \o u \in Seq(S) /\ Len(s \o u) = Len(s) + Len(u) /\ Len(s) \in Nat /\ Len(u) \in Nat
    OBVIOUS
  <2>2. \A i \in 1 .. Len(s) : (s \o u)[i] = s[i]
    OBVIOUS
  <2>3. \A i \in 1 .. Len(u) : (s \o u)[i + Len(s)] = u[i]
    OBVIOUS
  <2>4. ASSUME NEW i \in At(s \o u, t) PROVE i \in At(s, t) \cup U
    <3>1. i \in 1 .. Len(s) + Len(u) /\ (s \o u)[i] = t
      BY <2>1, <2>4 DEF At
    <3>2. CASE i <= Len(s)
      BY <2>1, <2>2, <3>1, <3>2 DEF At
    <3>3. CASE i > Len(s)
      <4>1. i - Len(s) \in 1 .. Len(u) /\ i = (i - Len(s)) + Len(s)
        BY <2>1, <3>1, <3>3
      <4>2. i - Len(s) \in At(u, t)
        BY <2>3, <3>1, <4>1 DEF At
      <4> QED
        BY <4>1, <4>2
    <3> QED
      BY <2>1, <3>1, <3>2, <3>3
  <2>5. ASSUME NEW i \in At(s, t) PROVE i \in At(s \o u, t)
    BY <2>1, <2>2 DEF At
  <2>6. ASSUME NEW i \in At(u, t) PROVE i + Len(s) \in At(s \o u, t)
    BY <2>1, <2>3 DEF At
  <2> QED
    BY <2>4, <2>5, <2>6
<1>2. At(s, t) \cap U = {}
  <2>1. Len(s) \in Nat /\ At(s, t) \subseteq 1 .. Len(s) /\ At(u, t) \subseteq 1 .. Len(u)
    BY AtFinite
  <2> QED
    BY <2>1
<1>3. IsFiniteSet(U) /\ Cardinality(U) = Cardinality(At(u, t))
  <2>1. IsFiniteSet(At(u, t)) /\ At(u, t) \subseteq Int /\ Len(s) \in Int
    BY AtFinite
  <2> QED
    BY <2>1, Shift
<1>4. IsFiniteSet(At(s, t))
  BY AtFinite
<1> HIDE DEF U
<1>5. Cardinality(At(s \o u, t)) = Cardinality(At(s, t)) + Cardinality(U)
  BY <1>1, <1>2, <1>3, <1>4, DisjointCount
<1> QED
  BY <1>3, <1>5

LEMMA AtSingle ==
  ASSUME NEW e, NEW t
  PROVE  Cardinality(At(<<e>>, t)) = Unit(e, t) /\ Cardinality(At(<<>>, t)) = 0
<1>1. At(<<e>>, t) = (IF e = t THEN {1} ELSE {}) /\ At(<<>>, t) = {}
  BY DEF At
<1> QED
  BY <1>1, FS_Singleton, FS_EmptySet DEF Unit

LEMMA AtAppend ==
  ASSUME NEW S, NEW s \in Seq(S), NEW e \in S, NEW t
  PROVE  Cardinality(At(Append(s, e), t)) = Cardinality(At(s, t)) + Unit(e, t)
<1>1. <<e>> \in Seq(S) /\ Append(s, e) \in Seq(S) /\ Append(s, e) = s \o <<e>>
  <2>1. <<e>> \in Seq(S) /\ Len(<<e>>) = 1 /\ Append(s, e) \in Seq(S)
    OBVIOUS
  <2>2. /\ s \o <<e>> \in Seq(S) /\ Len(s \o <<e>>) = Len(s) + 1
        /\ \A i \in 1 .. Len(s) + 1 : (s \o <<e>>)[i] = IF i <= Len(s) THEN s[i] ELSE e
    BY <2>1, ConcatProperties
  <2>3. Len(Append(s, e)) = Len(s) + 1
        /\ \A i \in 1 .. Len(s) + 1 : Append(s, e)[i] = IF i <= Len(s) THEN s[i] ELSE e
    OBVIOUS
  <2> QED
    BY <2>1, <2>2, <2>3, SeqEqual
<1>2. Cardinality(At(s \o <<e>>, t)) = Cardinality(At(s, t)) + Cardinality(At(<<e>>, t))
  BY <1>1, AtConcat
<1> QED
  BY <1>1, <1>2, AtSingle

LEMMA AtTail ==
  ASSUME NEW S, NEW s \in Seq(S), s # <<>>, NEW t
  PROVE  Cardinality(At(s, t)) = Unit(Head(s), t) + Cardinality(At(Tail(s), t))
<1> DEFINE h == <<Head(s)>>
<1>1. h \in Seq(S) /\ Tail(s) \in Seq(S) /\ s = h \o Tail(s)
  <2>1. Head(s) \in S /\ Tail(s) \in Seq(S) /\ Len(Tail(s)) = Len(s) - 1
        /\ \A i \in 1 .. Len(Tail(s)) : Tail(s)[i] = s[i + 1]
    BY HeadTailProperties
  <2>2. h \in Seq(S) /\ Len(h) = 1 /\ h[1] = s[1] /\ Len(s) \in Nat
    BY <2>1
  <2>3. /\ h \o Tail(s) \in Seq(S) /\ Len(h \o Tail(s)) = Len(s)
        /\ \A i \in 1 .. Len(s) : (h \o Tail(s))[i] = IF i <= 1 THEN h[i] ELSE Tail(s)[i - 1]
    BY <2>1, <2>2, ConcatProperties
  <2>4. \A i \in 1 .. Len(s) : (h \o Tail(s))[i] = s[i]
    BY <2>1, <2>2, <2>3
  <2> QED
    BY <2>1, <2>2, <2>3, <2>4, SeqEqual
<1>2. Cardinality(At(h \o Tail(s), t)) = Cardinality(At(h, t)) + Cardinality(At(Tail(s), t))
  BY <1>1, AtConcat
<1>3. Cardinality(At(h, t)) = Unit(Head(s), t)
  BY AtSingle
<1> HIDE DEF h
<1> QED
  BY <1>1, <1>2, <1>3

-----------------------------------------------------------------------------
(* Where a thread is in a family of lists, and which workers run it.       *)

Pair(a, s, t) == {a} \X At(s, t)

LEMMA PairCount ==
  ASSUME NEW S, NEW s \in Seq(S), NEW a, NEW t
  PROVE  IsFiniteSet(Pair(a, s, t)) /\ Cardinality(Pair(a, s, t)) = Cardinality(At(s, t))
<1> DEFINE f == [i \in At(s, t) |-> <<a, i>>]
<1>1. f \in Bijection(At(s, t), Pair(a, s, t))
  <2>1. f \in [At(s, t) -> Pair(a, s, t)] /\ \A i, j \in At(s, t) : f[i] = f[j] => i = j
    BY DEF Pair
  <2>2. \A y \in Pair(a, s, t) : \E i \in At(s, t) : f[i] = y
    BY DEF Pair
  <2> QED
    BY <2>1, <2>2, Fun_IsBij
<1> QED
  BY <1>1, AtFinite, FS_Bijection DEF ExistsBijection

(* One list of the family is replaced by another.                          *)
Replaces(f, g, a, c, t) ==
  /\ IsFiniteSet(PlacesIn(g, t))
  /\ Cardinality(PlacesIn(f, t)) \in Nat /\ Cardinality(PlacesIn(g, t)) \in Nat
  /\ Cardinality(PlacesIn(g, t)) + Cardinality(At(f[a], t))
       = Cardinality(PlacesIn(f, t)) + Cardinality(At(c, t))

LEMMA PlacesSet ==
  ASSUME NEW S, NEW D, NEW f \in [D -> Seq(S)], NEW a \in D, NEW c \in Seq(S), NEW t,
         IsFiniteSet(PlacesIn(f, t)), NEW g, g = [f EXCEPT ![a] = c]
  PROVE  Replaces(f, g, a, c, t)
<1> DEFINE R == PlacesIn(f, t) \ Pair(a, f[a], t)
<1>1. PlacesIn(f, t) = R \cup Pair(a, f[a], t) /\ R \cap Pair(a, f[a], t) = {}
  BY DEF PlacesIn, Pair
<1>2. \A p \in R : p[1] # a
  BY DEF PlacesIn, Pair
<1>3. R \cap Pair(a, c, t) = {}
  BY <1>2 DEF Pair
<1>4. PlacesIn(g, t) = R \cup Pair(a, c, t)
  <2>1. DOMAIN g = D /\ DOMAIN f = D /\ g[a] = c /\ \A b \in D \ {a} : g[b] = f[b]
    OBVIOUS
  <2>2. PlacesIn(g, t) = (UNION {Pair(b, f[b], t) : b \in D \ {a}}) \cup Pair(a, c, t)
    BY <2>1 DEF PlacesIn, Pair
  <2>3. R = UNION {Pair(b, f[b], t) : b \in D \ {a}}
    BY <2>1 DEF PlacesIn, Pair
  <2> QED
    BY <2>2, <2>3
<1>5. IsFiniteSet(R)
  BY FS_Subset
<1>6. /\ IsFiniteSet(Pair(a, c, t)) /\ Cardinality(Pair(a, c, t)) = Cardinality(At(c, t))
      /\ IsFiniteSet(Pair(a, f[a], t))
      /\ Cardinality(Pair(a, f[a], t)) = Cardinality(At(f[a], t))
      /\ Cardinality(At(c, t)) \in Nat /\ Cardinality(At(f[a], t)) \in Nat
  BY PairCount, AtFinite
<1> HIDE DEF R
<1>7. Cardinality(PlacesIn(f, t)) = Cardinality(R) + Cardinality(Pair(a, f[a], t))
  BY <1>1, <1>5, <1>6, DisjointCount DEF PlacesIn
<1>8. /\ IsFiniteSet(PlacesIn(g, t))
      /\ Cardinality(PlacesIn(g, t)) = Cardinality(R) + Cardinality(Pair(a, c, t))
  BY <1>3, <1>4, <1>5, <1>6, DisjointCount DEF PlacesIn
<1>9. Cardinality(R) \in Nat
  BY <1>5, FS_CardinalityType
<1> QED
  BY <1>6, <1>7, <1>8, <1>9 DEF Replaces

RunBy(th, t) == {w \in Workers : th[w] = t}

(* A worker takes another thread, or none.                                 *)
Switches(f, g, w, e, t) ==
  /\ Cardinality(RunBy(f, t)) \in Nat /\ Cardinality(RunBy(g, t)) \in Nat
  /\ f[w] = t => Cardinality(RunBy(f, t)) > 0
  /\ Cardinality(RunBy(g, t)) + Unit(f[w], t) = Cardinality(RunBy(f, t)) + Unit(e, t)

LEMMA RunSet ==
  ASSUME NEW S, NEW f \in [Workers -> S], NEW w \in Workers, NEW e \in S, NEW t,
         NEW g, g = [f EXCEPT ![w] = e]
  PROVE  Switches(f, g, w, e, t)
<1> DEFINE R == RunBy(f, t) \ {w}
<1>1. IsFiniteSet(RunBy(f, t)) /\ IsFiniteSet(R)
  BY WorkersAssumption, FS_Subset DEF RunBy
<1>2. Cardinality(R) \in Nat /\ w \notin R
  BY <1>1, FS_CardinalityType
<1>3. RunBy(f, t) = (IF f[w] = t THEN R \cup {w} ELSE R)
  BY DEF RunBy
<1>4. RunBy(g, t) = (IF e = t THEN R \cup {w} ELSE R)
  BY DEF RunBy
<1>5. Cardinality(R \cup {w}) = Cardinality(R) + 1
  BY <1>1, <1>2, FS_AddElement
<1> HIDE DEF R
<1>6. Cardinality(RunBy(f, t)) = Cardinality(R) + Unit(f[w], t)
  BY <1>2, <1>3, <1>5 DEF Unit
<1>7. Cardinality(RunBy(g, t)) = Cardinality(R) + Unit(e, t)
  BY <1>2, <1>4, <1>5 DEF Unit
<1> QED
  BY <1>2, <1>6, <1>7 DEF Switches, Unit

-----------------------------------------------------------------------------
(* The invariant.  The places of a thread are finite because there is at    *)
(* most one; a finished thread was created, since a thread that finishes is *)
(* in a place and so alive.                                                 *)

Held(t) == Cardinality(RunBy(thread, t))
InQueue(t) == Cardinality(At(queue, t))
Behind(t) == Cardinality(PlacesIn(waiters, t))
Chained(t) == Cardinality(PlacesIn(chain, t))
Finite(t) == IsFiniteSet(PlacesIn(waiters, t)) /\ IsFiniteSet(PlacesIn(chain, t))

CountInv ==
  /\ finished \subseteq born
  /\ \A t \in Threads : Finite(t)
  /\ ThreadConservation

LEMMA Counts ==
  ASSUME IInv, CountInv, NEW t \in Threads
  PROVE  /\ Held(t) \in Nat /\ InQueue(t) \in Nat /\ Behind(t) \in Nat /\ Chained(t) \in Nat
         /\ PlaceCount(t) = Held(t) + InQueue(t) + Behind(t) + Chained(t)
<1>1. IsFiniteSet(RunBy(thread, t))
  BY WorkersAssumption, FS_Subset DEF RunBy
<1>2. InQueue(t) \in Nat
  BY AtFinite DEF InQueue, IInv, TypeOK
<1>3. Held(t) \in Nat /\ Behind(t) \in Nat /\ Chained(t) \in Nat
  BY <1>1, FS_CardinalityType DEF Held, Behind, Chained, CountInv, Finite
<1>4. PlaceCount(t) = Held(t) + InQueue(t) + Behind(t) + Chained(t)
  BY DEF PlaceCount, Held, InQueue, Behind, Chained, RunBy
<1> QED
  BY <1>2, <1>3, <1>4

LEMMA SumPrimed ==
  ASSUME NEW t \in Threads
  PROVE  PlaceCount(t)' = Held(t)' + InQueue(t)' + Behind(t)' + Chained(t)'
BY DEF PlaceCount, Held, InQueue, Behind, Chained, RunBy

LEMMA HeldSet ==
  ASSUME IInv, NEW w \in Workers, NEW e \in Threads \cup {NoThread},
         thread' = [thread EXCEPT ![w] = e], NEW t \in Threads
  PROVE  /\ Held(t)' \in Nat /\ Held(t)' + Unit(thread[w], t) = Held(t) + Unit(e, t)
         /\ thread[w] = t => Held(t) > 0
<1> DEFINE S == Threads \cup {NoThread}
<1>1. thread \in [Workers -> S] /\ e \in S
  BY DEF IInv, TypeOK
<1> HIDE DEF S
<1>2. Switches(thread, thread', w, e, t)
  BY <1>1, RunSet
<1> QED
  BY <1>2 DEF Switches, Held, RunBy

LEMMA BehindSet ==
  ASSUME IInv, CountInv, NEW x \in Cells, NEW c \in Seq(Threads),
         waiters' = [waiters EXCEPT ![x] = c], NEW t \in Threads
  PROVE  /\ Behind(t)' \in Nat /\ IsFiniteSet(PlacesIn(waiters, t))'
         /\ Behind(t)' + Cardinality(At(waiters[x], t)) = Behind(t) + Cardinality(At(c, t))
<1>1. waiters \in [Cells -> Seq(Threads)] /\ IsFiniteSet(PlacesIn(waiters, t))
  BY DEF IInv, TypeOK, CountInv, Finite
<1>2. Replaces(waiters, waiters', x, c, t)
  BY <1>1, PlacesSet
<1> QED
  BY <1>2 DEF Replaces, Behind, PlacesIn, At

\* Only a worker that resumes has a chain: the others fill it, and it empties it.
LEMMA ChainedSet ==
  ASSUME IInv, CountInv, NEW w \in Workers, NEW c \in Seq(Threads),
         chain' = [chain EXCEPT ![w] = c], NEW t \in Threads
  PROVE  /\ Chained(t)' \in Nat /\ IsFiniteSet(PlacesIn(chain, t))'
         /\ Chained(t)' + Cardinality(At(chain[w], t)) = Chained(t) + Cardinality(At(c, t))
         /\ pc[w] # "resume" => Chained(t)' = Chained(t) + Cardinality(At(c, t))
<1>1. chain \in [Workers -> Seq(Threads)] /\ IsFiniteSet(PlacesIn(chain, t))
  BY DEF IInv, TypeOK, CountInv, Finite
<1>2. Replaces(chain, chain', w, c, t)
  BY <1>1, PlacesSet
<1>3. pc[w] # "resume" => chain[w] = <<>>
  BY DEF IInv, HandsFree
<1>4. pc[w] # "resume" => Cardinality(At(chain[w], t)) = 0
  BY <1>3, AtSingle
<1>5. Cardinality(At(c, t)) \in Nat
  BY AtFinite
<1> QED
  BY <1>2, <1>4, <1>5 DEF Replaces, Chained, PlacesIn, At

\* An operation that only moves threads from place to place conserves them.
LEMMA Moved ==
  ASSUME CountInv, UNCHANGED <<born, finished>>,
         \A t \in Threads : PlaceCount(t)' = PlaceCount(t) /\ Finite(t)'
  PROVE  CountInv'
BY DEF CountInv, ThreadConservation, Alive

-----------------------------------------------------------------------------
(* The operations.                                                         *)

LEMMA EmptyList == <<>> \in Seq(Threads) /\ \A t : Cardinality(At(<<>>, t)) = 0
<1>1. <<>> \in Seq(Threads)
  OBVIOUS
<1> QED
  BY <1>1, AtSingle

LEMMA CountQueue ==
  ASSUME IInv, CountInv, NEW w \in Workers,
         TakeThread(w) \/ Resume(w) \/ ThreadHalt(w) \/ OutOfMemory(w)
  PROVE  CountInv'
<1>1. UNCHANGED <<waiters, born, finished>>
  BY DEF TakeThread, Resume, ThreadHalt, OutOfMemory
<1> SUFFICES ASSUME NEW t \in Threads PROVE PlaceCount(t)' = PlaceCount(t) /\ Finite(t)'
  BY <1>1, Moved
<1>2. Behind(t)' = Behind(t) /\ IsFiniteSet(PlacesIn(waiters, t))'
  BY <1>1 DEF Behind, CountInv, Finite, PlacesIn
<1>3. queue \in Seq(Threads)
  BY DEF IInv, TypeOK
<1>4. CASE TakeThread(w)
  <2>1. thread' = [thread EXCEPT ![w] = Head(queue)] /\ Head(queue) \in Threads
        /\ thread[w] = NoThread /\ queue' = Tail(queue) /\ UNCHANGED chain
    BY <1>3, <1>4, SeqTypes DEF IInv, HandsFree, TakeThread
  <2>2. Unit(NoThread, t) = 0 /\ Unit(Head(queue), t) \in Nat
    BY NamesAssumption DEF Unit
  <2>3. Held(t)' \in Nat /\ Held(t)' + Unit(thread[w], t) = Held(t) + Unit(Head(queue), t)
    BY <2>1, HeldSet
  <2>4. Cardinality(At(queue, t)) = Unit(Head(queue), t) + Cardinality(At(Tail(queue), t))
        /\ Cardinality(At(Tail(queue), t)) \in Nat
    BY <1>3, <1>4, AtTail, AtFinite, SeqTypes DEF TakeThread
  <2>5. InQueue(t)' = Cardinality(At(Tail(queue), t))
    BY <2>1 DEF InQueue, At
  <2>6. Chained(t)' = Chained(t) /\ IsFiniteSet(PlacesIn(chain, t))'
    BY <2>1 DEF Chained, CountInv, Finite, PlacesIn
  <2> QED
    BY <1>2, <2>1, <2>2, <2>3, <2>4, <2>5, <2>6, Counts, SumPrimed DEF InQueue, Finite
<1>5. CASE Resume(w)
  <2>1. /\ UNCHANGED thread /\ queue' = queue \o chain[w] /\ chain[w] \in Seq(Threads)
        /\ chain' = [chain EXCEPT ![w] = <<>>]
    BY <1>5 DEF IInv, TypeOK, Resume
  <2>2. Held(t)' = Held(t)
    BY <2>1 DEF Held, RunBy
  <2>3. /\ Cardinality(At(queue \o chain[w], t))
             = Cardinality(At(queue, t)) + Cardinality(At(chain[w], t))
        /\ Cardinality(At(chain[w], t)) \in Nat
    BY <1>3, <2>1, AtConcat, AtFinite
  <2>4. InQueue(t)' = Cardinality(At(queue \o chain[w], t))
    BY <2>1 DEF InQueue, At
  <2>5. <<>> \in Seq(Threads) /\ Cardinality(At(<<>>, t)) = 0
    BY EmptyList
  <2>6. Chained(t)' \in Nat /\ IsFiniteSet(PlacesIn(chain, t))'
        /\ Chained(t)' + Cardinality(At(chain[w], t)) = Chained(t) + Cardinality(At(<<>>, t))
    BY <2>1, <2>5, ChainedSet
  <2> QED
    BY <1>2, <2>2, <2>3, <2>4, <2>5, <2>6, Counts, SumPrimed DEF InQueue, Finite
<1>6. CASE ThreadHalt(w) \/ OutOfMemory(w)
  <2>1. /\ thread' = [thread EXCEPT ![w] = NoThread] /\ thread[w] \in Threads
        /\ queue' = Append(queue, thread[w]) /\ UNCHANGED chain
    BY <1>6 DEF IInv, HandsFree, ThreadHalt, OutOfMemory
  <2>2. Unit(NoThread, t) = 0 /\ Unit(thread[w], t) \in Nat
    BY NamesAssumption DEF Unit
  <2>3. Held(t)' \in Nat /\ Held(t)' + Unit(thread[w], t) = Held(t) + Unit(NoThread, t)
    BY <2>1, HeldSet
  <2>4. Cardinality(At(Append(queue, thread[w]), t)) = Cardinality(At(queue, t)) + Unit(thread[w], t)
    BY <1>3, <2>1, AtAppend
  <2>5. InQueue(t)' = Cardinality(At(Append(queue, thread[w]), t))
    BY <2>1 DEF InQueue, At
  <2>6. Chained(t)' = Chained(t) /\ IsFiniteSet(PlacesIn(chain, t))'
    BY <2>1 DEF Chained, CountInv, Finite, PlacesIn
  <2> QED
    BY <1>2, <2>2, <2>3, <2>4, <2>5, <2>6, Counts, SumPrimed DEF InQueue, Finite
<1> QED
  BY <1>4, <1>5, <1>6

LEMMA CountCells ==
  ASSUME IInv, CountInv, NEW w \in Workers, NEW x \in Cells, NEW y \in Cells,
         BlockOn(w, x) \/ BindCell(w, x) \/ AliasCell(w, x, y)
  PROVE  CountInv'
<1>1. UNCHANGED <<queue, born, finished>>
  BY DEF BlockOn, BindCell, AliasCell
<1> SUFFICES ASSUME NEW t \in Threads PROVE PlaceCount(t)' = PlaceCount(t) /\ Finite(t)'
  BY <1>1, Moved
<1>2. InQueue(t)' = InQueue(t)
  BY <1>1 DEF InQueue, At
<1>3. /\ waiters \in [Cells -> Seq(Threads)] /\ waiters[x] \in Seq(Threads)
      /\ waiters[y] \in Seq(Threads) /\ <<>> \in Seq(Threads) /\ Cardinality(At(<<>>, t)) = 0
  BY EmptyList DEF IInv, TypeOK
<1>4. Cardinality(At(waiters[x], t)) \in Nat /\ Cardinality(At(waiters[y], t)) \in Nat
  BY <1>3, AtFinite
<1>5. CASE BlockOn(w, x)
  <2>1. /\ thread' = [thread EXCEPT ![w] = NoThread] /\ thread[w] \in Threads
        /\ waiters' = [waiters EXCEPT ![x] = Append(waiters[x], thread[w])] /\ UNCHANGED chain
    BY <1>5 DEF IInv, HandsFree, BlockOn
  <2>2. Unit(NoThread, t) = 0 /\ Unit(thread[w], t) \in Nat
    BY NamesAssumption DEF Unit
  <2>3. Held(t)' \in Nat /\ Held(t)' + Unit(thread[w], t) = Held(t) + Unit(NoThread, t)
    BY <2>1, HeldSet
  <2> DEFINE c == Append(waiters[x], thread[w])
  <2>4. c \in Seq(Threads) /\ Cardinality(At(c, t)) = Cardinality(At(waiters[x], t)) + Unit(thread[w], t)
    BY <1>3, <2>1, AtAppend, SeqTypes
  <2> HIDE DEF c
  <2>5. Behind(t)' \in Nat /\ IsFiniteSet(PlacesIn(waiters, t))'
        /\ Behind(t)' + Cardinality(At(waiters[x], t)) = Behind(t) + Cardinality(At(c, t))
    BY <2>1, <2>4, BehindSet DEF c
  <2>6. Chained(t)' = Chained(t) /\ IsFiniteSet(PlacesIn(chain, t))'
    BY <2>1 DEF Chained, CountInv, Finite, PlacesIn
  <2>b. Behind(t) \in Nat
    BY Counts
  <2>7. Behind(t)' = Behind(t) + Unit(thread[w], t)
    BY <1>4, <2>2, <2>4, <2>5, <2>b
  <2>8. Held(t)' = Held(t) - Unit(thread[w], t)
    BY <2>2, <2>3, Counts
  <2> QED
    BY <1>2, <2>2, <2>5, <2>6, <2>7, <2>8, Counts, SumPrimed DEF Finite
<1>6. CASE BindCell(w, x)
  <2>1. /\ UNCHANGED thread /\ waiters' = [waiters EXCEPT ![x] = <<>>]
        /\ chain' = [chain EXCEPT ![w] = waiters[x]] /\ pc[w] # "resume"
    BY <1>6 DEF BindCell
  <2>2. Held(t)' = Held(t)
    BY <2>1 DEF Held, RunBy
  <2>3. Behind(t)' \in Nat /\ IsFiniteSet(PlacesIn(waiters, t))'
        /\ Behind(t)' + Cardinality(At(waiters[x], t)) = Behind(t) + Cardinality(At(<<>>, t))
    BY <1>3, <2>1, BehindSet
  <2>4. IsFiniteSet(PlacesIn(chain, t))'
        /\ Chained(t)' = Chained(t) + Cardinality(At(waiters[x], t))
    BY <1>3, <2>1, ChainedSet
  <2> QED
    BY <1>2, <1>3, <1>4, <2>2, <2>3, <2>4, Counts, SumPrimed DEF Finite
<1>7. CASE AliasCell(w, x, y)
  <2> DEFINE c == waiters[y] \o waiters[x]
             m == [waiters EXCEPT ![x] = <<>>]
  <2>1. UNCHANGED <<thread, chain>> /\ x # y /\ waiters' = [m EXCEPT ![y] = c]
    BY <1>3, <1>7 DEF AliasCell
  <2>2. m \in [Cells -> Seq(Threads)] /\ m[y] = waiters[y]
    BY <1>3, <2>1
  <2>3. c \in Seq(Threads)
        /\ Cardinality(At(c, t)) = Cardinality(At(waiters[y], t)) + Cardinality(At(waiters[x], t))
    BY <1>3, AtConcat, SeqTypes
  <2>4. IsFiniteSet(PlacesIn(waiters, t))
    BY DEF CountInv, Finite
  <2>5. Replaces(waiters, m, x, <<>>, t)
    BY <1>3, <2>4, PlacesSet
  <2> HIDE DEF c, m
  <2>a. IsFiniteSet(PlacesIn(m, t))
    BY <2>5 DEF Replaces
  <2>6. Replaces(m, waiters', y, c, t)
    BY <2>a, <2>1, <2>2, <2>3, PlacesSet
  <2>7. /\ Cardinality(PlacesIn(waiters', t)) = Cardinality(PlacesIn(waiters, t))
        /\ IsFiniteSet(PlacesIn(waiters', t))
    BY <1>3, <1>4, <2>2, <2>3, <2>5, <2>6 DEF Replaces
  <2>8. Behind(t)' = Behind(t) /\ IsFiniteSet(PlacesIn(waiters, t))'
    BY <2>7 DEF Behind, PlacesIn, At
  <2>9. /\ Held(t)' = Held(t) /\ Chained(t)' = Chained(t)
        /\ IsFiniteSet(PlacesIn(chain, t))'
    BY <2>1 DEF Held, RunBy, Chained, CountInv, Finite, PlacesIn
  <2> QED
    BY <1>2, <2>8, <2>9, Counts, SumPrimed DEF Finite
<1> QED
  BY <1>5, <1>6, <1>7

\* A thread is created: it is nowhere before and in one chain afterwards.
LEMMA CountSpawn ==
  ASSUME IInv, CountInv, NEW w \in Workers, NEW u \in Threads, Spawn(w, u)
  PROVE  CountInv'
<1>1. /\ UNCHANGED <<thread, queue, waiters, finished>> /\ born' = born \cup {u} /\ u \notin born
      /\ chain' = [chain EXCEPT ![w] = <<u>>] /\ <<u>> \in Seq(Threads) /\ pc[w] # "resume"
  BY SeqTypes DEF Spawn
<1>2. ASSUME NEW t \in Threads
      PROVE  PlaceCount(t)' = PlaceCount(t) + Unit(u, t) /\ PlaceCount(t) \in Nat /\ Finite(t)'
  <2>1. Held(t)' = Held(t) /\ InQueue(t)' = InQueue(t)
    BY <1>1 DEF Held, RunBy, InQueue, At
  <2>2. Behind(t)' = Behind(t) /\ IsFiniteSet(PlacesIn(waiters, t))'
    BY <1>1 DEF Behind, CountInv, Finite, PlacesIn
  <2>3. Chained(t)' = Chained(t) + Unit(u, t) /\ IsFiniteSet(PlacesIn(chain, t))'
    <3>1. Chained(t)' = Chained(t) + Cardinality(At(<<u>>, t)) /\ IsFiniteSet(PlacesIn(chain, t))'
      BY <1>1, ChainedSet
    <3> QED
      BY <3>1, AtSingle
  <2>4. Unit(u, t) \in Nat
    BY DEF Unit
  <2> QED
    BY <2>1, <2>2, <2>3, <2>4, Counts, SumPrimed DEF Finite
<1>3. ASSUME NEW t \in Threads PROVE PlaceCount(t)' = IF Alive(t)' THEN 1 ELSE 0
  <2>1. u \notin finished /\ PlaceCount(t) = IF Alive(t) THEN 1 ELSE 0
    BY <1>1 DEF CountInv, ThreadConservation
  <2> QED
    BY <1>1, <1>2, <2>1 DEF Alive, Unit
<1>4. (finished \subseteq born)'
  BY <1>1 DEF CountInv
<1> QED
  BY <1>2, <1>3, <1>4 DEF CountInv, ThreadConservation

LEMMA CountYield ==
  ASSUME IInv, CountInv, NEW w \in Workers, Yield(w)
  PROVE  CountInv'
<1>1. /\ UNCHANGED <<queue, waiters, born, finished>> /\ thread[w] \in Threads
      /\ thread' = [thread EXCEPT ![w] = NoThread] /\ pc[w] # "resume"
      /\ chain' = [chain EXCEPT ![w] = <<thread[w]>>]
  BY DEF IInv, HandsFree, Yield
<1> SUFFICES ASSUME NEW t \in Threads PROVE PlaceCount(t)' = PlaceCount(t) /\ Finite(t)'
  BY <1>1, Moved
<1>2. Unit(NoThread, t) = 0 /\ Unit(thread[w], t) \in Nat /\ <<thread[w]>> \in Seq(Threads)
  BY <1>1, SeqTypes, NamesAssumption DEF Unit
<1>3. Held(t)' \in Nat /\ Held(t)' + Unit(thread[w], t) = Held(t) + Unit(NoThread, t)
  BY <1>1, HeldSet
<1>4. InQueue(t)' = InQueue(t) /\ Behind(t)' = Behind(t) /\ IsFiniteSet(PlacesIn(waiters, t))'
  <2>1. InQueue(t)' = InQueue(t)
    BY <1>1 DEF InQueue, At
  <2>2. Behind(t)' = Behind(t) /\ IsFiniteSet(PlacesIn(waiters, t))'
    BY <1>1 DEF Behind, CountInv, Finite, PlacesIn
  <2> QED
    BY <2>1, <2>2
<1>5. Chained(t)' = Chained(t) + Unit(thread[w], t) /\ IsFiniteSet(PlacesIn(chain, t))'
  <2>1. /\ Chained(t)' = Chained(t) + Cardinality(At(<<thread[w]>>, t))
        /\ IsFiniteSet(PlacesIn(chain, t))'
    BY <1>1, <1>2, ChainedSet
  <2> QED
    BY <2>1, AtSingle
<1> QED
  BY <1>2, <1>3, <1>4, <1>5, Counts, SumPrimed DEF Finite

\* A thread ends: it was alive, as it was in a place, and is in none afterwards.
LEMMA CountEnd ==
  ASSUME IInv, CountInv, NEW w \in Workers, ExitThread(w) \/ Fail(w)
  PROVE  CountInv'
<1>1. /\ UNCHANGED <<queue, waiters, chain, born>> /\ thread[w] \in Threads
      /\ thread' = [thread EXCEPT ![w] = NoThread] /\ finished' = finished \cup {thread[w]}
  BY DEF IInv, HandsFree, ExitThread, Fail
<1>2. ASSUME NEW t \in Threads
      PROVE  /\ PlaceCount(t)' + Unit(thread[w], t) = PlaceCount(t) /\ PlaceCount(t)' \in Nat
             /\ thread[w] = t => PlaceCount(t) > 0
             /\ Finite(t)'
  <2>1. Unit(NoThread, t) = 0 /\ Unit(thread[w], t) \in Nat
    BY NamesAssumption DEF Unit
  <2>2. /\ Held(t)' \in Nat /\ Held(t)' + Unit(thread[w], t) = Held(t) + Unit(NoThread, t)
        /\ thread[w] = t => Held(t) > 0
    BY <1>1, HeldSet
  <2>3. InQueue(t)' = InQueue(t) /\ Behind(t)' = Behind(t) /\ Chained(t)' = Chained(t)
    BY <1>1 DEF InQueue, At, Behind, Chained, PlacesIn
  <2>4. Finite(t)'
    BY <1>1 DEF CountInv, Finite, PlacesIn
  <2> QED
    BY <2>1, <2>2, <2>3, <2>4, Counts, SumPrimed
<1>3. Alive(thread[w])
  BY <1>1, <1>2 DEF CountInv, ThreadConservation
<1>4. ASSUME NEW t \in Threads PROVE PlaceCount(t)' = IF Alive(t)' THEN 1 ELSE 0
  <2>1. PlaceCount(t) = IF Alive(t) THEN 1 ELSE 0
    BY DEF CountInv, ThreadConservation
  <2>2. CASE t = thread[w]
    BY <1>1, <1>2, <1>3, <2>1, <2>2 DEF Alive, Unit
  <2>3. CASE t # thread[w]
    BY <1>1, <1>2, <2>1, <2>3 DEF Alive, Unit
  <2> QED
    BY <2>2, <2>3
<1>5. (finished \subseteq born)'
  BY <1>1, <1>3 DEF CountInv, Alive
<1> QED
  BY <1>2, <1>4, <1>5 DEF CountInv, ThreadConservation

LEMMA CountFrame ==
  ASSUME CountInv, UNCHANGED <<thread, queue, waiters, chain, born, finished>>
  PROVE  CountInv'
BY DEF CountInv, Finite, ThreadConservation, PlaceCount, Alive, PlacesIn, At

LEMMA CountStep == IInv /\ CountInv /\ [Next]_vars => CountInv'
<1> SUFFICES ASSUME IInv, CountInv, [Next]_vars PROVE CountInv'
  OBVIOUS
<1>1. ASSUME NEW w \in Workers, ThreadGet(w) \/ HaltHandler(w) PROVE CountInv'
  <2>1. CASE TakeThread(w)
    BY <2>1, CountQueue
  <2>2. CASE ~TakeThread(w)
    <3>1. UNCHANGED <<thread, queue, waiters, chain, born, finished>>
      BY <1>1, <2>2 DEF ThreadGet, GetLock, LastOneOut, IdleWait, IdleWake, HaltHandler,
         EnterHalt, ParkWait, ParkWake, ParkReturn, ParkLeave
    <3> QED
      BY <3>1, CountFrame
  <2> QED
    BY <2>1, <2>2
<1>2. ASSUME NEW w \in Workers, Execute(w) \/ OutOfMemory(w) \/ Fail(w) PROVE CountInv'
  <2>1. CASE NoticeHalt(w)
    BY <2>1, CountFrame DEF NoticeHalt
  <2> QED
    BY <1>2, <2>1, CountQueue, CountCells, CountSpawn, CountYield, CountEnd DEF Execute, GiveUp
<1>3. CASE SupStep \/ EnvStep \/ UNCHANGED vars
  <2>1. UNCHANGED <<thread, queue, waiters, chain, born, finished>>
    BY <1>3 DEF SupStep, EnvStep, vars, SupervisorLoop, SupLock, SupWait, SupWake,
       SupBadCmd, SupTerminate, SupStartGC, SupEndGC, SupJoin, SupNoMemory, VmStop,
       SpuriousSupervisorWake, SpuriousWorkerWake
  <2> QED
    BY <2>1, CountFrame
<1> QED
  BY <1>1, <1>2, <1>3, StepCases

LEMMA CountInit == Init => CountInv
<1> SUFFICES ASSUME Init PROVE CountInv
  OBVIOUS
<1> SUFFICES ASSUME NEW t \in Threads
             PROVE  Finite(t) /\ PlaceCount(t) = IF Alive(t) THEN 1 ELSE 0
  BY DEF Init, CountInv, ThreadConservation
<1>1. RunBy(thread, t) = {}
  BY NamesAssumption DEF Init, RunBy
<1>2. PlacesIn(waiters, t) = {} /\ PlacesIn(chain, t) = {}
  BY DEF Init, PlacesIn, At
<1>3. Cardinality(At(queue, t)) = Unit(Main, t)
  BY AtSingle DEF Init
<1>4. Finite(t)
  BY <1>2, FS_EmptySet, Zenon DEF Finite
<1>5. Held(t) = 0 /\ Behind(t) = 0 /\ Chained(t) = 0
  BY <1>1, <1>2, FS_EmptySet, Zenon DEF Held, Behind, Chained
<1>6. PlaceCount(t) = Held(t) + InQueue(t) + Behind(t) + Chained(t)
  BY DEF PlaceCount, Held, InQueue, Behind, Chained, RunBy
<1>7. Alive(t) <=> Main = t
  BY DEF Init, Alive
<1> QED
  BY <1>3, <1>4, <1>5, <1>6, <1>7 DEF InQueue, Unit

(* A green thread that was created and has not ended is on one worker, or   *)
(* once in the queue, or once behind one cell, or once in one chain being   *)
(* resumed, and any other is nowhere: however blocking, binding, aliasing,  *)
(* yielding, running out of memory and stopping interleave, the links of    *)
(* vm_thread_resume and of the waiters lose no thread and none runs twice.  *)
THEOREM ThreadsConserved == Spec => []ThreadConservation
<1>1. CountInv => ThreadConservation
  BY DEF CountInv
<1>2. Spec => []IInv
  BY LockAlways, PTL
<1> QED
  BY <1>1, <1>2, CountInit, CountStep, PTL DEF Spec
===========================================================================

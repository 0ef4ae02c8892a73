------------------------- MODULE RefinementProofs -------------------------
(* The workers and the supervisor implement the abstract scheduler of green *)
(* threads, for any number of workers, threads and cells and any faults.    *)
(* Conservation gives every thread one state; each step of the code moves   *)
(* the threads as one step of the abstract scheduler, or not at all.        *)
EXTENDS SchedulerRefinement, VMSchedulerProofs

USE DEF schedVars, dataVars, WorkerVars, Goto, Acquire, Release, Drop, SupGoto,
        PCs, ActivePCs, LockedPCs, ThreadPCs, SupPCs

\* Nobody asks for a shutdown but a worker that finds nothing to run, and the
\* supervisor cannot die of a wake-up that no one sent.
Orderly == Faults \cap {"fail", "stop", "spurious"} = {}

Quiet == \A w \in Workers : pc[w] \in {"idle", "halt", "park", "parked", "done"}

\* From the order to terminate no worker gets a thread again: at the latest when
\* the supervisor joins them, and from the beginning if the program just ended.
OverInv ==
  /\ spc \in {"join", "returned"} => cmd = "TERMINATE" /\ Quiet
  /\ cmd = "TERMINATE" /\ Orderly => queue = <<>> /\ Quiet

RefInv ==
  /\ IInv /\ LockInv /\ RootInv /\ Located /\ CountInv /\ OverInv
  /\ "spurious" \notin Faults => SupReady

\* The last active worker leaves only workers that wait, or are gone.
LEMMA OnlyActive ==
  ASSUME IInv, idleCnt = 1, NEW w \in Workers, pc[w] \in ActivePCs
  PROVE  \A v \in Workers \ {w} : pc[v] \notin ActivePCs
<1>1. IsFiniteSet(Active) /\ Cardinality(Active) = 1 /\ w \in Active
  BY FS_Subset, WorkersAssumption DEF Active, IInv, ActiveCount
<1>2. \E v : Active = {v}
  BY <1>1, FS_Singleton
<1> QED
  BY <1>1, <1>2 DEF Active

LEMMA OverWorker ==
  ASSUME IInv, LockInv, OverInv, NEW w \in Workers,
         ThreadGet(w) \/ HaltHandler(w) \/ Execute(w) \/ OutOfMemory(w)
           \/ ("fail" \in Faults /\ Fail(w))
  PROVE  OverInv'
<1>1. UNCHANGED spc /\ pc \in [Workers -> PCs]
  BY DEF IInv, TypeOK, ThreadGet, GetLock, TakeThread, LastOneOut, IdleWait, IdleWake, HaltHandler,
     EnterHalt, ParkWait, ParkWake, ParkReturn, ParkLeave, Execute, GiveUp, ExitThread,
     Yield, BlockOn, BindCell, AliasCell, Spawn, Resume, NoticeHalt, ThreadHalt,
     OutOfMemory, Fail
<1>2. CASE LastOneOut(w)
  <2>1. \A v \in Workers \ {w} : pc[v] \notin ActivePCs
    BY <1>2, OnlyActive DEF LastOneOut
  <2>2. Quiet'
    BY <1>1, <1>2, <2>1 DEF LastOneOut, Quiet
  <2> QED
    BY <1>1, <1>2, <2>2 DEF OverInv, LastOneOut, Terminate
<1>3. CASE "fail" \in Faults /\ Fail(w)
  <2>1. pc[w] = "run" /\ cmd' = "TERMINATE"
    BY <1>3 DEF Fail, Terminate
  <2> QED
    BY <1>1, <1>3, <2>1 DEF OverInv, Orderly, Quiet
<1>4. CASE Quiet /\ cmd = "TERMINATE"
  <2>1. halt
    BY <1>4 DEF LockInv, HaltMeansCmd
  <2>2. \/ IdleWake(w) \/ EnterHalt(w) \/ ParkWait(w) \/ ParkWake(w) \/ ParkReturn(w)
        \/ LastOneOut(w) \/ \E x, y \in Cells : AliasCell(w, x, y)
    BY <1>3, <1>4, <2>1 DEF Quiet, ThreadGet, GetLock, TakeThread, IdleWait,
       HaltHandler, ParkLeave, Execute, GiveUp, ExitThread, Yield, BlockOn, BindCell, Spawn,
       Resume, NoticeHalt, ThreadHalt, OutOfMemory, Fail
  <2>3. IdleWake(w) \/ EnterHalt(w) \/ ParkWait(w) \/ ParkWake(w) \/ ParkReturn(w)
        => Quiet' /\ cmd' = cmd /\ queue' = queue
    BY <1>1, <1>4, <2>1 DEF Quiet, IdleWake, EnterHalt, ParkWait, ParkWake, ParkReturn
  <2>4. ~\E x, y \in Cells : AliasCell(w, x, y)
    BY <1>4 DEF Quiet, AliasCell
  <2> QED
    BY <1>1, <1>2, <1>4, <2>2, <2>3, <2>4 DEF OverInv
<1>5. CASE cmd # "TERMINATE" /\ ~LastOneOut(w) /\ ~("fail" \in Faults /\ Fail(w))
  <2>1. cmd' # "TERMINATE"
    BY <1>5 DEF ThreadGet, GetLock, TakeThread, IdleWait, IdleWake, HaltHandler,
       EnterHalt, ParkWait, ParkWake, ParkReturn, ParkLeave, Execute, GiveUp, ExitThread,
       Yield, BlockOn, BindCell, AliasCell, Spawn, Resume, NoticeHalt, ThreadHalt, OutOfMemory
  <2> QED
    BY <1>1, <1>5, <2>1 DEF OverInv
<1>6. CASE ~Quiet
  <2>1. spc \notin {"join", "returned"} /\ (cmd = "TERMINATE" => ~Orderly)
    BY <1>6 DEF OverInv
  <2>2. CASE ~Orderly
    BY <1>1, <2>1, <2>2 DEF OverInv, Orderly
  <2>3. CASE Orderly
    BY <1>1, <1>2, <1>3, <1>5, <2>1, <2>3
  <2> QED
    BY <2>2, <2>3
<1> QED
  BY <1>2, <1>3, <1>4, <1>5, <1>6

LEMMA OverOthers ==
  ASSUME IInv, LockInv, RootInv, OverInv,
         SupStep \/ ("stop" \in Faults /\ VmStop) \/ SpuriousSupervisorWake
           \/ (\E w \in Workers : SpuriousWorkerWake(w)) \/ UNCHANGED vars
  PROVE  OverInv'
<1>1. UNCHANGED <<pc, queue>>
  BY DEF SupStep, vars, SupervisorLoop, SupLock, SupWait, SupWake, SupBadCmd,
     SupTerminate, SupStartGC, SupEndGC, SupJoin, SupNoMemory, VmStop,
     SpuriousSupervisorWake, SpuriousWorkerWake
<1>2. CASE SupTerminate
  <2>1. idleCnt = 0
    BY <1>2 DEF SupTerminate, IInv, TypeOK
  <2>2. \A w \in Workers : pc[w] \notin ActivePCs /\ pc[w] \in PCs
    BY <2>1, NoneActive DEF IInv, TypeOK
  <2>3. Quiet
    BY <2>2 DEF Quiet
  <2> QED
    BY <1>1, <1>2, <2>3 DEF OverInv, SupTerminate, Quiet
<1>3. CASE "stop" \in Faults /\ VmStop
  BY <1>1, <1>3 DEF OverInv, Orderly, VmStop, Terminate, Quiet
<1>4. CASE SupEndGC
  BY <1>1, <1>4 DEF OverInv, SupEndGC
<1>5. CASE UNCHANGED cmd /\ ~SupTerminate
  <2>1. spc' \in {"join", "returned"} => spc \in {"join", "returned"}
    BY <1>5 DEF SupStep, vars, SupervisorLoop, SupLock, SupWait, SupWake, SupBadCmd,
       SupStartGC, SupEndGC, SupJoin, SupNoMemory, VmStop,
       SpuriousSupervisorWake, SpuriousWorkerWake
  <2> QED
    BY <1>1, <1>5, <2>1 DEF OverInv, Quiet
<1> QED
  BY <1>2, <1>3, <1>4, <1>5 DEF SupStep, vars, SupervisorLoop, SupLock, SupWait, SupWake, SupBadCmd,
     SupStartGC, SupJoin, SupNoMemory, SpuriousSupervisorWake, SpuriousWorkerWake

\* Every step that may change something, with the faults that allow it.
LEMMA StepsAllowed ==
  ASSUME [Next]_vars
  PROVE  \/ spc # "fatal" /\ \E w \in Workers :
              \/ ThreadGet(w) \/ HaltHandler(w) \/ Execute(w) \/ OutOfMemory(w)
              \/ "fail" \in Faults /\ Fail(w)
         \/ SupStep
         \/ "stop" \in Faults /\ VmStop
         \/ "spurious" \in Faults /\ SpuriousSupervisorWake
         \/ "spurious" \in Faults /\ \E w \in Workers : SpuriousWorkerWake(w)
         \/ UNCHANGED vars
BY DEF Next, Step, Ended, WorkerStep, WorkerFault, SupStep

LEMMA RefInvariant == Spec => []RefInv
<1>1. Init => OverInv /\ SupReady
  <2>1. Cardinality(Workers) # 0
    BY WorkersAssumption, FS_EmptySet
  <2> QED
    BY <2>1 DEF Init, OverInv, SupReady
<1>2. IInv /\ LockInv /\ RootInv /\ OverInv /\ [Next]_vars => OverInv'
  BY StepsAllowed, OverWorker, OverOthers
<1>3. ASSUME "spurious" \notin Faults
      PROVE  IInv /\ LockInv /\ SupReady /\ [Next]_vars => SupReady'
  BY <1>3, StepCasesNoSpurious, ReadyWorker, ReadySupervisor
<1>4. Init => Located /\ RootInv
  BY MainAssumption DEF Init, Located, Alive, Queued, Within, RootInv
<1>5. Init => RefInv
  BY <1>1, <1>4, TypeInit, LockInit, CountInit DEF RefInv, IInv
<1>6. RefInv /\ [Next]_vars => RefInv'
  <2> SUFFICES ASSUME RefInv, [Next]_vars PROVE RefInv'
    OBVIOUS
  <2>1. IInv' /\ LockInv'
    BY StepCases, TypeThreadGet, TypeHaltHandler, TypeExecute, TypeOthers,
       LockThreadGet, LockHaltHandler, LockExecute, LockOthers DEF RefInv
  <2>2. RootInv'
    BY StepCases, RootWorker, RootOthers DEF RefInv
  <2>3. Located' /\ CountInv' /\ OverInv'
    BY <1>2, LocatedStep, CountStep DEF RefInv
  <2> QED
    BY <1>3, <2>1, <2>2, <2>3 DEF RefInv
<1> QED
  BY <1>5, <1>6, PTL DEF Spec
-----------------------------------------------------------------------------
(* The state of a thread, from the places it is in.                        *)

\* A thread runs when a worker holds it and is blocked when a cell's list has it.
Placed(t) ==
  /\ Held(t) \in Nat /\ InQueue(t) \in Nat /\ Behind(t) \in Nat /\ Chained(t) \in Nat
  /\ Held(t) + InQueue(t) + Behind(t) + Chained(t) = IF Alive(t) THEN 1 ELSE 0
  /\ Running(t) <=> Held(t) > 0
  /\ Blocked(t) <=> Behind(t) > 0
  /\ Queued(t) <=> InQueue(t) > 0

LEMMA SomeElement ==
  ASSUME NEW A, IsFiniteSet(A)
  PROVE  Cardinality(A) \in Nat /\ (Cardinality(A) > 0 <=> A # {})
<1>1. Cardinality(A) \in Nat /\ (Cardinality(A) = 0 <=> A = {})
  BY FS_CardinalityType, FS_EmptySet
<1> QED
  BY <1>1

LEMMA PlacedAlways == IInv /\ CountInv => \A t \in Threads : Placed(t)
<1> SUFFICES ASSUME IInv, CountInv, NEW t \in Threads PROVE Placed(t)
  OBVIOUS
<1>1. /\ Held(t) \in Nat /\ InQueue(t) \in Nat /\ Behind(t) \in Nat /\ Chained(t) \in Nat
      /\ Held(t) + InQueue(t) + Behind(t) + Chained(t) = IF Alive(t) THEN 1 ELSE 0
  BY Counts DEF CountInv, ThreadConservation
<1>2. Running(t) <=> Held(t) > 0
  <2>1. IsFiniteSet(RunBy(thread, t)) /\ (Running(t) <=> RunBy(thread, t) # {})
    BY WorkersAssumption, FS_Subset DEF RunBy, Running
  <2> QED
    BY <2>1, SomeElement DEF Held
<1>3. Blocked(t) <=> Behind(t) > 0
  <2>1. IsFiniteSet(PlacesIn(waiters, t)) /\ DOMAIN waiters = Cells
    BY DEF CountInv, Finite, IInv, TypeOK
  <2>2. Blocked(t) <=> PlacesIn(waiters, t) # {}
    <3>1. Blocked(t) <=> \E x \in Cells : At(waiters[x], t) # {}
      BY DEF Blocked, Within, At
    <3>2. PlacesIn(waiters, t) # {} <=> \E x \in Cells : At(waiters[x], t) # {}
      <4>1. \A x \in Cells : {x} \X At(waiters[x], t) # {} <=> At(waiters[x], t) # {}
        <5> SUFFICES ASSUME NEW x \in Cells, NEW S, S = At(waiters[x], t)
                     PROVE  {x} \X S # {} <=> S # {}
          OBVIOUS
        <5>1. \A e \in S : <<x, e>> \in {x} \X S
          OBVIOUS
        <5>2. S = {} => {x} \X S = {}
          OBVIOUS
        <5> QED
          BY <5>1, <5>2
      <4> QED
        BY <2>1, <4>1 DEF PlacesIn
    <3> QED
      BY <3>1, <3>2
  <2> QED
    BY <2>1, <2>2, SomeElement DEF Behind
<1>4. Queued(t) <=> InQueue(t) > 0
  <2>1. IsFiniteSet(At(queue, t))
    BY AtFinite DEF IInv, TypeOK
  <2>2. Queued(t) <=> At(queue, t) # {}
    BY DEF Queued, Within, At
  <2> QED
    BY <2>1, <2>2, SomeElement DEF InQueue
<1> QED
  BY <1>1, <1>2, <1>3, <1>4 DEF Placed

LEMMA PlacedNext == (IInv /\ CountInv => \A t \in Threads : Placed(t))'
BY PlacedAlways, PTL

\* What each state of the abstract scheduler means.
States(t) ==
  /\ ThreadState(t) = "running" <=> Running(t)
  /\ ThreadState(t) = "blocked" <=> Blocked(t)
  /\ ThreadState(t) = "ready" <=> Alive(t) /\ ~Running(t) /\ ~Blocked(t)
  /\ ThreadState(t) = "new" <=> t \notin born
  /\ ThreadState(t) = "done" <=> t \in finished
  /\ Running(t) => Alive(t) /\ ~Blocked(t) /\ ~Queued(t)
  /\ Blocked(t) => Alive(t) /\ ~Running(t) /\ ~Queued(t)
  /\ Queued(t) => Alive(t) /\ ~Running(t) /\ ~Blocked(t)

LEMMA StateFacts == IInv /\ CountInv => \A t \in Threads : States(t)
<1> SUFFICES ASSUME IInv, CountInv, NEW t \in Threads PROVE States(t)
  OBVIOUS
<1>1. Placed(t) /\ (t \in finished => t \in born)
  BY PlacedAlways DEF CountInv
<1>2. /\ Running(t) => Alive(t) /\ ~Blocked(t) /\ ~Queued(t)
      /\ Blocked(t) => Alive(t) /\ ~Running(t) /\ ~Queued(t)
      /\ Queued(t) => Alive(t) /\ ~Running(t) /\ ~Blocked(t)
  BY <1>1 DEF Placed
<1> QED
  BY <1>1, <1>2 DEF States, ThreadState, Alive

LEMMA StateFactsNext == (IInv /\ CountInv => \A t \in Threads : States(t))'
BY StateFacts, PTL

\* A step that touches no list and no worker of a thread leaves it where it is.
LEMMA StateFrame ==
  ASSUME UNCHANGED <<thread, waiters, born, finished>>
  PROVE  [t \in Threads |-> ThreadState(t)]' = [t \in Threads |-> ThreadState(t)]
<1>1. ASSUME NEW t \in Threads
      PROVE  /\ Running(t)' <=> Running(t)
             /\ Blocked(t)' <=> Blocked(t)
  BY DEF Running, Blocked, Within
<1>2. ASSUME NEW t \in Threads PROVE ThreadState(t)' = ThreadState(t)
  BY <1>1 DEF ThreadState
<1> QED
  BY <1>2

\* One thread moves.
Moves(t, from, to) ==
  /\ ThreadState(t) = from /\ ThreadState(t)' = to
  /\ \A u \in Threads \ {t} : ThreadState(u)' = ThreadState(u)

LEMMA AbstractMove ==
  ASSUME NEW t \in Threads, NEW from, NEW to, Moves(t, from, to)
  PROVE  Abstract!Move(t, from, to)
<1> DEFINE st == [u \in Threads |-> ThreadState(u)]
<1>1. ThreadState(t) = from /\ ThreadState(t)' = to
      /\ \A u \in Threads \ {t} : ThreadState(u)' = ThreadState(u)
  BY DEF Moves
<1>2. st[t] = from /\ st' = [st EXCEPT ![t] = to]
  BY <1>1
<1> QED
  BY <1>2 DEF Abstract!Move

\* A worker gives its thread up.
LEMMA DropFacts ==
  ASSUME IInv, CountInv, IInv', CountInv', NEW w \in Workers, pc[w] \in ThreadPCs, Drop(w),
         NEW t, t = thread[w]
  PROVE  /\ t \in Threads /\ Alive(t) /\ ThreadState(t) = "running"
         /\ ~Blocked(t) /\ ~Running(t)'
         /\ \A u \in Threads \ {t} : Running(u)' <=> Running(u)
<1>1. t \in Threads /\ Running(t)
  BY DEF IInv, HandsFree, Running
<1>2. Alive(t) /\ ThreadState(t) = "running" /\ ~Blocked(t)
  BY <1>1, StateFacts DEF States
<1>3. thread' = [thread EXCEPT ![w] = NoThread] /\ thread \in [Workers -> Threads \cup {NoThread}]
  BY DEF IInv, TypeOK
<1>4. \A u \in Threads \ {t} : Running(u)' <=> Running(u)
  BY <1>3, NamesAssumption DEF Running
<1>5. ~Running(t)'
  <2>1. Held(t)' + Unit(thread[w], t) = Held(t) + Unit(NoThread, t)
    <3>1. NoThread \in Threads \cup {NoThread}
      OBVIOUS
    <3> QED
      BY <1>1, <1>3, <3>1, HeldSet
  <2>2. Placed(t) /\ Placed(t)'
    BY <1>1, PlacedAlways, PlacedNext
  <2>3. Unit(thread[w], t) = 1 /\ Unit(NoThread, t) = 0
    BY <1>1, NamesAssumption DEF Unit
  <2> QED
    BY <2>1, <2>2, <2>3 DEF Placed
<1> QED
  BY <1>1, <1>2, <1>4, <1>5

-----------------------------------------------------------------------------
(* The steps that move one thread.                                         *)

\* The module of the abstract scheduler has its own name for Cardinality.
LEMMA SameCardinality == \A S : Abstract!Cardinality(S) = Cardinality(S)
BY DEF Abstract!Cardinality, Cardinality

\* A worker without a thread leaves room for one more.
LEMMA RoomToRun ==
  ASSUME IInv, CountInv, NEW w \in Workers, thread[w] = NoThread
  PROVE  Cardinality(Abstract!In("running")) < Cardinality(Workers)
<1> DEFINE R == {t \in Threads : Running(t)}
           f == [t \in R |-> CHOOSE v \in Workers : thread[v] = t]
<1>1. Abstract!In("running") = R
  BY StateFacts DEF Abstract!In, States
<1>2. ASSUME NEW t \in R PROVE f[t] \in Workers \ {w} /\ thread[f[t]] = t
  BY NamesAssumption DEF Running
<1>3. f \in Injection(R, Workers \ {w})
  BY <1>2, Fun_IsInj
<1>4. /\ IsFiniteSet(Workers \ {w}) /\ Cardinality(Workers \ {w}) = Cardinality(Workers) - 1
      /\ Cardinality(Workers) \in Nat
  BY WorkersAssumption, FS_RemoveElement, FS_CardinalityType
<1> HIDE DEF R, f
<1>5. IsFiniteSet(R) /\ Cardinality(R) <= Cardinality(Workers \ {w})
  BY <1>3, <1>4, FS_Injection
<1>6. Cardinality(R) \in Nat
  BY <1>5, FS_CardinalityType
<1> QED
  BY <1>1, <1>4, <1>5, <1>6

LEMMA MapDispatch ==
  ASSUME IInv, CountInv, IInv', CountInv', NEW w \in Workers, TakeThread(w)
  PROVE  \E t \in Threads : Abstract!Dispatch(t)
<1>t. PICK t : t = Head(queue)
  OBVIOUS
<1>1. /\ t \in Threads /\ Queued(t) /\ thread[w] = NoThread
      /\ thread' = [thread EXCEPT ![w] = t] /\ UNCHANGED <<waiters, born, finished>>
      /\ thread \in [Workers -> Threads \cup {NoThread}]
  <2>1. queue \in Seq(Threads) /\ queue # <<>>
    BY DEF IInv, TypeOK, TakeThread
  <2>2. t \in Threads /\ t = queue[1] /\ 1 \in 1 .. Len(queue)
    BY <2>1, <1>t
  <2> QED
    BY <1>t, <2>2 DEF IInv, TypeOK, HandsFree, TakeThread, Queued, Within
<1>2. ThreadState(t) = "ready"
  BY <1>1, StateFacts DEF States
<1>3. Running(t)'
  BY <1>1 DEF Running
<1>4. ThreadState(t)' = "running"
  BY <1>1, <1>3, StateFactsNext DEF States
<1>5. ASSUME NEW u \in Threads \ {t} PROVE ThreadState(u)' = ThreadState(u)
  <2>1. Running(u)' <=> Running(u)
    BY <1>1, NamesAssumption DEF Running
  <2>2. Blocked(u)' <=> Blocked(u)
    BY <1>1 DEF Blocked, Within
  <2> QED
    BY <1>1, <2>1, <2>2 DEF ThreadState
<1>6. Abstract!Move(t, "ready", "running")
  BY <1>1, <1>2, <1>4, <1>5, AbstractMove DEF Moves
<1> QED
  BY <1>1, <1>6, RoomToRun, SameCardinality DEF Abstract!Dispatch

\* A thread that is created waits in a chain.
LEMMA MapSpawn ==
  ASSUME IInv, CountInv, IInv', CountInv', NEW w \in Workers, NEW t \in Threads, Spawn(w, t)
  PROVE  Abstract!Create(t)
<1>1. /\ t \notin born /\ t \notin finished /\ born' = born \cup {t}
      /\ UNCHANGED <<thread, waiters, finished>> /\ pc[w] = "run"
  BY DEF Spawn, CountInv
<1>2. ASSUME NEW u \in Threads
      PROVE  /\ Running(u)' <=> Running(u)
             /\ Blocked(u)' <=> Blocked(u)
  BY <1>1 DEF Running, Blocked, Within
<1>3. ThreadState(t) = "new" /\ ThreadState(t)' = "ready"
  <2>1. ~Running(t) /\ ~Blocked(t)
    BY <1>1, StateFacts DEF States, Alive
  <2>2. ThreadState(t) = "new"
    BY <1>1, StateFacts DEF States
  <2>3. t \in born' /\ t \notin finished' /\ ~Running(t)' /\ ~Blocked(t)'
    BY <1>1, <1>2, <2>1
  <2> QED
    BY <2>2, <2>3 DEF ThreadState
<1>4. ASSUME NEW u \in Threads \ {t} PROVE ThreadState(u)' = ThreadState(u)
  BY <1>1, <1>2 DEF ThreadState
<1>5. Abstract!Move(t, "new", "ready")
  BY <1>3, <1>4, AbstractMove DEF Moves
<1>6. Abstract!In("running") # {}
  <2>1. thread[w] \in Threads /\ Running(thread[w])
    BY <1>1 DEF IInv, HandsFree, Running
  <2>2. ThreadState(thread[w]) = "running"
    BY <2>1, StateFacts DEF States
  <2> QED
    BY <2>1, <2>2 DEF Abstract!In
<1> QED
  BY <1>5, <1>6 DEF Abstract!Create

\* A thread that gives its worker up is ready, blocked or done afterwards.
LEMMA MapGiveUp ==
  ASSUME IInv, CountInv, IInv', CountInv', NEW w \in Workers,
         \/ Yield(w) \/ ThreadHalt(w) \/ OutOfMemory(w) \/ ExitThread(w) \/ Fail(w)
         \/ \E x \in Cells : BlockOn(w, x)
  PROVE  \E t \in Threads : Abstract!Requeue(t) \/ Abstract!Block(t) \/ Abstract!Finish(t)
<1>t. PICK t : t = thread[w]
  OBVIOUS
<1>1. /\ t \in Threads /\ Alive(t) /\ ThreadState(t) = "running"
      /\ ~Blocked(t) /\ ~Running(t)'
      /\ \A u \in Threads \ {t} : Running(u)' <=> Running(u)
  BY <1>t, DropFacts DEF Yield, ThreadHalt, OutOfMemory, BlockOn, ExitThread, Fail
<1>2. UNCHANGED born
  BY DEF Yield, ThreadHalt, OutOfMemory, BlockOn, ExitThread, Fail
<1>3. CASE Yield(w) \/ ThreadHalt(w) \/ OutOfMemory(w)
  <2>1. UNCHANGED <<waiters, finished>>
    BY <1>3 DEF Yield, ThreadHalt, OutOfMemory
  <2>2. \A u \in Threads : Blocked(u)' <=> Blocked(u)
    BY <2>1 DEF Blocked, Within
  <2>3. ThreadState(t)' = "ready"
    BY <1>1, <1>2, <2>1, <2>2 DEF ThreadState, Alive
  <2>4. \A u \in Threads \ {t} : ThreadState(u)' = ThreadState(u)
    BY <1>1, <1>2, <2>1, <2>2 DEF ThreadState
  <2>5. Abstract!Move(t, "running", "ready")
    BY <1>1, <2>3, <2>4, AbstractMove DEF Moves
  <2> QED
    BY <1>1, <2>5 DEF Abstract!Requeue
<1>4. ASSUME NEW x \in Cells, BlockOn(w, x)
      PROVE  Abstract!Block(t)
  <2>1. /\ UNCHANGED finished /\ waiters \in [Cells -> Seq(Threads)]
        /\ waiters' = [waiters EXCEPT ![x] = Append(waiters[x], t)]
    BY <1>4, <1>t DEF BlockOn, IInv, TypeOK
  <2>2. \A u \in Threads : Within(u, Append(waiters[x], t)) <=> Within(u, waiters[x]) \/ u = t
    <3> SUFFICES ASSUME NEW u \in Threads
                 PROVE  Within(u, Append(waiters[x], t)) <=> Within(u, waiters[x]) \/ u = t
      OBVIOUS
    <3>1. waiters[x] \in Seq(Threads)
      BY <1>4, <2>1
    <3> QED
      BY <1>1, <3>1, WithinFacts
  <2>3. /\ \A u \in Threads : Within(u, waiters'[x]) <=> Within(u, waiters[x]) \/ u = t
        /\ \A y \in Cells \ {x} : waiters'[y] = waiters[y]
    BY <1>4, <2>1, <2>2
  <2>4. \A u \in Threads \ {t} : Blocked(u)' <=> Blocked(u)
    BY <1>4, <2>3 DEF Blocked, Within
  <2>5. Blocked(t)'
    BY <1>1, <1>4, <2>3 DEF Blocked, Within
  <2>6. ThreadState(t)' = "blocked"
    BY <1>1, <2>5, StateFactsNext DEF States
  <2>7. \A u \in Threads \ {t} : ThreadState(u)' = ThreadState(u)
    BY <1>1, <1>2, <2>1, <2>4 DEF ThreadState
  <2>8. Abstract!Move(t, "running", "blocked")
    BY <1>1, <2>6, <2>7, AbstractMove DEF Moves
  <2> QED
    BY <1>1, <2>8 DEF Abstract!Block
<1>5. CASE ExitThread(w) \/ Fail(w)
  <2>1. UNCHANGED waiters /\ finished' = finished \cup {t}
    BY <1>5, <1>t DEF ExitThread, Fail
  <2>2. \A u \in Threads : Blocked(u)' <=> Blocked(u)
    BY <2>1 DEF Blocked, Within
  <2>3. ThreadState(t)' = "done"
    BY <1>1, <2>1, StateFactsNext DEF States
  <2>4. \A u \in Threads \ {t} : ThreadState(u)' = ThreadState(u)
    BY <1>1, <1>2, <2>1, <2>2 DEF ThreadState
  <2>5. Abstract!Move(t, "running", "done")
    BY <1>1, <2>3, <2>4, AbstractMove DEF Moves
  <2> QED
    BY <1>1, <2>5 DEF Abstract!Finish
<1> QED
  BY <1>1, <1>3, <1>4, <1>5

\* Binding a cell wakes everyone behind it, or no one.
LEMMA MapWake ==
  ASSUME IInv, CountInv, IInv', CountInv', NEW w \in Workers, NEW x \in Cells, BindCell(w, x)
  PROVE  \/ \E S \in SUBSET Threads : Abstract!Wake(S)
         \/ UNCHANGED [t \in Threads |-> ThreadState(t)]
<1>1. /\ UNCHANGED <<thread, born, finished>> /\ pc[w] = "run"
      /\ waiters' = [waiters EXCEPT ![x] = <<>>] /\ waiters \in [Cells -> Seq(Threads)]
  BY DEF BindCell, IInv, TypeOK
<1>2. CASE waiters[x] = <<>>
  <2>1. UNCHANGED waiters
    BY <1>1, <1>2
  <2> QED
    BY <1>1, <2>1, StateFrame
<1>3. CASE waiters[x] # <<>>
  <2> DEFINE S == {t \in Threads : Within(t, waiters[x])}
  <2>1. S # {} /\ \A t \in S : Blocked(t)
    <3>1. waiters[x] \in Seq(Threads) /\ 1 \in 1 .. Len(waiters[x])
      BY <1>1, <1>3
    <3>2. waiters[x][1] \in S
      BY <3>1 DEF Within
    <3> QED
      BY <3>2 DEF Blocked
  <2>2. \A t \in Threads : Running(t)' <=> Running(t)
    BY <1>1 DEF Running
  <2>3. ASSUME NEW t \in Threads \ S PROVE ThreadState(t)' = ThreadState(t)
    <3>1. ~Within(t, waiters[x])
      OBVIOUS
    <3>2. /\ ~Within(t, waiters'[x])
          /\ \A y \in Cells \ {x} : waiters'[y] = waiters[y]
      BY <1>1 DEF Within
    <3>3. Blocked(t)' <=> Blocked(t)
      BY <3>1, <3>2 DEF Blocked, Within
    <3> QED
      BY <1>1, <2>2, <3>3 DEF ThreadState
  <2>4. ASSUME NEW t \in S PROVE ThreadState(t)' = "ready"
    <3>1. Blocked(t) /\ Alive(t) /\ ~Running(t)
      BY <2>1, StateFacts DEF States
    <3>2. Behind(t)' + Cardinality(At(waiters[x], t)) = Behind(t) + Cardinality(At(<<>>, t))
      BY <1>1, EmptyList, BehindSet
    <3>3. Cardinality(At(waiters[x], t)) \in Nat /\ Cardinality(At(waiters[x], t)) > 0
      <4>1. IsFiniteSet(At(waiters[x], t)) /\ At(waiters[x], t) # {}
        BY <1>1, AtFinite DEF Within, At
      <4> QED
        BY <4>1, SomeElement
    <3>4. Placed(t) /\ Placed(t)'
      BY PlacedAlways, PlacedNext
    <3>5. Behind(t) <= 1
      BY <3>4 DEF Placed
    <3>6. ~Blocked(t)'
      BY <3>2, <3>3, <3>4, <3>5, EmptyList DEF Placed
    <3> QED
      BY <1>1, <2>2, <3>1, <3>6, StateFactsNext DEF States, Alive
  <2>5. Abstract!In("running") # {}
    <3>1. thread[w] \in Threads /\ Running(thread[w])
      BY <1>1 DEF IInv, HandsFree, Running
    <3>2. ThreadState(thread[w]) = "running"
      BY <3>1, StateFacts DEF States
    <3> QED
      BY <3>1, <3>2 DEF Abstract!In
  <2>6. S \subseteq Abstract!In("blocked")
    BY <2>1, StateFacts DEF States, Abstract!In
  <2> HIDE DEF S
  <2>7. [t \in Threads |-> ThreadState(t)]'
          = [t \in Threads |-> IF t \in S THEN "ready" ELSE [u \in Threads |-> ThreadState(u)][t]]
    BY <2>3, <2>4
  <2>8. Abstract!Wake(S)
    BY <2>1, <2>5, <2>6, <2>7 DEF Abstract!Wake
  <2> QED
    BY <2>8 DEF S
<1> QED
  BY <1>2, <1>3

\* A cell bound to a cell hands its waiters on.
LEMMA MapAlias ==
  ASSUME IInv, NEW w \in Workers, NEW x \in Cells, NEW y \in Cells, AliasCell(w, x, y)
  PROVE  UNCHANGED [t \in Threads |-> ThreadState(t)]
<1>1. /\ UNCHANGED <<thread, born, finished>> /\ x # y /\ waiters \in [Cells -> Seq(Threads)]
      /\ waiters' = [waiters EXCEPT ![x] = <<>>, ![y] = waiters[y] \o waiters[x]]
  BY DEF AliasCell, IInv, TypeOK
<1>2. /\ waiters'[x] = <<>> /\ waiters'[y] = waiters[y] \o waiters[x]
      /\ \A z \in Cells \ {x, y} : waiters'[z] = waiters[z]
  BY <1>1
<1>3. ASSUME NEW t \in Threads PROVE Blocked(t)' <=> Blocked(t)
  <2>1. Within(t, waiters'[y]) <=> Within(t, waiters[y]) \/ Within(t, waiters[x])
    BY <1>1, <1>2, WithinFacts
  <2>2. ~Within(t, waiters'[x])
    BY <1>2 DEF Within
  <2>3. Blocked(t)' <=> \E z \in Cells : Within(t, waiters'[z])
    BY DEF Blocked, Within
  <2> QED
    BY <1>2, <2>1, <2>2, <2>3 DEF Blocked, Within
<1>4. ASSUME NEW t \in Threads PROVE ThreadState(t)' = ThreadState(t)
  <2>1. Running(t)' <=> Running(t)
    BY <1>1 DEF Running
  <2> QED
    BY <1>1, <1>3, <2>1 DEF ThreadState
<1> QED
  BY <1>4

-----------------------------------------------------------------------------
(* The machine.                                                            *)

StateMap == [t \in Threads |-> ThreadState(t)]

\* A worker takes or has a thread only while the machine is on.
LEMMA MachineOn ==
  ASSUME RefInv, spc # "fatal", NEW w \in Workers, pc[w] \in {"scan", "run", "stopping"}
  PROVE  Machine = "on"
<1>1. spc # "gc"
  BY NoneActive DEF RefInv, LockInv, GCQuiet
<1>2. spc \notin {"join", "returned"}
  BY DEF RefInv, OverInv, Quiet
<1> QED
  BY <1>1, <1>2 DEF Machine

LEMMA MapWorker ==
  ASSUME RefInv, RefInv', spc # "fatal", NEW w \in Workers,
         ThreadGet(w) \/ HaltHandler(w) \/ Execute(w) \/ OutOfMemory(w) \/ Fail(w)
  PROVE  [Abstract!Next]_(Abstract!vars)
<1>1. Machine' = Machine
  <2>1. UNCHANGED spc
    BY DEF ThreadGet, GetLock, TakeThread, LastOneOut, IdleWait, IdleWake, HaltHandler,
       EnterHalt, ParkWait, ParkWake, ParkReturn, ParkLeave, Execute, GiveUp, ExitThread,
       Yield, BlockOn, BindCell, AliasCell, Spawn, Resume, NoticeHalt, ThreadHalt,
       OutOfMemory, Fail
  <2> QED
    BY <2>1 DEF Machine
<1>2. IInv /\ CountInv /\ IInv' /\ CountInv'
  BY DEF RefInv
<1>3. CASE StateMap' = StateMap
  BY <1>1, <1>3 DEF Abstract!vars, StateMap
<1>4. CASE Abstract!ThreadStep
  BY <1>4 DEF Abstract!Next
<1>5. ASSUME pc[w] \in {"scan", "run", "stopping"},
             \/ \E t \in Threads : \/ Abstract!Dispatch(t) \/ Abstract!Create(t) \/ Abstract!Requeue(t)
                                  \/ Abstract!Block(t) \/ Abstract!Finish(t)
             \/ \E S \in SUBSET Threads : Abstract!Wake(S)
      PROVE  Abstract!ThreadStep
  BY <1>1, <1>5, MachineOn DEF Abstract!ThreadStep
<1>6. CASE TakeThread(w)
  BY <1>2, <1>4, <1>5, <1>6, MapDispatch DEF TakeThread
<1>7. ASSUME NEW t \in Threads, Spawn(w, t) PROVE Abstract!ThreadStep
  BY <1>2, <1>5, <1>7, MapSpawn DEF Spawn
<1>8. ASSUME NEW x \in Cells, BlockOn(w, x) PROVE Abstract!ThreadStep
  <2>1. \E t \in Threads : Abstract!Requeue(t) \/ Abstract!Block(t) \/ Abstract!Finish(t)
    BY <1>2, <1>8, MapGiveUp
  <2> QED
    BY <1>5, <1>8, <2>1 DEF BlockOn
<1>9. CASE Yield(w) \/ ThreadHalt(w) \/ OutOfMemory(w) \/ ExitThread(w) \/ Fail(w)
  <2>1. \E t \in Threads : Abstract!Requeue(t) \/ Abstract!Block(t) \/ Abstract!Finish(t)
    BY <1>2, <1>9, MapGiveUp
  <2> QED
    BY <1>4, <1>5, <1>9, <2>1 DEF Yield, ThreadHalt, OutOfMemory, ExitThread, Fail
<1>10. ASSUME NEW x \in Cells, BindCell(w, x) PROVE Abstract!ThreadStep \/ StateMap' = StateMap
  <2>1. \/ \E S \in SUBSET Threads : Abstract!Wake(S)
        \/ StateMap' = StateMap
    BY <1>2, <1>10, MapWake DEF StateMap
  <2> QED
    BY <1>5, <1>10, <2>1 DEF BindCell
<1>11. ASSUME NEW x \in Cells, NEW y \in Cells, AliasCell(w, x, y) PROVE StateMap' = StateMap
  BY <1>2, <1>11, MapAlias DEF StateMap
<1>12. CASE Resume(w) \/ NoticeHalt(w) \/ HaltHandler(w) \/ (ThreadGet(w) /\ ~TakeThread(w))
  <2>1. UNCHANGED <<thread, waiters, born, finished>>
    BY <1>12 DEF Resume, NoticeHalt, ThreadGet, GetLock, LastOneOut, IdleWait, IdleWake, HaltHandler,
       EnterHalt, ParkWait, ParkWake, ParkReturn, ParkLeave
  <2> QED
    BY <1>3, <2>1, StateFrame DEF StateMap
<1> QED
  BY <1>3, <1>4, <1>6, <1>7, <1>8, <1>9, <1>10, <1>11, <1>12 DEF Execute, GiveUp

\* With no active worker no thread runs.
LEMMA NothingRuns ==
  ASSUME RefInv, idleCnt = 0
  PROVE  Abstract!In("running") = {}
<1>1. \A w \in Workers : thread[w] = NoThread
  BY NoneActive DEF RefInv, IInv, HandsFree
<1>2. \A t \in Threads : ~Running(t)
  BY <1>1, NamesAssumption DEF Running
<1> QED
  BY <1>2, StateFacts DEF RefInv, States, Abstract!In

\* When the program just ended no thread is left but those that wait for a cell.
LEMMA NothingReady ==
  ASSUME RefInv, Quiet, queue = <<>>, NEW t \in Threads, Alive(t)
  PROVE  Blocked(t)
<1>1. \A w \in Workers : thread[w] = NoThread /\ chain[w] = <<>>
  BY DEF Quiet, RefInv, IInv, HandsFree
<1>2. ~Running(t) /\ ~Queued(t) /\ ~InFlight(t)
  BY <1>1, NamesAssumption DEF Running, Queued, InFlight, Within
<1> QED
  BY <1>2 DEF RefInv, Located

LEMMA MapSupervisor ==
  ASSUME RefInv, SupStep
  PROVE  [Abstract!Next]_(Abstract!vars)
<1>1. StateMap' = StateMap
  <2>1. UNCHANGED <<thread, waiters, born, finished>>
    BY DEF SupStep, SupervisorLoop, SupLock, SupWait, SupWake, SupBadCmd,
       SupTerminate, SupStartGC, SupEndGC, SupJoin, SupNoMemory
  <2> QED
    BY <2>1, StateFrame DEF StateMap
<1>2. CASE SupLock \/ SupWait \/ SupWake \/ SupJoin
  <2>1. Machine' = Machine
    BY <1>2 DEF Machine, SupLock, SupWait, SupWake, SupJoin
  <2> QED
    BY <1>1, <2>1 DEF Abstract!vars, StateMap
<1>3. CASE SupStartGC
  <2>1. Machine = "on" /\ Machine' = "collecting" /\ idleCnt = 0
    BY <1>3 DEF Machine, SupStartGC, RefInv, IInv, TypeOK
  <2> QED
    BY <1>1, <2>1, NothingRuns DEF Abstract!Collect, Abstract!Next, StateMap
<1>4. CASE SupEndGC
  <2>1. Machine = "collecting" /\ Machine' = "on"
    BY <1>4 DEF Machine, SupEndGC
  <2> QED
    BY <1>1, <2>1 DEF Abstract!Resume, Abstract!Next, StateMap
<1>5. CASE SupNoMemory
  <2>1. Machine = "collecting" /\ Machine' = "off"
    BY <1>5 DEF Machine, SupNoMemory
  <2> QED
    BY <1>1, <2>1 DEF Abstract!SwitchOff, Abstract!Next, StateMap
<1>6. CASE SupBadCmd \/ SupTerminate
  <2>1. Machine = "on" /\ Machine' = "off" /\ idleCnt = 0
    BY <1>6 DEF Machine, SupBadCmd, SupTerminate, RefInv, IInv, TypeOK
  <2>2. ~Orderly \/ Abstract!In("ready") = {}
    <3> SUFFICES ASSUME Orderly PROVE Abstract!In("ready") = {}
      OBVIOUS
    <3>1. SupReady /\ HaltMeansCmd
      BY DEF Orderly, RefInv, LockInv
    <3>2. cmd = "TERMINATE"
      BY <1>6, <2>1, <3>1 DEF SupReady, HaltMeansCmd, SupBadCmd, SupTerminate
    <3>3. queue = <<>> /\ Quiet
      BY <3>2 DEF RefInv, OverInv
    <3> QED
      BY <3>3, NothingReady, StateFacts DEF RefInv, States, Abstract!In
  <2>3. Abstract!SwitchOff
    BY <1>1, <2>1, <2>2, NothingRuns DEF Abstract!SwitchOff, StateMap, Orderly
  <2> QED
    BY <2>3 DEF Abstract!Next
<1> QED
  BY <1>2, <1>3, <1>4, <1>5, <1>6 DEF SupStep, SupervisorLoop

LEMMA MapStep ==
  ASSUME RefInv, RefInv', [Next]_vars
  PROVE  [Abstract!Next]_(Abstract!vars)
<1>1. CASE VmStop \/ SpuriousSupervisorWake \/ (\E w \in Workers : SpuriousWorkerWake(w))
           \/ UNCHANGED vars
  <2>1. UNCHANGED <<thread, waiters, born, finished, spc>>
    BY <1>1 DEF VmStop, SpuriousSupervisorWake, SpuriousWorkerWake, vars
  <2>2. Machine' = Machine
    BY <2>1 DEF Machine
  <2> QED
    BY <2>1, <2>2, StateFrame DEF Abstract!vars
<1> QED
  BY <1>1, StepsAllowed, MapWorker, MapSupervisor

LEMMA MapInit ==
  ASSUME Init, RefInv
  PROVE  Abstract!Init
<1>1. ASSUME NEW t \in Threads
      PROVE  ThreadState(t) = IF t = Main THEN "ready" ELSE "new"
  <2>1. ~Running(t) /\ ~Blocked(t)
    BY NamesAssumption DEF Init, Running, Blocked, Within
  <2> QED
    BY <2>1, StateFacts DEF RefInv, States, Init, Alive
<1>2. Machine = "on"
  BY DEF Init, Machine
<1> QED
  BY <1>1, <1>2 DEF Abstract!Init

(* The workers, their queue, the chains in flight and the supervisor do to  *)
(* each green thread what the abstract scheduler does (ImplementsGreenThreads): *)
(* at most one thread runs per worker, only the step of a running thread    *)
(* wakes another, and none runs while the heap is collected or after the    *)
(* machine was switched off, which leaves no thread ready to run unless it  *)
(* was stopped, failed, ran out of memory or woke up for no reason.         *)
THEOREM SchedulerRefined == Spec => ImplementsGreenThreads
<1>1. Init /\ RefInv => Abstract!Init
  BY MapInit
<1>2. RefInv /\ RefInv' /\ [Next]_vars => [Abstract!Next]_(Abstract!vars)
  BY MapStep
<1> QED
  BY <1>1, <1>2, RefInvariant, PTL DEF Spec, ImplementsGreenThreads, Abstract!Spec

(* A shutdown is withdrawn only by a thread that runs out of memory while   *)
(* the workers stop, and the worker that takes itself for the last one is   *)
(* right: every thread that is left waits for a cell (the first half of     *)
(* ShutdownCompletes).                                                      *)
THEOREM ShutdownJustified == Spec => [][Withdrawn /\ ProgramOver]_vars
<1>1. ASSUME RefInv, RefInv', Next PROVE Withdrawn
  <2> SUFFICES ASSUME cmd = "TERMINATE", cmd' # "TERMINATE"
               PROVE  cmd' = "GC" /\ \E w \in Workers : pc[w] = "run" /\ pc'[w] = "halt"
    BY DEF Withdrawn
  <2>1. ~SupEndGC
    BY <1>1 DEF RefInv, RootInv, SupEndGC
  <2>2. PICK w \in Workers : OutOfMemory(w)
    BY <1>1, <2>1, StepCases DEF SupStep, EnvStep, vars, SupervisorLoop, SupLock, SupWait, SupWake, SupBadCmd,
       SupTerminate, SupStartGC, SupJoin, SupNoMemory, VmStop, Terminate,
       SpuriousSupervisorWake, SpuriousWorkerWake, ThreadGet, GetLock, TakeThread, LastOneOut,
       IdleWait, IdleWake, HaltHandler, EnterHalt, ParkWait, ParkWake, ParkReturn, ParkLeave,
       Execute, GiveUp, ExitThread, Yield, BlockOn, BindCell, AliasCell, Spawn, Resume, NoticeHalt,
       ThreadHalt, Fail
  <2> QED
    BY <1>1, <2>2 DEF OutOfMemory, RefInv, IInv, TypeOK
<1>2. ASSUME RefInv, RefInv', Next PROVE ProgramOver
  <2> SUFFICES ASSUME cmd' = "TERMINATE", NEW w \in Workers, pc[w] = "scan", pc'[w] = "halt",
                      NEW t \in Threads, Alive(t)
               PROVE  Blocked(t)
    BY DEF ProgramOver
  <2>1. LastOneOut(w)
    <3>1. PICK v \in Workers : \/ ThreadGet(v) \/ HaltHandler(v) \/ Execute(v)
                              \/ OutOfMemory(v) \/ Fail(v)
      <4>1. ~(SupStep \/ EnvStep \/ UNCHANGED vars)
        BY DEF SupStep, EnvStep, vars, SupervisorLoop, SupLock, SupWait, SupWake, SupBadCmd,
           SupTerminate, SupStartGC, SupEndGC, SupJoin, SupNoMemory, VmStop,
           SpuriousSupervisorWake, SpuriousWorkerWake
      <4> QED
        BY <1>2, <4>1, StepCases
    <3>2. \E q \in PCs : pc' = pc \/ pc' = [pc EXCEPT ![v] = q]
      BY <1>2, <3>1 DEF RefInv, IInv, TypeOK, ThreadGet, GetLock, TakeThread, LastOneOut,
         IdleWait, IdleWake, HaltHandler, EnterHalt, ParkWait, ParkWake, ParkReturn, ParkLeave,
         Execute, GiveUp, ExitThread, Yield, BlockOn, BindCell, AliasCell, Spawn, Resume, NoticeHalt,
         ThreadHalt, OutOfMemory, Fail
    <3>3. v = w
      BY <1>2, <3>2 DEF RefInv, IInv, TypeOK
    <3> QED
      BY <1>2, <3>1, <3>3 DEF RefInv, IInv, TypeOK, ThreadGet, GetLock, TakeThread,
         IdleWait, IdleWake, HaltHandler, EnterHalt, ParkWait, ParkWake, ParkReturn, ParkLeave,
         Execute, GiveUp, ExitThread, Yield, BlockOn, BindCell, AliasCell, Spawn, Resume, NoticeHalt,
         ThreadHalt, OutOfMemory, Fail
  <2>2. \A v \in Workers \ {w} : pc[v] \notin ActivePCs
    BY <1>2, <2>1, OnlyActive DEF LastOneOut, RefInv
  <2>3. \A v \in Workers : thread[v] = NoThread /\ chain[v] = <<>>
    BY <1>2, <2>1, <2>2 DEF RefInv, IInv, HandsFree, LastOneOut
  <2>4. ~Running(t) /\ ~Queued(t) /\ ~InFlight(t)
    BY <2>1, <2>3, NamesAssumption DEF Running, Queued, InFlight, Within, LastOneOut
  <2> QED
    BY <1>2, <2>4 DEF RefInv, Located
<1>3. RefInv /\ RefInv' /\ [Next]_vars => [Withdrawn /\ ProgramOver]_vars
  BY <1>1, <1>2
<1> QED
  BY <1>3, RefInvariant, PTL DEF Spec
=============================================================================

--------------------------- MODULE DataFlowProofs ---------------------------
(* Theorems about binding, for every number of threads, cells, values and  *)
(* mutexes, with proofs checked by TLAPS.  The first part is about the     *)
(* ends of chains of references in any store, a function from cells to     *)
(* nodes; induction over the number of hops is induction on a set of       *)
(* numbers.                                                                *)
EXTENDS DataFlow, FiniteSetTheorems, SequenceTheorems, WellFoundedInduction, TLAPS

MaxHops == Cardinality(Cells)
Stores == [Cells -> Cells \cup Values \cup {Undef}]

\* Following references from a cell leaves every set of cells it enters.
NoCycle(v) == \A S \in SUBSET Cells : S # {} => \E c \in S : v[c] \notin S

RefIn(v, n) == n \in Cells /\ v[n] # Undef
Step(v, m) == IF RefIn(v, m) THEN v[m] ELSE m
RootIn(v, n) ==
  LET hop[k \in 0 .. MaxHops] == IF k = 0 THEN n ELSE Step(v, hop[k - 1])
  IN hop[MaxHops]

LEMMA NumberInduction ==
  ASSUME NEW S, 0 \in S, \A n \in Nat : n \in S => n + 1 \in S
  PROVE  Nat \subseteq S
<1> SUFFICES ASSUME Nat \ S # {} PROVE FALSE
  OBVIOUS
<1> DEFINE T == Nat \ S
<1>1. PICK n \in T : \A k \in T : ~ (<<k, n>> \in OpToRel(<,Nat))
  BY WFMin, NatLessThanWellFounded
<1>2. \A k \in T : ~ (k < n)
  BY <1>1 DEF OpToRel
<1>3. n # 0 /\ n - 1 \in Nat /\ n - 1 \in S
  BY <1>2
<1> QED
  BY <1>3

LEMMA CellCount == MaxHops \in Nat
BY CellsAssumption, FS_CardinalityType DEF MaxHops

LEMMA NodeFacts ==
  /\ Cells \subseteq Nodes /\ Values \subseteq Nodes /\ Hole \in Nodes
  /\ Cells \cap Values = {} /\ Hole \notin Cells \cup Values /\ Undef \notin Nodes
BY NodesAssumption DEF Nodes

LEMMA StepType ==
  ASSUME NEW v \in Stores, NEW m \in Nodes
  PROVE  Step(v, m) \in Nodes /\ (m \in Cells => Step(v, m) \in Cells \cup Values)
BY NodeFacts DEF Stores, Step, RefIn

\* The recursive function in RootIn exists, and is a chain of MaxHops hops.
LEMMA RootHops ==
  ASSUME NEW v \in Stores, NEW n \in Nodes
  PROVE  \E f \in [0 .. MaxHops -> Nodes] :
           /\ f[0] = n /\ RootIn(v, n) = f[MaxHops]
           /\ \A k \in 1 .. MaxHops : f[k] = Step(v, f[k - 1])
<1> DEFINE Hops(j, f) == f = [k \in 0 .. j |-> IF k = 0 THEN n ELSE Step(v, f[k - 1])]
           S == {j \in Nat : \E f : Hops(j, f)}
<1>1. 0 \in S
  <2> DEFINE f == [k \in 0 .. 0 |-> n]
  <2>1. Hops(0, f)
    OBVIOUS
  <2> QED
    BY <2>1
<1>2. ASSUME NEW j \in Nat, j \in S PROVE j + 1 \in S
  <2>1. PICK f : Hops(j, f)
    BY <1>2
  <2> DEFINE g == [k \in 0 .. j + 1 |-> IF k = j + 1 THEN Step(v, f[j]) ELSE f[k]]
  <2>2. Hops(j + 1, g)
    BY <2>1
  <2>3. \E h : Hops(j + 1, h)
    BY <2>2
  <2> QED
    BY <2>3
<1>3. MaxHops \in S
  BY <1>1, <1>2, NumberInduction, CellCount
<1>4. PICK f : Hops(MaxHops, f) /\ RootIn(v, n) = f[MaxHops]
  BY <1>3 DEF RootIn
<1>5. f[0] = n /\ \A k \in 1 .. MaxHops : f[k] = Step(v, f[k - 1])
  BY <1>4, CellCount
<1>6. \A k \in 0 .. MaxHops : f[k] \in Nodes
  <2> DEFINE T == {k \in Nat : k <= MaxHops => f[k] \in Nodes}
  <2>1. 0 \in T
    BY <1>5
  <2>2. ASSUME NEW k \in Nat, k \in T PROVE k + 1 \in T
    BY <1>5, <2>2, StepType, CellCount
  <2> HIDE DEF T
  <2>3. Nat \subseteq T
    BY <2>1, <2>2, NumberInduction
  <2> QED
    BY <2>3, CellCount DEF T
<1>7. f \in [0 .. MaxHops -> Nodes]
  BY <1>4, <1>6
<1> QED
  BY <1>4, <1>5, <1>7

\* A node that is no reference is its own end.
LEMMA RootStops ==
  ASSUME NEW v \in Stores, NEW n \in Nodes, ~RefIn(v, n)
  PROVE  RootIn(v, n) = n
<1>1. PICK f \in [0 .. MaxHops -> Nodes] : /\ f[0] = n /\ RootIn(v, n) = f[MaxHops]
                                     /\ \A k \in 1 .. MaxHops : f[k] = Step(v, f[k - 1])
  BY RootHops
<1> DEFINE T == {k \in Nat : k <= MaxHops => f[k] = n}
<1>2. 0 \in T
  BY <1>1
<1>3. ASSUME NEW k \in Nat, k \in T PROVE k + 1 \in T
  BY <1>1, <1>3, CellCount DEF Step
<1> HIDE DEF T
<1>4. Nat \subseteq T
  BY <1>2, <1>3, NumberInduction
<1> QED
  BY <1>1, <1>4, CellCount DEF T

\* The end is no reference: MaxHops hops are more than a chain without a cycle has.
LEMMA RootEnds ==
  ASSUME NEW v \in Stores, NoCycle(v), NEW n \in Nodes
  PROVE  ~RefIn(v, RootIn(v, n))
<1>1. PICK f \in [0 .. MaxHops -> Nodes] : /\ f[0] = n /\ RootIn(v, n) = f[MaxHops]
                                     /\ \A k \in 1 .. MaxHops : f[k] = Step(v, f[k - 1])
  BY RootHops
<1> SUFFICES ASSUME RefIn(v, f[MaxHops]) PROVE FALSE
  BY <1>1
<1>2. \A k \in 0 .. MaxHops : RefIn(v, f[k])
  <2> DEFINE T == {k \in Nat : k <= MaxHops => RefIn(v, f[MaxHops - k])}
  <2>1. 0 \in T
    BY CellCount
  <2>2. ASSUME NEW k \in Nat, k \in T PROVE k + 1 \in T
    <3> SUFFICES ASSUME k + 1 <= MaxHops PROVE RefIn(v, f[MaxHops - (k + 1)])
      OBVIOUS
    <3>1. RefIn(v, f[MaxHops - k]) /\ MaxHops - k \in 1 .. MaxHops /\ (MaxHops - k) - 1 = MaxHops - (k + 1)
      BY <2>2, CellCount
    <3>2. f[MaxHops - k] = Step(v, f[(MaxHops - k) - 1])
      BY <1>1, <3>1
    <3> QED
      BY <3>1, <3>2 DEF Step
  <2> HIDE DEF T
  <2>3. Nat \subseteq T
    BY <2>1, <2>2, NumberInduction
  <2>4. ASSUME NEW k \in 0 .. MaxHops PROVE RefIn(v, f[k])
    <3>1. MaxHops - k \in Nat /\ MaxHops - k <= MaxHops /\ MaxHops - (MaxHops - k) = k
      BY CellCount
    <3>2. MaxHops - k \in T
      BY <2>3, <3>1
    <3> QED
      BY <3>1, <3>2 DEF T
  <2> QED
    BY <2>4
<1>3. f \in [0 .. MaxHops -> Cells] /\ \A k \in 1 .. MaxHops : f[k] = v[f[k - 1]]
  BY <1>1, <1>2, CellCount DEF Step, RefIn
<1>4. ~ (f \in Injection(0 .. MaxHops, Cells))
  <2>1. Cardinality(0 .. MaxHops) = MaxHops + 1
    BY FS_Interval, CellCount
  <2> QED
    BY <2>1, FS_Injection, CellsAssumption, CellCount DEF MaxHops
<1>5. PICK i \in 0 .. MaxHops, j \in 0 .. MaxHops : i < j /\ f[i] = f[j]
  BY <1>3, <1>4, CellCount DEF Injection, IsInjective
<1> DEFINE S == {f[k] : k \in i .. j - 1}
<1>6. S \in SUBSET Cells /\ S # {}
  BY <1>3, <1>5, CellCount
<1>7. ASSUME NEW c \in S PROVE v[c] \in S
  <2>1. PICK k \in i .. j - 1 : c = f[k]
    OBVIOUS
  <2>2. v[c] = f[k + 1]
    <3>1. k + 1 \in 1 .. MaxHops /\ (k + 1) - 1 = k
      BY <1>5, CellCount
    <3> QED
      BY <1>3, <2>1, <3>1
  <2>3. k + 1 = j \/ k + 1 \in i .. j - 1
    BY <1>5, CellCount
  <2>4. i \in i .. j - 1
    BY <1>5, CellCount
  <2> QED
    BY <1>5, <2>2, <2>3, <2>4
<1> QED
  BY <1>6, <1>7 DEF NoCycle

\* The two ends of a reference have the same end.
LEMMA RootFollows ==
  ASSUME NEW v \in Stores, NoCycle(v), NEW n \in Nodes, RefIn(v, n)
  PROVE  v[n] \in Nodes /\ RootIn(v, n) = RootIn(v, v[n])
<1>0. v[n] \in Nodes
  BY NodeFacts DEF RefIn, Stores
<1>1. PICK f \in [0 .. MaxHops -> Nodes] : /\ f[0] = n /\ RootIn(v, n) = f[MaxHops]
                                          /\ \A k \in 1 .. MaxHops : f[k] = Step(v, f[k - 1])
  BY RootHops
<1>2. PICK g \in [0 .. MaxHops -> Nodes] : /\ g[0] = v[n] /\ RootIn(v, v[n]) = g[MaxHops]
                                          /\ \A k \in 1 .. MaxHops : g[k] = Step(v, g[k - 1])
  BY <1>0, RootHops
<1>3. MaxHops \in Nat \ {0}
  BY CellCount, CellsAssumption, FS_EmptySet DEF MaxHops, RefIn
<1> DEFINE T == {k \in Nat : k + 1 <= MaxHops => g[k] = f[k + 1]}
<1>4. 0 \in T
  BY <1>1, <1>2, <1>3 DEF Step
<1>5. ASSUME NEW k \in Nat, k \in T PROVE k + 1 \in T
  <2> SUFFICES ASSUME (k + 1) + 1 <= MaxHops PROVE g[k + 1] = f[(k + 1) + 1]
    OBVIOUS
  <2>1. g[k + 1] = Step(v, g[k]) /\ f[(k + 1) + 1] = Step(v, f[k + 1])
    BY <1>1, <1>2, <1>3
  <2> QED
    BY <1>3, <1>5, <2>1
<1> HIDE DEF T
<1>6. Nat \subseteq T
  BY <1>4, <1>5, NumberInduction
<1>7. g[MaxHops - 1] = f[MaxHops]
  BY <1>3, <1>6 DEF T
<1>8. g[MaxHops] = Step(v, f[MaxHops])
  BY <1>2, <1>3, <1>7
<1>9. ~RefIn(v, f[MaxHops])
  BY <1>1, RootEnds
<1> QED
  BY <1>0, <1>1, <1>2, <1>8, <1>9 DEF Step

\* A cell ends in an undefined cell or a value.
LEMMA RootType ==
  ASSUME NEW v \in Stores, NoCycle(v)
  PROVE  /\ \A n \in Nodes : RootIn(v, n) \in Nodes
         /\ \A n \in Cells \cup Values : RootIn(v, n) \in Cells \cup Values
         /\ \A n \in Nodes : RootIn(v, n) \in Cells => v[RootIn(v, n)] = Undef
         /\ \A n \in Values : RootIn(v, n) = n
         /\ RootIn(v, Hole) = Hole
<1>1. \A n \in Nodes : RootIn(v, n) \in Nodes
  BY RootHops, CellCount
<1>2. \A n \in Nodes : RootIn(v, n) \in Cells => v[RootIn(v, n)] = Undef
  BY RootEnds DEF RefIn
<1>3. (\A n \in Values : RootIn(v, n) = n) /\ RootIn(v, Hole) = Hole
  BY RootStops, NodeFacts DEF RefIn
<1>4. ASSUME NEW n \in Cells PROVE RootIn(v, n) \in Cells \cup Values
  <2> DEFINE S == {c \in Cells : RootIn(v, c) \notin Cells \cup Values}
  <2> SUFFICES ASSUME S # {} PROVE FALSE
    OBVIOUS
  <2>1. PICK c \in S : v[c] \notin S
    BY DEF NoCycle
  <2>2. RefIn(v, c)
    BY RootStops, NodeFacts
  <2>3. v[c] \in Cells \cup Values /\ RootIn(v, c) = RootIn(v, v[c])
    BY <2>2, RootFollows, NodeFacts DEF RefIn, Stores
  <2>4. v[c] \in Cells
    BY <2>1, <2>3, <1>3
  <2> QED
    BY <2>1, <2>3, <2>4
<1> QED
  BY <1>1, <1>2, <1>3, <1>4

\* Binding the undefined cell a to b, a value or another undefined cell.
Joins(v, a, b) ==
  /\ a \in Cells /\ v[a] = Undef
  /\ b \in Values \/ (b \in Cells /\ v[b] = Undef /\ b # a)

LEMMA JoinNoCycle ==
  ASSUME NEW v \in Stores, NoCycle(v), NEW a, NEW b, Joins(v, a, b)
  PROVE  [v EXCEPT ![a] = b] \in Stores /\ NoCycle([v EXCEPT ![a] = b])
<1> DEFINE u == [v EXCEPT ![a] = b]
<1>1. u \in Stores
  BY DEF Stores, Joins
<1>2. ASSUME NEW S \in SUBSET Cells, S # {} PROVE \E c \in S : u[c] \notin S
  <2>1. CASE b \in S
    BY <2>1, NodeFacts DEF Stores, Joins
  <2>2. CASE b \notin S
    <3>1. PICK c \in S : v[c] \notin S
      BY <1>2 DEF NoCycle
    <3>2. u[c] = b \/ u[c] = v[c]
      BY DEF Stores
    <3> QED
      BY <2>2, <3>1, <3>2
  <2> QED
    BY <2>1, <2>2
<1> QED
  BY <1>1, <1>2 DEF NoCycle

\* The class of a joins the one of b as a whole, and nothing else happens.
LEMMA JoinRoots ==
  ASSUME NEW v \in Stores, NoCycle(v), NEW a, NEW b, Joins(v, a, b),
         NEW u \in Stores,
         \A c \in Cells : u[c] = (IF c = a THEN b ELSE v[c]), NEW n \in Nodes
  PROVE  /\ RootIn(v, a) = a /\ RootIn(v, b) = b
         /\ RootIn(u, n) = IF RootIn(v, n) = a THEN b ELSE RootIn(v, n)
<1> DEFINE Right(c) == RootIn(u, c) = IF RootIn(v, c) = a THEN b ELSE RootIn(v, c)
<1>1. u \in Stores /\ NoCycle(u)
  <2>1. u = [v EXCEPT ![a] = b]
    BY DEF Stores
  <2> QED
    BY <2>1, JoinNoCycle
<1>2. a \in Nodes /\ b \in Nodes /\ a # b
  BY NodeFacts DEF Joins
<1>3. RootIn(v, a) = a /\ RootIn(v, b) = b
  BY <1>2, RootStops, NodeFacts DEF Joins, RefIn
<1>4. u[a] = b /\ (\A c \in Cells : c # a => u[c] = v[c]) /\ ~RefIn(u, b) /\ RefIn(u, a)
  BY <1>2, NodeFacts DEF Joins, RefIn, Stores
<1>5. RootIn(u, b) = b /\ RootIn(u, a) = b
  BY <1>1, <1>2, <1>4, RootStops, RootFollows
<1>6. \A m \in Nodes \ Cells : Right(m)
  <2> SUFFICES ASSUME NEW m \in Nodes \ Cells PROVE Right(m)
    OBVIOUS
  <2>1. RootIn(v, m) = m /\ RootIn(u, m) = m
    BY <1>1, RootStops DEF RefIn
  <2> QED
    BY <2>1 DEF Joins
<1>7. \A c \in Cells : Right(c)
  <2> DEFINE S == {c \in Cells : ~Right(c)}
  <2> SUFFICES ASSUME S # {} PROVE FALSE
    OBVIOUS
  <2>1. PICK c \in S : u[c] \notin S
    BY <1>1 DEF NoCycle
  <2>2. c # a /\ c \in Nodes /\ u[c] = v[c]
    BY <1>3, <1>4, <1>5, NodeFacts
  <2>3. CASE v[c] = Undef
    <3>1. RootIn(v, c) = c /\ RootIn(u, c) = c
      BY <1>1, <2>2, <2>3, RootStops DEF RefIn
    <3> QED
      BY <2>2, <3>1
  <2>4. CASE v[c] # Undef
    <3>1. v[c] \in Nodes /\ RootIn(v, c) = RootIn(v, v[c]) /\ RootIn(u, c) = RootIn(u, v[c])
      BY <1>1, <2>2, <2>4, RootFollows DEF RefIn
    <3>2. Right(v[c])
      BY <1>6, <2>1, <2>2, <3>1
    <3> QED
      BY <3>1, <3>2
  <2> QED
    BY <2>3, <2>4
<1> QED
  BY <1>3, <1>6, <1>7

-----------------------------------------------------------------------------
(* Binding.                                                                *)

USE DEF Goto, PCs, store, frame

Searching == {"begin", "dst", "dstlock", "src", "srclock", "unify", "setref"}
HoldsDst == {"src", "srclock", "unify", "setref"}
HoldsBoth == {"unify", "setref"}
Reading == {"read", "readlock"}

\* What a thread knows of its operation where it is.
Control(t) ==
  /\ pc[t] # "idle" => op[t] \in Ops
  /\ pc[t] \in Searching => op[t][1] = "bind"
  /\ pc[t] \in Reading \cup {"blocked"} => op[t][1] = "read"
  /\ pc[t] \in Reading => dst[t] \in Cells \cup Values
  /\ pc[t] \in {"dstlock", "readlock"} => dst[t] \in Cells
  /\ pc[t] = "srclock" => src[t] \in Cells
  /\ pc[t] = "setref" => dst[t] # src[t] /\ Hole \notin {dst[t], src[t]} /\ Cells \cap {dst[t], src[t]} # {}

\* A thread holds the mutexes of the undefined ends it has found.
Locks(t) ==
  /\ pc[t] \notin HoldsDst => dlock[t] = NoMutex
  /\ pc[t] \notin HoldsBoth => slock[t] = NoMutex
  /\ pc[t] \in HoldsDst => dlock[t] = IF dst[t] \in Cells THEN mutexOf[dst[t]] ELSE NoMutex
  /\ pc[t] \in HoldsBoth => IF src[t] \in Cells THEN mutexOf[src[t]] \in {dlock[t], slock[t]}
                            ELSE slock[t] = NoMutex
  /\ \A m \in Mutexes \cap {dlock[t], slock[t]} : owner[m] = t

\* The cells that a thread has locked; they stay undefined.
Locked(t) == (Cells \cap {dst[t]}) \cup (IF pc[t] \in HoldsBoth THEN Cells \cap {src[t]} ELSE {})
LockedUndef(t) == pc[t] \in HoldsDst => \A c \in Locked(t) : val[c] = Undef

ThreadInv(t) == Control(t) /\ Locks(t) /\ LockedUndef(t)
BindInv == TypeOK /\ val \in Stores /\ \A t \in Threads : ThreadInv(t)

\* Every waiter is blocked and linked once, no cell that is being bound has any.
Linked(t, c, i) == i \in DOMAIN waiting[c] /\ waiting[c][i] = t
LinkedOnce ==
  \A t \in Threads, c, d \in Cells, i, j \in Nat :
     Linked(t, c, i) /\ Linked(t, d, j) => c = d /\ i = j
LinkedBlocked == \A t \in Threads, c \in Cells, i \in Nat : Linked(t, c, i) => pc[t] = "blocked"
Emptied == \A t \in Threads : pc[t] = "setref" => waiting[From(t)] = <<>>
WaitInv == NoLateWaiter /\ Emptied /\ LinkedOnce /\ LinkedBlocked

\* Where a cell's class is about to be: a binder has moved its waiters.
Moving(c, n) == \E b \in Threads : pc[b] = "setref" /\ From(b) = c /\ To(b) = n
AtRoot(t) ==
  \E c \in Cells, i \in Nat :
    Linked(t, c, i) /\ (c = Root(op[t][2]) \/ Moving(Root(op[t][2]), c))
ReadInv ==
  \A t \in Threads :
    /\ pc[t] = "blocked" => AtRoot(t)
    /\ pc[t] \in Reading => Root(op[t][2]) = Root(dst[t])
    /\ woken[t] => /\ pc[t] \in Reading
                   /\ Root(op[t][2]) \in Values \/ \E n \in Values : Moving(Root(op[t][2]), n)
-----------------------------------------------------------------------------
(* Types and locks.                                                        *)

LEMMA RootOfStore == (\A n : Root(n) = RootIn(val, n)) /\ (\A n : Root(n)' = RootIn(val', n))
BY DEF Root, RootIn, IsRef, RefIn, Step, MaxHops

LEMMA OpFacts ==
  /\ \A o \in Ops : Len(o) = 3 /\ o[1] \in {"bind", "read"} /\ o[2] \in Nodes /\ o[3] \in Nodes
  /\ \A o \in Ops : o[1] = "bind" => <<o[2], o[3]>> \in BindOps
  /\ \A o \in Ops : o[1] = "read" => o[2] \in Cells \cup Values
BY OpsAssumption, NodeFacts DEF Ops

LEMMA ItemPairsType ==
  ASSUME NEW v \in Values, NEW w \in Values, Len(Items[v]) = Len(Items[w])
  PROVE  /\ ItemPairs(v, w) \in Seq(Nodes \X Nodes) /\ Len(ItemPairs(v, w)) = Len(Items[v])
         /\ \A i \in 1 .. Len(Items[v]) : ItemPairs(v, w)[i] = <<Items[v][i], Items[w][i]>>
BY NodesAssumption DEF ItemPairs

LEMMA SeqFacts ==
  ASSUME NEW S, NEW s \in Seq(S)
  PROVE  /\ <<>> \in Seq(S) /\ \A e \in S : <<e>> \in Seq(S) /\ Append(s, e) \in Seq(S)
         /\ \A u \in Seq(S) : u \o s \in Seq(S)
         /\ s # <<>> => Head(s) \in S /\ Tail(s) \in Seq(S)
OBVIOUS

LEMMA BindInit == Init => BindInv
<1> SUFFICES ASSUME Init PROVE BindInv
  OBVIOUS
<1>1. TypeOK
  BY NodeFacts, OpsAssumption DEF Init, TypeOK, PCs
<1>2. val \in Stores
  BY DEF Init, Stores
<1>3. \A t \in Threads : ThreadInv(t)
  BY MutexAssumption DEF Init, ThreadInv, Control, Locks, LockedUndef, Searching, Reading, HoldsDst, HoldsBoth
<1> QED
  BY <1>1, <1>2, <1>3 DEF BindInv

LEMMA OtherKeeps ==
  ASSUME BindInv, NEW u \in Threads, UNCHANGED mutexOf,
         pc'[u] = pc[u], op'[u] = op[u], dst'[u] = dst[u], src'[u] = src[u],
         dlock'[u] = dlock[u], slock'[u] = slock[u],
         \A m \in Mutexes : owner[m] = u => owner'[m] = u,
         \A c \in Cells : owner[mutexOf[c]] = u => val'[c] = val[c]
  PROVE  ThreadInv(u)'
<1>1. ThreadInv(u)
  BY DEF BindInv
<1>2. Control(u)' /\ Locks(u)'
  BY <1>1 DEF ThreadInv, Control, Locks
<1>3. ASSUME pc[u] \in HoldsDst, NEW c \in Locked(u) PROVE owner[mutexOf[c]] = u
  BY <1>1, <1>3 DEF ThreadInv, Locks, Locked, BindInv, TypeOK, HoldsDst, HoldsBoth
<1>4. LockedUndef(u)'
  BY <1>1, <1>3 DEF ThreadInv, LockedUndef, Locked
<1> QED
  BY <1>2, <1>4 DEF ThreadInv

LEMMA BindSearch ==
  ASSUME BindInv, NEW t \in Threads,
         \/ \E o \in Ops : Issue(t, o)
         \/ Begin(t) \/ EndBind(t) \/ Restart(t)
         \/ FollowDst(t) \/ FoundDst(t) \/ FollowSrc(t) \/ FoundSrc(t)
         \/ UnifyValues(t) \/ FoundRead(t) \/ LockRead(t)
  PROVE  BindInv'
<1>1. UNCHANGED <<val, mutexOf, owner, dlock, slock>>
  BY DEF Issue, Begin, EndBind, Restart, FollowDst, FoundDst, FollowSrc, FoundSrc,
     UnifyValues, FoundRead, LockRead
<1>2. \A u \in Threads \ {t} : ThreadInv(u)'
  <2> SUFFICES ASSUME NEW u \in Threads \ {t} PROVE ThreadInv(u)'
    OBVIOUS
  <2>1. pc'[u] = pc[u] /\ op'[u] = op[u] /\ dst'[u] = dst[u] /\ src'[u] = src[u]
    BY DEF BindInv, TypeOK, Issue, Begin, EndBind, Restart, FollowDst, FoundDst, FollowSrc,
       FoundSrc, UnifyValues, FoundRead, LockRead
  <2> QED
    BY <1>1, <2>1, OtherKeeps
<1>3. ThreadInv(t) /\ TypeOK /\ val \in Stores
  BY DEF BindInv
<1>4. CASE \E o \in Ops : Issue(t, o)
  <2>0. PICK o \in Ops : Issue(t, o)
    BY <1>4
  <2>1. TypeOK'
    <3>1. <<o[2], o[3]>> \in Nodes \X Nodes /\ o[2] \in Nodes
      BY OpFacts
    <3>2. <<<<o[2], o[3]>>>> \in Seq(Nodes \X Nodes) /\ <<>> \in Seq(Nodes \X Nodes)
      BY <3>1
    <3>3. todo' \in [Threads -> Seq(Nodes \X Nodes)]
      BY <1>3, <2>0, <3>2 DEF TypeOK, Issue
    <3>4. count' \in [Threads -> 0 .. MaxOps]
      BY <1>3, <2>0, OpsAssumption DEF TypeOK, Issue
    <3> QED
      BY <1>3, <2>0, <3>1, <3>3, <3>4 DEF TypeOK, Issue
  <2>2. ThreadInv(t)'
    BY <1>3, <1>4, OpFacts, NodeFacts DEF TypeOK, Issue, IsUndef, IsRef, ThreadInv, Control, Locks, LockedUndef, Locked, Searching, Reading, HoldsDst, HoldsBoth
  <2> QED
    BY <1>1, <1>2, <1>3, <2>1, <2>2 DEF BindInv
<1>5. CASE Begin(t)
  <2>1. TypeOK'
    BY <1>3, <1>5, OpFacts, NodeFacts DEF TypeOK, Begin
  <2>2. ThreadInv(t)'
    BY <1>3, <1>5, OpFacts, NodeFacts DEF TypeOK, Begin, IsUndef, IsRef, ThreadInv, Control, Locks, LockedUndef, Locked, Searching, Reading, HoldsDst, HoldsBoth
  <2> QED
    BY <1>1, <1>2, <1>3, <2>1, <2>2 DEF BindInv
<1>6. CASE EndBind(t)
  <2>1. TypeOK'
    <3>1. op[t] \in Ops /\ op[t][1] = "bind"
      BY <1>3, <1>6 DEF EndBind, ThreadInv, Control, Searching
    <3>2. <<op[t][2], op[t][3]>> \in BindOps
      BY <3>1, OpFacts
    <3> QED
      BY <1>3, <1>6, <3>2 DEF TypeOK, EndBind
  <2>2. ThreadInv(t)'
    BY <1>3, <1>6, OpFacts, NodeFacts DEF TypeOK, EndBind, IsUndef, IsRef, ThreadInv, Control, Locks, LockedUndef, Locked, Searching, Reading, HoldsDst, HoldsBoth
  <2> QED
    BY <1>1, <1>2, <1>3, <2>1, <2>2 DEF BindInv
<1>7. CASE Restart(t)
  <2>1. TypeOK'
    <3>1. op[t] \in Ops
      BY <1>3, <1>7 DEF Restart, ThreadInv, Control
    <3>2. <<<<op[t][2], op[t][3]>>>> \in Seq(Nodes \X Nodes)
      BY <3>1, OpFacts
    <3>3. todo' \in [Threads -> Seq(Nodes \X Nodes)]
      BY <1>3, <1>7, <3>2 DEF TypeOK, Restart
    <3> QED
      BY <1>3, <1>7, <3>3 DEF TypeOK, Restart
  <2>2. ThreadInv(t)'
    BY <1>3, <1>7, OpFacts, NodeFacts DEF TypeOK, Restart, IsUndef, IsRef, ThreadInv, Control, Locks, LockedUndef, Locked, Searching, Reading, HoldsDst, HoldsBoth
  <2> QED
    BY <1>1, <1>2, <1>3, <2>1, <2>2 DEF BindInv
<1>8. CASE FollowDst(t)
  <2>0. val[dst[t]] \in Cells \cup Values
    BY <1>3, <1>8 DEF FollowDst, IsRef, Stores
  <2>1. TypeOK'
    BY <1>3, <1>8, <2>0, NodeFacts DEF TypeOK, FollowDst
  <2>2. ThreadInv(t)'
    BY <1>3, <1>8, <2>0, NodeFacts DEF TypeOK, FollowDst, IsUndef, IsRef, ThreadInv, Control, Locks, LockedUndef, Locked, Searching, Reading, HoldsDst, HoldsBoth
  <2> QED
    BY <1>1, <1>2, <1>3, <2>1, <2>2 DEF BindInv
<1>9. CASE FoundDst(t)
  <2>1. TypeOK'
    BY <1>3, <1>9, OpFacts, NodeFacts DEF TypeOK, FoundDst
  <2>2. ThreadInv(t)'
    BY <1>3, <1>9, OpFacts, NodeFacts DEF TypeOK, FoundDst, IsUndef, IsRef, ThreadInv, Control, Locks, LockedUndef, Locked, Searching, Reading, HoldsDst, HoldsBoth
  <2> QED
    BY <1>1, <1>2, <1>3, <2>1, <2>2 DEF BindInv
<1>10. CASE FollowSrc(t)
  <2>0. val[src[t]] \in Cells \cup Values
    BY <1>3, <1>10 DEF FollowSrc, IsRef, Stores
  <2>1. TypeOK'
    BY <1>3, <1>10, <2>0, NodeFacts DEF TypeOK, FollowSrc
  <2>2. ThreadInv(t)'
    BY <1>3, <1>10, OpFacts, NodeFacts DEF TypeOK, FollowSrc, IsUndef, IsRef, ThreadInv, Control, Locks, LockedUndef, Locked, Searching, Reading, HoldsDst, HoldsBoth
  <2> QED
    BY <1>1, <1>2, <1>3, <2>1, <2>2 DEF BindInv
<1>11. CASE FoundSrc(t)
  <2>1. TypeOK'
    BY <1>3, <1>11, OpFacts, NodeFacts DEF TypeOK, FoundSrc
  <2>2. ThreadInv(t)'
    BY <1>3, <1>11, OpFacts, NodeFacts DEF TypeOK, FoundSrc, IsUndef, IsRef, ThreadInv, Control, Locks, LockedUndef, Locked, Searching, Reading, HoldsDst, HoldsBoth
  <2> QED
    BY <1>1, <1>2, <1>3, <2>1, <2>2 DEF BindInv
<1>12. CASE UnifyValues(t)
  <2>1. TypeOK'
    <3>1. CASE UNCHANGED todo
      BY <1>3, <1>12, <3>1 DEF TypeOK, UnifyValues
    <3>2. CASE ~UNCHANGED todo
      <4>1. /\ dst[t] \in Values /\ src[t] \in Values /\ Len(Items[dst[t]]) = Len(Items[src[t]])
            /\ todo' = [todo EXCEPT ![t] = ItemPairs(dst[t], src[t]) \o @]
        BY <1>12, <3>2 DEF UnifyValues
      <4>2. ItemPairs(dst[t], src[t]) \o todo[t] \in Seq(Nodes \X Nodes)
        BY <1>3, <4>1, ItemPairsType, SeqFacts DEF TypeOK
      <4>3. todo' \in [Threads -> Seq(Nodes \X Nodes)]
        BY <1>3, <4>1, <4>2 DEF TypeOK
      <4> QED
        BY <1>3, <1>12, <4>3 DEF TypeOK, UnifyValues
    <3> QED
      BY <3>1, <3>2
  <2>2. ThreadInv(t)'
    BY <1>3, <1>12, OpFacts, NodeFacts DEF TypeOK, UnifyValues, IsUndef, IsRef, ThreadInv, Control, Locks, LockedUndef, Locked, Searching, Reading, HoldsDst, HoldsBoth
  <2> QED
    BY <1>1, <1>2, <1>3, <2>1, <2>2 DEF BindInv
<1>13. CASE FoundRead(t)
  <2>1. TypeOK'
    BY <1>3, <1>13, OpFacts, NodeFacts DEF TypeOK, FoundRead
  <2>2. ThreadInv(t)'
    BY <1>3, <1>13, OpFacts, NodeFacts DEF TypeOK, FoundRead, IsUndef, IsRef, ThreadInv, Control, Locks, LockedUndef, Locked, Searching, Reading, HoldsDst, HoldsBoth
  <2> QED
    BY <1>1, <1>2, <1>3, <2>1, <2>2 DEF BindInv
<1>14. CASE LockRead(t)
  <2>1. TypeOK'
    <3>1. \A c \in Cells : Append(waiting[c], t) \in Seq(Threads)
      BY <1>3 DEF TypeOK
    <3>2. waiting' = waiting \/ waiting' = [waiting EXCEPT ![dst[t]] = Append(waiting[dst[t]], t)]
      BY <1>14 DEF LockRead
    <3>3. dst[t] \in Cells
      BY <1>3, <1>14 DEF LockRead, ThreadInv, Control
    <3>4. waiting' \in [Cells -> Seq(Threads)]
      BY <1>3, <3>1, <3>2, <3>3 DEF TypeOK
    <3> QED
      BY <1>3, <1>14, <3>4 DEF TypeOK, LockRead
  <2>2. ThreadInv(t)'
    BY <1>3, <1>14, OpFacts, NodeFacts DEF TypeOK, LockRead, IsUndef, IsRef, ThreadInv, Control, Locks, LockedUndef, Locked, Searching, Reading, HoldsDst, HoldsBoth
  <2> QED
    BY <1>1, <1>2, <1>3, <2>1, <2>2 DEF BindInv
<1> QED
  BY <1>4, <1>5, <1>6, <1>7, <1>8, <1>9, <1>10, <1>11, <1>12, <1>13, <1>14

LEMMA BindLock ==
  ASSUME BindInv, NEW t \in Threads, LockDst(t) \/ LockSrc(t)
  PROVE  BindInv'
<1>0. ThreadInv(t) /\ TypeOK /\ val \in Stores
  BY DEF BindInv
<1>1. LockDst(t) => dst[t] \in Cells
  BY <1>0 DEF LockDst, ThreadInv, Control
<1>2. LockSrc(t) => src[t] \in Cells
  BY <1>0 DEF LockSrc, ThreadInv, Control
<1>3. UNCHANGED <<val, mutexOf, waiting, op, dst, src>>
  BY DEF LockDst, LockSrc
<1>4. TypeOK'
  <2>1. CASE LockDst(t)
    <3>1. mutexOf[dst[t]] \in Mutexes
      BY <1>0, <1>1, <2>1 DEF TypeOK, LockDst
    <3>2. owner' = owner \/ owner' = [owner EXCEPT ![mutexOf[dst[t]]] = t]
      BY <2>1 DEF LockDst, Take
    <3>3. dlock' = dlock \/ dlock' = [dlock EXCEPT ![t] = mutexOf[dst[t]]]
      BY <2>1 DEF LockDst
    <3>4. owner' \in [Mutexes -> Threads \cup {Nobody}] /\ dlock' \in [Threads -> Mutexes \cup {NoMutex}]
      <4>1. owner \in [Mutexes -> Threads \cup {Nobody}] /\ dlock \in [Threads -> Mutexes \cup {NoMutex}]
        BY <1>0 DEF TypeOK
      <4>2. owner' \in [Mutexes -> Threads \cup {Nobody}]
        BY <3>1, <3>2, <4>1
      <4>3. dlock' \in [Threads -> Mutexes \cup {NoMutex}]
        BY <3>1, <3>3, <4>1
      <4> QED
        BY <4>2, <4>3
    <3>5. pc' \in [Threads -> PCs]
      BY <1>0, <2>1 DEF TypeOK, LockDst
    <3> QED
      BY <1>0, <2>1, <3>4, <3>5 DEF TypeOK, LockDst
  <2>2. CASE LockSrc(t)
    <3>1. mutexOf[src[t]] \in Mutexes
      BY <1>0, <1>2, <2>2 DEF TypeOK, LockSrc
    <3>2. owner' = owner \/ owner' = [owner EXCEPT ![mutexOf[src[t]]] = t]
      BY <2>2 DEF LockSrc, Take
    <3>3. slock' = slock \/ slock' = [slock EXCEPT ![t] = mutexOf[src[t]]]
      BY <2>2 DEF LockSrc
    <3>4. owner' \in [Mutexes -> Threads \cup {Nobody}] /\ slock' \in [Threads -> Mutexes \cup {NoMutex}]
      <4>1. owner \in [Mutexes -> Threads \cup {Nobody}] /\ slock \in [Threads -> Mutexes \cup {NoMutex}]
        BY <1>0 DEF TypeOK
      <4>2. owner' \in [Mutexes -> Threads \cup {Nobody}]
        BY <3>1, <3>2, <4>1
      <4>3. slock' \in [Threads -> Mutexes \cup {NoMutex}]
        BY <3>1, <3>3, <4>1
      <4> QED
        BY <4>2, <4>3
    <3>5. pc' \in [Threads -> PCs]
      BY <1>0, <2>2 DEF TypeOK, LockSrc
    <3> QED
      BY <1>0, <2>2, <3>4, <3>5 DEF TypeOK, LockSrc
  <2> QED
    BY <2>1, <2>2
<1>5. ASSUME NEW u \in Threads \ {t} PROVE ThreadInv(u)'
  <2>1. pc'[u] = pc[u] /\ dlock'[u] = dlock[u] /\ slock'[u] = slock[u]
    BY <1>0 DEF TypeOK, LockDst, LockSrc
  <2>2. \A m \in Mutexes : owner[m] = u => owner'[m] = u
    BY <1>0, MutexAssumption DEF TypeOK, LockDst, LockSrc, Take, Free
  <2> QED
    BY <1>3, <2>1, <2>2, OtherKeeps
<1>6. ThreadInv(t)'
  <2>1. CASE LockDst(t)
    BY <1>0, <1>1, <2>1, MutexAssumption, NodeFacts DEF TypeOK, LockDst, Take, Free, IsUndef, IsRef,
       ThreadInv, Control, Locks, LockedUndef, Locked, Searching, Reading, HoldsDst, HoldsBoth
  <2>2. CASE LockSrc(t)
    BY <1>0, <1>2, <2>2, MutexAssumption, NodeFacts DEF TypeOK, LockSrc, Take, Free, IsUndef, IsRef,
       ThreadInv, Control, Locks, LockedUndef, Locked, Searching, Reading, HoldsDst, HoldsBoth
  <2> QED
    BY <2>1, <2>2
<1> QED
  BY <1>0, <1>3, <1>4, <1>5, <1>6 DEF BindInv

\* What is unlocked was the thread's own.
LEMMA Unlocked ==
  ASSUME BindInv, NEW t \in Threads, UnlockBoth(t) \/ UNCHANGED owner
  PROVE  \A u \in Threads \ {t}, m \in Mutexes : owner[m] = u => owner'[m] = u
BY DEF BindInv, TypeOK, ThreadInv, Locks, UnlockBoth

LEMMA BindUnlock ==
  ASSUME BindInv, NEW t \in Threads, UnifySame(t) \/ UnifyHole(t) \/ OverflowHole(t)
  PROVE  BindInv'
<1>0. ThreadInv(t) /\ TypeOK /\ val \in Stores
  BY DEF BindInv
<1>1. UNCHANGED <<val, mutexOf, waiting, op, dst, src>>
  BY DEF UnifySame, UnifyHole, OverflowHole
<1>2. todo' \in [Threads -> Seq(Nodes \X Nodes)]
  <2>1. op[t] \in Ops
    BY <1>0 DEF UnifySame, UnifyHole, OverflowHole, ThreadInv, Control
  <2>2. <<<<op[t][2], op[t][3]>>>> \in Seq(Nodes \X Nodes)
    BY <2>1, OpFacts
  <2> QED
    BY <1>0, <2>2 DEF TypeOK, UnifySame, UnifyHole, OverflowHole
<1>3. TypeOK'
  BY <1>0, <1>2 DEF TypeOK, UnifySame, UnifyHole, OverflowHole, UnlockBoth
<1>4. ASSUME NEW u \in Threads \ {t} PROVE ThreadInv(u)'
  <2>1. pc'[u] = pc[u] /\ dlock'[u] = dlock[u] /\ slock'[u] = slock[u]
    BY <1>0 DEF TypeOK, UnifySame, UnifyHole, OverflowHole, UnlockBoth
  <2>2. \A m \in Mutexes : owner[m] = u => owner'[m] = u
    BY Unlocked DEF UnifySame, UnifyHole, OverflowHole
  <2> QED
    BY <1>1, <2>1, <2>2, OtherKeeps
<1>5. ThreadInv(t)'
  BY <1>0, <1>1, MutexAssumption DEF TypeOK, UnifySame, UnifyHole, OverflowHole, UnlockBoth,
     ThreadInv, Control, Locks, LockedUndef, Locked, Searching, Reading, HoldsDst, HoldsBoth
<1> QED
  BY <1>0, <1>1, <1>3, <1>4, <1>5 DEF BindInv

\* The two ends of a binding that is about to be made.
LEMMA Ends ==
  ASSUME BindInv, NEW t \in Threads, pc[t] \in HoldsBoth, dst[t] # src[t],
         Hole \notin {dst[t], src[t]}, Cells \cap {dst[t], src[t]} # {}
  PROVE  /\ Joins(val, From(t), To(t))
         /\ owner[mutexOf[From(t)]] = t /\ (To(t) \in Cells => owner[mutexOf[To(t)]] = t)
<1>1. ThreadInv(t) /\ TypeOK /\ val \in Stores
  BY DEF BindInv
<1>2. (dst[t] \in Cells => val[dst[t]] = Undef) /\ (src[t] \in Cells => val[src[t]] = Undef)
  BY <1>1 DEF ThreadInv, LockedUndef, Locked, HoldsDst, HoldsBoth
<1>3. /\ dst[t] \in Cells => owner[mutexOf[dst[t]]] = t
      /\ src[t] \in Cells => owner[mutexOf[src[t]]] = t
  BY <1>1 DEF TypeOK, ThreadInv, Locks, HoldsDst, HoldsBoth
<1>4. dst[t] \in Cells \cup Values /\ src[t] \in Cells \cup Values
  BY <1>1 DEF TypeOK, Nodes
<1> QED
  BY <1>2, <1>3, <1>4, NodeFacts DEF Joins, From, To, IsUndef

LEMMA BindWake ==
  ASSUME BindInv, WaitInv, NEW t \in Threads, UnifyWake(t)
  PROVE  BindInv'
<1>0. ThreadInv(t) /\ TypeOK /\ val \in Stores
  BY DEF BindInv
<1> DEFINE c == From(t)  n == To(t)
<1>1. Joins(val, c, n)
  <2>1. Cells \cap {dst[t], src[t]} # {}
    BY DEF UnifyWake, From, IsUndef
  <2> QED
    BY <2>1, Ends DEF UnifyWake, HoldsBoth
<1>2. waiting' \in [Cells -> Seq(Threads)]
  <2>1. waiting \in [Cells -> Seq(Threads)] /\ c \in Cells
    BY <1>0, <1>1 DEF TypeOK, Joins
  <2>2. <<>> \in Seq(Threads) /\ (n \in Cells => waiting[n] \o waiting[c] \in Seq(Threads))
    BY <2>1
  <2>3. waiting' = IF n \in Cells THEN [waiting EXCEPT ![c] = <<>>, ![n] = waiting[n] \o waiting[c]]
                   ELSE [waiting EXCEPT ![c] = <<>>]
    BY <1>1 DEF UnifyWake, Joins
  <2> QED
    BY <2>1, <2>2, <2>3
<1> DEFINE Resumed == {u \in Threads : n \notin Cells /\ \E i \in DOMAIN waiting[c] : waiting[c][i] = u}
<1>3. \A u \in Resumed : pc[u] = "blocked" /\ op[u] \in Ops /\ op[u][1] = "read"
  <2> SUFFICES ASSUME NEW u \in Resumed PROVE pc[u] = "blocked" /\ op[u] \in Ops /\ op[u][1] = "read"
    OBVIOUS
  <2>1. PICK i \in DOMAIN waiting[c] : waiting[c][i] = u
    OBVIOUS
  <2>2. i \in Nat /\ c \in Cells
    BY <1>0, <1>1 DEF TypeOK, Joins
  <2>3. pc[u] = "blocked"
    BY <2>1, <2>2 DEF WaitInv, LinkedBlocked, Linked
  <2> QED
    BY <2>3 DEF BindInv, ThreadInv, Control
<1>4. /\ pc' = [u \in Threads |-> CASE u = t -> "setref" [] u \in Resumed -> "read" [] OTHER -> pc[u]]
      /\ dst' = [u \in Threads |-> IF u \in Resumed THEN op[u][2] ELSE dst[u]]
      /\ woken' = [u \in Threads |-> woken[u] \/ u \in Resumed]
      /\ pc[t] = "unify"
      /\ UNCHANGED <<val, mutexOf, owner, todo, src, dlock, slock, op, count, restarted, told>>
  BY DEF UnifyWake
<1>5. TypeOK'
  <2>1. \A u \in Resumed : op[u][2] \in Nodes
    BY <1>3, OpFacts
  <2> HIDE DEF Resumed
  <2>2. /\ pc' \in [Threads -> PCs] /\ dst' \in [Threads -> Nodes] /\ woken' \in [Threads -> BOOLEAN]
    BY <1>0, <1>4, <2>1 DEF TypeOK
  <2> QED
    BY <1>0, <1>2, <1>4, <2>2 DEF TypeOK
<1>6. ASSUME NEW u \in Threads \ {t} PROVE ThreadInv(u)'
  <2>1. ThreadInv(u)
    BY DEF BindInv
  <2>2. CASE u \in Resumed
    <3>1. pc[u] = "blocked" /\ op[u] \in Ops /\ op[u][1] = "read" /\ op[u][2] \in Cells \cup Values
      BY <1>3, <2>2, OpFacts
    <3>2. pc'[u] = "read" /\ dst'[u] = op[u][2]
      BY <1>4, <2>2
    <3> QED
      BY <1>4, <2>1, <3>1, <3>2 DEF ThreadInv, Control, Locks, LockedUndef, Locked, Searching, Reading, HoldsDst, HoldsBoth
  <2>3. CASE u \notin Resumed
    <3>1. pc'[u] = pc[u] /\ dst'[u] = dst[u]
      BY <1>4, <2>3
    <3> QED
      BY <1>4, <3>1, OtherKeeps
  <2> QED
    BY <2>2, <2>3
<1>7. ThreadInv(t)'
  <2>1. t \notin Resumed
    BY <1>3, <1>4
  <2>2. pc'[t] = "setref" /\ dst'[t] = dst[t]
    BY <1>4, <2>1
  <2>3. dst[t] # src[t] /\ Hole \notin {dst[t], src[t]} /\ Cells \cap {dst[t], src[t]} # {}
    BY DEF UnifyWake, From, IsUndef
  <2> QED
    BY <1>0, <1>4, <2>2, <2>3 DEF ThreadInv, Control, Locks, LockedUndef, Locked, Searching, Reading, HoldsDst, HoldsBoth
<1> QED
  BY <1>0, <1>4, <1>5, <1>6, <1>7 DEF BindInv

LEMMA BindSetRef ==
  ASSUME BindInv, NoCycle(val), NEW t \in Threads, SetRef(t)
  PROVE  BindInv' /\ NoCycle(val)'
<1>0. ThreadInv(t) /\ TypeOK /\ val \in Stores
  BY DEF BindInv
<1>1. Joins(val, From(t), To(t)) /\ owner[mutexOf[From(t)]] = t
  BY <1>0, Ends DEF SetRef, ThreadInv, Control, HoldsBoth
<1>2. val' \in Stores /\ NoCycle(val')
  BY <1>0, <1>1, JoinNoCycle DEF SetRef
<1>3. TypeOK'
  BY <1>0, <1>2, NodeFacts DEF TypeOK, SetRef, UnlockBoth, Stores
<1>4. ASSUME NEW u \in Threads \ {t} PROVE ThreadInv(u)'
  <2>1. pc'[u] = pc[u] /\ dlock'[u] = dlock[u] /\ slock'[u] = slock[u]
    BY <1>0 DEF TypeOK, SetRef, UnlockBoth
  <2>2. \A m \in Mutexes : owner[m] = u => owner'[m] = u
    BY Unlocked DEF SetRef
  <2>3. \A d \in Cells : owner[mutexOf[d]] = u => val'[d] = val[d]
    BY <1>0, <1>1 DEF SetRef, Stores
  <2> QED
    BY <2>1, <2>2, <2>3, OtherKeeps DEF SetRef
<1>5. ThreadInv(t)'
  BY <1>0, MutexAssumption DEF TypeOK, SetRef, UnlockBoth,
     ThreadInv, Control, Locks, LockedUndef, Locked, Searching, Reading, HoldsDst, HoldsBoth
<1> QED
  BY <1>2, <1>3, <1>4, <1>5 DEF BindInv
-----------------------------------------------------------------------------
(* Waiting.                                                                *)

\* The cells with a moving class are locked by the binder that moves it.
LEMMA MovingLocked ==
  ASSUME BindInv, NEW t \in Threads, pc[t] = "setref"
  PROVE  /\ Joins(val, From(t), To(t))
         /\ owner[mutexOf[From(t)]] = t /\ (To(t) \in Cells => owner[mutexOf[To(t)]] = t)
BY Ends DEF BindInv, ThreadInv, Control, HoldsBoth

\* An action of t that is none of the four below: it leaves the store and the
\* waiters alone, and starts no binding and blocks nobody.
Quiet(t) ==
  /\ UNCHANGED <<val, waiting>>
  /\ pc[t] \notin {"blocked", "setref"} /\ pc'[t] \notin {"blocked", "setref"}
  /\ \A u \in Threads \ {t} : /\ pc'[u] = pc[u] /\ op'[u] = op[u] /\ dst'[u] = dst[u]
                              /\ src'[u] = src[u] /\ woken'[u] = woken[u]

LEMMA WaitQuiet ==
  ASSUME BindInv, WaitInv, NEW t \in Threads, Quiet(t)
  PROVE  WaitInv'
<1>1. NoLateWaiter'
  BY DEF Quiet, WaitInv, NoLateWaiter, IsUndef
<1>2. Emptied'
  BY DEF Quiet, WaitInv, Emptied, From, IsUndef
<1>3. LinkedOnce'
  BY DEF Quiet, WaitInv, LinkedOnce, Linked
<1>4. LinkedBlocked'
  BY DEF Quiet, WaitInv, LinkedBlocked, Linked
<1> QED
  BY <1>1, <1>2, <1>3, <1>4 DEF WaitInv

LEMMA MovingQuiet ==
  ASSUME BindInv, NEW t \in Threads, Quiet(t), NEW c, NEW n, Moving(c, n)
  PROVE  Moving(c, n)'
<1>1. PICK b \in Threads : pc[b] = "setref" /\ From(b) = c /\ To(b) = n
  BY DEF Moving
<1>2. b # t
  BY <1>1 DEF Quiet
<1> QED
  BY <1>1, <1>2 DEF Quiet, Moving, From, To, IsUndef

LEMMA ReadQuiet ==
  ASSUME BindInv, WaitInv, ReadInv, NEW t \in Threads, Quiet(t),
         pc'[t] \in Reading => Root(op'[t][2]) = Root(dst'[t]),
         woken'[t] => woken[t] /\ op'[t] = op[t] /\ pc'[t] \in Reading
  PROVE  ReadInv'
<1>1. \A n : Root(n)' = Root(n)
  BY RootOfStore DEF Quiet
<1> SUFFICES ASSUME NEW u \in Threads
             PROVE  /\ (pc[u] = "blocked")' => AtRoot(u)'
                    /\ (pc[u] \in Reading)' => (Root(op[u][2]) = Root(dst[u]))'
                    /\ (woken[u])' => /\ (pc[u] \in Reading)'
                                     /\ (Root(op[u][2]) \in Values \/ \E n \in Values : Moving(Root(op[u][2]), n))'
  BY DEF ReadInv
<1>2. ASSUME (pc[u] = "blocked")' PROVE AtRoot(u)'
  <2>1. u # t /\ AtRoot(u)
    BY <1>2 DEF Quiet, ReadInv
  <2>2. PICK c \in Cells, i \in Nat : Linked(u, c, i) /\ (c = Root(op[u][2]) \/ Moving(Root(op[u][2]), c))
    BY <2>1 DEF AtRoot
  <2>3. Linked(u, c, i)' /\ Root(op[u][2])' = Root(op[u][2])
    BY <1>1, <2>1, <2>2 DEF Quiet, Linked
  <2>4. (c = Root(op[u][2]) \/ Moving(Root(op[u][2]), c))'
    <3>1. CASE c = Root(op[u][2])
      BY <2>3, <3>1
    <3>2. CASE Moving(Root(op[u][2]), c)
      BY <2>3, <3>2, MovingQuiet
    <3> QED
      BY <2>2, <3>1, <3>2
  <2> QED
    BY <2>3, <2>4 DEF AtRoot
<1>3. (pc[u] \in Reading)' => (Root(op[u][2]) = Root(dst[u]))'
  BY <1>1 DEF Quiet, ReadInv
<1>4. ASSUME (woken[u])'
      PROVE  /\ (pc[u] \in Reading)'
             /\ (Root(op[u][2]) \in Values \/ \E n \in Values : Moving(Root(op[u][2]), n))'
  <2>1. woken[u] /\ op'[u] = op[u] /\ (pc[u] \in Reading)' /\ Root(op[u][2])' = Root(op[u][2])
    BY <1>1, <1>4 DEF Quiet, ReadInv
  <2>2. CASE Root(op[u][2]) \in Values
    BY <2>1, <2>2
  <2>3. ASSUME NEW n \in Values, Moving(Root(op[u][2]), n)
        PROVE  (\E m \in Values : Moving(Root(op[u][2]), m))'
    BY <2>1, <2>3, MovingQuiet
  <2> QED
    BY <2>1, <2>2, <2>3 DEF ReadInv
<1> QED
  BY <1>2, <1>3, <1>4

\* Following a reference leaves the end where it is.
LEMMA FollowRoot ==
  ASSUME val \in Stores, NoCycle(val), NEW n \in Nodes, IsRef(n)
  PROVE  Root(val[n]) = Root(n)
BY RootOfStore, RootFollows DEF IsRef, RefIn

LEMMA SearchStep ==
  ASSUME BindInv, NoCycle(val), WaitInv, ReadInv, NEW t \in Threads,
         \/ \E o \in Ops : Issue(t, o)
         \/ Begin(t) \/ EndBind(t) \/ Restart(t)
         \/ FollowDst(t) \/ FoundDst(t) \/ FollowSrc(t) \/ FoundSrc(t) \/ UnifyValues(t)
         \/ FoundRead(t)
         \/ LockDst(t) \/ LockSrc(t) \/ UnifySame(t) \/ UnifyHole(t) \/ OverflowHole(t)
  PROVE  WaitInv' /\ ReadInv'
<1>0. TypeOK /\ ThreadInv(t) /\ val \in Stores /\ (woken[t] => pc[t] \in Reading)
  BY DEF BindInv, ReadInv
<1>1. Quiet(t)
  <2>1. UNCHANGED <<val, waiting>> /\ pc[t] \notin {"blocked", "setref"}
    BY DEF Issue, Begin, EndBind, Restart, FollowDst, FoundDst, FollowSrc, FoundSrc, UnifyValues,
       FoundRead, LockDst, LockSrc, UnifySame, UnifyHole, OverflowHole
  <2>2. pc'[t] \notin {"blocked", "setref"}
    BY <1>0 DEF TypeOK, Issue, Begin, EndBind, Restart, FollowDst, FoundDst, FollowSrc, FoundSrc,
       UnifyValues, FoundRead, LockDst, LockSrc, UnifySame, UnifyHole, OverflowHole
  <2>3. ASSUME NEW u \in Threads \ {t}
        PROVE  /\ pc'[u] = pc[u] /\ op'[u] = op[u] /\ dst'[u] = dst[u]
               /\ src'[u] = src[u] /\ woken'[u] = woken[u]
    BY <1>0 DEF TypeOK, Issue, Begin, EndBind, Restart, FollowDst, FoundDst, FollowSrc, FoundSrc,
       UnifyValues, FoundRead, LockDst, LockSrc, UnifySame, UnifyHole, OverflowHole
  <2> QED
    BY <2>1, <2>2, <2>3 DEF Quiet
<1>2. CASE \E o \in Ops : Issue(t, o)
  <2>1. PICK o \in Ops : Issue(t, o)
    BY <1>2
  <2>2. op'[t] = o /\ dst'[t] = o[2] /\ woken' = woken /\ pc[t] = "idle"
    BY <1>0, <2>1 DEF TypeOK, Issue
  <2>3. ~woken'[t]
    BY <1>0, <2>2 DEF Reading
  <2> QED
    BY <1>1, <2>2, <2>3, WaitQuiet, ReadQuiet
<1>3. CASE FollowDst(t)
  <2>1. pc' = pc /\ op' = op /\ woken' = woken /\ dst'[t] = val[dst[t]] /\ IsRef(dst[t]) /\ dst[t] \in Nodes
    BY <1>0, <1>3 DEF TypeOK, FollowDst
  <2>2. Root(dst'[t]) = Root(dst[t])
    BY <1>0, <2>1, FollowRoot
  <2>3. pc'[t] \in Reading => Root(op'[t][2]) = Root(dst'[t])
    BY <2>1, <2>2 DEF ReadInv
  <2> QED
    BY <1>0, <1>1, <2>1, <2>3, WaitQuiet, ReadQuiet
<1>4. CASE FoundRead(t)
  <2>1. /\ op' = op /\ dst' = dst /\ pc[t] = "read" /\ woken'[t] = (woken[t] /\ IsUndef(dst[t]))
        /\ pc'[t] = IF IsUndef(dst[t]) THEN "readlock" ELSE "idle"
    BY <1>0, <1>4 DEF TypeOK, FoundRead
  <2>2. Root(op'[t][2]) = Root(dst'[t])
    BY <2>1 DEF ReadInv, Reading
  <2>3. woken'[t] => woken[t] /\ pc'[t] \in Reading
    BY <2>1 DEF Reading
  <2> QED
    BY <1>1, <2>1, <2>2, <2>3, WaitQuiet, ReadQuiet
<1>5. CASE \/ Begin(t) \/ EndBind(t) \/ Restart(t) \/ FoundDst(t) \/ FollowSrc(t) \/ FoundSrc(t)
           \/ UnifyValues(t) \/ LockDst(t) \/ LockSrc(t) \/ UnifySame(t) \/ UnifyHole(t) \/ OverflowHole(t)
  <2>1. pc[t] \notin Reading /\ woken' = woken
    BY <1>5 DEF Reading, Begin, EndBind, Restart, FoundDst, FollowSrc, FoundSrc,
       UnifyValues, LockDst, LockSrc, UnifySame, UnifyHole, OverflowHole
  <2>2. pc'[t] \notin Reading
    BY <1>0, <1>5 DEF TypeOK, Reading, Begin, EndBind, Restart, FoundDst, FollowSrc, FoundSrc,
       UnifyValues, LockDst, LockSrc, UnifySame, UnifyHole, OverflowHole
  <2> QED
    BY <1>0, <1>1, <2>1, <2>2, WaitQuiet, ReadQuiet
<1> QED
  BY <1>2, <1>3, <1>4, <1>5

\* A thread that was woken does not find its cell undefined: NoSecondWait.
LEMMA WokenFinds ==
  ASSUME BindInv, NoCycle(val), ReadInv, NEW t \in Threads, woken[t], pc[t] = "readlock", Free(dst[t])
  PROVE  ~IsUndef(dst[t])
<1> SUFFICES ASSUME IsUndef(dst[t]) PROVE FALSE
  OBVIOUS
<1>1. Root(op[t][2]) = dst[t] /\ dst[t] \in Cells
  <2>1. Root(dst[t]) = dst[t]
    BY RootOfStore, RootStops, NodeFacts DEF BindInv, IsUndef, RefIn
  <2> QED
    BY <2>1 DEF ReadInv, Reading, IsUndef
<1>2. PICK n \in Values : Moving(dst[t], n)
  BY <1>1, NodeFacts DEF ReadInv
<1>3. PICK b \in Threads : pc[b] = "setref" /\ From(b) = dst[t]
  BY <1>2 DEF Moving
<1>4. owner[mutexOf[dst[t]]] = b
  BY <1>3, MovingLocked
<1> QED
  BY <1>4, MutexAssumption DEF Free

LEMMA LockReadStep ==
  ASSUME BindInv, NoCycle(val), WaitInv, ReadInv, NEW t \in Threads, LockRead(t)
  PROVE  WaitInv' /\ ReadInv' /\ (woken[t] => pc'[t] # "blocked")
<1>0. TypeOK /\ ThreadInv(t) /\ val \in Stores
  BY DEF BindInv
<1>c. PICK c : c = dst[t]
  OBVIOUS
<1>l. PICK l : l = Len(waiting[c])
  OBVIOUS
<1>1. c \in Cells /\ pc[t] = "readlock" /\ Free(c)
  BY <1>0, <1>c DEF LockRead, ThreadInv, Control
<1>2. CASE ~IsUndef(c)
  <2>1. /\ pc' = [pc EXCEPT ![t] = "read"] /\ waiting' = waiting
        /\ UNCHANGED <<val, op, dst, src, woken>>
    BY <1>2, <1>c DEF LockRead
  <2>2. pc'[t] = "read" /\ Quiet(t)
    BY <1>0, <1>1, <2>1 DEF TypeOK, Quiet
  <2>3. Root(op[t][2]) = Root(dst[t])
    BY <1>1, <1>c DEF ReadInv, Reading
  <2> QED
    BY <2>1, <2>2, <2>3, WaitQuiet, ReadQuiet DEF Reading
<1>3. CASE IsUndef(c)
  <2>1. /\ pc' = [pc EXCEPT ![t] = "blocked"]
        /\ waiting' = [waiting EXCEPT ![c] = Append(waiting[c], t)]
        /\ UNCHANGED <<val, op, dst, src, woken>>
    BY <1>3, <1>c DEF LockRead, IsRef, IsUndef
  <2>2. ~woken[t]
    BY <1>1, <1>3, <1>c, WokenFinds
  <2>3. \A d \in Cells : waiting[d] \in Seq(Threads) /\ waiting'[d] = IF d = c THEN Append(waiting[c], t) ELSE waiting[d]
    BY <1>0, <1>1, <2>1 DEF TypeOK
  <2>4. ASSUME NEW u \in Threads, NEW d \in Cells, NEW i \in Nat
        PROVE  Linked(u, d, i)' <=> Linked(u, d, i) \/ (u = t /\ d = c /\ i = l + 1)
    <3>1. CASE d # c
      BY <2>3, <3>1 DEF Linked
    <3>2. CASE d = c
      <4>1. waiting'[c] = Append(waiting[c], t) /\ waiting[c] \in Seq(Threads)
        BY <1>1, <2>3
      <4>2. /\ DOMAIN waiting'[c] = 1 .. Len(waiting[c]) + 1 /\ DOMAIN waiting[c] = 1 .. Len(waiting[c])
            /\ Len(waiting[c]) \in Nat
            /\ \A j \in 1 .. Len(waiting[c]) : waiting'[c][j] = waiting[c][j]
            /\ waiting'[c][Len(waiting[c]) + 1] = t
        BY <4>1
      <4> QED
        BY <1>l, <3>2, <4>2 DEF Linked
    <3> QED
      BY <3>1, <3>2
  <2>5. \A d \in Cells, i \in Nat : ~Linked(t, d, i)
    BY <1>1 DEF WaitInv, LinkedBlocked
  <2>6. NoLateWaiter' /\ LinkedBlocked'
    <3>1. NoLateWaiter'
      BY <1>3, <2>1, <2>3 DEF WaitInv, NoLateWaiter, IsUndef
    <3>2. LinkedBlocked'
      BY <1>0, <2>1, <2>4 DEF WaitInv, LinkedBlocked, TypeOK
    <3> QED
      BY <3>1, <3>2
  <2>7. LinkedOnce'
    BY <2>4, <2>5 DEF WaitInv, LinkedOnce
  <2>8. Emptied'
    <3> SUFFICES ASSUME NEW b \in Threads, (pc[b] = "setref")' PROVE (waiting[From(b)] = <<>>)'
      BY DEF Emptied
    <3>1. pc[b] = "setref" /\ From(b)' = From(b) /\ b # t
      BY <1>0, <2>1 DEF TypeOK, From, IsUndef
    <3>2. waiting[From(b)] = <<>> /\ From(b) \in Cells /\ owner[mutexOf[From(b)]] = b
      BY <3>1, MovingLocked DEF WaitInv, Emptied, Joins
    <3>3. From(b) # c
      BY <1>1, <3>2, MutexAssumption DEF Free
    <3> QED
      BY <2>3, <3>1, <3>2, <3>3
  <2>9. WaitInv'
    BY <2>6, <2>7, <2>8 DEF WaitInv
  <2>10. \A n : Root(n)' = Root(n)
    BY <2>1, RootOfStore
  <2>11. ASSUME NEW r, NEW n, Moving(r, n) PROVE Moving(r, n)'
    BY <1>0, <1>1, <2>1, <2>11 DEF TypeOK, Moving, From, To, IsUndef
  <2>12. ReadInv'
    <3> SUFFICES ASSUME NEW u \in Threads
                 PROVE  /\ (pc[u] = "blocked")' => AtRoot(u)'
                        /\ (pc[u] \in Reading)' => (Root(op[u][2]) = Root(dst[u]))'
                        /\ (woken[u])' => /\ (pc[u] \in Reading)'
                                         /\ (Root(op[u][2]) \in Values \/ \E n \in Values : Moving(Root(op[u][2]), n))'
      BY DEF ReadInv
    <3>1. CASE u = t
      <4>1. (pc[u] = "blocked")' /\ ~woken'[u]
        BY <1>0, <2>1, <2>2, <3>1 DEF TypeOK
      <4>2. Root(op[t][2])' = c
        <5>1. Root(dst[t]) = dst[t]
          BY <1>0, <1>3, <1>c, RootOfStore, RootStops, NodeFacts DEF IsUndef, RefIn
        <5>2. Root(op[t][2]) = Root(dst[t])
          BY <1>1 DEF ReadInv, Reading
        <5> QED
          BY <1>c, <2>1, <2>10, <5>1, <5>2
      <4>3. l + 1 \in Nat /\ Linked(t, c, l + 1)'
        <5>1. l + 1 \in Nat
          BY <1>1, <1>l, <2>3
        <5> QED
          BY <1>1, <2>4, <5>1
      <4>4. AtRoot(t)'
        BY <1>1, <4>2, <4>3 DEF AtRoot
      <4> QED
        BY <3>1, <4>1, <4>4 DEF Reading
    <3>2. CASE u # t
      <4>1. /\ pc'[u] = pc[u] /\ op'[u] = op[u] /\ dst'[u] = dst[u] /\ woken'[u] = woken[u]
            /\ Root(op[u][2])' = Root(op[u][2]) /\ Root(dst[u])' = Root(dst[u])
        BY <1>0, <2>1, <2>10, <3>2 DEF TypeOK
      <4>2. ASSUME pc[u] = "blocked" PROVE AtRoot(u)'
        <5>1. PICK d \in Cells, i \in Nat : Linked(u, d, i) /\ (d = Root(op[u][2]) \/ Moving(Root(op[u][2]), d))
          BY <4>2 DEF ReadInv, AtRoot
        <5>2. Linked(u, d, i)'
          BY <2>4, <5>1
        <5>3. (d = Root(op[u][2]) \/ Moving(Root(op[u][2]), d))'
          BY <2>11, <4>1, <5>1
        <5> QED
          BY <5>2, <5>3 DEF AtRoot
      <4>3. ASSUME woken[u] PROVE (Root(op[u][2]) \in Values \/ \E n \in Values : Moving(Root(op[u][2]), n))'
        <5>1. Root(op[u][2]) \in Values \/ \E n \in Values : Moving(Root(op[u][2]), n)
          BY <4>3 DEF ReadInv
        <5> QED
          BY <2>11, <4>1, <5>1
      <4> QED
        BY <4>1, <4>2, <4>3 DEF ReadInv
    <3> QED
      BY <3>1, <3>2
  <2> QED
    BY <2>2, <2>9, <2>12
<1> QED
  BY <1>2, <1>3

LEMMA WakeStep ==
  ASSUME BindInv, NoCycle(val), WaitInv, ReadInv, NEW t \in Threads, UnifyWake(t)
  PROVE  WaitInv' /\ ReadInv'
<1>0. TypeOK /\ val \in Stores
  BY DEF BindInv
<1>c. PICK c : c = From(t)
  OBVIOUS
<1>n. PICK n : n = To(t)
  OBVIOUS
<1>l. PICK l : l = Len(waiting[n])
  OBVIOUS
<1>r. PICK Resumed : Resumed = {u \in Threads : n \notin Cells /\ \E i \in DOMAIN waiting[c] : waiting[c][i] = u}
  OBVIOUS
<1>1. /\ Joins(val, c, n) /\ owner[mutexOf[c]] = t /\ (n \in Cells => owner[mutexOf[n]] = t)
  <2>1. Cells \cap {dst[t], src[t]} # {}
    BY DEF UnifyWake, From, IsUndef
  <2> QED
    BY <1>c, <1>n, <2>1, Ends DEF UnifyWake, HoldsBoth
<1>2. c \in Cells /\ n # c /\ n \in Cells \cup Values /\ val[c] = Undef /\ (n \in Cells => val[n] = Undef)
  BY <1>1, NodeFacts DEF Joins
<1>3. /\ pc' = [u \in Threads |-> CASE u = t -> "setref" [] u \in Resumed -> "read" [] OTHER -> pc[u]]
      /\ dst' = [u \in Threads |-> IF u \in Resumed THEN op[u][2] ELSE dst[u]]
      /\ woken' = [u \in Threads |-> woken[u] \/ u \in Resumed]
      /\ pc[t] = "unify"
      /\ waiting' = IF n \in Cells THEN [waiting EXCEPT ![c] = <<>>, ![n] = @ \o waiting[c]]
                    ELSE [waiting EXCEPT ![c] = <<>>]
      /\ UNCHANGED <<val, src, op>>
  BY <1>c, <1>n, <1>r DEF UnifyWake
<1>4. \A u \in Threads : u \in Resumed <=> n \notin Cells /\ \E i \in Nat : Linked(u, c, i)
  BY <1>0, <1>2, <1>r DEF TypeOK, Linked
<1>5. /\ \A u \in Resumed : u \in Threads /\ pc[u] = "blocked" /\ u # t
      /\ pc'[t] = "setref" /\ dst'[t] = dst[t] /\ woken'[t] = woken[t]
      /\ \A u \in Resumed : pc'[u] = "read" /\ dst'[u] = op[u][2] /\ woken'[u]
      /\ \A u \in Threads \ ({t} \cup Resumed) : pc'[u] = pc[u] /\ dst'[u] = dst[u] /\ woken'[u] = woken[u]
  <2>1. ASSUME NEW u \in Resumed PROVE u \in Threads /\ pc[u] = "blocked" /\ u # t
    <3>1. u \in Threads
      BY <1>r
    <3>2. \E i \in Nat : Linked(u, c, i)
      BY <1>4, <3>1
    <3>3. pc[u] = "blocked"
      BY <1>2, <3>1, <3>2 DEF WaitInv, LinkedBlocked
    <3> QED
      BY <1>3, <3>1, <3>3
  <2>2. \A u \in Threads : woken[u] \in BOOLEAN
    BY <1>0 DEF TypeOK
  <2>3. t \notin Resumed
    BY <2>1
  <2>4. \A u \in Threads : woken'[u] = (woken[u] \/ u \in Resumed)
    BY <1>3
  <2>5. \A u \in Threads : dst'[u] = IF u \in Resumed THEN op[u][2] ELSE dst[u]
    BY <1>3
  <2>6. ASSUME NEW u \in Threads
        PROVE  pc'[u] = IF u = t THEN "setref" ELSE IF u \in Resumed THEN "read" ELSE pc[u]
    BY <1>3, <2>3
  <2>7. \A u \in Resumed : woken'[u]
    BY <2>1, <2>4
  <2>8. \A u \in Threads \ Resumed : woken'[u] = woken[u]
    <3> SUFFICES ASSUME NEW u \in Threads \ Resumed PROVE woken'[u] = woken[u]
      OBVIOUS
    <3> QED
      BY <2>2, <2>4
  <2> QED
    BY <2>1, <2>3, <2>5, <2>6, <2>7, <2>8
<1>6. /\ \A d \in Cells \ {c, n} : waiting'[d] = waiting[d]
      /\ waiting'[c] = <<>>
      /\ n \in Cells => waiting'[n] = waiting[n] \o waiting[c]
  BY <1>0, <1>2, <1>3 DEF TypeOK
<1>7. \A d \in Cells : waiting[d] \in Seq(Threads)
  BY <1>0 DEF TypeOK
<1>8. ASSUME NEW u \in Threads, NEW d \in Cells, NEW i \in Nat
      PROVE  Linked(u, d, i)' <=> (d # c /\ Linked(u, d, i)) \/ (d = n /\ i > l /\ Linked(u, c, i - l))
  <2>1. CASE d \notin {c, n}
    <3>1. waiting'[d] = waiting[d]
      BY <1>6, <2>1
    <3> QED
      BY <2>1, <3>1 DEF Linked
  <2>2. CASE d = c
    BY <1>2, <1>6, <2>2 DEF Linked
  <2>3. CASE d = n
    <3>1. /\ waiting'[n] = waiting[n] \o waiting[c] /\ waiting[n] \in Seq(Threads) /\ waiting[c] \in Seq(Threads)
      BY <1>2, <1>6, <1>7, <2>3
    <3> DEFINE a == waiting[n]  b == waiting[c]
    <3>3. a \in Seq(Threads) /\ b \in Seq(Threads) /\ waiting'[n] = a \o b /\ l = Len(a)
      BY <1>l, <3>1
    <3>2. /\ DOMAIN waiting[n] = 1 .. l /\ DOMAIN waiting[c] = 1 .. Len(waiting[c])
          /\ l \in Nat /\ Len(waiting[c]) \in Nat
          /\ DOMAIN waiting'[n] = 1 .. l + Len(waiting[c])
          /\ \A j \in 1 .. l + Len(waiting[c]) :
                waiting'[n][j] = IF j <= l THEN waiting[n][j] ELSE waiting[c][j - l]
      <4> HIDE DEF a, b
      <4>1. /\ DOMAIN a = 1 .. l /\ DOMAIN b = 1 .. Len(b) /\ l \in Nat /\ Len(b) \in Nat
            /\ DOMAIN (a \o b) = 1 .. l + Len(b)
            /\ \A j \in 1 .. l + Len(b) : (a \o b)[j] = IF j <= l THEN a[j] ELSE b[j - l]
        BY <3>3
      <4> QED
        BY <3>3, <4>1 DEF a, b
    <3> QED
      BY <1>2, <2>3, <3>2 DEF Linked
  <2> QED
    BY <2>1, <2>2, <2>3
<1>9. ASSUME NEW u \in Threads, NEW i \in Nat, n \in Cells, Linked(u, c, i)
      PROVE  l + i \in Nat /\ Linked(u, n, l + i)'
  <2>1. l \in Nat /\ i > 0
    BY <1>2, <1>7, <1>9, <1>l DEF Linked
  <2>2. l + i \in Nat /\ l + i > l /\ (l + i) - l = i
    BY <2>1
  <2> QED
    BY <1>8, <1>9, <2>2
<1>10. ASSUME NEW b \in Threads, (pc[b] = "setref")'
       PROVE  /\ From(b)' = From(b) /\ To(b)' = To(b)
              /\ b = t \/ (pc[b] = "setref" /\ From(b) \notin {c, n})
  <2>1. b \notin Resumed /\ (b = t \/ pc[b] = "setref")
    BY <1>5, <1>10
  <2>2. dst'[b] = dst[b]
    BY <1>5, <2>1
  <2>3. From(b)' = From(b) /\ To(b)' = To(b)
    BY <1>3, <2>2 DEF From, To, IsUndef
  <2>4. pc[b] = "setref" => From(b) \notin {c, n}
    BY <1>1, <1>3, MovingLocked DEF Joins
  <2> QED
    BY <2>1, <2>3, <2>4
<1>11. NoLateWaiter'
  BY <1>2, <1>3, <1>6 DEF WaitInv, NoLateWaiter, IsUndef
<1>12. Emptied'
  <2> SUFFICES ASSUME NEW b \in Threads, (pc[b] = "setref")' PROVE (waiting[From(b)] = <<>>)'
    BY DEF Emptied
  <2>1. CASE b = t
    BY <1>c, <1>6, <1>10, <2>1
  <2>2. CASE b # t
    <3>1. pc[b] = "setref" /\ From(b) \notin {c, n} /\ From(b)' = From(b)
      BY <1>10, <2>2
    <3>2. From(b) \in Cells /\ waiting[From(b)] = <<>>
      BY <3>1, MovingLocked DEF Joins, WaitInv, Emptied
    <3> QED
      BY <1>6, <3>1, <3>2
  <2> QED
    BY <2>1, <2>2
<1>13. ASSUME NEW u \in Threads, NEW d \in Cells, NEW i \in Nat, Linked(u, d, i)'
       PROVE  (pc[u] = "blocked")' /\ u \notin Resumed
  <2>1. l \in Nat \/ d # n
    BY <1>7, <1>l
  <2>2. (Linked(u, d, i) /\ d # c) \/ (n \in Cells /\ i - l \in Nat /\ Linked(u, c, i - l))
    BY <1>8, <1>13, <2>1
  <2>3. pc[u] = "blocked" /\ (n \in Cells \/ \A j \in Nat : ~Linked(u, c, j))
    BY <1>2, <2>2 DEF WaitInv, LinkedBlocked, LinkedOnce
  <2>4. u \notin Resumed /\ u # t
    BY <1>3, <1>4, <2>3
  <2> QED
    BY <1>5, <2>3, <2>4
<1>14. LinkedBlocked'
  BY <1>13 DEF LinkedBlocked
<1>15. LinkedOnce'
  <2> SUFFICES ASSUME NEW u \in Threads, NEW d \in Cells, NEW e \in Cells, NEW i \in Nat, NEW j \in Nat,
                      Linked(u, d, i)', Linked(u, e, j)'
               PROVE  d = e /\ i = j
    BY DEF LinkedOnce
  <2>1. \A f, g \in Cells, k, m \in Nat : Linked(u, f, k) /\ Linked(u, g, m) => f = g /\ k = m
    BY DEF WaitInv, LinkedOnce
  <2>2. l \in Nat \/ n \notin Cells
    BY <1>7, <1>l
  <2>3. \/ d # c /\ Linked(u, d, i)
        \/ d = n /\ i - l \in Nat /\ i = (i - l) + l /\ Linked(u, c, i - l)
    BY <1>8, <2>2
  <2>4. \/ e # c /\ Linked(u, e, j)
        \/ e = n /\ j - l \in Nat /\ j = (j - l) + l /\ Linked(u, c, j - l)
    BY <1>8, <2>2
  <2> QED
    BY <1>2, <2>1, <2>3, <2>4
<1>16. \A m : Root(m)' = Root(m)
  BY <1>3, RootOfStore
<1>17. ASSUME NEW r, NEW m, Moving(r, m) PROVE Moving(r, m)' /\ m # c
  <2>1. PICK b \in Threads : pc[b] = "setref" /\ From(b) = r /\ To(b) = m
    BY <1>17 DEF Moving
  <2>2. b # t /\ b \notin Resumed
    BY <1>3, <1>5, <2>1
  <2>3. (pc[b] = "setref")'
    BY <1>5, <2>1, <2>2
  <2>4. m # c
    BY <1>1, <1>2, <2>1, <2>2, MovingLocked
  <2> QED
    BY <1>10, <2>1, <2>3, <2>4 DEF Moving
<1>18. Moving(c, n)'
  <2>1. (pc[t] = "setref")'
    BY <1>5
  <2> QED
    BY <1>c, <1>n, <1>10, <2>1 DEF Moving
<1>19. ReadInv'
  <2> SUFFICES ASSUME NEW u \in Threads
               PROVE  /\ (pc[u] = "blocked")' => AtRoot(u)'
                      /\ (pc[u] \in Reading)' => (Root(op[u][2]) = Root(dst[u]))'
                      /\ (woken[u])' => /\ (pc[u] \in Reading)'
                                       /\ (Root(op[u][2]) \in Values \/ \E m \in Values : Moving(Root(op[u][2]), m))'
    BY DEF ReadInv
  <2>1. op'[u] = op[u] /\ Root(op[u][2])' = Root(op[u][2]) /\ Root(dst[u])' = Root(dst'[u])
    BY <1>3, <1>16, RootOfStore
  <2>2. ASSUME u # t, pc[u] = "blocked"
        PROVE  \E d \in Cells, i \in Nat :
                 /\ Linked(u, d, i) /\ (d = Root(op[u][2]) \/ Moving(Root(op[u][2]), d))
                 /\ d = c => Root(op[u][2]) = c
    <3>1. PICK d \in Cells, i \in Nat : Linked(u, d, i) /\ (d = Root(op[u][2]) \/ Moving(Root(op[u][2]), d))
      BY <2>2 DEF ReadInv, AtRoot
    <3> QED
      BY <1>17, <3>1
  <2>3. CASE u \in Resumed
    <3>1. /\ u # t /\ pc[u] = "blocked" /\ pc'[u] = "read" /\ dst'[u] = op[u][2] /\ woken'[u]
          /\ n \in Values
      BY <1>2, <1>4, <1>5, <2>3
    <3>2. PICK i \in Nat : Linked(u, c, i)
      BY <1>4, <2>3
    <3>3. Root(op[u][2]) = c
      BY <1>2, <2>2, <3>1, <3>2 DEF WaitInv, LinkedOnce
    <3>4. (\E m \in Values : Moving(Root(op[u][2]), m))'
      BY <1>18, <2>1, <3>1, <3>3
    <3> QED
      BY <2>1, <3>1, <3>4 DEF Reading
  <2>4. CASE u = t
    <3>1. pc'[t] = "setref" /\ woken'[t] = woken[t] /\ ~woken[t]
      BY <1>3, <1>5 DEF ReadInv, Reading
    <3> QED
      BY <2>4, <3>1 DEF Reading
  <2>5. CASE u \notin Resumed /\ u # t
    <3>1. pc'[u] = pc[u] /\ dst'[u] = dst[u] /\ woken'[u] = woken[u]
      BY <1>5, <2>5
    <3>2. ASSUME pc[u] = "blocked" PROVE AtRoot(u)'
      <4>1. PICK d \in Cells, i \in Nat : /\ Linked(u, d, i) /\ (d = Root(op[u][2]) \/ Moving(Root(op[u][2]), d))
                                          /\ d = c => Root(op[u][2]) = c
        BY <2>2, <2>5, <3>2
      <4>2. CASE d # c
        <5>1. Linked(u, d, i)'
          BY <1>8, <4>1, <4>2
        <5>2. (d = Root(op[u][2]) \/ Moving(Root(op[u][2]), d))'
          BY <1>17, <2>1, <4>1
        <5> QED
          BY <5>1, <5>2 DEF AtRoot
      <4>3. CASE d = c
        <5>1. n \in Cells
          BY <1>4, <2>5, <4>1, <4>3
        <5>2. l + i \in Nat /\ Linked(u, n, l + i)'
          BY <1>9, <4>1, <4>3, <5>1
        <5>3. Moving(Root(op[u][2]), n)'
          BY <1>18, <2>1, <4>1, <4>3
        <5> QED
          BY <5>1, <5>2, <5>3 DEF AtRoot
      <4> QED
        BY <4>2, <4>3
    <3>3. ASSUME woken[u] PROVE (Root(op[u][2]) \in Values \/ \E m \in Values : Moving(Root(op[u][2]), m))'
      <4>1. Root(op[u][2]) \in Values \/ \E m \in Values : Moving(Root(op[u][2]), m)
        BY <3>3 DEF ReadInv
      <4> QED
        BY <1>17, <2>1, <4>1
    <3> QED
      BY <1>16, <2>1, <3>1, <3>2, <3>3 DEF ReadInv
  <2> QED
    BY <2>3, <2>4, <2>5
<1> QED
  BY <1>11, <1>12, <1>14, <1>15, <1>19 DEF WaitInv

\* The reference joins one class to another, and nothing else.
LEMMA SetRefRoots ==
  ASSUME BindInv, NoCycle(val), NEW t \in Threads, SetRef(t)
  PROVE  /\ Root(From(t)) = From(t) /\ Root(To(t)) = To(t)
         /\ \A n \in Nodes : Root(n)' = IF Root(n) = From(t) THEN To(t) ELSE Root(n)
<1>1. val \in Stores /\ Joins(val, From(t), To(t))
  BY MovingLocked DEF BindInv, SetRef
<1>2. From(t) \in Cells /\ To(t) \in Cells \cup Values
  BY <1>1 DEF Joins
<1>3. val' \in Stores /\ \A c \in Cells : val'[c] = (IF c = From(t) THEN To(t) ELSE val[c])
  BY <1>1, <1>2 DEF SetRef, Stores
<1>4. ASSUME NEW n \in Nodes
      PROVE  /\ RootIn(val, From(t)) = From(t) /\ RootIn(val, To(t)) = To(t)
             /\ RootIn(val', n) = IF RootIn(val, n) = From(t) THEN To(t) ELSE RootIn(val, n)
  BY <1>1, <1>3, JoinRoots
<1>5. ASSUME NEW n \in Nodes PROVE Root(n)' = IF Root(n) = From(t) THEN To(t) ELSE Root(n)
  <2>1. Root(n)' = RootIn(val', n) /\ Root(n) = RootIn(val, n)
    BY RootOfStore
  <2> QED
    BY <1>4, <2>1
<1>6. Root(From(t)) = From(t) /\ Root(To(t)) = To(t)
  BY <1>4, RootOfStore, NodeFacts
<1> QED
  BY <1>5, <1>6

LEMMA SetRefStep ==
  ASSUME BindInv, NoCycle(val), WaitInv, ReadInv, NEW t \in Threads, SetRef(t)
  PROVE  WaitInv' /\ ReadInv'
<1>0. TypeOK /\ val \in Stores
  BY DEF BindInv
<1>c. PICK c : c = From(t)
  OBVIOUS
<1>n. PICK n : n = To(t)
  OBVIOUS
<1>1. /\ pc[t] = "setref" /\ pc' = [pc EXCEPT ![t] = "begin"] /\ val' = [val EXCEPT ![c] = n]
      /\ UNCHANGED <<mutexOf, waiting, todo, dst, src, woken, op>>
  BY <1>c, <1>n DEF SetRef
<1>2. /\ Joins(val, c, n) /\ owner[mutexOf[c]] = t /\ (n \in Cells => owner[mutexOf[n]] = t)
      /\ waiting[c] = <<>>
  BY <1>c, <1>n, <1>1, MovingLocked DEF WaitInv, Emptied
<1>3. c \in Cells /\ n \in Cells \cup Values /\ n # c /\ c \in Nodes /\ c \notin Values
  BY <1>2, NodeFacts DEF Joins
<1>4. ASSUME NEW m \in Nodes PROVE Root(m)' = IF Root(m) = c THEN n ELSE Root(m)
  BY <1>c, <1>n, SetRefRoots
<1>5. \A u \in Threads \ {t} : pc'[u] = pc[u]
  BY <1>0, <1>1 DEF TypeOK
<1>6. pc'[t] = "begin"
  BY <1>0, <1>1 DEF TypeOK
<1>7. ASSUME NEW b \in Threads \ {t}, pc[b] = "setref"
      PROVE  /\ From(b) # c /\ To(b) # c /\ From(b) \in Cells
             /\ From(b)' = From(b) /\ To(b)' = To(b)
  <2>1. From(b) # c /\ To(b) # c /\ From(b) \in Cells
    BY <1>2, <1>3, <1>7, MovingLocked DEF Joins
  <2>2. dst[b] # c
    BY <2>1 DEF From, To
  <2>3. IsUndef(dst[b])' <=> IsUndef(dst[b])
    BY <1>0, <1>1, <1>3, <2>2 DEF IsUndef, Stores
  <2>4. dst'[b] = dst[b] /\ src'[b] = src[b]
    BY <1>1
  <2>5. From(b)' = From(b) /\ To(b)' = To(b)
    BY <2>3, <2>4 DEF From, To
  <2> QED
    BY <2>1, <2>5
<1>8. WaitInv'
  <2>1. NoLateWaiter'
    BY <1>0, <1>1, <1>2, <1>3 DEF WaitInv, NoLateWaiter, IsUndef, Stores
  <2>2. Emptied'
    <3> SUFFICES ASSUME NEW b \in Threads, (pc[b] = "setref")' PROVE (waiting[From(b)] = <<>>)'
      BY DEF Emptied
    <3>1. b # t /\ pc[b] = "setref"
      BY <1>5, <1>6
    <3>2. From(b)' = From(b) /\ waiting[From(b)] = <<>>
      BY <1>7, <3>1 DEF WaitInv, Emptied
    <3> QED
      BY <1>1, <3>2
  <2>3. LinkedOnce'
    BY <1>1 DEF WaitInv, LinkedOnce, Linked
  <2>4. LinkedBlocked'
    BY <1>1, <1>5 DEF WaitInv, LinkedBlocked, Linked
  <2> QED
    BY <2>1, <2>2, <2>3, <2>4 DEF WaitInv
<1>9. ASSUME NEW r, NEW m, Moving(r, m) PROVE (r = c /\ m = n) \/ (r # c /\ Moving(r, m)')
  <2>1. PICK b \in Threads : pc[b] = "setref" /\ From(b) = r /\ To(b) = m
    BY <1>9 DEF Moving
  <2>2. CASE b = t
    BY <1>c, <1>n, <2>1, <2>2
  <2>3. CASE b # t
    <3>1. (pc[b] = "setref")' /\ From(b)' = r /\ To(b)' = m /\ r # c
      BY <1>5, <1>7, <2>1, <2>3
    <3> QED
      BY <3>1 DEF Moving
  <2> QED
    BY <2>2, <2>3
<1>10. ReadInv'
  <2> SUFFICES ASSUME NEW u \in Threads
               PROVE  /\ (pc[u] = "blocked")' => AtRoot(u)'
                      /\ (pc[u] \in Reading)' => (Root(op[u][2]) = Root(dst[u]))'
                      /\ (woken[u])' => /\ (pc[u] \in Reading)'
                                       /\ (Root(op[u][2]) \in Values \/ \E m \in Values : Moving(Root(op[u][2]), m))'
    BY DEF ReadInv
  <2>1. CASE u = t
    <3>1. ~woken[t]
      BY <1>1 DEF ReadInv, Reading
    <3> QED
      BY <1>1, <1>6, <2>1, <3>1 DEF Reading
  <2>2. CASE u # t
    <3>o. PICK o : o = op[u][2]
      OBVIOUS
    <3>r. PICK r : r = Root(o)
      OBVIOUS
    <3>1. pc'[u] = pc[u] /\ op'[u] = op[u] /\ dst'[u] = dst[u] /\ woken'[u] = woken[u]
      BY <1>1, <1>5, <2>2
    <3>2. ASSUME pc[u] \in Reading \cup {"blocked"}
          PROVE  o \in Nodes /\ Root(op[u][2])' = IF r = c THEN n ELSE r
      <4>1. o \in Nodes
        BY <3>o, <3>2, OpFacts DEF BindInv, ThreadInv, Control, Reading
      <4>2. Root(o)' = IF Root(o) = c THEN n ELSE Root(o)
        BY <1>4, <4>1
      <4>3. Root(op[u][2])' = Root(o)'
        BY <3>o, <3>1
      <4> QED
        BY <3>r, <4>1, <4>2, <4>3
    <3>3. ASSUME pc[u] = "blocked" PROVE AtRoot(u)'
      <4>1. PICK d \in Cells, i \in Nat : Linked(u, d, i) /\ (d = r \/ Moving(r, d))
        BY <3>o, <3>r, <3>3 DEF ReadInv, AtRoot
      <4>2. Linked(u, d, i)' /\ d # c
        BY <1>1, <1>2, <4>1 DEF Linked
      <4>3. (d = Root(op[u][2]) \/ Moving(Root(op[u][2]), d))'
        BY <1>9, <3>2, <3>3, <4>1, <4>2
      <4> QED
        BY <4>2, <4>3 DEF AtRoot
    <3>4. ASSUME pc[u] \in Reading PROVE Root(op[u][2])' = Root(dst[u])'
      <4>1. dst[u] \in Nodes /\ Root(dst[u]) = r
        BY <1>0, <3>o, <3>r, <3>4 DEF TypeOK, ReadInv
      <4>2. Root(dst[u])' = IF r = c THEN n ELSE r
        <5> PICK d : d = dst[u]
          OBVIOUS
        <5>1. Root(d)' = IF Root(d) = c THEN n ELSE Root(d)
          BY <1>4, <4>1
        <5>2. Root(dst[u])' = Root(d)'
          BY <3>1
        <5> QED
          BY <4>1, <5>1, <5>2
      <4> QED
        BY <3>2, <3>4, <4>2
    <3>5. ASSUME woken[u]
          PROVE  pc[u] \in Reading /\ (Root(op[u][2]) \in Values \/ \E m \in Values : Moving(Root(op[u][2]), m))'
      <4>1. pc[u] \in Reading /\ (r \in Values \/ \E m \in Values : Moving(r, m))
        BY <3>o, <3>r, <3>5 DEF ReadInv
      <4>2. CASE r \in Values
        BY <1>3, <3>2, <4>1, <4>2
      <4>3. ASSUME NEW m \in Values, Moving(r, m)
            PROVE  (Root(op[u][2]) \in Values \/ \E k \in Values : Moving(Root(op[u][2]), k))'
        <5>1. CASE r = c /\ m = n
          BY <3>2, <4>1, <4>3, <5>1
        <5>2. CASE r # c /\ Moving(r, m)'
          <6>1. Root(op[u][2])' = r
            BY <3>2, <4>1, <5>2
          <6>2. Moving(Root(op[u][2]), m)'
            BY <5>2, <6>1
          <6> QED
            BY <6>2
        <5> QED
          BY <1>9, <4>3, <5>1, <5>2
      <4> QED
        BY <4>1, <4>2, <4>3
    <3> QED
      BY <3>1, <3>3, <3>4, <3>5
  <2> QED
    BY <2>1, <2>2
<1> QED
  BY <1>8, <1>10
-----------------------------------------------------------------------------
(* The inductive invariant, and what follows from it.                      *)

MainInv == BindInv /\ NoCycle(val) /\ WaitInv /\ ReadInv

LEMMA MainInit == Init => MainInv
<1> SUFFICES ASSUME Init PROVE MainInv
  OBVIOUS
<1>1. NoCycle(val)
  BY NodeFacts DEF Init, NoCycle
<1>2. \A t \in Threads, c \in Cells, i \in Nat : ~Linked(t, c, i)
  BY DEF Init, Linked
<1>3. WaitInv
  BY <1>2 DEF Init, WaitInv, NoLateWaiter, Emptied, LinkedOnce, LinkedBlocked
<1>4. ReadInv
  BY DEF Init, ReadInv, Reading
<1> QED
  BY <1>1, <1>3, <1>4, BindInit DEF MainInv

LEMMA MainStep ==
  ASSUME MainInv, NEW t \in Threads, ThreadStep(t)
  PROVE  MainInv'
<1>0. BindInv /\ NoCycle(val) /\ WaitInv /\ ReadInv
  BY DEF MainInv
<1>1. CASE \/ \E o \in Ops : Issue(t, o)
           \/ Begin(t) \/ EndBind(t) \/ Restart(t)
           \/ FollowDst(t) \/ FoundDst(t) \/ FollowSrc(t) \/ FoundSrc(t)
           \/ UnifyValues(t) \/ FoundRead(t)
  <2>1. BindInv'
    BY <1>0, <1>1, BindSearch
  <2>2. UNCHANGED val
    BY <1>1 DEF Issue, Begin, EndBind, Restart, FollowDst, FoundDst, FollowSrc, FoundSrc,
       UnifyValues, FoundRead
  <2>3. WaitInv' /\ ReadInv'
    BY <1>0, <1>1, SearchStep
  <2> QED
    BY <1>0, <2>1, <2>2, <2>3 DEF MainInv
<1>2. CASE LockDst(t) \/ LockSrc(t)
  <2>1. BindInv' /\ UNCHANGED val
    BY <1>0, <1>2, BindLock DEF LockDst, LockSrc
  <2>2. WaitInv' /\ ReadInv'
    BY <1>0, <1>2, SearchStep
  <2> QED
    BY <1>0, <2>1, <2>2 DEF MainInv
<1>3. CASE UnifySame(t) \/ UnifyHole(t) \/ OverflowHole(t)
  <2>1. BindInv' /\ UNCHANGED val
    BY <1>0, <1>3, BindUnlock DEF UnifySame, UnifyHole, OverflowHole
  <2>2. WaitInv' /\ ReadInv'
    BY <1>0, <1>3, SearchStep
  <2> QED
    BY <1>0, <2>1, <2>2 DEF MainInv
<1>4. CASE LockRead(t)
  <2>1. BindInv' /\ UNCHANGED val
    BY <1>0, <1>4, BindSearch DEF LockRead
  <2> QED
    BY <1>0, <1>4, <2>1, LockReadStep DEF MainInv
<1>5. CASE UnifyWake(t)
  <2>1. BindInv' /\ UNCHANGED val
    BY <1>0, <1>5, BindWake DEF UnifyWake
  <2> QED
    BY <1>0, <1>5, <2>1, WakeStep DEF MainInv
<1>6. CASE SetRef(t)
  BY <1>0, <1>6, BindSetRef, SetRefStep DEF MainInv
<1> QED
  BY <1>1, <1>2, <1>3, <1>4, <1>5, <1>6 DEF ThreadStep, Proceed

LEMMA MainStutter ==
  ASSUME MainInv, UNCHANGED vars
  PROVE  MainInv'
<1>1. BindInv'
  BY DEF MainInv, vars, BindInv, TypeOK, Stores, ThreadInv, Control, Locks, LockedUndef, Locked
<1>2. NoCycle(val)'
  BY DEF MainInv, vars
<1>3. WaitInv'
  BY DEF MainInv, vars, WaitInv, NoLateWaiter, IsUndef, Emptied, From, LinkedOnce, LinkedBlocked, Linked
<1>4. ReadInv'
  BY RootOfStore DEF MainInv, vars, ReadInv, AtRoot, Moving, From, To, IsUndef, Linked
<1> QED
  BY <1>1, <1>2, <1>3, <1>4 DEF MainInv

\* The invariant of binding holds in every state.
THEOREM MainInvariant == Spec => []MainInv
<1>1. Init => MainInv
  BY MainInit
<1>2. MainInv /\ [Next]_vars => MainInv'
  BY MainStep, MainStutter DEF Next, Ended
<1> QED
  BY <1>1, <1>2, PTL DEF Spec

\* Every variable of binding keeps its type (TypeOK).
THEOREM TypeCorrect == Spec => []TypeOK
<1>1. MainInv => TypeOK
  BY DEF MainInv, BindInv
<1> QED
  BY <1>1, MainInvariant, PTL

\* No chain of references closes, so that following one ends (Acyclic).
THEOREM NeverCyclic == Spec => []Acyclic
<1>1. ASSUME MainInv PROVE Acyclic
  <2>1. val \in Stores /\ NoCycle(val)
    BY <1>1 DEF MainInv, BindInv
  <2>2. \A c \in Cells : ~RefIn(val, RootIn(val, c))
    BY <2>1, RootEnds, NodeFacts
  <2> QED
    BY <2>2, RootOfStore DEF Acyclic, IsRef, RefIn
<1> QED
  BY <1>1, MainInvariant, PTL

\* No thread is linked behind a cell that has a value (NoLateWaiter).
THEOREM NeverLate == Spec => []NoLateWaiter
<1>1. MainInv => NoLateWaiter
  BY DEF MainInv, WaitInv
<1> QED
  BY <1>1, MainInvariant, PTL

\* A blocked thread is linked exactly once, behind the end of what it waits for
\* or where a binder has just moved it (BlockedAtRoot).
THEOREM WaitersFollow == Spec => []BlockedAtRoot
<1>1. ASSUME MainInv, NEW t \in Threads, pc[t] = "blocked"
      PROVE  /\ Cardinality(UNION {{c} \X {i \in DOMAIN waiting[c] : waiting[c][i] = t} : c \in Cells}) = 1
             /\ \E c \in Cells :
                  /\ \E i \in DOMAIN waiting[c] : waiting[c][i] = t
                  /\ \/ c = Root(op[t][2])
                     \/ \E b \in Threads : pc[b] = "setref" /\ From(b) = Root(op[t][2]) /\ To(b) = c
  <2>1. PICK c \in Cells, i \in Nat : Linked(t, c, i) /\ (c = Root(op[t][2]) \/ Moving(Root(op[t][2]), c))
    BY <1>1 DEF MainInv, ReadInv, AtRoot
  <2>2. \A d \in Cells : DOMAIN waiting[d] \subseteq Nat
    BY <1>1 DEF MainInv, BindInv, TypeOK
  <2>3. \A d \in Cells, j \in Nat : Linked(t, d, j) => d = c /\ j = i
    BY <1>1, <2>1 DEF MainInv, WaitInv, LinkedOnce
  <2>4. UNION {{d} \X {j \in DOMAIN waiting[d] : waiting[d][j] = t} : d \in Cells} = {<<c, i>>}
    BY <2>1, <2>2, <2>3 DEF Linked
  <2>5. Cardinality({<<c, i>>}) = 1
    BY FS_Singleton
  <2> QED
    BY <2>1, <2>4, <2>5 DEF Linked, Moving
<1>2. MainInv => BlockedAtRoot
  BY <1>1 DEF BlockedAtRoot
<1> QED
  BY <1>2, MainInvariant, PTL

\* A thread that was woken is not blocked again by the same instruction (NoSecondWait).
THEOREM WokenOnce == Spec => NoSecondWait
<1>1. ASSUME MainInv, [Next]_vars, NEW t \in Threads, woken[t] PROVE pc'[t] # "blocked"
  <2>0. BindInv /\ NoCycle(val) /\ WaitInv /\ ReadInv /\ TypeOK /\ pc[t] \in Reading
    BY <1>1 DEF MainInv, BindInv, ReadInv
  <2>1. CASE UNCHANGED vars
    BY <2>0, <2>1 DEF vars, Reading
  <2>2. ASSUME NEW u \in Threads, ThreadStep(u) PROVE pc'[t] # "blocked"
    <3>1. CASE LockRead(u)
      <4>1. CASE u = t
        BY <1>1, <2>0, <3>1, <4>1, LockReadStep
      <4>2. CASE u # t
        BY <2>0, <3>1, <4>2 DEF LockRead, TypeOK, Reading
      <4> QED
        BY <4>1, <4>2
    <3>2. CASE UnifyWake(u)
      <4>1. pc'[t] \in {"setref", "read", pc[t]}
        BY <2>0, <3>2 DEF UnifyWake
      <4> QED
        BY <2>0, <4>1 DEF Reading
    <3>3. CASE ~LockRead(u) /\ ~UnifyWake(u)
      BY <2>0, <2>2, <3>3 DEF TypeOK, Reading, ThreadStep, Proceed, Issue, Restart, OverflowHole, Begin,
         EndBind, FollowDst, FoundDst, LockDst, FollowSrc, FoundSrc, LockSrc, UnifySame, UnifyValues,
         UnifyHole, SetRef, FoundRead
    <3> QED
      BY <3>1, <3>2, <3>3
  <2> QED
    BY <1>1, <2>1, <2>2 DEF Next, Ended
<1>2. MainInv /\ [Next]_vars => [\A t \in Threads : woken[t] => pc'[t] # "blocked"]_vars
  BY <1>1
<1> QED
  BY <1>2, MainInvariant, PTL DEF Spec, NoSecondWait
-----------------------------------------------------------------------------
(* Mutexes.                                                                *)

\* A step that releases what its thread holds strands nothing, and releases
\* nothing that is stranded.
LEMMA ReleaseStep ==
  ASSUME BindInv, NEW t \in Threads, UnlockBoth(t)
  PROVE  Stranded' = Stranded
<1>1. TypeOK /\ Locks(t)
  BY DEF BindInv, ThreadInv
<1>2. ASSUME NEW m \in Mutexes, m \in {dlock[t], slock[t]}
      PROVE  m \notin Stranded /\ m \notin Stranded'
  <2>1. owner[m] = t /\ owner'[m] = Nobody
    BY <1>1, <1>2 DEF Locks, UnlockBoth
  <2> QED
    BY <1>2, <2>1 DEF Stranded
<1>3. ASSUME NEW m \in Mutexes, m \notin {dlock[t], slock[t]}
      PROVE  m \in Stranded <=> m \in Stranded'
  <2>1. owner'[m] = owner[m]
    BY <1>3 DEF UnlockBoth
  <2>2. CASE owner[m] = t
    BY <1>1, <1>3, <2>1, <2>2, MutexAssumption DEF Stranded, UnlockBoth, TypeOK
  <2>3. CASE owner[m] # t
    <3>1. owner[m] # Nobody =>
            dlock'[owner[m]] = dlock[owner[m]] /\ slock'[owner[m]] = slock[owner[m]]
      BY <1>1, <2>3 DEF UnlockBoth, TypeOK
    <3> QED
      BY <2>1, <3>1 DEF Stranded
  <2> QED
    BY <2>2, <2>3
<1> QED
  BY <1>2, <1>3 DEF Stranded

\* A step that locks a free mutex and notes it where it had noted none.
LEMMA LockStep ==
  ASSUME TypeOK, NEW t \in Threads, NEW l \in Mutexes,
         owner[l] = Nobody, owner' = [owner EXCEPT ![l] = t],
         \/ dlock[t] = NoMutex /\ dlock' = [dlock EXCEPT ![t] = l] /\ UNCHANGED slock
         \/ slock[t] = NoMutex /\ slock' = [slock EXCEPT ![t] = l] /\ UNCHANGED dlock
  PROVE  Stranded' = Stranded
<1>1. l \notin Stranded /\ l \notin Stranded'
  <2>1. owner'[l] = t /\ l \in {dlock'[t], slock'[t]}
    BY DEF TypeOK
  <2> QED
    BY <2>1 DEF Stranded
<1>2. ASSUME NEW m \in Mutexes \ {l} PROVE m \in Stranded <=> m \in Stranded'
  <2>1. owner'[m] = owner[m] /\ owner[m] \in Threads \cup {Nobody}
    BY <1>2 DEF TypeOK
  <2>2. CASE owner[m] = t
    <3>1. m \in {dlock[t], slock[t]} <=> m \in {dlock'[t], slock'[t]}
      BY <1>2, MutexAssumption DEF TypeOK
    <3> QED
      BY <2>1, <2>2, <3>1 DEF Stranded
  <2>3. CASE owner[m] \in Threads \ {t}
    <3>1. dlock'[owner[m]] = dlock[owner[m]] /\ slock'[owner[m]] = slock[owner[m]]
      BY <2>3 DEF TypeOK
    <3> QED
      BY <2>1, <3>1 DEF Stranded
  <2>4. CASE owner[m] = Nobody
    BY <2>1, <2>4 DEF Stranded
  <2> QED
    BY <2>1, <2>2, <2>3, <2>4
<1> QED
  BY <1>1, <1>2 DEF Stranded

\* Only the overflow of a hole changes what is stranded.
LEMMA StrandedStep ==
  ASSUME BindInv, NEW t \in Threads, ThreadStep(t), ~OverflowHole(t)
  PROVE  Stranded' = Stranded
<1>0. TypeOK /\ ThreadInv(t)
  BY DEF BindInv
<1>1. CASE LockDst(t)
  <2>1. mutexOf[dst[t]] \in Mutexes /\ dlock[t] = NoMutex
    BY <1>0, <1>1 DEF LockDst, TypeOK, ThreadInv, Control, Locks, HoldsDst
  <2>2. CASE UNCHANGED <<owner, dlock, slock>>
    BY <2>2 DEF Stranded
  <2>3. CASE ~UNCHANGED <<owner, dlock, slock>>
    <3>m. PICK l : l = mutexOf[dst[t]]
      OBVIOUS
    <3>1. owner[l] = Nobody /\ owner' = [owner EXCEPT ![l] = t] /\ dlock' = [dlock EXCEPT ![t] = l]
          /\ UNCHANGED slock
      BY <1>1, <2>3, <3>m DEF LockDst, Take, Free
    <3> QED
      BY <1>0, <2>1, <3>m, <3>1, LockStep
  <2> QED
    BY <2>2, <2>3
<1>2. CASE LockSrc(t)
  <2>1. mutexOf[src[t]] \in Mutexes /\ slock[t] = NoMutex
    BY <1>0, <1>2 DEF LockSrc, TypeOK, ThreadInv, Control, Locks, HoldsBoth
  <2>2. CASE UNCHANGED <<owner, dlock, slock>>
    BY <2>2 DEF Stranded
  <2>3. CASE ~UNCHANGED <<owner, dlock, slock>>
    <3>m. PICK l : l = mutexOf[src[t]]
      OBVIOUS
    <3>1. owner[l] = Nobody /\ owner' = [owner EXCEPT ![l] = t] /\ slock' = [slock EXCEPT ![t] = l]
          /\ UNCHANGED dlock
      BY <1>2, <2>3, <3>m DEF LockSrc, Take, Free
    <3> QED
      BY <1>0, <2>1, <3>m, <3>1, LockStep
  <2> QED
    BY <2>2, <2>3
<1>3. CASE UnifySame(t) \/ UnifyHole(t) \/ SetRef(t)
  <2>1. UnlockBoth(t)
    BY <1>3 DEF UnifySame, UnifyHole, SetRef
  <2> QED
    BY <2>1, ReleaseStep
<1>4. CASE ~(LockDst(t) \/ LockSrc(t) \/ UnifySame(t) \/ UnifyHole(t) \/ SetRef(t))
  <2>1. UNCHANGED <<owner, dlock, slock>>
    BY <1>4 DEF ThreadStep, Proceed, Issue, Restart, Begin, EndBind, FollowDst, FoundDst, FollowSrc,
       FoundSrc, UnifyValues, UnifyWake, FoundRead, LockRead
  <2> QED
    BY <2>1 DEF Stranded
<1> QED
  BY <1>1, <1>2, <1>3, <1>4

\* The overflow of a hole strands the mutex of the hole's other end, no other.
LEMMA OverflowStep ==
  ASSUME BindInv, NEW t \in Threads, OverflowHole(t)
  PROVE  Stranded' = Stranded \cup (Mutexes \cap {dlock[t], slock[t]})
<1>1. TypeOK /\ Locks(t) /\ owner' = owner
      /\ dlock' = [dlock EXCEPT ![t] = NoMutex] /\ slock' = [slock EXCEPT ![t] = NoMutex]
  BY DEF BindInv, ThreadInv, OverflowHole
<1>2. ASSUME NEW m \in Mutexes
      PROVE  m \in Stranded' <=> m \in Stranded \/ m \in {dlock[t], slock[t]}
  <2>1. CASE owner[m] = t
    <3>1. dlock'[t] = NoMutex /\ slock'[t] = NoMutex /\ t # Nobody
      BY <1>1, MutexAssumption DEF TypeOK
    <3> QED
      BY <1>1, <2>1, <3>1, MutexAssumption DEF Stranded
  <2>2. CASE owner[m] # t
    <3>1. m \notin {dlock[t], slock[t]}
      BY <1>1, <2>2 DEF Locks
    <3>2. owner[m] # Nobody =>
            dlock'[owner[m]] = dlock[owner[m]] /\ slock'[owner[m]] = slock[owner[m]]
      BY <1>1, <2>2 DEF TypeOK
    <3> QED
      BY <1>1, <3>1, <3>2 DEF Stranded
  <2> QED
    BY <2>1, <2>2
<1> QED
  BY <1>2 DEF Stranded

\* Whatever the pool of mutexes, the programs, the failing allocations and the
\* full stacks: a mutex is left locked only where the push of a hole's undefined
\* end overflows, and is never released afterwards (LeaksOnlyInHole).
THEOREM OnlyHolesLeak == Spec => LeaksOnlyInHole
<1> DEFINE Leaks ==
      /\ Stranded \subseteq Stranded'
      /\ \A m \in Stranded' \ Stranded : \E t \in Threads :
           /\ pc[t] = "unify" /\ Hole \in {dst[t], src[t]} /\ m \in {dlock[t], slock[t]}
           /\ t \in restarted' \ restarted
<1>1. ASSUME BindInv, Next PROVE Leaks
  <2>1. CASE Ended
    BY <2>1 DEF Ended, vars, Stranded
  <2>2. ASSUME NEW t \in Threads, ThreadStep(t), ~OverflowHole(t) PROVE Leaks
    BY <1>1, <2>2, StrandedStep
  <2>3. ASSUME NEW t \in Threads, OverflowHole(t) PROVE Leaks
    <3>1. Stranded' = Stranded \cup (Mutexes \cap {dlock[t], slock[t]})
      BY <1>1, <2>3, OverflowStep
    <3>2. pc[t] = "unify" /\ Hole \in {dst[t], src[t]} /\ t \in restarted' \ restarted
      BY <2>3 DEF OverflowHole, Goto
    <3> QED
      BY <3>1, <3>2
  <2> QED
    BY <1>1, <2>1, <2>2, <2>3 DEF Next
<1>2. BindInv /\ [Next]_vars => [Leaks]_vars
  BY <1>1
<1>3. MainInv => BindInv
  BY DEF MainInv
<1> QED
  BY <1>2, <1>3, MainInvariant, PTL DEF Spec, LeaksOnlyInHole
-----------------------------------------------------------------------------
(* The single-assignment store.                                            *)

LEMMA StoreInit == Init => Store!Init
<1> SUFFICES ASSUME Init PROVE [c \in Cells |-> Root(c)] = [c \in Cells |-> c]
  BY DEF Store!Init
<1>1. val \in Stores /\ \A c \in Cells : c \in Nodes /\ ~RefIn(val, c)
  BY NodeFacts DEF Init, Stores, RefIn
<1>2. \A c \in Cells : RootIn(val, c) = c
  BY <1>1, RootStops
<1> QED
  BY <1>2, RootOfStore

LEMMA StoreStep ==
  ASSUME MainInv, [Next]_vars
  PROVE  [Store!Next]_([c \in Cells |-> Root(c)])
<1>0. BindInv /\ NoCycle(val)
  BY DEF MainInv
<1>1. CASE UNCHANGED val
  <2>1. \A c \in Cells : Root(c)' = Root(c)
    BY <1>1, RootOfStore
  <2> QED
    BY <2>1
<1>2. ASSUME NEW t \in Threads, SetRef(t)
      PROVE  Store!Next
  <2>c. PICK a : a = From(t)
    OBVIOUS
  <2>n. PICK b : b = To(t)
    OBVIOUS
  <2>1. Joins(val, a, b)
    BY <1>0, <1>2, <2>c, <2>n, MovingLocked DEF SetRef
  <2>2. /\ Root(a) = a /\ Root(b) = b
        /\ \A d \in Nodes : Root(d)' = IF Root(d) = a THEN b ELSE Root(d)
    BY <1>0, <1>2, <2>c, <2>n, SetRefRoots
  <2>3. a \in Cells /\ b \in Cells \cup Values /\ (b \in Values \/ (b \in Cells /\ b # a))
    BY <2>1 DEF Joins
  <2>4. [c \in Cells |-> Root(c)]' = [c \in Cells |-> IF Root(c) = a THEN b ELSE Root(c)]
    BY <2>2, NodeFacts
  <2>5. Store!Join(a, b)
    BY <2>2, <2>3, <2>4 DEF Store!Join
  <2> QED
    BY <2>3, <2>5 DEF Store!Next
<1>3. UNCHANGED val \/ \E t \in Threads : SetRef(t)
  BY DEF Next, Ended, vars, ThreadStep, Proceed, Issue, Restart, OverflowHole, Begin, EndBind, FollowDst,
     FoundDst, LockDst, FollowSrc, FoundSrc, LockSrc, UnifySame, UnifyValues, UnifyHole, UnifyWake,
     FoundRead, LockRead
<1> QED
  BY <1>1, <1>2, <1>3

\* Binding implements the store of single assignment (ImplementsStore).
THEOREM StoreRefined == Spec => ImplementsStore
<1>1. MainInv /\ [Next]_vars => [Store!Next]_([c \in Cells |-> Root(c)])
  BY StoreStep
<1> QED
  BY <1>1, StoreInit, MainInvariant, PTL DEF Spec, ImplementsStore, Store!Spec
-----------------------------------------------------------------------------
(* What a binding that ended has done.                                     *)

Pairs == Nodes \X Nodes
Roots == [n \in Nodes |-> Root(n)]

\* Two values of one kind, whose items are paired in E.
Matched(v, w, E) ==
  /\ v \in Values /\ w \in Values /\ Label[v] = Label[w] /\ Len(Items[v]) = Len(Items[w])
  /\ \A i \in 1 .. Len(Items[v]) : <<Items[v][i], Items[w][i]>> \in E

\* E is a set of pairs of equal nodes, to any depth, if those in P will be.
Equated(R, E, P) ==
  /\ E \subseteq Pairs
  /\ \A p \in E : \/ p \in P \/ Hole \in {p[1], p[2]}
                  \/ R[p[1]] = R[p[2]] \/ Matched(R[p[1]], R[p[2]], E)

\* The pairs that t has still to bind: those listed and the one in its hands.
Listed(t) == {todo[t][i] : i \in DOMAIN todo[t]}
Current(R, d, s) == {p \in Pairs : R[p[1]] = R[d] /\ R[p[2]] = R[s]}
Pending(t) == Listed(t) \cup (IF pc[t] \in Searching \ {"begin"} THEN Current(Roots, dst[t], src[t]) ELSE {})
Subject(t) == <<op[t][2], op[t][3]>>

UnderWay(t) == \E E \in SUBSET Pairs : Subject(t) \in E /\ Equated(Roots, E, Pending(t))
Settled(p) == \E E \in SUBSET Pairs : p \in E /\ Equated(Roots, E, {})
EqualInv ==
  /\ \A t \in Threads : pc[t] \in Searching => UnderWay(t)
  /\ \A p \in told : Settled(p)

LEMMA RootFacts ==
  ASSUME BindInv, NoCycle(val)
  PROVE  /\ \A n \in Nodes : Root(n) \in Nodes /\ Roots[n] = Root(n)
         /\ \A n \in Nodes : Root(n) = Hole <=> n = Hole
         /\ \A n \in Nodes : ~IsRef(n) => Root(n) = n
<1>1. val \in Stores
  BY DEF BindInv
<1>2. \A n \in Nodes : Root(n) = RootIn(val, n)
  BY RootOfStore
<1>3. \A n \in Nodes : ~IsRef(n) => Root(n) = n
  BY <1>1, <1>2, RootStops DEF IsRef, RefIn
<1>4. \A n \in Nodes : Root(n) \in Nodes
  BY <1>1, <1>2, RootType
<1>5. \A n \in Nodes : Root(n) = Hole <=> n = Hole
  BY <1>1, <1>2, RootType, NodeFacts DEF Nodes
<1> QED
  BY <1>3, <1>4, <1>5 DEF Roots

\* More may be pending, and classes may join, if values stay.
LEMMA EquatedKeeps ==
  ASSUME NEW R, NEW Q, NEW E, NEW P, NEW P2, Equated(R, E, P),
         \A p \in P : p \in E => p \in P2 \/ Q[p[1]] = Q[p[2]],
         \A m \in Nodes, n \in Nodes : R[m] = R[n] => Q[m] = Q[n],
         \A n \in Nodes : R[n] \in Values => Q[n] = R[n]
  PROVE  Equated(Q, E, P2)
<1>1. E \subseteq Pairs
  BY DEF Equated
<1> SUFFICES ASSUME NEW p \in E
             PROVE  p \in P2 \/ Hole \in {p[1], p[2]} \/ Q[p[1]] = Q[p[2]] \/ Matched(Q[p[1]], Q[p[2]], E)
  BY <1>1 DEF Equated
<1>2. p[1] \in Nodes /\ p[2] \in Nodes
  BY <1>1 DEF Pairs
<1>3. CASE Matched(R[p[1]], R[p[2]], E)
  BY <1>2, <1>3 DEF Matched
<1>4. CASE R[p[1]] = R[p[2]]
  BY <1>2, <1>4
<1> QED
  BY <1>3, <1>4 DEF Equated

\* The current pair is done with if it needs nothing, or its items are listed.
LEMMA EquatedCurrent ==
  ASSUME NEW R, NEW E, NEW L, NEW d \in Nodes, NEW s \in Nodes, R[d] = d, R[s] = s,
         Equated(R, E, L \cup Current(R, d, s)),
         NEW I, I \subseteq Pairs,
         \A n \in Nodes : R[n] = Hole <=> n = Hole,
         d = s \/ Hole \in {d, s} \/ Matched(d, s, I)
  PROVE  Equated(R, E \cup I, L \cup I)
<1> SUFFICES ASSUME NEW p \in E
             PROVE  \/ p \in L \cup I \/ Hole \in {p[1], p[2]}
                    \/ R[p[1]] = R[p[2]] \/ Matched(R[p[1]], R[p[2]], E \cup I)
  BY DEF Equated
<1>1. p \in Pairs /\ p[1] \in Nodes /\ p[2] \in Nodes
  BY DEF Equated, Pairs
<1>2. CASE p \in Current(R, d, s)
  <2>1. R[p[1]] = d /\ R[p[2]] = s
    BY <1>2 DEF Current
  <2>2. Matched(d, s, I) => Matched(d, s, E \cup I)
    BY DEF Matched
  <2> QED
    BY <1>1, <2>1, <2>2
<1>3. CASE Matched(R[p[1]], R[p[2]], E)
  BY <1>3 DEF Matched
<1> QED
  BY <1>2, <1>3 DEF Equated

LEMMA EqualInit == Init => EqualInv
BY DEF Init, EqualInv, Searching

\* Nodes with one root keep one, and values stay.
Coarser(R, Q) ==
  /\ \A m \in Nodes, n \in Nodes : R[m] = R[n] => Q[m] = Q[n]
  /\ \A n \in Nodes : R[n] \in Values => Q[n] = R[n]

LEMMA RootsCoarser ==
  ASSUME BindInv, NoCycle(val), NEW t \in Threads, UNCHANGED val \/ SetRef(t)
  PROVE  Coarser(Roots, Roots')
<1>0. \A n \in Nodes : Roots[n] = Root(n) /\ Roots'[n] = Root(n)'
  BY DEF Roots
<1>1. CASE UNCHANGED val
  <2>1. \A n \in Nodes : Root(n)' = Root(n)
    BY <1>1, RootOfStore
  <2> QED
    BY <1>0, <2>1 DEF Coarser
<1>2. CASE SetRef(t)
  <2>c. PICK a : a = From(t)
    OBVIOUS
  <2>n. PICK b : b = To(t)
    OBVIOUS
  <2>1. \A n \in Nodes : Root(n)' = IF Root(n) = a THEN b ELSE Root(n)
    BY <1>2, <2>c, <2>n, SetRefRoots
  <2>2. a \notin Values
    BY <1>2, <2>c, MovingLocked, NodeFacts DEF SetRef, Joins
  <2> QED
    BY <1>0, <2>1, <2>2 DEF Coarser
<1> QED
  BY <1>1, <1>2

LEMMA SettledKeeps ==
  ASSUME Coarser(Roots, Roots'), NEW p, Settled(p)
  PROVE  Settled(p)'
<1>1. PICK E \in SUBSET Pairs : p \in E /\ Equated(Roots, E, {})
  BY DEF Settled
<1>2. Equated(Roots', E, {})
  BY <1>1, EquatedKeeps DEF Coarser
<1> QED
  BY <1>1, <1>2 DEF Settled

LEMMA WayKeeps ==
  ASSUME BindInv, Coarser(Roots, Roots'), NEW u \in Threads, UnderWay(u),
         pc[u] \in Searching, pc'[u] \in Searching, op'[u] = op[u], todo'[u] = todo[u],
         dst'[u] \in Nodes, src'[u] \in Nodes,
         pc[u] # "begin" => /\ pc'[u] # "begin"
                            /\ Roots'[dst'[u]] = Roots'[dst[u]] /\ Roots'[src'[u]] = Roots'[src[u]]
  PROVE  UnderWay(u)'
<1>0. dst[u] \in Nodes /\ src[u] \in Nodes
  BY DEF BindInv, TypeOK
<1>1. PICK E \in SUBSET Pairs : Subject(u) \in E /\ Equated(Roots, E, Pending(u))
  BY DEF UnderWay
<1>2. ASSUME NEW q \in Pending(u), q \in E PROVE q \in Pending(u)'
  <2>1. CASE q \in Listed(u)
    BY <2>1 DEF Listed, Pending
  <2>2. CASE q \notin Listed(u)
    <3>1. pc[u] # "begin" /\ q \in Current(Roots, dst[u], src[u])
      BY <1>2, <2>2 DEF Pending
    <3>2. q \in Pairs /\ Roots'[q[1]] = Roots'[dst'[u]] /\ Roots'[q[2]] = Roots'[src'[u]]
      BY <1>0, <3>1 DEF Current, Coarser, Pairs
    <3> QED
      BY <3>1, <3>2 DEF Pending, Current
  <2> QED
    BY <2>1, <2>2
<1>3. Equated(Roots', E, Pending(u)')
  <2> PICK R : R = Roots
    OBVIOUS
  <2> PICK Q : Q = Roots'
    OBVIOUS
  <2> PICK P : P = Pending(u)
    OBVIOUS
  <2> PICK P2 : P2 = Pending(u)'
    OBVIOUS
  <2>1. /\ Equated(R, E, P) /\ \A p \in P : p \in E => p \in P2
        /\ \A m \in Nodes, n \in Nodes : R[m] = R[n] => Q[m] = Q[n]
        /\ \A n \in Nodes : R[n] \in Values => Q[n] = R[n]
    BY <1>1, <1>2 DEF Coarser
  <2>2. Equated(Q, E, P2)
    BY <2>1, EquatedKeeps
  <2> QED
    BY <2>2
<1>4. Subject(u)' = Subject(u)
  BY DEF Subject
<1> QED
  BY <1>1, <1>3, <1>4 DEF UnderWay

\* A binding that starts has everything to do.
LEMMA WayStarts ==
  ASSUME NEW t \in Threads, Subject(t)' \in Pairs, todo'[t] = <<Subject(t)'>>
  PROVE  UnderWay(t)'
<1>1. PICK p : p = Subject(t)'
  OBVIOUS
<1>2. {p} \in SUBSET Pairs /\ p \in {p}
  BY <1>1
<1>3. p \in Listed(t)'
  BY <1>1 DEF Listed
<1>4. Equated(Roots', {p}, Pending(t)')
  BY <1>2, <1>3 DEF Equated, Pending
<1> QED
  BY <1>1, <1>2, <1>4 DEF UnderWay

LEMMA EqualOthers ==
  ASSUME MainInv, EqualInv, NEW t \in Threads, ThreadStep(t), NEW u \in Threads \ {t}, pc'[u] \in Searching
  PROVE  UnderWay(u)'
<1>0. BindInv /\ NoCycle(val) /\ TypeOK
  BY DEF MainInv, BindInv
<1>1. pc'[u] = pc[u] /\ op'[u] = op[u] /\ todo'[u] = todo[u] /\ dst'[u] = dst[u] /\ src'[u] = src[u]
  <2>1. CASE UnifyWake(t)
    <3> DEFINE Resumed == {w \in Threads : To(t) \notin Cells /\ \E i \in DOMAIN waiting[From(t)] : waiting[From(t)][i] = w}
    <3>1. /\ pc' = [w \in Threads |-> CASE w = t -> "setref" [] w \in Resumed -> "read" [] OTHER -> pc[w]]
          /\ dst' = [w \in Threads |-> IF w \in Resumed THEN op[w][2] ELSE dst[w]]
          /\ UNCHANGED <<op, todo, src>>
      BY <2>1 DEF UnifyWake
    <3> HIDE DEF Resumed
    <3>2. u \notin Resumed
      BY <3>1 DEF Searching
    <3> QED
      BY <3>1, <3>2
  <2>2. CASE ~UnifyWake(t)
    BY <1>0, <2>2 DEF TypeOK, ThreadStep, Proceed, Issue, Restart, OverflowHole, Begin, EndBind, FollowDst,
     FoundDst, LockDst, FollowSrc, FoundSrc, LockSrc, UnifySame, UnifyValues, UnifyHole,
     SetRef, FoundRead, LockRead
  <2> QED
    BY <2>1, <2>2
<1>2. Coarser(Roots, Roots')
  <2>1. UNCHANGED val \/ SetRef(t)
    BY DEF ThreadStep, Proceed, Issue, Restart, OverflowHole, Begin, EndBind, FollowDst,
     FoundDst, LockDst, FollowSrc, FoundSrc, LockSrc, UnifySame, UnifyValues, UnifyHole, UnifyWake,
     FoundRead, LockRead
  <2> QED
    BY <1>0, <2>1, RootsCoarser
<1>3. UnderWay(u) /\ dst[u] \in Nodes /\ src[u] \in Nodes
  BY <1>0, <1>1 DEF EqualInv, TypeOK
<1> QED
  BY <1>0, <1>1, <1>2, <1>3, WayKeeps

LEMMA RootsSame == UNCHANGED val => Roots' = Roots
<1> SUFFICES ASSUME UNCHANGED val PROVE Roots' = Roots
  OBVIOUS
<1>1. \A n \in Nodes : Root(n)' = Root(n)
  BY RootOfStore
<1> QED
  BY <1>1 DEF Roots

LEMMA WayBegins ==
  ASSUME BindInv, NEW t \in Threads, UnderWay(t), Begin(t)
  PROVE  UnderWay(t)'
<1>0. TypeOK
  BY DEF BindInv
<1>l. PICK l : l = todo[t]
  OBVIOUS
<1>1. /\ pc[t] = "begin" /\ pc'[t] = "dst" /\ l # <<>> /\ todo'[t] = Tail(l)
      /\ dst'[t] = Head(l)[1] /\ src'[t] = Head(l)[2] /\ op'[t] = op[t] /\ UNCHANGED val
  BY <1>0, <1>l DEF Begin, TypeOK
<1>2. l \in Seq(Pairs)
  BY <1>0, <1>l DEF TypeOK, Pairs
<1>3. /\ \A i \in DOMAIN l : i = 1 \/ (i - 1 \in DOMAIN Tail(l) /\ l[i] = Tail(l)[i - 1])
      /\ Head(l) = l[1] /\ Head(l) \in Pairs
  BY <1>1, <1>2
<1>4. PICK E \in SUBSET Pairs : Subject(t) \in E /\ Equated(Roots, E, Pending(t))
  BY DEF UnderWay
<1>5. Roots' = Roots
  BY <1>1, RootsSame
<1>6. ASSUME NEW q \in Pending(t) PROVE q \in Pending(t)'
  <2>1. PICK i \in DOMAIN l : q = l[i]
    BY <1>1, <1>6, <1>l DEF Pending, Listed
  <2>2. CASE i = 1
    <3>1. q \in Pairs /\ q[1] = dst'[t] /\ q[2] = src'[t]
      BY <1>1, <1>3, <2>1, <2>2
    <3>2. q \in Current(Roots', dst'[t], src'[t])
      BY <3>1 DEF Current
    <3> QED
      BY <1>1, <3>2 DEF Pending, Searching
  <2>3. CASE i # 1
    <3>1. i - 1 \in DOMAIN todo'[t] /\ q = todo'[t][i - 1]
      BY <1>1, <1>3, <2>1, <2>3
    <3> QED
      BY <3>1 DEF Pending, Listed
  <2> QED
    BY <2>2, <2>3
<1>7. Equated(Roots', E, Pending(t)')
  <2>1. PICK R, P, P2 : R = Roots /\ P = Pending(t) /\ P2 = Pending(t)'
    OBVIOUS
  <2>2. Equated(R, E, P) /\ \A q \in P : q \in P2
    BY <1>4, <1>6, <2>1
  <2>3. Equated(R, E, P2)
    BY <2>2 DEF Equated
  <2> QED
    BY <1>5, <2>1, <2>3
<1>8. Subject(t)' = Subject(t)
  BY <1>1 DEF Subject
<1> QED
  BY <1>4, <1>7, <1>8 DEF UnderWay

\* Both ends are found: a hole, one node, two values, or a cell and something else.
LEMMA FoundEnds ==
  ASSUME BindInv, NoCycle(val), NEW t \in Threads, pc[t] \in HoldsBoth
  PROVE  /\ dst[t] \in Nodes /\ src[t] \in Nodes
         /\ Roots[dst[t]] = dst[t] /\ Roots[src[t]] = src[t]
<1>1. dst[t] \in Nodes /\ src[t] \in Nodes
  BY DEF BindInv, TypeOK
<1>2. ~IsRef(dst[t]) /\ ~IsRef(src[t])
  BY <1>1 DEF BindInv, ThreadInv, LockedUndef, Locked, IsRef, HoldsDst, HoldsBoth
<1> QED
  BY <1>1, <1>2, RootFacts

LEMMA WayUnifies ==
  ASSUME BindInv, NoCycle(val), NEW t \in Threads, UnderWay(t),
         UnifySame(t) \/ UnifyHole(t) \/ UnifyValues(t), pc'[t] \in Searching
  PROVE  UnderWay(t)'
<1>0. TypeOK /\ pc[t] = "unify"
  BY DEF BindInv, UnifySame, UnifyHole, UnifyValues
<1>l. PICK l, d, s : l = todo[t] /\ d = dst[t] /\ s = src[t]
  OBVIOUS
<1>1. /\ d \in Nodes /\ s \in Nodes /\ Roots[d] = d /\ Roots[s] = s
      /\ \A n \in Nodes : Roots[n] = Hole <=> n = Hole
  BY <1>0, <1>l, FoundEnds, RootFacts DEF HoldsBoth
<1>2. pc'[t] = "begin" /\ op'[t] = op[t] /\ UNCHANGED val
  BY <1>0 DEF TypeOK, UnifySame, UnifyHole, UnifyValues, Searching
<1>3. l \in Seq(Pairs)
  BY <1>0, <1>l DEF TypeOK, Pairs
<1>4. \E I \in SUBSET Pairs :
        /\ d = s \/ Hole \in {d, s} \/ Matched(d, s, I)
        /\ Listed(t) \cup I = Listed(t)'
  <2>1. CASE UnifySame(t) \/ UnifyHole(t)
    <3>1. Listed(t)' = Listed(t) /\ (d = s \/ Hole \in {d, s})
      BY <1>l, <2>1 DEF UnifySame, UnifyHole, Listed
    <3>2. {} \in SUBSET Pairs /\ Listed(t) \cup {} = Listed(t)'
      BY <3>1
    <3> QED
      BY <3>1, <3>2
  <2>2. CASE UnifyValues(t)
    <3>1. /\ d \in Values /\ s \in Values /\ Label[d] = Label[s] /\ Len(Items[d]) = Len(Items[s])
          /\ todo'[t] = ItemPairs(d, s) \o l
      BY <1>0, <1>2, <1>l, <2>2 DEF UnifyValues, TypeOK
    <3>i. PICK k, L : k = ItemPairs(d, s) /\ L = Len(Items[d])
      OBVIOUS
    <3>2. /\ k \in Seq(Pairs) /\ Len(k) = L /\ L \in Nat
          /\ \A i \in 1 .. L : k[i] = <<Items[d][i], Items[s][i]>>
      BY <3>1, <3>i, ItemPairsType, NodesAssumption DEF Pairs
    <3>d. PICK I : I = {k[i] : i \in 1 .. L}
      OBVIOUS
    <3>3. I \in SUBSET Pairs
      BY <3>2, <3>d
    <3>4. Matched(d, s, I)
      BY <3>1, <3>2, <3>d, <3>i DEF Matched
    <3>5. /\ DOMAIN (k \o l) = 1 .. L + Len(l) /\ DOMAIN l = 1 .. Len(l) /\ Len(l) \in Nat
          /\ \A i \in 1 .. L + Len(l) : (k \o l)[i] = IF i <= L THEN k[i] ELSE l[i - L]
      BY <1>3, <3>2
    <3>6. ASSUME NEW q PROVE q \in {(k \o l)[i] : i \in DOMAIN (k \o l)}
                           <=> (q \in {l[i] : i \in DOMAIN l} \/ q \in I)
      <4>1. ASSUME NEW i \in DOMAIN l, q = l[i] PROVE q \in {(k \o l)[j] : j \in DOMAIN (k \o l)}
        <5>1. i + L \in DOMAIN (k \o l) /\ (k \o l)[i + L] = l[i]
          BY <3>2, <3>5
        <5> QED
          BY <4>1, <5>1
      <4>2. ASSUME NEW i \in 1 .. L, q = k[i] PROVE q \in {(k \o l)[j] : j \in DOMAIN (k \o l)}
        BY <3>2, <3>5, <4>2
      <4>3. ASSUME NEW i \in DOMAIN (k \o l), q = (k \o l)[i] PROVE q \in {l[j] : j \in DOMAIN l} \/ q \in I
        BY <3>2, <3>5, <3>d, <4>3
      <4> QED
        BY <3>d, <4>1, <4>2, <4>3
    <3>7. Listed(t)' = Listed(t) \cup I
      <4>1. todo'[t] = k \o l /\ todo[t] = l
        BY <1>l, <3>1, <3>i
      <4>2. Listed(t)' = {(k \o l)[i] : i \in DOMAIN (k \o l)} /\ Listed(t) = {l[i] : i \in DOMAIN l}
        BY <4>1 DEF Listed
      <4>3. \A q : q \in Listed(t)' <=> q \in Listed(t) \cup I
        BY <3>6, <4>2
      <4> QED
        BY <4>3
    <3> QED
      BY <3>3, <3>4, <3>7
  <2> QED
    BY <2>1, <2>2
<1>5. PICK I \in SUBSET Pairs : (d = s \/ Hole \in {d, s} \/ Matched(d, s, I)) /\ Listed(t) \cup I = Listed(t)'
  BY <1>4
<1>6. PICK E \in SUBSET Pairs : Subject(t) \in E /\ Equated(Roots, E, Pending(t))
  BY DEF UnderWay
<1>7. Pending(t) = Listed(t) \cup Current(Roots, d, s) /\ Pending(t)' = Listed(t)'
  BY <1>0, <1>2, <1>l DEF Pending, Searching
<1>8. Equated(Roots, E \cup I, Listed(t) \cup I)
  <2>1. PICK R, L : R = Roots /\ L = Listed(t)
    OBVIOUS
  <2>2. /\ R[d] = d /\ R[s] = s /\ Equated(R, E, L \cup Current(R, d, s))
        /\ \A n \in Nodes : R[n] = Hole <=> n = Hole
        /\ d = s \/ Hole \in {d, s} \/ Matched(d, s, I)
    BY <1>1, <1>5, <1>6, <1>7, <2>1
  <2>3. Equated(R, E \cup I, L \cup I)
    BY <1>1, <2>2, EquatedCurrent
  <2> QED
    BY <2>1, <2>3
<1>9. Roots' = Roots /\ Subject(t)' = Subject(t)
  BY <1>2, RootsSame DEF Subject
<1>10. E \cup I \in SUBSET Pairs /\ Subject(t)' \in E \cup I /\ Equated(Roots', E \cup I, Pending(t)')
  BY <1>5, <1>6, <1>7, <1>8, <1>9
<1> QED
  BY <1>10 DEF UnderWay

LEMMA WayRefers ==
  ASSUME BindInv, NoCycle(val), NEW t \in Threads, UnderWay(t), SetRef(t)
  PROVE  UnderWay(t)'
<1>0. TypeOK /\ pc[t] = "setref"
  BY DEF BindInv, SetRef
<1>1. pc'[t] = "begin" /\ op'[t] = op[t] /\ todo'[t] = todo[t]
  BY <1>0 DEF TypeOK, SetRef
<1>2. PICK d, s, a, b, R, Q, L :
        d = dst[t] /\ s = src[t] /\ a = From(t) /\ b = To(t) /\ R = Roots /\ Q = Roots' /\ L = Listed(t)
  OBVIOUS
<1>3. Coarser(R, Q)
  BY <1>2, RootsCoarser
<1>4. d \in Nodes /\ s \in Nodes /\ R[d] = d /\ R[s] = s
  BY <1>0, <1>2, FoundEnds DEF HoldsBoth
<1>5. Q[d] = Q[s]
  <2>1. a \in Nodes /\ b \in Nodes /\ {a, b} = {d, s}
    BY <1>2, <1>4 DEF From, To
  <2>2. a # b
    BY <1>0, <1>2, MovingLocked, NodeFacts DEF Joins
  <2>3. \A n \in Nodes : Q[n] = Root(n)' /\ Root(n)' = (IF Root(n) = a THEN b ELSE Root(n))
    BY <1>2, SetRefRoots DEF Roots
  <2>4. Root(a) = a /\ Root(b) = b
    BY <1>2, SetRefRoots
  <2> QED
    BY <2>1, <2>2, <2>3, <2>4
<1>6. PICK E \in SUBSET Pairs : Subject(t) \in E /\ Equated(Roots, E, Pending(t))
  BY DEF UnderWay
<1>7. Pending(t) = L \cup Current(R, d, s) /\ Pending(t)' = L
  BY <1>0, <1>1, <1>2 DEF Pending, Listed, Searching
<1>8. Equated(Q, E, L)
  <2>1. Equated(R, E, L \cup Current(R, d, s))
    BY <1>2, <1>6, <1>7
  <2>2. \A q \in L \cup Current(R, d, s) : q \in E => q \in L \/ Q[q[1]] = Q[q[2]]
    BY <1>3, <1>4, <1>5 DEF Coarser, Current, Pairs
  <2> QED
    BY <1>3, <2>1, <2>2, EquatedKeeps DEF Coarser
<1>9. Subject(t)' = Subject(t)
  BY <1>1 DEF Subject
<1> QED
  BY <1>2, <1>6, <1>7, <1>8, <1>9 DEF UnderWay

LEMMA EqualSelf ==
  ASSUME MainInv, EqualInv, NEW t \in Threads, ThreadStep(t), pc'[t] \in Searching
  PROVE  UnderWay(t)'
<1>0. BindInv /\ NoCycle(val) /\ TypeOK /\ ThreadInv(t) /\ val \in Stores
  BY DEF MainInv, BindInv
<1>1. ASSUME NEW o \in Ops, Issue(t, o) PROVE UnderWay(t)'
  <2>1. o[1] = "bind"
    BY <1>0, <1>1, OpFacts DEF Issue, TypeOK, Searching
  <2>2. op'[t] = o /\ todo'[t] = <<<<o[2], o[3]>>>> /\ <<o[2], o[3]>> \in Pairs
    BY <1>0, <1>1, <2>1, OpFacts DEF Issue, TypeOK, Pairs
  <2> QED
    BY <2>2, WayStarts DEF Subject
<1>2. CASE Restart(t) \/ OverflowHole(t)
  <2>1. op[t] \in Ops /\ op' = op /\ todo'[t] = <<<<op[t][2], op[t][3]>>>>
    BY <1>0, <1>2 DEF Restart, OverflowHole, TypeOK, ThreadInv, Control
  <2>2. <<op[t][2], op[t][3]>> \in Pairs
    BY <2>1, OpFacts DEF Pairs
  <2> QED
    BY <2>1, <2>2, WayStarts DEF Subject
<1>3. ASSUME Proceed(t) PROVE pc[t] \in Searching
  <2>1. pc[t] \in Searching \cup Reading /\ (pc[t] \in Reading => pc'[t] \in Reading \cup {"idle", "blocked"})
    BY <1>0, <1>3 DEF Proceed, TypeOK, Searching, Reading, Begin, EndBind, FollowDst,
     FoundDst, LockDst, FollowSrc, FoundSrc, LockSrc, UnifySame, UnifyValues, UnifyHole, UnifyWake,
     SetRef, FoundRead, LockRead
  <2> QED
    BY <2>1 DEF Searching, Reading
<1>4. ASSUME Proceed(t) PROVE UnderWay(t)
  BY <1>3, <1>4 DEF EqualInv
<1>5. CASE Begin(t)
  BY <1>0, <1>4, <1>5, WayBegins DEF Proceed
<1>6. CASE UnifySame(t) \/ UnifyHole(t) \/ UnifyValues(t)
  BY <1>0, <1>4, <1>6, WayUnifies DEF Proceed
<1>7. CASE SetRef(t)
  BY <1>0, <1>4, <1>7, WayRefers DEF Proceed
<1>8. CASE FollowDst(t) \/ FollowSrc(t) \/ FoundDst(t) \/ LockDst(t) \/ FoundSrc(t) \/ LockSrc(t) \/ UnifyWake(t)
  <2>1. pc[t] \in Searching /\ UnderWay(t)
    BY <1>3, <1>4, <1>8 DEF Proceed
  <2>2. pc[t] # "begin" /\ pc'[t] # "begin" /\ op'[t] = op[t] /\ todo'[t] = todo[t] /\ UNCHANGED val
    <3>1. CASE UnifyWake(t)
      BY <1>0, <3>1 DEF UnifyWake, TypeOK
    <3>2. CASE ~UnifyWake(t)
      BY <1>0, <1>8, <3>2 DEF FollowDst, FollowSrc, FoundDst, LockDst, FoundSrc, LockSrc, TypeOK
    <3> QED
      BY <3>1, <3>2
  <2>3. Roots' = Roots
    BY <2>2, RootsSame
  <2>4. ASSUME NEW n \in Nodes, NEW m, m = n \/ (IsRef(n) /\ m = val[n])
        PROVE  m \in Nodes /\ Roots[m] = Roots[n]
    <3>1. CASE IsRef(n) /\ m = val[n]
      <4>1. m \in Nodes /\ Root(m) = Root(n)
        BY <1>0, <3>1, FollowRoot, NodeFacts DEF IsRef, Stores
      <4> QED
        BY <4>1 DEF Roots
    <3> QED
      BY <2>4, <3>1
  <2>5. /\ dst'[t] = dst[t] \/ (IsRef(dst[t]) /\ dst'[t] = val[dst[t]])
        /\ src'[t] = src[t] \/ (IsRef(src[t]) /\ src'[t] = val[src[t]])
    <3>1. CASE UnifyWake(t)
      <4> DEFINE Resumed == {w \in Threads : To(t) \notin Cells /\ \E i \in DOMAIN waiting[From(t)] : waiting[From(t)][i] = w}
      <4>1. /\ pc' = [w \in Threads |-> CASE w = t -> "setref" [] w \in Resumed -> "read" [] OTHER -> pc[w]]
            /\ dst' = [w \in Threads |-> IF w \in Resumed THEN op[w][2] ELSE dst[w]]
            /\ src' = src /\ pc[t] = "unify"
        BY <3>1 DEF UnifyWake
      <4>2. t \notin Resumed
        <5>1. SUFFICES ASSUME t \in Resumed PROVE FALSE
          OBVIOUS
        <5>2. PICK i \in DOMAIN waiting[From(t)] : waiting[From(t)][i] = t
          BY <5>1
        <5>3. From(t) \in Cells /\ i \in Nat
          BY <1>0, <3>1, <5>2 DEF UnifyWake, IsUndef, TypeOK
        <5>4. Linked(t, From(t), i)
          BY <5>2 DEF Linked
        <5> QED
          BY <4>1, <5>3, <5>4 DEF MainInv, WaitInv, LinkedBlocked
      <4> HIDE DEF Resumed
      <4> QED
        BY <4>1, <4>2
    <3>2. CASE ~UnifyWake(t)
      BY <1>0, <1>8, <3>2 DEF FollowDst, FollowSrc, FoundDst, LockDst, FoundSrc, LockSrc, TypeOK
    <3> QED
      BY <3>1, <3>2
  <2>6. dst[t] \in Nodes /\ src[t] \in Nodes
    BY <1>0 DEF TypeOK
  <2>7. /\ dst'[t] \in Nodes /\ Roots[dst'[t]] = Roots[dst[t]]
        /\ src'[t] \in Nodes /\ Roots[src'[t]] = Roots[src[t]]
    BY <2>4, <2>5, <2>6
  <2>8. Coarser(Roots, Roots')
    BY <1>0, <2>2, RootsCoarser
  <2> QED
    BY <1>0, <2>1, <2>2, <2>3, <2>7, <2>8, WayKeeps
<1>9. CASE EndBind(t) \/ FoundRead(t) \/ LockRead(t)
  BY <1>0, <1>9 DEF EndBind, FoundRead, LockRead, TypeOK, Searching
<1> QED
  BY <1>1, <1>2, <1>5, <1>6, <1>7, <1>8, <1>9 DEF ThreadStep, Proceed

LEMMA EqualStep ==
  ASSUME MainInv, EqualInv, NEW t \in Threads, ThreadStep(t)
  PROVE  EqualInv'
<1>0. BindInv /\ NoCycle(val) /\ TypeOK
  BY DEF MainInv, BindInv
<1>1. UNCHANGED val \/ SetRef(t)
  BY DEF ThreadStep, Proceed, Issue, Restart, OverflowHole, Begin, EndBind, FollowDst,
   FoundDst, LockDst, FollowSrc, FoundSrc, LockSrc, UnifySame, UnifyValues, UnifyHole, UnifyWake,
   FoundRead, LockRead
<1>2. Coarser(Roots, Roots')
  BY <1>0, <1>1, RootsCoarser
<1>3. ASSUME NEW u \in Threads, pc'[u] \in Searching PROVE UnderWay(u)'
  BY <1>3, EqualOthers, EqualSelf
<1>4. ASSUME NEW q \in told' PROVE Settled(q)'
  <2>1. CASE q \in told
    BY <1>2, <2>1, SettledKeeps DEF EqualInv
  <2>2. CASE q \notin told
    <3>1. EndBind(t) /\ q = Subject(t)
      BY <1>4, <2>2 DEF ThreadStep, Proceed, Issue, Restart, OverflowHole, Begin, EndBind, FollowDst,
       FoundDst, LockDst, FollowSrc, FoundSrc, LockSrc, UnifySame, UnifyValues, UnifyHole, UnifyWake,
       SetRef, FoundRead, LockRead, Subject
    <3>2. pc[t] = "begin" /\ todo[t] = <<>>
      BY <3>1 DEF EndBind
    <3>3. UnderWay(t) /\ Pending(t) = {}
      BY <3>2 DEF EqualInv, Searching, Pending, Listed
    <3>4. Settled(q)
      BY <3>1, <3>3 DEF UnderWay, Settled
    <3> QED
      BY <1>2, <3>4, SettledKeeps
  <2> QED
    BY <2>1, <2>2
<1> QED
  BY <1>3, <1>4 DEF EqualInv

LEMMA EqualStutter == EqualInv /\ UNCHANGED vars => EqualInv'
<1> SUFFICES ASSUME EqualInv, UNCHANGED vars PROVE EqualInv'
  OBVIOUS
<1>1. Roots' = Roots
  BY RootsSame DEF vars
<1> QED
  BY <1>1 DEF EqualInv, vars, UnderWay, Settled, Pending, Listed, Subject

\* Whatever is under way can still make its ends equal, and what has ended has,
\* to any depth of the terms.
THEOREM EqualToAnyDepth == Spec => []EqualInv
<1>1. MainInv /\ EqualInv /\ [Next]_vars => EqualInv'
  BY EqualStep, EqualStutter DEF Next, Ended
<1> QED
  BY <1>1, EqualInit, MainInvariant, PTL DEF Spec

\* A binding that ended made its two ends equal, for good (Unified).
THEOREM BoundForGood == Spec => []Unified
<1>1. ASSUME MainInv, EqualInv, NEW p \in told PROVE SameTerm(p[1], p[2])
  <2>0. BindInv /\ NoCycle(val) /\ TypeOK
    BY <1>1 DEF MainInv, BindInv
  <2>1. PICK E \in SUBSET Pairs : p \in E /\ Equated(Roots, E, {})
    BY <1>1 DEF EqualInv, Settled
  <2>2. ASSUME NEW q \in E PROVE SameNode(q[1], q[2])
    <3>1. q[1] \in Nodes /\ q[2] \in Nodes
      BY <2>1 DEF Pairs
    <3> QED
      BY <2>0, <2>1, <3>1, RootFacts DEF Equated, Matched, SameNode
  <2>3. p[1] \in Nodes /\ p[2] \in Nodes
    BY <2>1 DEF Pairs
  <2>4. ASSUME {Root(p[1]), Root(p[2])} \subseteq Values, NEW i \in DOMAIN Items[Root(p[1])]
        PROVE  SameNode(Items[Root(p[1])][i], Items[Root(p[2])][i])
    <3>1. CASE Root(p[1]) = Root(p[2])
      BY <3>1 DEF SameNode
    <3>2. CASE Root(p[1]) # Root(p[2])
      <4>1. Hole \notin {p[1], p[2]}
        BY <2>0, <2>3, <2>4, RootFacts, NodeFacts
      <4>2. Matched(Root(p[1]), Root(p[2]), E)
        BY <2>0, <2>1, <2>3, <3>2, <4>1, RootFacts DEF Equated
      <4>3. i \in 1 .. Len(Items[Root(p[1])])
        BY <2>4, NodesAssumption
      <4>4. <<Items[Root(p[1])][i], Items[Root(p[2])][i]>> \in E
        BY <4>2, <4>3 DEF Matched
      <4> QED
        BY <2>2, <4>4
    <3> QED
      BY <3>1, <3>2
  <2> QED
    BY <2>1, <2>2, <2>4 DEF SameTerm
<1>2. MainInv /\ EqualInv => Unified
  BY <1>1 DEF Unified
<1> QED
  BY <1>2, MainInvariant, EqualToAnyDepth, PTL
=============================================================================

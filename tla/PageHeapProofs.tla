--------------------------- MODULE PageHeapProofs ---------------------------
(* Allocation hands out disjoint blocks and no more pages than it needs, for *)
(* any number of workers and any sizes of pages and of the half-space.       *)
EXTENDS PageHeap, FiniteSetTheorems, WellFoundedInduction, TLAPS

\* Induction on the numbers, for a set instead of a predicate.
LEMMA NumberInduction ==
  ASSUME NEW S, 0 \in S, \A n \in Nat : n \in S => n + 1 \in S
  PROVE  Nat \subseteq S
<1> SUFFICES ASSUME Nat \ S # {} PROVE FALSE
  OBVIOUS
<1> DEFINE T == Nat \ S
<1>1. PICK n \in T : \A k \in T : ~ (<<k, n>> \in OpToRel(<,Nat))
  BY WFMin, NatLessThanWellFounded
<1>2. \A k \in T : ~ (k < n)
  BY <1>1 DEF OpToRel
<1>3. n # 0 /\ n - 1 \in Nat /\ n - 1 \in S
  BY <1>2
<1> QED
  BY <1>3

LEMMA Halves ==
  /\ \A i \in Nat : i > 1 => i \div 2 \in 1 .. i - 1
  /\ \A i, a \in Nat : i \div 2 = a <=> i \in {2 * a, 2 * a + 1}
OBVIOUS

-----------------------------------------------------------------------------
(* The binary heap.                                                        *)

Entries(S) == {S[i] : i \in DOMAIN S}
Distinct(S) == \A i, j \in DOMAIN S : S[i] = S[j] => i = j
Weighed(S, wt) == \A p \in Entries(S) : wt[p] \in Nat

\* No page is heavier than those below it.
Ordered(S, wt) == \A i \in 2 .. Len(S) : wt[S[i \div 2]] <= wt[S[i]]

\* S has the pages of T, in some order.
Shuffle(S, T) ==
  /\ S \in Seq(Pages) /\ Len(S) = Len(T)
  /\ Entries(S) = Entries(T) /\ Distinct(S)

LEMMA Swaps ==
  ASSUME NEW S \in Seq(Pages), Distinct(S), NEW a \in 1 .. Len(S), NEW b \in 1 .. Len(S), a # b
  PROVE  /\ Shuffle(Swapped(S, a, b), S)
         /\ Swapped(S, a, b)[a] = S[b] /\ Swapped(S, a, b)[b] = S[a]
         /\ \A i \in 1 .. Len(S) : i \notin {a, b} => Swapped(S, a, b)[i] = S[i]
<1> DEFINE R == Swapped(S, a, b)
<1>1. /\ R \in Seq(Pages) /\ Len(R) = Len(S) /\ DOMAIN R = 1 .. Len(S) /\ DOMAIN S = 1 .. Len(S)
      /\ R[a] = S[b] /\ R[b] = S[a]
      /\ \A i \in 1 .. Len(S) : i \notin {a, b} => R[i] = S[i]
  BY DEF Swapped
<1> HIDE DEF R
<1>2. Distinct(R)
  BY <1>1 DEF Distinct
<1>3. Entries(R) = Entries(S)
  <2>1. ASSUME NEW i \in 1 .. Len(S) PROVE R[i] \in Entries(S) /\ S[i] \in Entries(R)
    <3>1. CASE i = a
      BY <1>1, <3>1 DEF Entries
    <3>2. CASE i = b
      BY <1>1, <3>2 DEF Entries
    <3>3. CASE i \notin {a, b}
      BY <1>1, <3>3 DEF Entries
    <3> QED
      BY <3>1, <3>2, <3>3
  <2> QED
    BY <1>1, <2>1 DEF Entries
<1> QED
  BY <1>1, <1>2, <1>3 DEF R, Shuffle

\* A heap in which one page may be heavier than those below it.
Sinking(h, T, wt) ==
  /\ Shuffle(h.tree, T) /\ h.at \in 1 .. Len(T)
  /\ \A i \in 2 .. Len(T) : i \div 2 # h.at => wt[h.tree[i \div 2]] <= wt[h.tree[i]]
  /\ \A i \in 2 .. Len(T) : i \div 2 = h.at /\ h.at > 1 => wt[h.tree[h.at \div 2]] <= wt[h.tree[i]]

\* A heap in which one page may be lighter than the one above it.
Rising(h, T, wt) ==
  /\ Shuffle(h.tree, T) /\ h.at \in 1 .. Len(T)
  /\ \A i \in 2 .. Len(T) : i # h.at => wt[h.tree[i \div 2]] <= wt[h.tree[i]]
  /\ \A i \in 2 .. Len(T) : i \div 2 = h.at /\ h.at > 1 => wt[h.tree[h.at \div 2]] <= wt[h.tree[i]]

\* Child is the lighter of the entries below a.
LEMMA Children ==
  ASSUME NEW S \in Seq(Pages), NEW wt, \A i \in 1 .. Len(S) : wt[S[i]] \in Nat, NEW a \in 1 .. Len(S)
  PROVE  LET b == Child(a, S, wt) IN
         /\ 2 * a <= Len(S) => b \in 2 .. Len(S) /\ b > a /\ b \div 2 = a
         /\ \A i \in 2 .. Len(S) : i \div 2 = a => 2 * a <= Len(S) /\ wt[S[b]] <= wt[S[i]]
<1> DEFINE b == Child(a, S, wt)
<1>0. Len(S) \in Nat /\ a \in Nat /\ a >= 1
  OBVIOUS
<1>1. /\ b \in {2 * a, 2 * a + 1} /\ (2 * a + 1 > Len(S) => b = 2 * a)
      /\ 2 * a <= Len(S) => wt[S[b]] <= wt[S[2 * a]]
      /\ 2 * a + 1 <= Len(S) => wt[S[b]] <= wt[S[2 * a + 1]]
  <2>1. 2 * a <= Len(S) => wt[S[2 * a]] \in Nat
    BY <1>0
  <2>2. 2 * a + 1 <= Len(S) => wt[S[2 * a + 1]] \in Nat
    BY <1>0
  <2> QED
    BY <1>0, <2>1, <2>2 DEF Child
<1> HIDE DEF b
<1>2. 2 * a <= Len(S) => b \in 2 .. Len(S) /\ b > a /\ b \div 2 = a
  <2>1. b \in {2 * a, 2 * a + 1} /\ (2 * a + 1 > Len(S) => b = 2 * a)
    BY <1>1
  <2>2. b \in Nat /\ b > a /\ b >= 2
    BY <1>0, <2>1
  <2>3. b \div 2 = a
    BY <1>0, <2>1, <2>2, Halves
  <2> QED
    BY <1>0, <2>1, <2>2, <2>3
<1>3. ASSUME NEW i \in 2 .. Len(S), i \div 2 = a PROVE 2 * a <= Len(S) /\ wt[S[b]] <= wt[S[i]]
  <2>1. i \in {2 * a, 2 * a + 1}
    <3>1. i \in Nat
      OBVIOUS
    <3> QED
      BY ONLY <1>0, <1>3, <3>1
  <2> QED
    BY <1>0, <1>1, <2>1
<1> QED
  BY <1>2, <1>3 DEF b

\* An exchange of vm_heap_repdown moves the page that may be too heavy down.
LEMMA SinkStep ==
  ASSUME NEW T \in Seq(Pages), NEW wt, Weighed(T, wt), NEW h, Sinking(h, T, wt)
  PROVE  /\ Sinking(Sunk(h, wt), T, wt)
         /\ Ordered(h.tree, wt) \/ Sunk(h, wt).at > h.at
         /\ Ordered(h.tree, wt) => Ordered(Sunk(h, wt).tree, wt)
<1> DEFINE a == h.at  S == h.tree  b == Child(a, S, wt)  R == Swapped(S, a, b)
<1>0. /\ S \in Seq(Pages) /\ Len(S) = Len(T) /\ Distinct(S) /\ a \in 1 .. Len(T)
      /\ Entries(S) = Entries(T) /\ DOMAIN S = 1 .. Len(S)
  BY DEF Sinking, Shuffle
<1>1. /\ S \in Seq(Pages) /\ Len(S) = Len(T) /\ Distinct(S) /\ a \in 1 .. Len(T)
      /\ \A i \in 1 .. Len(T) : wt[S[i]] \in Nat
  <2> SUFFICES ASSUME NEW i \in 1 .. Len(T) PROVE wt[S[i]] \in Nat
    BY <1>0
  <2>1. S[i] \in Entries(S)
    BY <1>0 DEF Entries
  <2> QED
    BY <1>0, <2>1 DEF Weighed
<1>c. /\ 2 * a <= Len(S) => b \in 2 .. Len(S) /\ b > a /\ b \div 2 = a
      /\ \A i \in 2 .. Len(S) : i \div 2 = a => 2 * a <= Len(S) /\ wt[S[b]] <= wt[S[i]]
  BY <1>1, Children
<1>2. CASE 2 * a > Len(S) \/ wt[S[b]] > wt[S[a]]
  <2>1. Sunk(h, wt) = h
    BY <1>2 DEF Sunk
  <2>2. \A i \in 2 .. Len(T) : i \div 2 = a => wt[S[a]] <= wt[S[i]]
    <3> HIDE DEF b
    <3> SUFFICES ASSUME NEW i \in 2 .. Len(T), i \div 2 = a PROVE wt[S[a]] <= wt[S[i]]
      OBVIOUS
    <3>1. 2 * a <= Len(S) /\ wt[S[b]] <= wt[S[i]] /\ b \in 1 .. Len(T) /\ i \in 1 .. Len(T)
      BY <1>1, <1>c
    <3> QED
      BY <1>1, <1>2, <3>1
  <2>3. Ordered(S, wt)
    BY <1>1, <2>2 DEF Ordered, Sinking
  <2> QED
    BY <2>1, <2>3
<1>3. CASE 2 * a <= Len(S) /\ ~(wt[S[b]] > wt[S[a]])
  <2>1. /\ Sunk(h, wt).at = b /\ Sunk(h, wt).tree = R
    BY <1>1, <1>3 DEF Sunk
  <2>2. /\ b \in 1 .. Len(T) /\ b \div 2 = a /\ b > a /\ b \in 2 .. Len(T)
        /\ \A i \in 2 .. Len(T) : i \div 2 = a => wt[S[b]] <= wt[S[i]]
    BY <1>1, <1>3, <1>c
  <2>3. wt[S[b]] <= wt[S[a]]
    BY <1>1, <1>3, <2>2
  <2> HIDE DEF b, R
  <2>4. /\ Shuffle(R, S) /\ R[a] = S[b] /\ R[b] = S[a]
        /\ \A i \in 1 .. Len(T) : i \notin {a, b} => R[i] = S[i]
    BY <1>1, <2>2, Swaps DEF R
  <2>5. Shuffle(R, T)
    BY <2>4 DEF Shuffle, Sinking
  <2>6. ASSUME NEW i \in 2 .. Len(T) PROVE i \div 2 \in 1 .. Len(T) /\ i \div 2 < i /\ i \in 1 .. Len(T)
    BY <1>1, Halves
  <2>7. ASSUME NEW i \in 2 .. Len(T), i \div 2 # b PROVE wt[R[i \div 2]] <= wt[R[i]]
    <3>1. CASE i = b
      BY <2>2, <2>3, <2>4, <3>1
    <3>2. CASE i = a
      <4>1. R[i \div 2] = S[a \div 2] /\ R[i] = S[b]
        BY <2>2, <2>4, <2>6, <2>7, <3>2
      <4>2. wt[S[a \div 2]] <= wt[S[b]]
        BY <2>2, <2>7, <3>2 DEF Sinking
      <4> QED
        BY <4>1, <4>2
    <3>3. CASE i \div 2 = a /\ i # b
      BY <2>2, <2>4, <2>6, <3>3
    <3>4. CASE i \notin {a, b} /\ i \div 2 # a
      <4>1. R[i \div 2] = S[i \div 2] /\ R[i] = S[i]
        BY <2>4, <2>6, <2>7, <3>4
      <4> QED
        BY <4>1, <2>7, <3>4 DEF Sinking
    <3> QED
      BY <3>1, <3>2, <3>3, <3>4
  <2>8. ASSUME NEW i \in 2 .. Len(T), i \div 2 = b PROVE wt[R[b \div 2]] <= wt[R[i]]
    <3>1. R[b \div 2] = S[b] /\ R[i] = S[i]
      BY <2>2, <2>4, <2>6, <2>8
    <3>2. wt[S[i \div 2]] <= wt[S[i]]
      BY <2>2, <2>8 DEF Sinking
    <3> QED
      BY <3>1, <3>2, <2>8
  <2>9. Sinking(Sunk(h, wt), T, wt)
    BY <2>1, <2>2, <2>5, <2>7, <2>8 DEF Sinking
  <2>10. ASSUME Ordered(S, wt) PROVE Ordered(R, wt)
    <3>1. \A i \in 2 .. Len(T) : i \div 2 = b => wt[R[i \div 2]] <= wt[R[i]]
      <4> SUFFICES ASSUME NEW i \in 2 .. Len(T), i \div 2 = b PROVE wt[R[b]] <= wt[R[i]]
        OBVIOUS
      <4>1. wt[S[a]] <= wt[S[b]] /\ wt[S[b]] <= wt[S[i]]
        BY <1>1, <2>2, <2>10 DEF Ordered
      <4>2. R[b] = S[a] /\ R[i] = S[i]
        BY <2>2, <2>4, <2>6
      <4> QED
        BY <1>1, <2>2, <2>6, <4>1, <4>2
    <3> QED
      BY <1>1, <2>4, <2>7, <3>1 DEF Ordered, Shuffle
  <2> QED
    BY <2>1, <2>2, <2>9, <2>10
<1> QED
  BY <1>1, <1>2, <1>3

\* An exchange of vm_heap_repup moves the page that may be too light up.
LEMMA RiseStep ==
  ASSUME NEW T \in Seq(Pages), NEW wt, Weighed(T, wt), NEW h, Rising(h, T, wt)
  PROVE  /\ Rising(Lifted(h, wt), T, wt)
         /\ Ordered(h.tree, wt) \/ Lifted(h, wt).at < h.at
         /\ Ordered(h.tree, wt) => Ordered(Lifted(h, wt).tree, wt)
<1> DEFINE a == h.at  S == h.tree  b == a \div 2  R == Swapped(S, a, b)
<1>0. /\ S \in Seq(Pages) /\ Len(S) = Len(T) /\ Distinct(S) /\ a \in 1 .. Len(T)
      /\ Entries(S) = Entries(T) /\ DOMAIN S = 1 .. Len(S)
  BY DEF Rising, Shuffle
<1>1. \A i \in 1 .. Len(T) : wt[S[i]] \in Nat
  <2> SUFFICES ASSUME NEW i \in 1 .. Len(T) PROVE wt[S[i]] \in Nat
    BY <1>0
  <2>1. S[i] \in Entries(S)
    BY <1>0 DEF Entries
  <2> QED
    BY <1>0, <2>1 DEF Weighed
<1>2. CASE a = 1 \/ wt[S[a]] > wt[S[b]]
  <2>1. Lifted(h, wt) = h
    BY <1>2 DEF Lifted
  <2>2. a \in 2 .. Len(T) => wt[S[a \div 2]] <= wt[S[a]]
    BY <1>0, <1>1, <1>2, Halves
  <2>3. Ordered(S, wt)
    BY <1>0, <2>2 DEF Ordered, Rising
  <2> QED
    BY <2>1, <2>3
<1>3. CASE a # 1 /\ ~(wt[S[a]] > wt[S[b]])
  <2>1. /\ Lifted(h, wt).at = b /\ Lifted(h, wt).tree = R
    BY <1>3 DEF Lifted
  <2>2. a \in 2 .. Len(T) /\ b \in 1 .. Len(T) /\ b < a /\ a \div 2 = b
    BY <1>0, <1>3, Halves
  <2>3. wt[S[a]] <= wt[S[b]]
    BY <1>0, <1>1, <1>3, <2>2
  <2> HIDE DEF b, R
  <2>4. /\ Shuffle(R, S) /\ R[a] = S[b] /\ R[b] = S[a]
        /\ \A i \in 1 .. Len(T) : i \notin {a, b} => R[i] = S[i]
    BY <1>0, <2>2, Swaps DEF R
  <2>5. Shuffle(R, T)
    BY <2>4 DEF Shuffle, Rising
  <2>6. ASSUME NEW i \in 2 .. Len(T) PROVE i \div 2 \in 1 .. Len(T) /\ i \div 2 < i /\ i \in 1 .. Len(T)
    BY <1>0, Halves
  <2>7. ASSUME NEW i \in 2 .. Len(T), i # b PROVE wt[R[i \div 2]] <= wt[R[i]]
    <3>1. CASE i = a
      BY <2>2, <2>3, <2>4, <3>1
    <3>2. CASE i # a /\ i \div 2 = a
      <4>1. R[i \div 2] = S[b] /\ R[i] = S[i]
        BY <2>4, <2>6, <2>7, <3>2
      <4> QED
        BY <2>2, <3>2, <4>1 DEF Rising
    <3>3. CASE i # a /\ i \div 2 = b
      <4>1. R[i \div 2] = S[a] /\ R[i] = S[i]
        BY <2>4, <2>6, <2>7, <3>3
      <4>2. wt[S[b]] <= wt[S[i]]
        BY <3>3 DEF Rising
      <4> QED
        BY <1>0, <1>1, <2>2, <2>3, <2>6, <4>1, <4>2
    <3>4. CASE i # a /\ i \div 2 \notin {a, b}
      <4>1. R[i \div 2] = S[i \div 2] /\ R[i] = S[i]
        BY <2>4, <2>6, <2>7, <3>4
      <4> QED
        BY <4>1, <3>4 DEF Rising
    <3> QED
      BY <3>1, <3>2, <3>3, <3>4
  <2>8. ASSUME b > 1 PROVE wt[S[b \div 2]] <= wt[S[b]] /\ b \div 2 \in 1 .. Len(T) /\ b \div 2 < b /\ b \in 2 .. Len(T)
    <3>1. b \in 2 .. Len(T)
      BY <1>0, <2>2, <2>8
    <3> QED
      BY <2>2, <2>6, <3>1 DEF Rising
  <2>9. ASSUME NEW i \in 2 .. Len(T), i \div 2 = b, b > 1 PROVE wt[R[b \div 2]] <= wt[R[i]]
    <3>1. R[b \div 2] = S[b \div 2]
      BY <2>2, <2>4, <2>8, <2>9
    <3>2. CASE i = a
      BY <2>4, <2>8, <2>9, <3>1, <3>2
    <3>3. CASE i # a
      <4>1. wt[S[b]] <= wt[S[i]] /\ R[i] = S[i]
        BY <2>4, <2>6, <2>9, <3>3 DEF Rising
      <4>2. wt[S[b]] \in Nat /\ wt[S[i]] \in Nat /\ wt[S[b \div 2]] \in Nat
        BY <1>1, <2>2, <2>6, <2>8, <2>9
      <4>3. wt[S[b \div 2]] <= wt[S[b]]
        BY <2>8, <2>9
      <4> QED
        BY <3>1, <4>1, <4>2, <4>3
    <3> QED
      BY <3>2, <3>3
  <2>10. Rising(Lifted(h, wt), T, wt)
    BY <2>1, <2>2, <2>5, <2>7, <2>9 DEF Rising
  <2>11. ASSUME Ordered(S, wt) PROVE Ordered(R, wt)
    <3>1. b \in 2 .. Len(T) => wt[R[b \div 2]] <= wt[R[b]]
      <4> SUFFICES ASSUME b \in 2 .. Len(T) PROVE wt[R[b \div 2]] <= wt[R[b]]
        OBVIOUS
      <4>1. b > 1 /\ wt[S[b]] <= wt[S[a]]
        BY <1>0, <2>2, <2>11 DEF Ordered
      <4>2. R[b] = S[a] /\ R[b \div 2] = S[b \div 2]
        BY <2>2, <2>4, <2>8, <4>1
      <4> QED
        BY <1>0, <1>1, <2>2, <2>8, <4>1, <4>2
    <3> QED
      BY <1>0, <2>4, <2>7, <3>1 DEF Ordered, Shuffle
  <2> QED
    BY <2>1, <2>2, <2>10, <2>11
<1> QED
  BY <1>0, <1>2, <1>3

\* vm_heap_repdown makes a heap of one whose first page got heavier.
LEMMA RepDownHeap ==
  ASSUME NEW T \in Seq(Pages), Distinct(T), T # <<>>, NEW wt, Weighed(T, wt),
         \A i \in 2 .. Len(T) : i \div 2 # 1 => wt[T[i \div 2]] <= wt[T[i]]
  PROVE  Shuffle(RepDown(T, wt), T) /\ Ordered(RepDown(T, wt), wt)
<1> DEFINE N == Len(T)
           Pass(j, f) == f = [k \in 0 .. j |-> IF k = 0 THEN [at |-> 1, tree |-> T] ELSE Sunk(f[k - 1], wt)]
           S == {j \in Nat : \E f : Pass(j, f)}
<1>0. N \in Nat /\ N >= 1 /\ DOMAIN T = 1 .. N
  OBVIOUS
<1>1. 0 \in S
  <2> DEFINE f == [k \in 0 .. 0 |-> [at |-> 1, tree |-> T]]
  <2>1. Pass(0, f)
    OBVIOUS
  <2> QED
    BY <2>1
<1>2. ASSUME NEW j \in Nat, j \in S PROVE j + 1 \in S
  <2>1. PICK f : Pass(j, f)
    BY <1>2
  <2> DEFINE g == [k \in 0 .. j + 1 |-> IF k = j + 1 THEN Sunk(f[j], wt) ELSE f[k]]
  <2>2. Pass(j + 1, g)
    BY <2>1
  <2>3. \E h : Pass(j + 1, h)
    BY <2>2
  <2> QED
    BY <2>3
<1>3. N \in S
  BY <1>0, <1>1, <1>2, NumberInduction
<1>4. PICK f : Pass(N, f) /\ RepDown(T, wt) = f[N].tree
  BY <1>3 DEF RepDown
<1>5. f[0] = [at |-> 1, tree |-> T] /\ \A k \in Nat : k + 1 <= N => f[k + 1] = Sunk(f[k], wt)
  BY <1>0, <1>4
<1> HIDE DEF Pass, S
<1> DEFINE I(k) == Sinking(f[k], T, wt) /\ (Ordered(f[k].tree, wt) \/ f[k].at > k)
           U == {k \in Nat : k <= N => I(k)}
<1>6. 0 \in U
  <2>1. Shuffle(T, T)
    BY DEF Shuffle
  <2>2. Sinking([at |-> 1, tree |-> T], T, wt)
    BY <1>0, <2>1, Halves DEF Sinking
  <2> QED
    BY <1>0, <1>5, <2>2
<1>7. ASSUME NEW k \in Nat, k \in U PROVE k + 1 \in U
  <2> SUFFICES ASSUME k + 1 <= N PROVE I(k + 1)
    OBVIOUS
  <2> DEFINE h == f[k]
  <2>1. I(k) /\ f[k + 1] = Sunk(h, wt)
    BY <1>0, <1>5, <1>7
  <2>2. /\ Sinking(f[k + 1], T, wt)
        /\ Ordered(h.tree, wt) \/ f[k + 1].at > h.at
        /\ Ordered(h.tree, wt) => Ordered(f[k + 1].tree, wt)
    BY <2>1, SinkStep
  <2>3. h.at \in 1 .. N /\ f[k + 1].at \in 1 .. N
    BY <2>1, <2>2 DEF Sinking
  <2> QED
    BY <1>0, <2>1, <2>2, <2>3
<1> HIDE DEF U
<1>8. Nat \subseteq U
  BY <1>6, <1>7, NumberInduction
<1>9. I(N)
  BY <1>0, <1>8 DEF U
<1> QED
  BY <1>0, <1>4, <1>9 DEF Sinking

\* A page added at the end is the only one that can be too light.
LEMMA LastRises ==
  ASSUME NEW T \in Seq(Pages), Distinct(T), NEW wt, NEW N \in Nat, N >= 1, Len(T) = N,
         NEW h, h.at = N, h.tree = T,
         \A i \in 2 .. N - 1 : wt[T[i \div 2]] <= wt[T[i]]
  PROVE  Rising(h, T, wt)
<1>1. \A i \in 2 .. N : i # N => i \in 2 .. N - 1
  OBVIOUS
<1>2. \A i \in 2 .. N : i \div 2 # N
  OBVIOUS
<1>3. Shuffle(T, T) /\ N \in 1 .. N
  BY DEF Shuffle
<1> QED
  BY <1>1, <1>2, <1>3, Zenon DEF Rising

\* vm_heap_repup makes a heap of one with another page at its end.
LEMMA RepUpHeap ==
  ASSUME NEW T \in Seq(Pages), Distinct(T), T # <<>>, NEW wt, Weighed(T, wt),
         \A i \in 2 .. Len(T) - 1 : wt[T[i \div 2]] <= wt[T[i]]
  PROVE  Shuffle(RepUp(T, wt), T) /\ Ordered(RepUp(T, wt), wt)
<1> DEFINE N == Len(T)
           h0 == [at |-> Len(T), tree |-> T]
           Pass(j, f) == f = [k \in 0 .. j |-> IF k = 0 THEN h0 ELSE Lifted(f[k - 1], wt)]
           S == {j \in Nat : \E f : Pass(j, f)}
<1>0. N \in Nat /\ N >= 1 /\ DOMAIN T = 1 .. N
  OBVIOUS
<1>1. 0 \in S
  <2> DEFINE f == [k \in 0 .. 0 |-> h0]
  <2>1. Pass(0, f)
    OBVIOUS
  <2> QED
    BY <2>1
<1>2. ASSUME NEW j \in Nat, j \in S PROVE j + 1 \in S
  <2>1. PICK f : Pass(j, f)
    BY <1>2
  <2> DEFINE g == [k \in 0 .. j + 1 |-> IF k = j + 1 THEN Lifted(f[j], wt) ELSE f[k]]
  <2>2. Pass(j + 1, g)
    BY <2>1
  <2>3. \E h : Pass(j + 1, h)
    BY <2>2
  <2> QED
    BY <2>3
<1>3. N \in S
  BY <1>0, <1>1, <1>2, NumberInduction
<1>4. PICK f : Pass(N, f) /\ RepUp(T, wt) = f[N].tree
  BY <1>3 DEF RepUp
<1>h. h0.at = N /\ h0.tree = T
  OBVIOUS
<1> HIDE DEF h0
<1>5. f[0] = h0 /\ \A k \in Nat : k + 1 <= N => f[k + 1] = Lifted(f[k], wt)
  BY <1>0, <1>4
<1> HIDE DEF Pass, S
<1> DEFINE I(k) == Rising(f[k], T, wt) /\ (Ordered(f[k].tree, wt) \/ f[k].at <= N - k)
           U == {k \in Nat : k <= N => I(k)}
<1>6. 0 \in U
  <2>1. Shuffle(T, T)
    BY DEF Shuffle
  <2>2. Rising(h0, T, wt)
    BY <1>0, <1>h, LastRises
  <2> QED
    BY <1>0, <1>5, <1>h, <2>2
<1>7. ASSUME NEW k \in Nat, k \in U PROVE k + 1 \in U
  <2> SUFFICES ASSUME k + 1 <= N PROVE I(k + 1)
    OBVIOUS
  <2> DEFINE h == f[k]
  <2>1. I(k) /\ f[k + 1] = Lifted(h, wt)
    BY <1>0, <1>5, <1>7
  <2>2. /\ Rising(f[k + 1], T, wt)
        /\ Ordered(h.tree, wt) \/ f[k + 1].at < h.at
        /\ Ordered(h.tree, wt) => Ordered(f[k + 1].tree, wt)
    BY <2>1, RiseStep
  <2>3. h.at \in 1 .. N /\ f[k + 1].at \in 1 .. N
    BY <2>1, <2>2 DEF Rising
  <2> QED
    BY <1>0, <2>1, <2>2, <2>3
<1> HIDE DEF U
<1>8. Nat \subseteq U
  BY <1>6, <1>7, NumberInduction
<1>9. I(N)
  BY <1>0, <1>8 DEF U
<1> QED
  BY <1>0, <1>4, <1>9 DEF Rising

\* The first page of an ordered heap is one of the lightest.
LEMMA LightestFirst ==
  ASSUME NEW S \in Seq(Pages), NEW wt, Weighed(S, wt), Ordered(S, wt)
  PROVE  \A i \in 1 .. Len(S) : wt[S[1]] <= wt[S[i]]
<1> DEFINE U == {n \in Nat : \A i \in 1 .. Len(S) : i <= n => wt[S[1]] <= wt[S[i]]}
<1>0. \A i \in 1 .. Len(S) : wt[S[i]] \in Nat
  BY DEF Weighed, Entries
<1>1. 0 \in U
  OBVIOUS
<1>2. ASSUME NEW n \in Nat, n \in U PROVE n + 1 \in U
  <2> SUFFICES ASSUME NEW i \in 1 .. Len(S), i = n + 1 PROVE wt[S[1]] <= wt[S[i]]
    BY <1>2
  <2>1. CASE i = 1
    BY <1>0, <2>1
  <2>2. CASE i # 1
    <3>1. i \in 2 .. Len(S) /\ i \div 2 \in 1 .. Len(S) /\ i \div 2 <= n
      BY <2>2, Halves
    <3>2. wt[S[1]] <= wt[S[i \div 2]] /\ wt[S[i \div 2]] <= wt[S[i]]
      BY <1>2, <3>1 DEF Ordered
    <3>3. wt[S[1]] \in Nat /\ wt[S[i \div 2]] \in Nat /\ wt[S[i]] \in Nat
      BY <1>0, <3>1
    <3> QED
      BY <3>2, <3>3
  <2> QED
    BY <2>1, <2>2
<1> HIDE DEF U
<1>3. Nat \subseteq U
  BY <1>1, <1>2, NumberInduction
<1> QED
  BY <1>3 DEF U

-----------------------------------------------------------------------------
(* What is handed out of what.                                             *)

\* How full page p of worker w is: its weight is stale while it is current.
Level(wt, dt, fl, w, p) == IF p = dt[w] THEN fl[w] ELSE wt[p]

\* The values that the steps give, by name.
Now(f, w, v) == [f EXCEPT ![w] = v]
Headed(wt, p, n) == [q \in DOMAIN wt \cup {p} |-> IF q = p THEN n ELSE wt[q]]
Block(a, n) == a .. a + n - 1
Took(us, a, n) == us \cup Block(a, n)
Unused(us, a, n) == us \cap Block(a, n) = {}

\* The heap of one worker is an ordered tree of its own pages.
Tree(pg, wt, dt, fl, off, w) ==
  /\ Entries(pg[w]) \subseteq DOMAIN wt /\ Distinct(pg[w]) /\ Ordered(pg[w], wt)
  /\ Len(pg[w]) * Page <= off
  /\ IF pg[w] = <<>> THEN dt[w] = NoPage /\ fl[w] = Page ELSE dt[w] = pg[w][1]

\* Pages do not overlap.
Apart(wt, off) ==
  /\ \A p \in DOMAIN wt : p + Page <= off
  /\ \A p, q \in DOMAIN wt : p < q => p + Page <= q

\* Nothing lives in the rest of a page, or in its header.
Fresh(pg, wt, dt, fl, us) ==
  /\ \A w \in Workers : \A p \in Entries(pg[w]) :
       \A a \in us : ~(p + Level(wt, dt, fl, w, p) <= a /\ a < p + Page)
  /\ \A a \in us : a \notin DOMAIN wt

Typed(pg, wt, dt, fl, us, off) ==
  /\ pg \in [Workers -> Seq(Pages)]
  /\ DOMAIN wt \subseteq Pages /\ \A p \in DOMAIN wt : wt[p] \in 1 .. Page
  /\ dt \in [Workers -> Pages \cup {NoPage}] /\ fl \in [Workers -> 1 .. Page]
  /\ off \in Nat /\ us \subseteq 0 .. off - 1

Sound(pg, wt, dt, fl, us, off) ==
  /\ Typed(pg, wt, dt, fl, us, off)
  /\ \A w \in Workers : Tree(pg, wt, dt, fl, off, w)
  /\ \A v, w \in Workers : v # w => Entries(pg[v]) \cap Entries(pg[w]) = {}
  /\ Apart(wt, off)
  /\ Fresh(pg, wt, dt, fl, us)

SoundNow == Sound(page, weight, data, fill, used, doffset)

LEMMA PageFacts ==
  /\ Page \in Nat /\ Page >= 2 /\ MaxPage \in Nat /\ NoPage = -1 /\ MaxPage * Page \in Nat
  /\ Pages \subseteq Nat /\ NoPage \notin Pages
BY PageHeapAssumption DEF NoPage, Pages

LEMMA FirstEntry ==
  ASSUME NEW S \in Seq(Pages), S # <<>>
  PROVE  S[1] \in Entries(S) /\ S[1] \in Pages
BY DEF Entries

\* What Retired does.
LEMMA RetiredFacts ==
  ASSUME SoundNow, NEW w \in Workers
  PROVE  LET h == Retired(w) IN
         /\ Shuffle(h.page, page[w]) /\ Ordered(h.page, h.weight)
         /\ DOMAIN h.weight = DOMAIN weight
         /\ \A p \in DOMAIN weight : h.weight[p] = IF p = data[w] THEN fill[w] ELSE weight[p]
         /\ IF page[w] = <<>> THEN h.data = NoPage /\ h.fill = Page
            ELSE h.data = h.page[1] /\ h.fill = h.weight[h.data]
         /\ \A p \in Entries(page[w]) : h.fill <= Level(weight, data, fill, w, p)
<1> DEFINE h == Retired(w)
<1>1. /\ page[w] \in Seq(Pages) /\ DOMAIN weight \subseteq Pages /\ fill[w] \in 1 .. Page
      /\ \A p \in DOMAIN weight : weight[p] \in 1 .. Page
      /\ Entries(page[w]) \subseteq DOMAIN weight /\ Distinct(page[w]) /\ Ordered(page[w], weight)
      /\ IF page[w] = <<>> THEN data[w] = NoPage /\ fill[w] = Page ELSE data[w] = page[w][1]
  BY DEF SoundNow, Sound, Typed, Tree
<1>2. CASE page[w] = <<>>
  <2>1. h = [page |-> page[w], weight |-> weight, data |-> NoPage, fill |-> fill[w]]
    BY <1>1, <1>2 DEF Retired
  <2>2. data[w] \notin DOMAIN weight
    BY <1>1, <1>2, PageFacts
  <2>3. Entries(page[w]) = {}
    BY <1>2 DEF Entries
  <2> QED
    BY <1>1, <1>2, <2>1, <2>2, <2>3 DEF Shuffle
<1>3. CASE page[w] # <<>>
  <2> DEFINE S == page[w]
             wt == [weight EXCEPT ![data[w]] = fill[w]]
             T == RepDown(S, wt)
  <2>1. data[w] = S[1] /\ data[w] \in Entries(S) /\ data[w] # NoPage
    BY <1>1, <1>3, FirstEntry, PageFacts
  <2>2. h = [page |-> T, weight |-> wt, data |-> T[1], fill |-> wt[T[1]]]
    BY <2>1 DEF Retired
  <2>3. /\ DOMAIN wt = DOMAIN weight
        /\ \A p \in DOMAIN weight : wt[p] = IF p = data[w] THEN fill[w] ELSE weight[p]
    BY <1>1, <2>1
  <2>4. Weighed(S, wt)
    BY <1>1, <2>3, PageFacts DEF Weighed
  <2> HIDE DEF wt, T
  <2>5. ASSUME NEW i \in 2 .. Len(S), i \div 2 # 1 PROVE wt[S[i \div 2]] <= wt[S[i]]
    <3>1. i \in 1 .. Len(S) /\ i \div 2 \in 1 .. Len(S) /\ i # 1 /\ 1 \in 1 .. Len(S) /\ DOMAIN S = 1 .. Len(S)
      BY <1>1, Halves
    <3>2. S[i] # S[1] /\ S[i \div 2] # S[1]
      BY <1>1, <2>5, <3>1 DEF Distinct
    <3>3. S[i] \in DOMAIN weight /\ S[i \div 2] \in DOMAIN weight
      BY <1>1, <3>1 DEF Entries
    <3> QED
      BY <1>1, <2>1, <2>3, <3>2, <3>3 DEF Ordered
  <2>6. Shuffle(T, S) /\ Ordered(T, wt)
    BY <1>1, <1>3, <2>4, <2>5, RepDownHeap DEF T
  <2>7. ASSUME NEW p \in Entries(S) PROVE wt[T[1]] <= Level(weight, data, fill, w, p)
    <3>1. Weighed(T, wt) /\ T \in Seq(Pages) /\ p \in Entries(T)
      BY <2>4, <2>6, <2>7 DEF Shuffle, Weighed
    <3>2. PICK i \in 1 .. Len(T) : T[i] = p
      BY <3>1 DEF Entries
    <3>3. wt[T[1]] <= wt[p]
      BY <2>6, <3>1, <3>2, LightestFirst
    <3> QED
      BY <1>1, <2>3, <2>7, <3>3 DEF Level
  <2> QED
    BY <1>3, <2>2, <2>3, <2>6, <2>7
<1> QED
  BY <1>2, <1>3

\* The worker's heap is as sound when the current page is back in its place.
LEMMA RetiredSound ==
  ASSUME SoundNow, NEW w \in Workers
  PROVE  LET h == Retired(w) IN
         /\ Sound(Now(page, w, h.page), h.weight, Now(data, w, h.data), Now(fill, w, h.fill), used, doffset)
         /\ h.data # NoPage => h.fill = h.weight[h.data]
<1> DEFINE h == Retired(w)  wt == h.weight
           pg == Now(page, w, h.page)  dt == Now(data, w, h.data)  fl == Now(fill, w, h.fill)
<1> pg = [page EXCEPT ![w] = h.page] /\ dt = [data EXCEPT ![w] = h.data] /\ fl = [fill EXCEPT ![w] = h.fill]
  BY DEF Now
<1>1. /\ Shuffle(h.page, page[w]) /\ Ordered(h.page, wt)
      /\ DOMAIN wt = DOMAIN weight
      /\ \A p \in DOMAIN weight : wt[p] = IF p = data[w] THEN fill[w] ELSE weight[p]
      /\ IF page[w] = <<>> THEN h.data = NoPage /\ h.fill = Page
         ELSE h.data = h.page[1] /\ h.fill = wt[h.data]
  BY RetiredFacts
<1> HIDE DEF h, wt, pg, dt, fl
<1>2. /\ Typed(page, weight, data, fill, used, doffset)
      /\ \A v \in Workers : Tree(page, weight, data, fill, doffset, v)
      /\ \A v, u \in Workers : v # u => Entries(page[v]) \cap Entries(page[u]) = {}
      /\ Apart(weight, doffset) /\ Fresh(page, weight, data, fill, used)
  BY DEF SoundNow, Sound
<1>3. \A p \in DOMAIN wt : wt[p] \in 1 .. Page
  BY <1>1, <1>2 DEF Typed
<1>4. /\ h.page \in Seq(Pages) /\ Entries(h.page) = Entries(page[w]) /\ Len(h.page) = Len(page[w])
      /\ Distinct(h.page) /\ (h.page = <<>> <=> page[w] = <<>>)
  BY <1>1, <1>2 DEF Shuffle, Typed
<1>5. page[w] # <<>> => h.data \in Entries(page[w]) /\ h.data \in Pages /\ h.fill \in 1 .. Page
  BY <1>1, <1>2, <1>3, <1>4, FirstEntry DEF Tree
<1>6. h.data \in Pages \cup {NoPage} /\ h.fill \in 1 .. Page
  BY <1>1, <1>5, PageFacts
<1>7. Typed(pg, wt, dt, fl, used, doffset)
  BY <1>1, <1>2, <1>3, <1>4, <1>6 DEF Typed
<1>8. /\ pg[w] = h.page /\ dt[w] = h.data /\ fl[w] = h.fill
      /\ \A v \in Workers : v # w => pg[v] = page[v] /\ dt[v] = data[v] /\ fl[v] = fill[v]
      /\ \A v \in Workers : Entries(pg[v]) = Entries(page[v])
  BY <1>2, <1>4 DEF Typed
<1>9. data[w] \in DOMAIN weight => data[w] \in Entries(page[w])
  BY <1>2, PageFacts, FirstEntry DEF Tree, Typed
<1>10. \A v \in Workers : v # w => \A p \in Entries(page[v]) : wt[p] = weight[p] /\ p \in DOMAIN weight
  <2> SUFFICES ASSUME NEW v \in Workers, v # w, NEW p \in Entries(page[v])
               PROVE  wt[p] = weight[p] /\ p \in DOMAIN weight
    OBVIOUS
  <2>1. p \in DOMAIN weight /\ p \notin Entries(page[w])
    BY <1>2 DEF Tree
  <2> QED
    BY <1>1, <1>9, <2>1
<1>11. ASSUME NEW v \in Workers PROVE Tree(pg, wt, dt, fl, doffset, v)
  <2>1. CASE v = w
    BY <1>1, <1>2, <1>4, <1>8, <2>1 DEF Tree
  <2>2. CASE v # w
    <3>1. Ordered(page[v], wt)
      <4> SUFFICES ASSUME NEW i \in 2 .. Len(page[v]) PROVE wt[page[v][i \div 2]] <= wt[page[v][i]]
        BY DEF Ordered
      <4>1. page[v] \in Seq(Pages)
        BY <1>2 DEF Typed
      <4>2. i \in DOMAIN page[v] /\ i \div 2 \in DOMAIN page[v]
        BY <4>1, Halves
      <4>3. page[v][i] \in Entries(page[v]) /\ page[v][i \div 2] \in Entries(page[v])
        BY <4>2 DEF Entries
      <4> QED
        BY <1>2, <1>10, <2>2, <4>3 DEF Tree, Ordered
    <3> QED
      BY <1>1, <1>2, <1>8, <2>2, <3>1 DEF Tree
  <2> QED
    BY <2>1, <2>2
<1>12. Apart(wt, doffset)
  BY <1>1, <1>2 DEF Apart
<1>13. \A v \in Workers : \A p \in Entries(page[v]) : Level(wt, dt, fl, v, p) = Level(weight, data, fill, v, p)
  <2> SUFFICES ASSUME NEW v \in Workers, NEW p \in Entries(page[v])
               PROVE  Level(wt, dt, fl, v, p) = Level(weight, data, fill, v, p)
    OBVIOUS
  <2>1. CASE v = w
    <3>1. p \in DOMAIN weight /\ page[w] # <<>>
      BY <1>2, <2>1 DEF Tree, Entries
    <3> QED
      BY <1>1, <1>8, <2>1, <3>1 DEF Level
  <2>2. CASE v # w
    BY <1>8, <1>10, <2>2 DEF Level
  <2> QED
    BY <2>1, <2>2
<1>14. Fresh(pg, wt, dt, fl, used)
  <2> SUFFICES ASSUME NEW v \in Workers, NEW p \in Entries(page[v]), NEW a \in used
               PROVE  ~(p + Level(wt, dt, fl, v, p) <= a /\ a < p + Page)
    BY <1>1, <1>2, <1>8 DEF Fresh
  <2> QED
    BY <1>2, <1>13, Zenon DEF Fresh
<1>15. Sound(pg, wt, dt, fl, used, doffset)
  BY <1>2, <1>7, <1>8, <1>11, <1>12, <1>14 DEF Sound
<1>16. h.data # NoPage => h.fill = wt[h.data]
  BY <1>1
<1> QED
  BY <1>15, <1>16 DEF wt, pg, dt, fl, h

\* A block from the rest of the current page.
LEMMA FilledSound ==
  ASSUME NEW pg, NEW wt, NEW dt, NEW fl, NEW us, NEW off, Sound(pg, wt, dt, fl, us, off),
         NEW w \in Workers, NEW n \in Nat \ {0}, fl[w] + n <= Page
  PROVE  /\ Sound(pg, wt, dt, Now(fl, w, fl[w] + n), Took(us, dt[w] + fl[w], n), off)
         /\ dt[w] + fl[w] \in Nat /\ Unused(us, dt[w] + fl[w], n)
<1> DEFINE d == dt[w]  B == d + fl[w] .. d + fl[w] + n - 1
           fl1 == Now(fl, w, fl[w] + n)  us1 == Took(us, d + fl[w], n)
<1> fl1 = [fl EXCEPT ![w] = fl[w] + n] /\ us1 = us \cup B /\ B = Block(d + fl[w], n)
  BY DEF Now, Took, Block
<1> HIDE DEF fl1, us1
<1>1. /\ Typed(pg, wt, dt, fl, us, off)
      /\ \A v \in Workers : Tree(pg, wt, dt, fl, off, v)
      /\ \A v, u \in Workers : v # u => Entries(pg[v]) \cap Entries(pg[u]) = {}
      /\ Apart(wt, off) /\ Fresh(pg, wt, dt, fl, us)
  BY DEF Sound
<1>2. /\ Page \in Nat /\ fl[w] \in 1 .. Page /\ off \in Nat /\ fl[w] # Page /\ pg[w] \in Seq(Pages)
      /\ Pages \subseteq Nat /\ DOMAIN wt \subseteq Nat /\ us \subseteq 0 .. off - 1
  <2>1. /\ fl[w] \in 1 .. Page /\ off \in Nat /\ pg[w] \in Seq(Pages)
        /\ DOMAIN wt \subseteq Pages /\ us \subseteq 0 .. off - 1
    BY <1>1 DEF Typed
  <2>2. fl[w] # Page
    BY <2>1, PageFacts
  <2> QED
    BY <2>1, <2>2, PageFacts
<1>3. d \in Entries(pg[w]) /\ d \in DOMAIN wt /\ d \in Nat /\ d + Page <= off
  <2>1. pg[w] # <<>> /\ d = pg[w][1]
    BY <1>1, <1>2 DEF Tree
  <2> QED
    BY <1>1, <1>2, <2>1, FirstEntry DEF Tree, Apart
<1>4. \A a \in us : ~(d + fl[w] <= a /\ a < d + Page)
  BY <1>1, <1>3 DEF Fresh, Level
<1>5. \A b \in B : b \in Nat /\ d + fl[w] <= b /\ b < d + fl[w] + n /\ d < b /\ b < d + Page
  BY <1>2, <1>3
<1> HIDE DEF B
<1>6. us \cap B = {}
  BY <1>4, <1>5
<1>7. /\ fl1[w] = fl[w] + n /\ fl1[w] \in 1 .. Page
      /\ \A v \in Workers : v # w => fl1[v] = fl[v]
  BY <1>1, <1>2 DEF Typed
<1>8. Typed(pg, wt, dt, fl1, us1, off)
  <2>1. B \subseteq 0 .. off - 1
    BY <1>2, <1>3, <1>5
  <2>2. us1 \subseteq 0 .. off - 1
    BY <1>2, <2>1 DEF B
  <2> QED
    BY <1>1, <1>2, <1>7, <2>2 DEF Typed
<1>9. \A v \in Workers : Tree(pg, wt, dt, fl1, off, v)
  <2> SUFFICES ASSUME NEW v \in Workers PROVE Tree(pg, wt, dt, fl1, off, v)
    OBVIOUS
  <2>1. CASE v # w
    BY <1>1, <1>7, <2>1 DEF Tree
  <2>2. CASE v = w
    <3>1. pg[w] # <<>>
      BY <1>3 DEF Entries
    <3> QED
      BY <1>1, <2>2, <3>1 DEF Tree
  <2> QED
    BY <2>1, <2>2
<1>10. \A p \in DOMAIN wt : p # d => \A b \in B : ~(p <= b /\ b < p + Page)
  <2> SUFFICES ASSUME NEW p \in DOMAIN wt, p # d, NEW b \in B PROVE ~(p <= b /\ b < p + Page)
    OBVIOUS
  <2>1. p \in Nat /\ (p + Page <= d \/ d + Page <= p)
    BY <1>1, <1>2, <1>3 DEF Apart
  <2> QED
    BY <1>2, <1>3, <1>5, <2>1
<1>11. ASSUME NEW v \in Workers, NEW p \in Entries(pg[v]), NEW a \in us1
       PROVE  ~(p + Level(wt, dt, fl1, v, p) <= a /\ a < p + Page)
  <2>0. p \in DOMAIN wt /\ p \in Nat /\ wt[p] \in 1 .. Page /\ fl[v] \in 1 .. Page /\ fl1[v] \in Nat
        /\ Level(wt, dt, fl1, v, p) \in Nat
    BY <1>1, <1>2, <1>8 DEF Tree, Typed, Level
  <2>1. CASE a \in us
    <3>1. ~(p + Level(wt, dt, fl, v, p) <= a /\ a < p + Page)
      BY <1>1, <2>1 DEF Fresh
    <3>2. Level(wt, dt, fl, v, p) <= Level(wt, dt, fl1, v, p) /\ Level(wt, dt, fl, v, p) \in Nat
      BY <1>2, <1>7, <2>0 DEF Level
    <3> QED
      BY <1>2, <2>0, <2>1, <3>1, <3>2
  <2>2. CASE a \in B /\ p = d
    <3>1. v = w
      BY <1>1, <1>3, <2>2
    <3> QED
      BY <1>2, <1>3, <1>5, <1>7, <2>2, <3>1 DEF Level
  <2>3. CASE a \in B /\ p # d
    BY <1>2, <1>5, <1>10, <2>0, <2>3
  <2> QED
    BY <2>1, <2>2, <2>3 DEF B
<1>12. \A a \in us1 : a \notin DOMAIN wt
  <2>1. \A a \in us : a \notin DOMAIN wt
    BY <1>1 DEF Fresh
  <2>2. ASSUME NEW b \in B, b \in DOMAIN wt PROVE FALSE
    <3>1. b \in Nat /\ b # d /\ ~(b <= b /\ b < b + Page)
      BY <1>3, <1>5, <1>10, <2>2
    <3> QED
      BY <1>2, <3>1
  <2> QED
    BY <2>1, <2>2 DEF B
<1>13. Fresh(pg, wt, dt, fl1, us1)
  BY <1>11, <1>12 DEF Fresh
<1>14. Sound(pg, wt, dt, fl1, us1, off)
  BY <1>1, <1>8, <1>9, <1>13, Zenon DEF Sound
<1>15. d + fl[w] \in Nat
  BY <1>2, <1>3
<1> QED
  BY <1>6, <1>14, <1>15 DEF fl1, us1, Unused

\* A block behind everything else.
LEMMA LargeSound ==
  ASSUME NEW pg, NEW wt, NEW dt, NEW fl, NEW us, NEW off, Sound(pg, wt, dt, fl, us, off),
         NEW n \in Nat
  PROVE  /\ Sound(pg, wt, dt, fl, Took(us, off, n), off + n)
         /\ off \in Nat /\ Unused(us, off, n)
<1> DEFINE B == off .. off + n - 1  us1 == Took(us, off, n)
<1> us1 = us \cup B /\ B = Block(off, n)
  BY DEF Took, Block
<1> HIDE DEF us1
<1>1. /\ Typed(pg, wt, dt, fl, us, off)
      /\ \A v \in Workers : Tree(pg, wt, dt, fl, off, v)
      /\ \A v, u \in Workers : v # u => Entries(pg[v]) \cap Entries(pg[u]) = {}
      /\ Apart(wt, off) /\ Fresh(pg, wt, dt, fl, us)
  BY DEF Sound
<1>2. /\ Page \in Nat /\ off \in Nat /\ DOMAIN wt \subseteq Nat /\ us \subseteq 0 .. off - 1
      /\ \A b \in B : b \in Nat /\ off <= b /\ b < off + n
  <2>1. Page \in Nat /\ off \in Nat /\ DOMAIN wt \subseteq Pages /\ us \subseteq 0 .. off - 1
    BY <1>1, PageFacts DEF Typed
  <2>2. \A b \in B : b \in Nat /\ off <= b /\ b < off + n
    BY <2>1
  <2> HIDE DEF B
  <2> QED
    BY <2>1, <2>2, PageFacts
<1> HIDE DEF B
<1>3. us \cap B = {}
  BY <1>2
<1>4. Typed(pg, wt, dt, fl, us1, off + n)
  <2>1. us \subseteq 0 .. off + n - 1 /\ B \subseteq 0 .. off + n - 1
    BY <1>2
  <2> QED
    BY <1>1, <1>2, <2>1 DEF Typed, B
<1>5. \A v \in Workers : Tree(pg, wt, dt, fl, off + n, v)
  <2> SUFFICES ASSUME NEW v \in Workers PROVE Tree(pg, wt, dt, fl, off + n, v)
    OBVIOUS
  <2>1. Len(pg[v]) \in Nat /\ Len(pg[v]) * Page \in Nat
    BY <1>1, <1>2 DEF Typed
  <2> QED
    BY <1>1, <1>2, <2>1 DEF Tree
<1>6. Apart(wt, off + n)
  BY <1>1, <1>2 DEF Apart
<1>7. \A p \in DOMAIN wt : \A b \in B : p + Page <= b
  BY <1>1, <1>2 DEF Apart
<1>8. ASSUME NEW v \in Workers, NEW p \in Entries(pg[v]), NEW a \in us1
      PROVE  ~(p + Level(wt, dt, fl, v, p) <= a /\ a < p + Page)
  <2>1. CASE a \in us
    BY <1>1, <2>1 DEF Fresh
  <2>2. CASE a \in B
    <3>1. p \in DOMAIN wt
      BY <1>1 DEF Tree
    <3> QED
      BY <1>2, <1>7, <2>2, <3>1
  <2> QED
    BY <2>1, <2>2 DEF B
<1>9. \A a \in us1 : a \notin DOMAIN wt
  <2>1. \A a \in us : a \notin DOMAIN wt
    BY <1>1 DEF Fresh
  <2>2. \A b \in B : b \notin DOMAIN wt
    BY <1>2, <1>7, PageFacts
  <2> QED
    BY <2>1, <2>2 DEF B
<1>10. Fresh(pg, wt, dt, fl, us1)
  BY <1>8, <1>9 DEF Fresh
<1>11. Sound(pg, wt, dt, fl, us1, off + n)
  BY <1>1, <1>4, <1>5, <1>6, <1>10, Zenon DEF Sound
<1> QED
  BY <1>2, <1>3, <1>11 DEF us1, Unused

LEMMA Appended ==
  ASSUME NEW S \in Seq(Pages), NEW x \in Pages, x \notin Entries(S), Distinct(S)
  PROVE  /\ Append(S, x) \in Seq(Pages) /\ Append(S, x) # <<>> /\ Distinct(Append(S, x))
         /\ Entries(Append(S, x)) = Entries(S) \cup {x}
         /\ Len(Append(S, x)) = Len(S) + 1
         /\ \A i \in 1 .. Len(S) : Append(S, x)[i] = S[i]
<1> DEFINE R == Append(S, x)
<1>1. /\ R \in Seq(Pages) /\ R # <<>> /\ Len(R) = Len(S) + 1 /\ DOMAIN R = 1 .. Len(S) + 1
      /\ DOMAIN S = 1 .. Len(S) /\ R[Len(S) + 1] = x /\ \A i \in 1 .. Len(S) : R[i] = S[i]
      /\ Len(S) \in Nat
  OBVIOUS
<1> HIDE DEF R
<1>2. \A i \in 1 .. Len(S) : S[i] # x
  BY <1>1 DEF Entries
<1>3. \A i \in 1 .. Len(S) + 1 : i \in 1 .. Len(S) \/ i = Len(S) + 1
  BY <1>1
<1>4. Distinct(R)
  BY <1>1, <1>2, <1>3 DEF Distinct
<1>5. Len(S) + 1 \in DOMAIN R /\ \A i \in 1 .. Len(S) : i \in DOMAIN R
  BY <1>1
<1>6. Entries(R) = Entries(S) \cup {x}
  BY <1>1, <1>3, <1>5 DEF Entries
<1> QED
  BY <1>1, <1>4, <1>6 DEF R

\* A new page behind everything else, with a block in it.
LEMMA PageSound ==
  ASSUME NEW pg, NEW wt, NEW dt, NEW fl, NEW us, NEW off, Sound(pg, wt, dt, fl, us, off),
         NEW w \in Workers, NEW n \in Nat \ {0}, n + 1 <= Page, off \in Pages,
         dt[w] # NoPage => fl[w] = wt[dt[w]]
  PROVE  LET wt1 == Headed(wt, off, n + 1)  T == RepUp(Append(pg[w], off), wt1) IN
         /\ Sound(Now(pg, w, T), wt1, Now(dt, w, T[1]), Now(fl, w, wt1[T[1]]),
                  Took(us, off + 1, n), off + Page)
         /\ Unused(us, off + 1, n)
<1> DEFINE B == Block(off + 1, n)
           A == Append(pg[w], off)
           wt1 == Headed(wt, off, n + 1)
           T == RepUp(A, wt1)
           pg1 == Now(pg, w, T)  dt1 == Now(dt, w, T[1])  fl1 == Now(fl, w, wt1[T[1]])
           us1 == Took(us, off + 1, n)
<1> /\ wt1 = [p \in DOMAIN wt \cup {off} |-> IF p = off THEN n + 1 ELSE wt[p]]
    /\ T = RepUp(A, wt1) /\ us1 = us \cup B
    /\ pg1 = [pg EXCEPT ![w] = T] /\ dt1 = [dt EXCEPT ![w] = T[1]] /\ fl1 = [fl EXCEPT ![w] = wt1[T[1]]]
  BY DEF Now, Headed, Took
<1> HIDE DEF wt1, T, pg1, dt1, fl1, us1
<1>1. /\ Typed(pg, wt, dt, fl, us, off)
      /\ \A v \in Workers : Tree(pg, wt, dt, fl, off, v)
      /\ \A v, u \in Workers : v # u => Entries(pg[v]) \cap Entries(pg[u]) = {}
      /\ Apart(wt, off) /\ Fresh(pg, wt, dt, fl, us)
  BY DEF Sound
<1>2. /\ Page \in Nat /\ Page >= 2 /\ off \in Nat /\ pg[w] \in Seq(Pages) /\ DOMAIN wt \subseteq Pages
      /\ Pages \subseteq Nat /\ us \subseteq 0 .. off - 1
      /\ \A p \in DOMAIN wt : wt[p] \in 1 .. Page /\ p \in Nat /\ p + Page <= off /\ p < off
  <2>1. /\ off \in Nat /\ pg[w] \in Seq(Pages) /\ DOMAIN wt \subseteq Pages /\ us \subseteq 0 .. off - 1
        /\ \A p \in DOMAIN wt : wt[p] \in 1 .. Page /\ p + Page <= off
    BY <1>1 DEF Typed, Apart
  <2>2. ASSUME NEW p \in DOMAIN wt PROVE p \in Nat /\ p < off
    BY <2>1, PageFacts
  <2> QED
    BY <2>1, <2>2, PageFacts
<1>3. /\ DOMAIN wt1 = DOMAIN wt \cup {off} /\ off \notin DOMAIN wt /\ wt1[off] = n + 1
      /\ \A p \in DOMAIN wt : wt1[p] = wt[p]
  BY <1>2
<1>4. \A p \in DOMAIN wt1 : wt1[p] \in 1 .. Page
  BY <1>2, <1>3
<1>5. \A v \in Workers : Entries(pg[v]) \subseteq DOMAIN wt /\ off \notin Entries(pg[v])
  BY <1>1, <1>3 DEF Tree
<1>6. /\ A \in Seq(Pages) /\ A # <<>> /\ Distinct(A) /\ Entries(A) = Entries(pg[w]) \cup {off}
      /\ Len(A) = Len(pg[w]) + 1 /\ \A i \in 1 .. Len(pg[w]) : A[i] = pg[w][i]
  BY <1>1, <1>2, <1>5, Appended DEF Tree
<1> HIDE DEF A
<1>7. Weighed(A, wt1)
  BY <1>2, <1>3, <1>4, <1>5, <1>6 DEF Weighed
<1>8. ASSUME NEW i \in 2 .. Len(A) - 1 PROVE wt1[A[i \div 2]] <= wt1[A[i]]
  <2>1. i \in 2 .. Len(pg[w]) /\ i \in 1 .. Len(pg[w]) /\ i \div 2 \in 1 .. Len(pg[w])
    <3>1. Len(pg[w]) \in Nat
      BY <1>2
    <3> QED
      BY <1>6, <3>1, Halves
  <2>2. A[i] = pg[w][i] /\ A[i \div 2] = pg[w][i \div 2]
    BY <1>6, <2>1
  <2>3. pg[w][i] \in Entries(pg[w]) /\ pg[w][i \div 2] \in Entries(pg[w])
    BY <1>2, <2>1 DEF Entries
  <2>4. wt[pg[w][i \div 2]] <= wt[pg[w][i]]
    BY <1>1, <2>1 DEF Tree, Ordered
  <2> QED
    BY <1>3, <1>5, <2>2, <2>3, <2>4
<1>9. Shuffle(T, A) /\ Ordered(T, wt1)
  BY <1>6, <1>7, <1>8, RepUpHeap DEF A
<1>10. /\ T \in Seq(Pages) /\ T # <<>> /\ Distinct(T) /\ Entries(T) = Entries(pg[w]) \cup {off}
       /\ Len(T) = Len(pg[w]) + 1 /\ T[1] \in Entries(T) /\ T[1] \in Pages /\ T[1] \in DOMAIN wt1
  <2>1. /\ T \in Seq(Pages) /\ Distinct(T) /\ Entries(T) = Entries(pg[w]) \cup {off} /\ Len(T) = Len(pg[w]) + 1
    BY <1>6, <1>9 DEF Shuffle
  <2>2. Len(pg[w]) \in Nat
    BY <1>2
  <2>3. T # <<>>
    BY <2>1, <2>2
  <2> QED
    BY <1>3, <1>5, <2>1, <2>3, FirstEntry
<1>11. /\ pg1[w] = T /\ dt1[w] = T[1] /\ fl1[w] = wt1[T[1]]
       /\ \A v \in Workers : v # w => pg1[v] = pg[v] /\ dt1[v] = dt[v] /\ fl1[v] = fl[v]
  BY <1>1 DEF Typed
<1>12. \A b \in B : b \in Nat /\ off < b /\ b < off + n + 1 /\ b < off + Page
  BY <1>2 DEF Block
<1> HIDE DEF B
<1>13. Typed(pg1, wt1, dt1, fl1, us1, off + Page)
  <2>1. us \subseteq 0 .. off + Page - 1 /\ B \subseteq 0 .. off + Page - 1
    BY <1>2, <1>12
  <2>2. us1 \subseteq 0 .. off + Page - 1
    BY <2>1 DEF B
  <2>3. DOMAIN wt1 \subseteq Pages /\ fl1[w] \in 1 .. Page
    BY <1>2, <1>3, <1>4, <1>10, <1>11
  <2>4. pg1 \in [Workers -> Seq(Pages)] /\ dt1 \in [Workers -> Pages \cup {NoPage}] /\ fl1 \in [Workers -> 1 .. Page]
    BY <1>1, <1>10, <1>11, <2>3 DEF Typed
  <2> QED
    BY <1>2, <1>4, <2>2, <2>3, <2>4 DEF Typed
<1>14. ASSUME NEW v \in Workers PROVE Tree(pg1, wt1, dt1, fl1, off + Page, v)
  <2>1. CASE v = w
    <3>1. Len(T) * Page <= off + Page
      <4>1. Len(pg[w]) * Page <= off /\ Len(pg[w]) \in Nat
        BY <1>1, <1>2 DEF Tree
      <4>2. (Len(pg[w]) + 1) * Page = Len(pg[w]) * Page + Page /\ Len(pg[w]) * Page \in Nat
        BY <1>2, <4>1
      <4> QED
        BY <1>2, <1>10, <4>1, <4>2
    <3> QED
      BY <1>3, <1>5, <1>9, <1>10, <1>11, <2>1, <3>1 DEF Tree
  <2>2. CASE v # w
    <3>1. Ordered(pg[v], wt1)
      <4> SUFFICES ASSUME NEW i \in 2 .. Len(pg[v]) PROVE wt1[pg[v][i \div 2]] <= wt1[pg[v][i]]
        BY DEF Ordered
      <4>1. pg[v] \in Seq(Pages)
        BY <1>1 DEF Typed
      <4>2. i \in DOMAIN pg[v] /\ i \div 2 \in DOMAIN pg[v]
        BY <4>1, Halves
      <4>3. pg[v][i] \in Entries(pg[v]) /\ pg[v][i \div 2] \in Entries(pg[v])
        BY <4>2 DEF Entries
      <4>4. wt[pg[v][i \div 2]] <= wt[pg[v][i]]
        BY <1>1 DEF Tree, Ordered
      <4> QED
        BY <1>3, <1>5, <4>3, <4>4
    <3>2. Len(pg[v]) * Page <= off + Page
      <4>1. Len(pg[v]) * Page <= off /\ Len(pg[v]) \in Nat /\ Len(pg[v]) * Page \in Nat
        BY <1>1, <1>2 DEF Tree, Typed
      <4> QED
        BY <1>2, <4>1
    <3> QED
      BY <1>1, <1>3, <1>5, <1>11, <2>2, <3>1, <3>2 DEF Tree
  <2> QED
    BY <2>1, <2>2
<1>15. Apart(wt1, off + Page)
  <2>1. ASSUME NEW p \in DOMAIN wt1 PROVE p + Page <= off + Page
    BY <1>2, <1>3
  <2>2. ASSUME NEW p \in DOMAIN wt1, NEW q \in DOMAIN wt1, p < q PROVE p + Page <= q
    <3>1. p # off
      BY <1>2, <1>3, <2>2
    <3>2. CASE q = off
      BY <1>2, <1>3, <3>1, <3>2
    <3>3. CASE q # off
      BY <1>1, <1>3, <2>2, <3>1, <3>3 DEF Apart
    <3> QED
      BY <3>2, <3>3
  <2> QED
    BY <2>1, <2>2 DEF Apart
<1>e. /\ Entries(pg1[w]) = Entries(pg[w]) \cup {off}
      /\ \A v \in Workers : v # w => Entries(pg1[v]) = Entries(pg[v])
  BY <1>10, <1>11, Zenon
<1>16. \A v, u \in Workers : v # u => Entries(pg1[v]) \cap Entries(pg1[u]) = {}
  <2>1. \A v, u \in Workers : v # u => Entries(pg[v]) \cap Entries(pg[u]) = {}
    BY <1>1
  <2> QED
    BY ONLY <1>5, <1>e, <2>1
<1>17. ASSUME NEW v \in Workers, NEW p \in Entries(pg1[v]), NEW a \in us1
       PROVE  ~(p + Level(wt1, dt1, fl1, v, p) <= a /\ a < p + Page)
  <2>1. Level(wt1, dt1, fl1, v, p) = IF v = w THEN wt1[p] ELSE Level(wt, dt, fl, v, p)
    <3>1. v # w => p \in DOMAIN wt
      BY <1>5, <1>11
    <3> QED
      BY <1>3, <1>11, <3>1 DEF Level
  <2>2. CASE p = off
    <3>1. v = w
      BY <1>5, <1>11, <2>2
    <3>2. CASE a \in us
      BY <1>2, <1>3, <2>1, <2>2, <3>1, <3>2
    <3>3. CASE a \in B
      BY <1>2, <1>3, <1>12, <2>1, <2>2, <3>1, <3>3
    <3> QED
      BY <3>2, <3>3 DEF B
  <2>3. CASE p # off
    <3>1. p \in Entries(pg[v]) /\ p \in DOMAIN wt
      <4>1. p \in Entries(pg1[v]) /\ v \in Workers /\ w \in Workers
        OBVIOUS
      <4> QED
        BY ONLY <1>5, <1>e, <2>3, <4>1
    <3>2. Level(wt1, dt1, fl1, v, p) = Level(wt, dt, fl, v, p)
      <4>1. CASE v = w
        <5>1. p = dt[w] => fl[w] = wt[p]
          BY <1>2, <3>1, PageFacts
        <5> QED
          BY <1>3, <2>1, <3>1, <4>1, <5>1 DEF Level
      <4> QED
        BY <2>1, <4>1
    <3>3. CASE a \in us
      BY <1>1, <3>1, <3>2, <3>3 DEF Fresh
    <3>4. CASE a \in B
      BY <1>2, <1>12, <3>1, <3>4
    <3> QED
      BY <3>3, <3>4 DEF B
  <2> QED
    BY <2>2, <2>3
<1>18. \A a \in us1 : a \notin DOMAIN wt1
  <2>1. \A a \in us : a \notin DOMAIN wt /\ a # off
    BY <1>1, <1>2 DEF Fresh
  <2>2. \A b \in B : b \notin DOMAIN wt /\ b # off
    BY <1>2, <1>12
  <2> QED
    BY <1>3, <2>1, <2>2 DEF B
<1>19. Fresh(pg1, wt1, dt1, fl1, us1)
  BY <1>17, <1>18 DEF Fresh
<1>20. Sound(pg1, wt1, dt1, fl1, us1, off + Page)
  BY <1>13, <1>14, <1>15, <1>16, <1>19, Zenon DEF Sound
<1>21. us \cap B = {}
  BY <1>2, <1>12
<1> QED
  BY <1>20, <1>21 DEF B, A, wt1, T, pg1, dt1, fl1, us1, Unused

-----------------------------------------------------------------------------
(* The invariant.                                                          *)

\* The heap of every worker is sound, and what was handed out of it is as large
\* as all the blocks together: no unit was handed out twice.
HeapInv ==
  /\ SoundNow
  /\ IsFiniteSet(used) /\ Cardinality(used) = handed
  /\ \E n \in MinPage .. MaxPage : dsize = n * Page
  /\ doffset <= dsize
  /\ first \in BOOLEAN /\ full \in BOOLEAN /\ fatal \in BOOLEAN

LEMMA Monotone ==
  /\ \A i, j, k \in Nat : i <= j => i * k <= j * k
  /\ \A i, k \in Nat : i * k \in Nat
<1>1. ASSUME NEW i \in Nat, NEW j \in Nat, NEW k \in Nat, i <= j PROVE i * k <= j * k
  <2>1. (j - i) * k \in Nat /\ j * k = i * k + (j - i) * k /\ i * k \in Nat
    BY <1>1
  <2> QED
    BY <2>1
<1> QED
  BY <1>1

LEMMA Divided ==
  ASSUME NEW n \in Nat
  PROVE  (n * Page) \div Page = n
BY PageFacts

LEMMA SizeFacts ==
  ASSUME HeapInv
  PROVE  dsize \in Nat /\ dsize <= MaxPage * Page /\ doffset \in Nat /\ doffset <= dsize
<1>1. PICK n \in MinPage .. MaxPage : dsize = n * Page
  BY DEF HeapInv
<1>2. n \in Nat /\ n <= MaxPage
  BY PageHeapAssumption
<1> QED
  BY <1>1, <1>2, Monotone, PageFacts DEF HeapInv, SoundNow, Sound, Typed

LEMMA Interval ==
  ASSUME NEW a \in Nat, NEW n \in Nat
  PROVE  IsFiniteSet(Block(a, n)) /\ Cardinality(Block(a, n)) = n
<1>1. a \in Int /\ a + n - 1 \in Int
  OBVIOUS
<1>2. IsFiniteSet(a .. a + n - 1) /\ Cardinality(a .. a + n - 1) = IF a > a + n - 1 THEN 0 ELSE (a + n - 1) - a + 1
  BY <1>1, FS_Interval
<1> QED
  BY <1>2 DEF Block

\* Units that nobody uses can be handed out.
LEMMA HandOut ==
  ASSUME IsFiniteSet(used), Cardinality(used) = handed, NEW a \in Nat, NEW n \in Nat,
         Unused(used, a, n), Hand(a, n)
  PROVE  IsFiniteSet(used') /\ Cardinality(used') = handed'
<1> DEFINE B == Block(a, n)
<1>1. IsFiniteSet(B) /\ Cardinality(B) = n
  BY Interval
<1>2. used' = used \cup B /\ handed' = handed + n /\ used \cap B = {}
  BY DEF Hand, Block, Unused
<1> HIDE DEF B
<1>3. IsFiniteSet(used \cup B) /\ Cardinality(used \cup B) = Cardinality(used) + Cardinality(B) - Cardinality(used \cap B)
  BY <1>1, FS_Union
<1>4. Cardinality(used \cap B) = 0 /\ handed \in Nat
  BY <1>2, FS_EmptySet, FS_CardinalityType
<1> QED
  BY <1>1, <1>2, <1>3, <1>4

\* A half-space without pages, the first off units of which are in use.
LEMMA Empty ==
  ASSUME NEW off \in Nat
  PROVE  Sound([w \in Workers |-> <<>>], <<>>, [w \in Workers |-> NoPage], [w \in Workers |-> Page],
               0 .. off - 1, off)
<1> DEFINE pg == [w \in Workers |-> <<>>]  dt == [w \in Workers |-> NoPage]
           fl == [w \in Workers |-> Page]  wt == <<>>  us == 0 .. off - 1
<1>0. DOMAIN wt = {} /\ Entries(<<>>) = {}
  BY DEF Entries
<1>1. Typed(pg, wt, dt, fl, us, off)
  <2>1. <<>> \in Seq(Pages) /\ Page \in 1 .. Page
    BY PageFacts
  <2>2. pg \in [Workers -> Seq(Pages)] /\ fl \in [Workers -> 1 .. Page] /\ dt \in [Workers -> Pages \cup {NoPage}]
    BY <2>1
  <2> HIDE DEF pg, fl, dt, wt
  <2> QED
    BY <1>0, <2>2 DEF Typed
<1>2. ASSUME NEW w \in Workers PROVE Tree(pg, wt, dt, fl, off, w)
  <2>1. pg[w] = <<>> /\ dt[w] = NoPage /\ fl[w] = Page
    OBVIOUS
  <2> HIDE DEF pg, fl, dt, wt
  <2>2. Entries(pg[w]) = {} /\ DOMAIN <<>> = {} /\ Len(<<>>) = 0 /\ 0 * Page = 0
    BY <1>0, <2>1, PageFacts
  <2> QED
    BY <2>1, <2>2 DEF Tree, Distinct, Ordered
<1>3. \A v, w \in Workers : v # w => Entries(pg[v]) \cap Entries(pg[w]) = {}
  BY <1>0
<1>4. Apart(wt, off)
  BY <1>0 DEF Apart
<1>5. Fresh(pg, wt, dt, fl, us)
  <2>1. \A w \in Workers : pg[w] = <<>>
    OBVIOUS
  <2> HIDE DEF pg, fl, dt, wt
  <2> QED
    BY <1>0, <2>1 DEF Fresh
<1> HIDE DEF pg, fl, dt, wt, us
<1>6. Sound(pg, wt, dt, fl, us, off)
  BY <1>1, <1>2, <1>3, <1>4, <1>5 DEF Sound
<1> QED
  BY <1>6 DEF pg, fl, dt, wt, us

LEMMA HeapInvInit == HeapInit => HeapInv
<1> SUFFICES ASSUME HeapInit PROVE HeapInv
  OBVIOUS
<1>1. /\ page = [w \in Workers |-> <<>>] /\ weight = <<>> /\ data = [w \in Workers |-> NoPage]
      /\ fill = [w \in Workers |-> Page] /\ used = 0 .. 0 - 1 /\ doffset = 0 /\ handed = 0 /\ used = {}
  BY DEF HeapInit
<1>2. SoundNow
  BY ONLY <1>1, Empty DEF SoundNow
<1>3. IsFiniteSet(used) /\ Cardinality(used) = handed
  BY ONLY <1>1, FS_EmptySet
<1>4. MinPage \in MinPage .. MaxPage /\ dsize = MinPage * Page /\ dsize \in Nat /\ doffset <= dsize
  <2>1. MinPage \in Nat /\ MinPage \in MinPage .. MaxPage
    BY PageHeapAssumption
  <2>2. dsize = MinPage * Page
    BY DEF HeapInit
  <2> QED
    BY <1>1, <2>1, <2>2, PageFacts, Monotone
<1>5. first \in BOOLEAN /\ full \in BOOLEAN /\ fatal \in BOOLEAN
  BY DEF HeapInit
<1> QED
  BY <1>2, <1>3, <1>4, <1>5 DEF HeapInv

LEMMA HereStep ==
  ASSUME HeapInv, NEW w \in Workers, NEW n \in Sizes, AllocHere(w, n)
  PROVE  HeapInv'
<1>0. n \in Nat \ {0}
  BY PageHeapAssumption
<1>1. /\ fill[w] + n <= Page /\ fill' = Now(fill, w, fill[w] + n)
      /\ used' = Took(used, data[w] + fill[w], n)
      /\ Hand(data[w] + fill[w], n)
      /\ UNCHANGED <<page, weight, data, doffset, full, dmemVars>>
  BY DEF AllocHere, Hand, Now, Took, Block
<1>2. Sound(page, weight, data, fill, used, doffset)
  BY DEF HeapInv, SoundNow
<1>3. /\ Sound(page, weight, data, fill', used', doffset)
      /\ data[w] + fill[w] \in Nat /\ Unused(used, data[w] + fill[w], n)
  BY <1>0, <1>1, <1>2, FilledSound
<1>4. IsFiniteSet(used') /\ Cardinality(used') = handed'
  BY <1>0, <1>1, <1>3, HandOut DEF HeapInv
<1> QED
  BY <1>1, <1>3, <1>4 DEF HeapInv, SoundNow, dmemVars

\* Put assigns to the one worker.
LEMMA Puts ==
  ASSUME NEW w, NEW h, Put(w, h)
  PROVE  /\ page' = Now(page, w, h.page) /\ weight' = h.weight
         /\ data' = Now(data, w, h.data) /\ fill' = Now(fill, w, h.fill)
BY DEF Put, Now

\* A second assignment to the same worker replaces the first.
LEMMA Nows ==
  ASSUME NEW f, NEW S, f \in [Workers -> S], NEW w \in Workers, NEW x
  PROVE  Now(f, w, x)[w] = x /\ \A y : Now(Now(f, w, x), w, y) = Now(f, w, y)
BY DEF Now

\* The state of a worker's heap after the current page was put back.
LEMMA Retires ==
  ASSUME HeapInv, NEW w \in Workers
  PROVE  LET h == Retired(w)  pg == Now(page, w, h.page)  dt == Now(data, w, h.data)  fl == Now(fill, w, h.fill) IN
         /\ Sound(pg, h.weight, dt, fl, used, doffset)
         /\ pg[w] = h.page /\ dt[w] = h.data /\ fl[w] = h.fill
         /\ h.data # NoPage => h.fill = h.weight[h.data]
         /\ \A x : /\ Now(pg, w, x) = Now(page, w, x) /\ Now(dt, w, x) = Now(data, w, x)
                   /\ Now(fl, w, x) = Now(fill, w, x)
<1>1. page \in [Workers -> Seq(Pages)] /\ data \in [Workers -> Pages \cup {NoPage}] /\ fill \in [Workers -> 1 .. Page]
  BY DEF HeapInv, SoundNow, Sound, Typed
<1>2. SoundNow
  BY DEF HeapInv
<1> DEFINE h == Retired(w)
           pg == Now(page, w, h.page)  dt == Now(data, w, h.data)  fl == Now(fill, w, h.fill)
<1>3. Sound(pg, h.weight, dt, fl, used, doffset) /\ (h.data # NoPage => h.fill = h.weight[h.data])
  BY <1>2, RetiredSound
<1> HIDE DEF h
<1>4. pg[w] = h.page /\ \A x : Now(pg, w, x) = Now(page, w, x)
  BY ONLY <1>1, Nows, w \in Workers
<1>5. dt[w] = h.data /\ \A x : Now(dt, w, x) = Now(data, w, x)
  BY ONLY <1>1, Nows, w \in Workers
<1>6. fl[w] = h.fill /\ \A x : Now(fl, w, x) = Now(fill, w, x)
  BY ONLY <1>1, Nows, w \in Workers
<1> QED
  BY <1>3, <1>4, <1>5, <1>6 DEF h

LEMMA ThereStep ==
  ASSUME HeapInv, NEW w \in Workers, NEW n \in Sizes, AllocThere(w, n)
  PROVE  HeapInv'
<1> DEFINE h == Retired(w)  k == [h EXCEPT !.fill = @ + n]
           pg == Now(page, w, h.page)  dt == Now(data, w, h.data)  fl == Now(fill, w, h.fill)
<1>0. n \in Nat \ {0}
  BY PageHeapAssumption
<1>1. /\ Sound(pg, h.weight, dt, fl, used, doffset)
      /\ dt[w] = h.data /\ fl[w] = h.fill
      /\ \A x : Now(fl, w, x) = Now(fill, w, x)
  BY Retires
<1>2. h.fill + n <= Page /\ Put(w, k) /\ Hand(h.data + h.fill, n) /\ UNCHANGED <<doffset, full, dmemVars>>
  BY DEF AllocThere
<1>3. k.page = h.page /\ k.weight = h.weight /\ k.data = h.data /\ k.fill = h.fill + n
  BY DEF Retired
<1>4. /\ page' = pg /\ weight' = h.weight /\ data' = dt /\ fill' = Now(fill, w, h.fill + n)
  <2> HIDE DEF k, h
  <2> QED
    BY <1>2, <1>3, Puts
<1> HIDE DEF h, k, pg, dt, fl
<1>5. fill' = Now(fl, w, fl[w] + n) /\ used' = Took(used, dt[w] + fl[w], n)
  BY <1>1, <1>2, <1>4 DEF Hand, Took, Block
<1>6. /\ Sound(pg, h.weight, dt, fill', used', doffset)
      /\ dt[w] + fl[w] \in Nat /\ Unused(used, dt[w] + fl[w], n)
  BY <1>0, <1>1, <1>2, <1>5, FilledSound
<1>7. IsFiniteSet(used') /\ Cardinality(used') = handed'
  BY <1>0, <1>1, <1>2, <1>6, HandOut DEF HeapInv
<1> QED
  BY <1>2, <1>4, <1>6, <1>7 DEF HeapInv, SoundNow, dmemVars

LEMMA FailsStep ==
  ASSUME HeapInv, NEW w \in Workers, NEW n \in Sizes, AllocFails(w, n)
  PROVE  HeapInv'
<1>1. Put(w, Retired(w)) /\ full' = TRUE /\ UNCHANGED <<doffset, used, handed, dmemVars>>
  BY DEF AllocFails
<1>2. Sound(page', weight', data', fill', used', doffset')
  BY <1>1, Retires, Puts
<1> QED
  BY <1>1, <1>2 DEF HeapInv, SoundNow, dmemVars

LEMMA LargeStep ==
  ASSUME HeapInv, NEW w \in Workers, NEW n \in Sizes, AllocLarge(w, n)
  PROVE  HeapInv'
<1>0. n \in Nat
  BY PageHeapAssumption
<1>1. /\ Put(w, Retired(w)) /\ Hand(doffset, n) /\ used' = Took(used, doffset, n)
      /\ doffset' = doffset + n /\ doffset + n <= dsize /\ UNCHANGED <<full, dmemVars>>
  BY <1>0, SizeFacts DEF AllocLarge, Hand, Took, Block
<1>2. Sound(page', weight', data', fill', used, doffset)
  BY <1>1, Retires, Puts
<1>3. /\ Sound(page', weight', data', fill', used', doffset + n)
      /\ doffset \in Nat /\ Unused(used, doffset, n)
  BY <1>0, <1>1, <1>2, LargeSound
<1>4. IsFiniteSet(used') /\ Cardinality(used') = handed'
  BY <1>0, <1>1, <1>3, HandOut DEF HeapInv
<1> QED
  BY <1>1, <1>3, <1>4 DEF HeapInv, SoundNow, dmemVars

LEMMA PageStep ==
  ASSUME HeapInv, NEW w \in Workers, NEW n \in Sizes, AllocPage(w, n)
  PROVE  HeapInv'
<1> DEFINE h == Retired(w)
           wt == Headed(h.weight, doffset, n + 1)
           T == RepUp(Append(h.page, doffset), wt)
           pg == Now(page, w, h.page)  dt == Now(data, w, h.data)  fl == Now(fill, w, h.fill)
<1>1. /\ Sound(pg, h.weight, dt, fl, used, doffset)
      /\ dt[w] = h.data /\ fl[w] = h.fill /\ pg[w] = h.page
      /\ dt[w] # NoPage => fl[w] = h.weight[dt[w]]
      /\ \A x : /\ Now(pg, w, x) = Now(page, w, x) /\ Now(dt, w, x) = Now(data, w, x)
                /\ Now(fl, w, x) = Now(fill, w, x)
  BY Retires
<1>2. /\ ~Large(n) /\ dsize >= doffset + Page
      /\ Put(w, [page |-> T, weight |-> wt, data |-> T[1], fill |-> wt[T[1]]])
      /\ Hand(doffset + 1, n) /\ doffset' = doffset + Page
      /\ UNCHANGED <<full, dmemVars>>
  BY DEF AllocPage, Headed
<1> HIDE DEF h, wt, T, pg, dt, fl
<1>3. page' = Now(pg, w, T) /\ weight' = wt /\ data' = Now(dt, w, T[1]) /\ fill' = Now(fl, w, wt[T[1]])
  <2>1. page' = Now(page, w, T) /\ weight' = wt /\ data' = Now(data, w, T[1]) /\ fill' = Now(fill, w, wt[T[1]])
    BY <1>2, Puts
  <2> QED
    BY <1>1, <2>1
<1>4. n \in Nat \ {0} /\ n + 1 <= Page /\ doffset \in Nat /\ doffset + Page <= dsize /\ doffset \in Pages
  <2>1. n \in Nat \ {0} /\ n + 1 <= Page
    BY <1>2, PageHeapAssumption DEF Large
  <2> QED
    BY <1>2, <2>1, SizeFacts, PageFacts DEF Pages
<1>5. used' = Took(used, doffset + 1, n)
  BY <1>2 DEF Hand, Took, Block
<1>6. wt = Headed(h.weight, doffset, n + 1) /\ T = RepUp(Append(pg[w], doffset), wt)
  BY <1>1 DEF wt, T
<1>7. Sound(page', weight', data', fill', used', doffset + Page) /\ Unused(used, doffset + 1, n)
  BY <1>1, <1>3, <1>4, <1>5, <1>6, PageSound
<1>8. IsFiniteSet(used') /\ Cardinality(used') = handed'
  <2>1. doffset + 1 \in Nat
    BY <1>4
  <2> QED
    BY <1>2, <1>4, <1>7, <2>1, HandOut DEF HeapInv
<1> QED
  BY <1>2, <1>4, <1>7, <1>8 DEF HeapInv, SoundNow, dmemVars

\* What is handed out was given out.
LEMMA HandedFits ==
  ASSUME HeapInv
  PROVE  handed \in Nat /\ handed <= doffset
<1>1. /\ doffset \in Nat /\ used \subseteq 0 .. doffset - 1
      /\ IsFiniteSet(used) /\ Cardinality(used) = handed
  BY DEF HeapInv, SoundNow, Sound, Typed
<1>2. 0 .. doffset - 1 = Block(0, doffset)
  BY <1>1 DEF Block
<1>3. IsFiniteSet(0 .. doffset - 1) /\ Cardinality(0 .. doffset - 1) = doffset
  BY <1>1, <1>2, Interval
<1> DEFINE B == 0 .. doffset - 1
<1> HIDE DEF B
<1>4. IsFiniteSet(B) /\ used \subseteq B => Cardinality(used) <= Cardinality(B)
  BY FS_Subset
<1>5. IsFiniteSet(B) /\ Cardinality(B) = doffset /\ used \subseteq B
  BY <1>1, <1>3 DEF B
<1> QED
  BY <1>1, <1>4, <1>5, FS_CardinalityType

\* A resized half-space is a number of pages, and what lives fits into it.
LEMMA ResizedFits ==
  ASSUME NEW live \in Nat, NEW n \in MinPage .. MaxPage, dsize = n * Page, live <= dsize,
         NEW s \in Resized(live)
  PROVE  live <= s /\ \E m \in MinPage .. MaxPage : s = m * Page
<1>1. /\ n \in Nat /\ n \div 2 \in Nat /\ MinPage \in Nat /\ MaxPage \in Nat /\ MinPage >= 1 /\ MinPage <= MaxPage
      /\ MinPage <= n /\ n <= MaxPage /\ Grow \in Nat /\ Grow >= 1 /\ Low \in Nat /\ Low >= 4
      /\ Page \in Nat /\ Page >= 2 /\ dsize \div Page = n
  BY PageHeapAssumption, Divided
<1>2. s = dsize \/ \/ s = Page * (IF n = MaxPage THEN n ELSE IF n * Grow < MaxPage THEN n * Grow ELSE MaxPage)
                   \/ /\ live * Low < dsize
                      /\ s = Page * (IF n = MinPage THEN n ELSE IF n \div 2 > MinPage THEN n \div 2 ELSE MinPage)
  BY <1>1 DEF Resized
<1>3. CASE s = dsize
  BY <1>3
<1>4. CASE s = Page * (IF n = MaxPage THEN n ELSE IF n * Grow < MaxPage THEN n * Grow ELSE MaxPage)
  <2> DEFINE m == IF n = MaxPage THEN n ELSE IF n * Grow < MaxPage THEN n * Grow ELSE MaxPage
  <2>1. n * Grow \in Nat /\ n <= n * Grow
    <3>1. 1 * n <= Grow * n /\ Grow * n \in Nat
      BY <1>1, Monotone
    <3> QED
      BY <1>1, <3>1
  <2>2. m \in MinPage .. MaxPage /\ m \in Nat /\ n <= m
    BY <1>1, <2>1
  <2>3. s = Page * m
    BY <1>4
  <2> HIDE DEF m
  <2>4. s = m * Page /\ n * Page <= m * Page /\ n * Page \in Nat /\ m * Page \in Nat
    BY <1>1, <2>2, <2>3, Monotone
  <2> QED
    BY <2>2, <2>4
<1>5. CASE /\ live * Low < dsize
           /\ s = Page * (IF n = MinPage THEN n ELSE IF n \div 2 > MinPage THEN n \div 2 ELSE MinPage)
  <2> DEFINE m == IF n = MinPage THEN n ELSE IF n \div 2 > MinPage THEN n \div 2 ELSE MinPage
  <2>1. m \in MinPage .. MaxPage /\ m \in Nat /\ n <= 4 * m
    BY <1>1
  <2>2. s = Page * m
    BY <1>5
  <2> HIDE DEF m
  <2>3. s = m * Page /\ n * Page <= (4 * m) * Page /\ n * Page \in Nat /\ m * Page \in Nat
    BY <1>1, <2>1, <2>2, Monotone
  <2>4. (4 * m) * Page = 4 * (m * Page)
    BY <1>1, <2>1
  <2>5. 4 * live <= Low * live /\ Low * live = live * Low /\ Low * live \in Nat
    BY <1>1, Monotone
  <2>6. live <= m * Page
    BY <1>5, <2>3, <2>4, <2>5
  <2> QED
    BY <2>1, <2>3, <2>6
<1> QED
  BY <1>2, <1>3, <1>4, <1>5

LEMMA CollectStep ==
  ASSUME HeapInv, NEW live \in Nat, Collect(live)
  PROVE  HeapInv'
<1>1. /\ page' = [w \in Workers |-> <<>>] /\ weight' = <<>> /\ data' = [w \in Workers |-> NoPage]
      /\ fill' = [w \in Workers |-> Page] /\ used' = 0 .. live - 1 /\ doffset' = live /\ handed' = live
  BY DEF Collect, EmptyHeaps
<1>2. SoundNow'
  BY ONLY <1>1, Empty, live \in Nat DEF SoundNow
<1>3. live <= dsize
  BY HandedFits, SizeFacts DEF Collect
<1>4. PICK n \in MinPage .. MaxPage : dsize = n * Page
  BY DEF HeapInv
<1>5. dsize' \in Resized(live)
  BY DEF Collect
<1>6. live <= dsize' /\ \E m \in MinPage .. MaxPage : dsize' = m * Page
  BY <1>3, <1>4, <1>5, ResizedFits
<1>7. IsFiniteSet(used') /\ Cardinality(used') = handed'
  <2>1. 0 .. live - 1 = Block(0, live)
    BY DEF Block
  <2> QED
    BY <1>1, <2>1, Interval
<1>8. first' \in BOOLEAN /\ full' \in BOOLEAN /\ fatal' \in BOOLEAN
  BY DEF HeapInv, Collect
<1> QED
  BY <1>1, <1>2, <1>6, <1>7, <1>8 DEF HeapInv

LEMMA HeapInvStep ==
  ASSUME HeapInv, [HeapNext]_heapVars
  PROVE  HeapInv'
<1>1. CASE UNCHANGED heapVars
  BY <1>1 DEF heapVars, dmemVars, HeapInv, SoundNow
<1>2. ASSUME NEW w \in Workers, NEW n \in Sizes,
             \/ AllocHere(w, n) \/ AllocThere(w, n)
             \/ AllocLarge(w, n) \/ AllocPage(w, n) \/ AllocFails(w, n)
      PROVE  HeapInv'
  BY <1>2, HereStep, ThereStep, LargeStep, PageStep, FailsStep
<1>3. ASSUME NEW live \in 0 .. MaxPage * Page, Collect(live)
      PROVE  HeapInv'
  BY <1>3, CollectStep, PageFacts
<1> QED
  BY <1>1, <1>2, <1>3 DEF HeapNext

\* The heaps stay sound through allocation, failed allocation and collection.
THEOREM HeapInvariant == HeapSpec => []HeapInv
<1>1. HeapInit => HeapInv
  BY HeapInvInit
<1>2. HeapInv /\ [HeapNext]_heapVars => HeapInv'
  BY HeapInvStep
<1> QED
  BY <1>1, <1>2, PTL DEF HeapSpec

\* The worker's heap keeps its form: its pages are pages, how full they are is
\* between the header and the end of a page, and the half-space is a whole
\* number of pages, of which no more than all are given out.
THEOREM HeapTypeCorrect == HeapSpec => []HeapTypeOK
<1>1. HeapInv => HeapTypeOK
  <2> SUFFICES ASSUME HeapInv PROVE HeapTypeOK
    OBVIOUS
  <2>1. /\ page \in [Workers -> Seq(Pages)]
        /\ DOMAIN weight \subseteq Pages /\ \A p \in DOMAIN weight : weight[p] \in 1 .. Page
        /\ data \in [Workers -> Pages \cup {NoPage}] /\ fill \in [Workers -> 1 .. Page]
        /\ doffset \in Nat /\ used \subseteq 0 .. doffset - 1
    BY DEF HeapInv, SoundNow, Sound, Typed
  <2>2. dsize \in Nat /\ doffset <= dsize /\ handed \in Nat
    BY SizeFacts, HandedFits
  <2>3. fill \in [Workers -> 0 .. Page]
    BY <2>1, PageFacts
  <2>4. doffset \in 0 .. dsize /\ used \subseteq 0 .. dsize - 1
    BY <2>1, <2>2
  <2>5. /\ \E n \in MinPage .. MaxPage : dsize = n * Page
        /\ first \in BOOLEAN /\ full \in BOOLEAN /\ fatal \in BOOLEAN
    BY DEF HeapInv
  <2> QED
    BY <2>1, <2>2, <2>3, <2>4, <2>5 DEF HeapTypeOK
<1> QED
  BY <1>1, HeapInvariant, PTL

\* Blocks that vm_heap_alloc hands out do not overlap, spare the headers of the
\* pages and are inside what was given out of the half-space, whatever the
\* workers do and however the collector resizes it.
THEOREM BlocksApart == HeapSpec => []BlocksDisjoint
<1>1. HeapInv => BlocksDisjoint
  BY Zenon DEF HeapInv, SoundNow, Sound, Typed, Fresh, BlocksDisjoint
<1> QED
  BY <1>1, HeapInvariant, PTL

LEMMA PagesFit ==
  ASSUME HeapInv, NEW w \in Workers
  PROVE  Len(page[w]) <= dsize \div Page
<1>1. PICK n \in MinPage .. MaxPage : dsize = n * Page
  BY DEF HeapInv
<1>2. n \in Nat /\ dsize \div Page = n
  BY <1>1, Divided, PageHeapAssumption
<1>3. Len(page[w]) \in Nat /\ Len(page[w]) * Page <= n * Page
  <2>1. page[w] \in Seq(Pages) /\ Len(page[w]) * Page <= doffset
    BY DEF HeapInv, SoundNow, Sound, Typed, Tree
  <2>2. Len(page[w]) \in Nat
    BY <2>1
  <2>3. doffset \in Nat /\ doffset <= n * Page /\ n * Page \in Nat /\ Len(page[w]) * Page \in Nat
    BY <1>1, <1>2, <2>2, SizeFacts, Monotone, PageFacts
  <2> QED
    BY <2>1, <2>2, <2>3
<1>4. ~(n + 1 <= Len(page[w]))
  <2> SUFFICES ASSUME n + 1 <= Len(page[w]) PROVE FALSE
    OBVIOUS
  <2>1. (n + 1) * Page <= Len(page[w]) * Page /\ (n + 1) * Page = n * Page + Page /\ n * Page \in Nat
    BY <1>2, <1>3, Monotone, PageFacts
  <2>2. Len(page[w]) * Page \in Nat
    BY <1>3, Monotone, PageFacts
  <2> QED
    BY <1>3, <2>1, <2>2, PageFacts
<1> QED
  BY <1>2, <1>3, <1>4

\* Only a new page makes a worker's array longer.
LEMMA SameLength ==
  ASSUME HeapInv, NEW u \in Workers, NEW k, Put(u, k), k.page = Retired(u).page, NEW w \in Workers
  PROVE  Len(page'[w]) = Len(page[w])
<1>1. page \in [Workers -> Seq(Pages)] /\ page' = [page EXCEPT ![u] = Retired(u).page]
  BY DEF HeapInv, SoundNow, Sound, Typed, Put
<1>2. Len(Retired(u).page) = Len(page[u])
  BY RetiredFacts DEF HeapInv, Shuffle
<1> QED
  BY <1>1, <1>2

LEMMA WasteStep ==
  ASSUME HeapInv, HeapNext, NEW w \in Workers, Len(page'[w]) > Len(page[w]), NEW i \in DOMAIN page[w]
  PROVE  Room(w, page[w][i]) < handed' - handed
<1>0. page \in [Workers -> Seq(Pages)]
  BY DEF HeapInv, SoundNow, Sound, Typed
<1>l. Len(page[w]) \in Nat
  BY <1>0
<1>1. ASSUME NEW u \in Workers, NEW n \in Sizes, AllocPage(u, n)
      PROVE  Room(w, page[w][i]) < handed' - handed
  <2> DEFINE h == Retired(u)
  <2>1. \E k : Put(u, k) /\ NoRoom(u, n) /\ handed' = handed + n
    BY <1>1 DEF AllocPage, Hand
  <2>2. u = w
    <3> SUFFICES ASSUME u # w PROVE FALSE
      OBVIOUS
    <3>1. page'[w] = page[w]
      BY <1>0, <2>1 DEF Put
    <3> QED
      BY <1>l, <3>1
  <2>3. h.fill + n > Page
    BY <2>1 DEF NoRoom
  <2>4. page[w][i] \in Entries(page[w])
    BY DEF Entries
  <2>5. h.fill <= Level(weight, data, fill, w, page[w][i])
    BY <2>2, <2>4, RetiredFacts DEF HeapInv
  <2>6. h.fill \in 1 .. Page
    <3>1. Sound(Now(page, u, h.page), h.weight, Now(data, u, h.data), Now(fill, u, h.fill), used, doffset)
          /\ Now(fill, u, h.fill)[u] = h.fill
      BY Retires
    <3> HIDE DEF h
    <3> QED
      BY <3>1 DEF Sound, Typed
  <2>7. Level(weight, data, fill, w, page[w][i]) \in 1 .. Page
    BY <2>4 DEF HeapInv, SoundNow, Sound, Typed, Tree, Level
  <2>8. Room(w, page[w][i]) = Page - Level(weight, data, fill, w, page[w][i])
    BY DEF Room, Level
  <2>9. n \in Nat /\ handed \in Nat /\ Page \in Nat
    BY HandedFits, PageHeapAssumption
  <2> HIDE DEF h
  <2> QED
    BY <2>1, <2>3, <2>5, <2>6, <2>7, <2>8, <2>9
<1>2. ASSUME NEW u \in Workers, NEW n \in Sizes, AllocHere(u, n)
      PROVE  FALSE
  BY <1>l, <1>2 DEF AllocHere
<1>3. ASSUME NEW u \in Workers, NEW n \in Sizes, AllocLarge(u, n) \/ AllocFails(u, n)
      PROVE  FALSE
  <2>1. Put(u, Retired(u))
    BY <1>3 DEF AllocLarge, AllocFails
  <2>2. Len(page'[w]) = Len(page[w])
    BY <2>1, SameLength
  <2> QED
    BY <1>l, <2>2
<1>4. ASSUME NEW u \in Workers, NEW n \in Sizes, AllocThere(u, n)
      PROVE  FALSE
  <2> DEFINE k == [Retired(u) EXCEPT !.fill = @ + n]
  <2>1. Put(u, k)
    BY <1>4 DEF AllocThere
  <2>2. k.page = Retired(u).page
    BY DEF Retired
  <2> HIDE DEF k
  <2>3. Len(page'[w]) = Len(page[w])
    BY <2>1, <2>2, SameLength
  <2> QED
    BY <1>l, <2>3
<1>5. ASSUME NEW live \in 0 .. MaxPage * Page, Collect(live)
      PROVE  FALSE
  <2>1. page'[w] = <<>>
    BY <1>5 DEF Collect, EmptyHeaps
  <2>2. Len(page'[w]) = 0
    BY <2>1
  <2> QED
    BY <1>l, <2>2
<1> QED
  BY <1>1, <1>2, <1>3, <1>4, <1>5 DEF HeapNext

\* A worker takes a page only for a block that none of its own pages can hold:
\* the tree keeps the emptiest page first, so the two pages that vm_heap_alloc
\* looks at are enough.  And the array of its pages never overflows.
THEOREM NothingWasted == HeapSpec => NoWaste
<1> DEFINE A == \A w \in Workers :
                  /\ Len(page'[w]) > Len(page[w]) =>
                       \A i \in DOMAIN page[w] : Room(w, page[w][i]) < handed' - handed
                  /\ Len(page'[w]) <= dsize' \div Page
<1>0. (HeapInv => \A w \in Workers : Len(page[w]) <= dsize \div Page)'
  <2>1. HeapInv => \A w \in Workers : Len(page[w]) <= dsize \div Page
    BY PagesFit
  <2> QED
    BY <2>1, PTL
<1>1. HeapInv /\ HeapInv' /\ [HeapNext]_heapVars => [A]_heapVars
  <2> SUFFICES ASSUME HeapInv, HeapInv', HeapNext PROVE A
    OBVIOUS
  <2>3. \A w \in Workers : Len(page'[w]) <= dsize' \div Page
    BY <1>0
  <2>4. \A w \in Workers : Len(page'[w]) > Len(page[w]) =>
          \A i \in DOMAIN page[w] : Room(w, page[w][i]) < handed' - handed
    BY WasteStep
  <2> QED
    BY <2>3, <2>4
<1> QED
  BY <1>1, HeapInvariant, PTL DEF HeapSpec, NoWaste

=============================================================================

-------------------------- MODULE ThreadListsProofs --------------------------
(* The linked lists of threads are queues, for any number of workers,        *)
(* threads and variables.                                                    *)
EXTENDS ThreadLists, FiniteSetTheorems, WellFoundedInduction, TLAPS

\* Induction on the numbers, for a set instead of a predicate.
LEMMA NumberInduction ==
  ASSUME NEW S, 0 \in S, \A n \in Nat : n \in S => n + 1 \in S
  PROVE  Nat \subseteq S
<1> SUFFICES ASSUME Nat \ S # {} PROVE FALSE
  OBVIOUS
<1> DEFINE T == Nat \ S
<1>1. PICK n \in T : \A k \in T : ~ (<<k, n>> \in OpToRel(<,Nat))
  BY WFMin, NatLessThanWellFounded
<1>2. \A k \in T : ~ (k < n)
  BY <1>1 DEF OpToRel
<1>3. n # 0 /\ n - 1 \in Nat /\ n - 1 \in S
  BY <1>2
<1> QED
  BY <1>3

-----------------------------------------------------------------------------
(* Linked lists.                                                           *)

Members(S) == {S[i] : i \in DOMAIN S}
Distinct(S) == \A i, j \in DOMAIN S : S[i] = S[j] => i = j
LastOf(S) == S[Len(S)]

\* By the links n, the list that begins with t has the threads S.
Chain(n, S, t) ==
  /\ S \in Seq(ListThreads) /\ Distinct(S)
  /\ t = IF S = <<>> THEN NoLink ELSE S[1]
  /\ \A i \in 1 .. Len(S) : n[S[i]] = IF i = Len(S) THEN NoLink ELSE S[i + 1]

\* A thread is once in a list.
LEMMA ShortChain ==
  ASSUME NEW S \in Seq(ListThreads), Distinct(S)
  PROVE  Cardinality(ListThreads) \in Nat /\ Len(S) \in Nat /\ Len(S) <= Cardinality(ListThreads)
<1> DEFINE I == 1 .. Len(S)
<1>1. IsFiniteSet(ListThreads) /\ Cardinality(ListThreads) \in Nat
  BY ListsAssumption, FS_CardinalityType
<1>2. Len(S) \in Nat /\ S \in [I -> ListThreads] /\ DOMAIN S = I
  OBVIOUS
<1>3. S \in Injection(I, ListThreads)
  <2>1. \A i, j \in I : S[i] = S[j] => i = j
    BY <1>2 DEF Distinct
  <2> QED
    BY <1>2, <2>1 DEF Injection, IsInjective
<1>4. Cardinality(I) = Len(S)
  BY <1>2, FS_Interval
<1> HIDE DEF I
<1>5. Cardinality(I) <= Cardinality(ListThreads)
  BY <1>1, <1>3, FS_Injection
<1> QED
  BY <1>1, <1>2, <1>4, <1>5

\* The walk to the end finds it.
LEMMA WalkEnds ==
  ASSUME NEW n, NEW S, NEW t, Chain(n, S, t), S # <<>>
  PROVE  EndOf(n, t) = LastOf(S)
<1> DEFINE N == Cardinality(ListThreads)
           Pass(j, f) == f = [k \in 0 .. j |-> IF k = 0 THEN t ELSE Further(n)[f[k - 1]]]
           R == {j \in Nat : \E f : Pass(j, f)}
           M == Len(S)
<1>0. N \in Nat /\ M \in Nat /\ M <= N /\ M >= 1
  BY ShortChain DEF Chain
<1>1. 0 \in R
  <2> DEFINE f == [k \in 0 .. 0 |-> t]
  <2>1. Pass(0, f)
    OBVIOUS
  <2> QED
    BY <2>1
<1>2. ASSUME NEW j \in Nat, j \in R PROVE j + 1 \in R
  <2>1. PICK f : Pass(j, f)
    BY <1>2
  <2> DEFINE g == [k \in 0 .. j + 1 |-> IF k = j + 1 THEN Further(n)[f[j]] ELSE f[k]]
  <2>2. Pass(j + 1, g)
    BY <2>1
  <2>3. \E h : Pass(j + 1, h)
    BY <2>2
  <2> QED
    BY <2>3
<1>3. N \in R
  BY <1>0, <1>1, <1>2, NumberInduction
<1>4. PICK f : Pass(N, f) /\ EndOf(n, t) = f[N]
  BY <1>3 DEF EndOf
<1>5. f[0] = t /\ \A k \in Nat : k + 1 <= N => f[k + 1] = Further(n)[f[k]]
  BY <1>0, <1>4
<1> HIDE DEF Pass, R, N, M
<1> DEFINE I(k) == f[k] = S[IF k + 1 <= M THEN k + 1 ELSE M]
           U == {k \in Nat : k <= N => I(k)}
<1>s. \A i \in 1 .. M : S[i] # NoLink /\ S[i] \in ListThreads /\ n[S[i]] = IF i = M THEN NoLink ELSE S[i + 1]
  BY ListsAssumption DEF Chain, M
<1>6. 0 \in U
  BY <1>0, <1>5 DEF Chain
<1>7. ASSUME NEW k \in Nat, k \in U PROVE k + 1 \in U
  <2> SUFFICES ASSUME k + 1 <= N PROVE I(k + 1)
    OBVIOUS
  <2>1. I(k) /\ f[k + 1] = Further(n)[f[k]]
    BY <1>0, <1>5, <1>7
  <2>2. CASE k + 1 < M
    <3>1. k + 1 \in 1 .. M /\ k + 2 \in 1 .. M /\ k + 1 # M
      BY <1>0, <2>2
    <3>2. f[k] = S[k + 1] /\ n[S[k + 1]] = S[k + 2] /\ S[k + 2] # NoLink /\ S[k + 1] \in ListThreads
      BY <1>0, <1>s, <2>1, <2>2, <3>1
    <3> QED
      BY <1>0, <2>1, <2>2, <3>2 DEF Further
  <2>3. CASE ~(k + 1 < M)
    <3>1. f[k] = S[M] /\ M \in 1 .. M
      BY <1>0, <2>1, <2>3
    <3>2. n[S[M]] = NoLink /\ S[M] \in ListThreads
      BY <1>s, <3>1
    <3> QED
      BY <1>0, <2>1, <2>3, <3>1, <3>2 DEF Further
  <2> QED
    BY <2>2, <2>3
<1> HIDE DEF U
<1>8. Nat \subseteq U
  BY <1>6, <1>7, NumberInduction
<1>9. I(N)
  BY <1>0, <1>8 DEF U
<1> QED
  BY <1>0, <1>4, <1>9 DEF LastOf, M

\* ListFrom collects the list.
LEMMA ListIs ==
  ASSUME NEW n, NEW S, NEW t, Chain(n, S, t)
  PROVE  ListFrom(n, t) = S
<1> DEFINE N == Cardinality(ListThreads)
           start == IF t = NoLink THEN <<>> ELSE <<t>>
           Pass(j, f) == f = [k \in 0 .. j |-> IF k = 0 THEN start ELSE Longer(n)[f[k - 1]]]
           R == {j \in Nat : \E f : Pass(j, f)}
           M == Len(S)
<1>0. N \in Nat /\ M \in Nat /\ M <= N /\ S \in Seq(ListThreads)
  BY ShortChain DEF Chain
<1>1. 0 \in R
  <2> DEFINE f == [k \in 0 .. 0 |-> start]
  <2>1. Pass(0, f)
    OBVIOUS
  <2> QED
    BY <2>1
<1>2. ASSUME NEW j \in Nat, j \in R PROVE j + 1 \in R
  <2>1. PICK f : Pass(j, f)
    BY <1>2
  <2> DEFINE g == [k \in 0 .. j + 1 |-> IF k = j + 1 THEN Longer(n)[f[j]] ELSE f[k]]
  <2>2. Pass(j + 1, g)
    BY <2>1
  <2>3. \E h : Pass(j + 1, h)
    BY <2>2
  <2> QED
    BY <2>3
<1>3. N \in R
  BY <1>0, <1>1, <1>2, NumberInduction
<1>4. PICK f : Pass(N, f) /\ ListFrom(n, t) = f[N]
  BY <1>3 DEF ListFrom
<1> HIDE DEF start
<1>5. f[0] = start /\ \A k \in Nat : k + 1 <= N => f[k + 1] = Longer(n)[f[k]]
  BY <1>0, <1>4
<1> HIDE DEF Pass, R, N, M
<1> DEFINE Z(k) == IF k + 1 <= M THEN k + 1 ELSE M
           I(k) == /\ f[k] \in Seq(ListThreads) /\ Len(f[k]) = Z(k)
                   /\ \A i \in 1 .. Z(k) : f[k][i] = S[i]
           U == {k \in Nat : k <= N => I(k)}
<1>s. \A i \in 1 .. M : S[i] # NoLink /\ S[i] \in ListThreads /\ n[S[i]] = IF i = M THEN NoLink ELSE S[i + 1]
  BY ListsAssumption DEF Chain, M
<1>6. 0 \in U
  <2> SUFFICES I(0)
    OBVIOUS
  <2>1. CASE S = <<>>
    <3>1. t = NoLink /\ M = 0
      BY <2>1 DEF Chain, M
    <3>2. f[0] = <<>> /\ Z(0) = 0
      BY <1>5, <3>1 DEF start
    <3>3. f[0] \in Seq(ListThreads) /\ Len(f[0]) = 0
      BY <3>2
    <3> QED
      BY ONLY <3>2, <3>3
  <2>2. CASE S # <<>>
    <3>1. M >= 1 /\ 1 \in 1 .. M /\ t = S[1]
      BY <1>0, <2>2 DEF Chain, M
    <3>2. t # NoLink /\ t \in ListThreads
      BY <1>s, <3>1
    <3>3. f[0] = <<t>> /\ Z(0) = 1
      BY <1>0, <1>5, <3>1, <3>2 DEF start
    <3>4. f[0] \in Seq(ListThreads) /\ Len(f[0]) = 1 /\ f[0][1] = S[1]
      BY <3>1, <3>2, <3>3
    <3> QED
      BY ONLY <3>3, <3>4
  <2> QED
    BY <2>1, <2>2
<1>7. ASSUME NEW k \in Nat, k \in U PROVE k + 1 \in U
  <2> SUFFICES ASSUME k + 1 <= N PROVE I(k + 1)
    OBVIOUS
  <2> DEFINE s == f[k]
  <2>1. /\ s \in Seq(ListThreads) /\ Len(s) = Z(k) /\ f[k + 1] = Longer(n)[s]
        /\ \A i \in 1 .. Z(k) : s[i] = S[i]
    BY <1>0, <1>5, <1>7
  <2> HIDE DEF s
  <2>2. CASE k + 1 < M
    <3>1. k + 1 \in 1 .. M /\ k + 2 \in 1 .. M /\ k + 1 # M /\ Z(k) = k + 1 /\ Z(k + 1) = k + 2
      BY <1>0, <2>2
    <3>2. s # <<>> /\ s[Len(s)] = S[k + 1] /\ n[S[k + 1]] = S[k + 2] /\ S[k + 2] # NoLink /\ S[k + 2] \in ListThreads
      BY <1>s, <2>1, <3>1
    <3>3. f[k + 1] = Append(s, S[k + 2])
      BY <2>1, <3>2 DEF Longer
    <3>4. Len(s) = k + 1 /\ \A i \in 1 .. k + 1 : s[i] = S[i]
      BY <2>1, <3>1
    <3>5. f[k + 1] \in Seq(ListThreads) /\ Len(f[k + 1]) = k + 2 /\ f[k + 1][k + 2] = S[k + 2]
          /\ \A i \in 1 .. k + 1 : f[k + 1][i] = s[i]
      BY <2>1, <3>2, <3>3, <3>4
    <3>6. \A i \in 1 .. k + 2 : f[k + 1][i] = S[i]
      BY <3>4, <3>5
    <3> QED
      BY <3>1, <3>5, <3>6
  <2>3. CASE ~(k + 1 < M)
    <3>1. Z(k) = M /\ Z(k + 1) = M
      BY <1>0, <2>3
    <3>2. s = <<>> \/ n[s[Len(s)]] = NoLink
      <4>1. CASE M = 0
        BY <2>1, <3>1, <4>1
      <4>2. CASE M # 0
        <5>1. M \in 1 .. M
          BY <1>0, <4>2
        <5> QED
          BY <1>s, <2>1, <3>1, <5>1
      <4> QED
        BY <4>1, <4>2
    <3>3. f[k + 1] = s
      BY <2>1, <3>2 DEF Longer
    <3> QED
      BY <2>1, <3>1, <3>3
  <2> QED
    BY <2>2, <2>3
<1> HIDE DEF U
<1>8. Nat \subseteq U
  BY <1>6, <1>7, NumberInduction
<1>9. I(N)
  BY <1>0, <1>8 DEF U
<1>10. f[N] \in Seq(ListThreads) /\ Len(f[N]) = Len(S) /\ \A i \in 1 .. Len(S) : f[N][i] = S[i]
  BY <1>0, <1>9 DEF M
<1>11. f[N] = S
  BY ONLY <1>0, <1>10
<1> QED
  BY <1>4, <1>11

Now(f, a, x) == [f EXCEPT ![a] = x]
Nexts == [ListThreads -> Links]
Firsts == [Undefs -> Links]

LEMMA SameMembers ==
  ASSUME NEW S \in Seq(ListThreads)
  PROVE  /\ Members(S) \subseteq ListThreads /\ DOMAIN S = 1 .. Len(S) /\ Len(S) \in Nat
         /\ \A i \in 1 .. Len(S) : S[i] \in Members(S)
         /\ \A t \in Members(S) : \E i \in 1 .. Len(S) : t = S[i]
         /\ S # <<>> => 1 \in 1 .. Len(S) /\ Len(S) \in 1 .. Len(S)
         /\ S = <<>> <=> Len(S) = 0
BY DEF Members

\* Links of other threads do not matter.
LEMMA KeepChain ==
  ASSUME NEW n, NEW S, NEW t, Chain(n, S, t), NEW m, \A u \in Members(S) : m[u] = n[u]
  PROVE  Chain(m, S, t)
<1>1. \A i \in 1 .. Len(S) : S[i] \in Members(S)
  BY SameMembers DEF Chain
<1> QED
  BY <1>1 DEF Chain

LEMMA OneChain ==
  ASSUME NEW n, NEW t \in ListThreads, n[t] = NoLink
  PROVE  Chain(n, <<t>>, t) /\ Members(<<t>>) = {t} /\ <<t>> # <<>> /\ LastOf(<<t>>) = t
<1> DEFINE S == <<t>>
<1>1. S \in Seq(ListThreads) /\ Len(S) = 1 /\ DOMAIN S = 1 .. 1 /\ S[1] = t /\ S # <<>>
  OBVIOUS
<1>2. \A i \in 1 .. 1 : i = 1
  OBVIOUS
<1> HIDE DEF S
<1>3. Members(S) = {t}
  BY <1>1, <1>2 DEF Members
<1>4. Chain(n, S, t)
  BY <1>1, <1>2 DEF Chain, Distinct
<1> QED
  BY <1>1, <1>3, <1>4 DEF S, LastOf

LEMMA EmptyChain ==
  ASSUME NEW n
  PROVE  Chain(n, <<>>, NoLink) /\ Members(<<>>) = {}
BY DEF Chain, Distinct, Members

\* One list behind another.
LEMMA JoinChains ==
  ASSUME NEW n \in Nexts, NEW S, NEW t, Chain(n, S, t), S # <<>>, NEW R, NEW r, Chain(n, R, r), R # <<>>,
         Members(S) \cap Members(R) = {}
  PROVE  /\ Chain(Now(n, LastOf(S), r), S \o R, t) /\ Members(S \o R) = Members(S) \cup Members(R)
         /\ S \o R # <<>> /\ LastOf(S \o R) = LastOf(R) /\ LastOf(S) \in Members(S)
<1> DEFINE m == Now(n, LastOf(S), r)  C == S \o R  A == Len(S)  B == Len(R)
<1>1. /\ S \in Seq(ListThreads) /\ Distinct(S) /\ t = S[1] /\ R \in Seq(ListThreads) /\ Distinct(R) /\ r = R[1]
      /\ A \in Nat /\ A >= 1 /\ B \in Nat /\ B >= 1 /\ DOMAIN S = 1 .. A /\ DOMAIN R = 1 .. B
  BY SameMembers DEF Chain
<1>2. /\ \A i \in 1 .. A : S[i] \in ListThreads /\ n[S[i]] = IF i = A THEN NoLink ELSE S[i + 1]
      /\ \A i \in 1 .. B : R[i] \in ListThreads /\ n[R[i]] = IF i = B THEN NoLink ELSE R[i + 1]
  <2>1. \A i \in 1 .. A : S[i] \in ListThreads
    BY <1>1
  <2>2. \A i \in 1 .. B : R[i] \in ListThreads
    BY <1>1
  <2> HIDE DEF A, B
  <2>3. \A i \in 1 .. Len(S) : n[S[i]] = IF i = Len(S) THEN NoLink ELSE S[i + 1]
    BY Zenon DEF Chain
  <2>4. \A i \in 1 .. Len(R) : n[R[i]] = IF i = Len(R) THEN NoLink ELSE R[i + 1]
    BY Zenon DEF Chain
  <2> QED
    BY <2>1, <2>2, <2>3, <2>4 DEF A, B
<1>3. /\ C \in Seq(ListThreads) /\ Len(C) = A + B /\ DOMAIN C = 1 .. A + B
      /\ \A i \in 1 .. A : C[i] = S[i]
      /\ \A i \in 1 .. B : C[A + i] = R[i]
  BY <1>1
<1>4. LastOf(S) = S[A] /\ LastOf(C) = C[A + B] /\ LastOf(R) = R[B]
  BY <1>3 DEF LastOf
<1> HIDE DEF C, A, B
<1>5. \A i \in 1 .. A, j \in 1 .. B : S[i] # R[j]
  BY <1>1 DEF Members
<1>6. \A i \in 1 .. A + B : (i \in 1 .. A /\ C[i] = S[i]) \/ (i - A \in 1 .. B /\ C[i] = R[i - A])
  <2> SUFFICES ASSUME NEW i \in 1 .. A + B, i \notin 1 .. A PROVE i - A \in 1 .. B /\ C[i] = R[i - A]
    BY <1>3
  <2>1. i - A \in 1 .. B /\ A + (i - A) = i
    BY <1>1
  <2> QED
    BY <1>3, <2>1
<1>7. m[S[A]] = r /\ \A u \in ListThreads : u # S[A] => m[u] = n[u]
  BY <1>1, <1>2, <1>4 DEF Now, Nexts
<1> HIDE DEF m
<1>8. Distinct(C)
  <2> SUFFICES ASSUME NEW i \in 1 .. A + B, NEW j \in 1 .. A + B, C[i] = C[j] PROVE i = j
    BY <1>3 DEF Distinct
  <2>1. CASE i \in 1 .. A /\ j \in 1 .. A
    BY <1>1, <1>3, <2>1 DEF Distinct
  <2>2. CASE ~(i \in 1 .. A) /\ ~(j \in 1 .. A)
    <3>1. i - A \in 1 .. B /\ j - A \in 1 .. B /\ R[i - A] = R[j - A]
      BY <1>6, <2>2
    <3>2. i - A = j - A
      BY <1>1, <3>1 DEF Distinct
    <3> QED
      BY <1>1, <3>2
  <2>3. CASE i \in 1 .. A /\ ~(j \in 1 .. A)
    BY <1>3, <1>5, <1>6, <2>3
  <2>4. CASE ~(i \in 1 .. A) /\ j \in 1 .. A
    BY <1>3, <1>5, <1>6, <2>4
  <2> QED
    BY <2>1, <2>2, <2>3, <2>4
<1>9. ASSUME NEW i \in 1 .. A + B PROVE m[C[i]] = IF i = A + B THEN NoLink ELSE C[i + 1]
  <2>1. CASE i \in 1 .. A /\ i # A
    <3>1. i + 1 \in 1 .. A /\ i # A + B /\ A \in 1 .. A
      BY <1>1, <2>1
    <3>2. S[i] # S[A] /\ C[i] = S[i] /\ C[i + 1] = S[i + 1]
      BY <1>1, <1>3, <2>1, <3>1 DEF Distinct
    <3>3. n[S[i]] = S[i + 1] /\ S[i] \in ListThreads
      BY <1>2, <2>1
    <3> QED
      BY <1>7, <3>1, <3>2, <3>3
  <2>2. CASE i = A
    <3>1. A \in 1 .. A /\ 1 \in 1 .. B /\ i # A + B
      BY <1>1, <2>2
    <3>2. C[i] = S[A] /\ C[A + 1] = R[1]
      BY <1>3, <2>2, <3>1
    <3> QED
      BY <1>1, <1>7, <2>2, <3>1, <3>2
  <2>3. CASE ~(i \in 1 .. A)
    <3> DEFINE k == i - A
    <3>1. k \in 1 .. B /\ C[i] = R[k] /\ A \in 1 .. A /\ (i = A + B <=> k = B)
      BY <1>1, <1>6, <2>3
    <3>2. R[k] # S[A] /\ R[k] \in ListThreads
      BY <1>2, <1>5, <3>1
    <3>3. m[C[i]] = IF k = B THEN NoLink ELSE R[k + 1]
      BY <1>2, <1>7, <3>1, <3>2
    <3>4. k # B => C[i + 1] = R[k + 1]
      <4> SUFFICES ASSUME k # B PROVE C[i + 1] = R[k + 1]
        OBVIOUS
      <4>1. k + 1 \in 1 .. B /\ A + (k + 1) = i + 1
        BY <1>1, <3>1
      <4> QED
        BY <1>3, <4>1
    <3> QED
      BY <3>1, <3>3, <3>4
  <2> QED
    BY <1>1, <2>1, <2>2, <2>3
<1>10. C # <<>> /\ C[1] = t /\ C[A + B] = R[B] /\ S[A] \in Members(S)
  <2>1. 1 \in 1 .. A /\ B \in 1 .. B /\ A \in 1 .. A /\ A + B # 0
    BY <1>1
  <2>2. C # <<>>
    BY <1>3, <2>1
  <2> QED
    BY <1>1, <1>3, <2>1, <2>2, SameMembers DEF A
<1>11. Chain(m, C, t)
  BY <1>3, <1>8, <1>9, <1>10 DEF Chain
<1>12. Members(C) = Members(S) \cup Members(R)
  <2>1. \A i \in 1 .. B : A + i \in 1 .. A + B
    BY <1>1
  <2>2. \A i \in 1 .. A : i \in 1 .. A + B
    BY <1>1
  <2>3. Members(C) \subseteq Members(S) \cup Members(R)
    BY <1>1, <1>3, <1>6 DEF Members
  <2>4. Members(S) \subseteq Members(C)
    <3> SUFFICES ASSUME NEW i \in 1 .. A PROVE S[i] \in Members(C)
      BY <1>1 DEF Members
    <3> QED
      BY <1>3, <2>2 DEF Members
  <2>5. Members(R) \subseteq Members(C)
    <3> SUFFICES ASSUME NEW i \in 1 .. B PROVE R[i] \in Members(C)
      BY <1>1 DEF Members
    <3>1. R[i] = C[A + i] /\ A + i \in DOMAIN C
      BY <1>3, <2>1
    <3> QED
      BY <3>1 DEF Members
  <2> QED
    BY <2>3, <2>4, <2>5
<1> QED
  BY <1>4, <1>10, <1>11, <1>12 DEF m, C

\* A list without its first thread.
LEMMA TailChain ==
  ASSUME NEW n \in Nexts, NEW S, NEW t, Chain(n, S, t), S # <<>>
  PROVE  /\ Chain(Now(n, t, NoLink), Tail(S), n[t]) /\ t \in Members(S) /\ t = Head(S)
         /\ Members(Tail(S)) \subseteq Members(S) /\ t \notin Members(Tail(S))
         /\ Tail(S) # <<>> => LastOf(Tail(S)) = LastOf(S)
<1> DEFINE m == Now(n, t, NoLink)  C == Tail(S)  A == Len(S)
<1>1. /\ S \in Seq(ListThreads) /\ Distinct(S) /\ t = S[1] /\ A \in Nat /\ A >= 1 /\ DOMAIN S = 1 .. A
      /\ \A i \in 1 .. A : S[i] \in ListThreads /\ n[S[i]] = IF i = A THEN NoLink ELSE S[i + 1]
      /\ t \in ListThreads
  BY SameMembers DEF Chain
<1>2. /\ C \in Seq(ListThreads) /\ Len(C) = A - 1 /\ DOMAIN C = 1 .. A - 1 /\ Head(S) = S[1]
      /\ \A i \in 1 .. A - 1 : C[i] = S[i + 1]
  <2>1. S \in Seq(ListThreads) /\ S # <<>>
    BY <1>1
  <2> QED
    BY ONLY <2>1
<1>3. m[t] = NoLink /\ \A u \in ListThreads : u # t => m[u] = n[u]
  BY <1>1 DEF Now, Nexts
<1> HIDE DEF m, C, A
<1>4. \A i \in 1 .. A - 1 : i \in 1 .. A /\ i + 1 \in 1 .. A /\ S[i + 1] # t /\ (i = A - 1 <=> i + 1 = A)
  <2> SUFFICES ASSUME NEW i \in 1 .. A - 1 PROVE i \in 1 .. A /\ i + 1 \in 1 .. A /\ S[i + 1] # t /\ (i = A - 1 <=> i + 1 = A)
    OBVIOUS
  <2>1. i \in 1 .. A /\ i + 1 \in 1 .. A /\ 1 \in 1 .. A /\ i + 1 # 1 /\ (i = A - 1 <=> i + 1 = A)
    BY <1>1
  <2> QED
    BY <1>1, <2>1 DEF Distinct
<1>5. Distinct(C)
  <2> SUFFICES ASSUME NEW i \in 1 .. A - 1, NEW j \in 1 .. A - 1, C[i] = C[j] PROVE i = j
    BY <1>2 DEF Distinct
  <2>1. S[i + 1] = S[j + 1] /\ i + 1 \in DOMAIN S /\ j + 1 \in DOMAIN S
    BY <1>1, <1>2, <1>4
  <2>2. i + 1 = j + 1
    BY <1>1, <2>1, Zenon DEF Distinct
  <2> QED
    BY <1>1, <2>2
<1>6. ASSUME NEW i \in 1 .. A - 1 PROVE m[C[i]] = IF i = A - 1 THEN NoLink ELSE C[i + 1]
  <2>1. C[i] = S[i + 1] /\ m[S[i + 1]] = n[S[i + 1]]
    BY <1>1, <1>2, <1>3, <1>4
  <2>2. n[S[i + 1]] = IF i = A - 1 THEN NoLink ELSE S[i + 1 + 1]
    BY <1>1, <1>4
  <2>3. i # A - 1 => C[i + 1] = S[i + 1 + 1]
    <3> SUFFICES ASSUME i # A - 1 PROVE C[i + 1] = S[i + 1 + 1]
      OBVIOUS
    <3>1. i + 1 \in 1 .. A - 1
      BY <1>1
    <3> QED
      BY <1>2, <3>1
  <2> QED
    BY <2>1, <2>2, <2>3
<1>7. n[t] = IF C = <<>> THEN NoLink ELSE C[1]
  <2>1. CASE A = 1
    <3>1. C = <<>>
      BY <1>2, <2>1
    <3> QED
      BY <1>1, <2>1, <3>1
  <2>2. CASE A # 1
    <3>1. 1 \in 1 .. A - 1 /\ 1 \in 1 .. A /\ A - 1 # 0
      BY <1>1, <2>2
    <3>2. C # <<>> /\ C[1] = S[2] /\ n[S[1]] = S[2]
      BY <1>1, <1>2, <2>2, <3>1
    <3> QED
      BY <1>1, <3>2
  <2> QED
    BY <2>1, <2>2
<1>8. Chain(m, C, n[t])
  BY <1>2, <1>5, <1>6, <1>7 DEF Chain
<1>9. Members(C) \subseteq Members(S) /\ t \notin Members(C) /\ t \in Members(S)
  <2>1. 1 \in 1 .. A
    BY <1>1
  <2>2. ASSUME NEW i \in 1 .. A - 1 PROVE C[i] \in Members(S) /\ C[i] # t
    <3>1. C[i] = S[i + 1] /\ i + 1 \in DOMAIN S /\ S[i + 1] # t
      BY <1>1, <1>2, <1>4
    <3> QED
      BY <3>1 DEF Members
  <2>3. Members(C) \subseteq Members(S) /\ t \notin Members(C)
    BY <1>2, <2>2 DEF Members
  <2> QED
    BY <1>1, <2>1, <2>3 DEF Members
<1>10. C # <<>> => LastOf(C) = LastOf(S)
  <2> SUFFICES ASSUME C # <<>> PROVE LastOf(C) = LastOf(S)
    OBVIOUS
  <2>1. A - 1 \in 1 .. A - 1 /\ A - 1 + 1 = A
    BY <1>1, <1>2
  <2> QED
    BY <1>2, <2>1 DEF LastOf, A
<1> QED
  BY <1>1, <1>2, <1>8, <1>9, <1>10 DEF m, C

-----------------------------------------------------------------------------
(* The queue and the variables' lists together.  The queue goes by the name *)
(* of NoLink.                                                              *)

Places == Undefs \cup {NoLink}
Heads(hd, bh) == [p \in Places |-> IF p = NoLink THEN hd ELSE bh[p]]

\* By the links n the lists that begin with f have the threads L, in the places
\* V; the others count as empty.  No thread is in two.
Lists(n, f, V, L) ==
  /\ n \in Nexts /\ f \in [Places -> Links] /\ L \in [Places -> Seq(ListThreads)]
  /\ \A p \in V : Chain(n, L[p], f[p])
  /\ \A p \in Places \ V : L[p] = <<>>
  /\ \A p, q \in Places : p # q => Members(L[p]) \cap Members(L[q]) = {}

\* A thread that is in no list.
Loose(n, L, t) == n[t] = NoLink /\ \A p \in Places : t \notin Members(L[p])

NextIf(n, S, r) == IF S = <<>> THEN n ELSE Now(n, LastOf(S), r)
HeadIf(f, S, q, r) == IF S = <<>> THEN Now(f, q, r) ELSE f

LEMMA ChainType ==
  ASSUME NEW n, NEW S, NEW t, Chain(n, S, t)
  PROVE  /\ S \in Seq(ListThreads) /\ t \in Links /\ Members(S) \subseteq ListThreads
         /\ S = <<>> <=> t = NoLink
         /\ S # <<>> => t \in ListThreads /\ LastOf(S) \in ListThreads /\ LastOf(S) \in Members(S)
BY SameMembers, ListsAssumption DEF Chain, LastOf, Links

\* A list behind another, in a place that has one or none.
LEMMA AppendList ==
  ASSUME NEW n, NEW f, NEW V \in SUBSET Places, NEW L, Lists(n, f, V, L), NEW q \in V,
         NEW R, NEW r, Chain(n, R, r), R # <<>>,
         \A p \in Places : Members(L[p]) \cap Members(R) = {}
  PROVE  LET n1 == NextIf(n, L[q], r)
             L1 == Now(L, q, L[q] \o R)
         IN  /\ Lists(n1, HeadIf(f, L[q], q, r), V, L1)
             /\ Chain(n1, R, r)
             /\ L1[q] # <<>> /\ LastOf(L1[q]) = LastOf(R)
             /\ \A u \in ListThreads : u \notin Members(R) /\ Loose(n, L, u) => Loose(n1, L1, u)
<1> DEFINE n1 == NextIf(n, L[q], r)  f1 == HeadIf(f, L[q], q, r)  C == L[q] \o R  L1 == Now(L, q, C)  z == LastOf(L[q])
<1>1. /\ n \in Nexts /\ f \in [Places -> Links] /\ L \in [Places -> Seq(ListThreads)]
      /\ \A p \in V : Chain(n, L[p], f[p])
      /\ \A p \in Places \ V : L[p] = <<>>
      /\ \A p, u \in Places : p # u => Members(L[p]) \cap Members(L[u]) = {}
      /\ q \in Places /\ L[q] \in Seq(ListThreads) /\ Chain(n, L[q], f[q])
  BY DEF Lists
<1>2. R \in Seq(ListThreads) /\ r \in Links /\ r # NoLink /\ Members(R) \subseteq ListThreads
  BY ChainType
<1>3. /\ n1 \in Nexts /\ f1 \in [Places -> Links] /\ C \in Seq(ListThreads) /\ C # <<>> /\ LastOf(C) = LastOf(R)
      /\ Members(C) = Members(L[q]) \cup Members(R) /\ Chain(n1, C, f1[q])
      /\ \A p \in Places : p # q => f1[p] = f[p]
      /\ n1 = n \/ (z \in Members(L[q]) /\ n1 = Now(n, z, r) /\ z \in ListThreads)
  <2>1. CASE L[q] = <<>>
    <3>1. C = R /\ Members(L[q]) = {}
      BY <1>2, <2>1, EmptyChain
    <3>2. n1 = n /\ f1 = Now(f, q, r)
      BY <2>1 DEF NextIf, HeadIf
    <3>3. f1 \in [Places -> Links] /\ f1[q] = r /\ \A p \in Places : p # q => f1[p] = f[p]
      BY <1>1, <1>2, <3>2 DEF Now
    <3> HIDE DEF n1, f1, C
    <3> QED
      BY <1>1, <1>2, <3>1, <3>2, <3>3
  <2>2. CASE L[q] # <<>>
    <3>1. n1 = Now(n, z, r) /\ f1 = f
      BY <2>2 DEF NextIf, HeadIf
    <3>2. z \in ListThreads /\ z \in Members(L[q])
      BY <1>1, <2>2, ChainType
    <3>3. n1 \in Nexts
      BY <1>1, <1>2, <3>1, <3>2 DEF Nexts, Now
    <3>4. /\ Chain(n1, C, f1[q]) /\ Members(C) = Members(L[q]) \cup Members(R)
          /\ C # <<>> /\ LastOf(C) = LastOf(R)
      BY <1>1, <2>2, <3>1, JoinChains
    <3>5. C \in Seq(ListThreads)
      BY <3>4, ChainType
    <3> HIDE DEF n1, f1, C, z
    <3> QED
      BY <1>1, <3>1, <3>2, <3>3, <3>4, <3>5
  <2> QED
    BY <2>1, <2>2
<1> HIDE DEF n1, f1, C, z
<1>4. \A u \in ListThreads : u \notin Members(L[q]) => n1[u] = n[u]
  <2>1. ASSUME n1 = Now(n, z, r), z \in Members(L[q]), NEW u \in ListThreads, u \notin Members(L[q])
        PROVE  n1[u] = n[u]
    BY <1>1, <2>1 DEF Now, Nexts
  <2> QED
    BY <1>3, <2>1
<1>5. L1 \in [Places -> Seq(ListThreads)] /\ L1[q] = C /\ \A p \in Places : p # q => L1[p] = L[p]
  BY <1>1, <1>3 DEF Now
<1> HIDE DEF L1
<1>m. \A p \in Places : Members(L[p]) \subseteq ListThreads
  BY <1>1, SameMembers
<1>6. \A p \in Places : p # q => \A u \in Members(L[p]) : n1[u] = n[u]
  BY <1>1, <1>4, <1>m
<1>7. \A p \in V : Chain(n1, L1[p], f1[p])
  <2> SUFFICES ASSUME NEW p \in V, p # q PROVE Chain(n1, L[p], f[p])
    BY <1>3, <1>5
  <2>1. Chain(n, L[p], f[p])
    BY <1>1
  <2> QED
    BY <1>6, <2>1, KeepChain
<1>8. \A p, u \in Places : p # u => Members(L1[p]) \cap Members(L1[u]) = {}
  <2>1. \A p \in Places : Members(L[p]) \cap Members(R) = {}
    OBVIOUS
  <2>2. \A p \in Places : Members(L1[p]) = IF p = q THEN Members(L[q]) \cup Members(R) ELSE Members(L[p])
    BY <1>3, <1>5
  <2>3. \A p, u \in Places : p # u => Members(L[p]) \cap Members(L[u]) = {}
    BY <1>1
  <2> QED
    BY ONLY <1>1, <2>1, <2>2, <2>3
<1>9. \A p \in Places \ V : L1[p] = <<>>
  BY <1>1, <1>5
<1>10. Lists(n1, f1, V, L1)
  BY <1>3, <1>5, <1>7, <1>8, <1>9, Zenon DEF Lists
<1>11. Chain(n1, R, r)
  <2>1. \A u \in Members(R) : n1[u] = n[u]
    BY <1>1, <1>2, <1>4
  <2> QED
    BY <2>1, KeepChain
<1>12. ASSUME NEW u \in ListThreads, u \notin Members(R), Loose(n, L, u) PROVE Loose(n1, L1, u)
  BY <1>1, <1>3, <1>4, <1>5, <1>12 DEF Loose
<1> QED
  BY <1>3, <1>5, <1>10, <1>11, <1>12 DEF n1, f1, L1, C

Emptied(L, q) == Now(L, q, <<>>)

\* A place whose list is another's, or is about to be.
LEMMA DropList ==
  ASSUME NEW n, NEW f, NEW V \in SUBSET Places, NEW L, Lists(n, f, V, L), NEW q \in V
  PROVE  LET L1 == Emptied(L, q) IN
         /\ Lists(n, f, V \ {q}, L1) /\ Chain(n, L[q], f[q])
         /\ \A p \in Places : Members(L1[p]) \cap Members(L[q]) = {}
         /\ \A u \in ListThreads : Loose(n, L, u) => Loose(n, L1, u)
         /\ L1[q] = <<>> /\ \A p \in Places : p # q => L1[p] = L[p]
<1> DEFINE L1 == Emptied(L, q)
<1>1. L \in [Places -> Seq(ListThreads)] /\ q \in Places /\ <<>> \in Seq(ListThreads)
  BY DEF Lists
<1>2. L1 \in [Places -> Seq(ListThreads)] /\ L1[q] = <<>> /\ \A p \in Places : p # q => L1[p] = L[p]
  BY <1>1 DEF Emptied, Now
<1> HIDE DEF L1
<1>3. Members(L1[q]) = {}
  BY <1>2, EmptyChain
<1>4. Lists(n, f, V \ {q}, L1)
  BY <1>2, <1>3 DEF Lists
<1>5. \A p \in Places : Members(L1[p]) \cap Members(L[q]) = {}
  BY <1>1, <1>2, <1>3 DEF Lists
<1>6. \A u \in ListThreads : Loose(n, L, u) => Loose(n, L1, u)
  BY <1>2, <1>3 DEF Loose
<1>7. Chain(n, L[q], f[q])
  BY DEF Lists
<1> QED
  BY <1>2, <1>4, <1>5, <1>6, <1>7 DEF L1

\* The first thread of a list is taken out of it.
LEMMA TakeList ==
  ASSUME NEW n, NEW f, NEW V \in SUBSET Places, NEW L, Lists(n, f, V, L), NEW q \in V, L[q] # <<>>
  PROVE  LET t == f[q]
             n1 == Now(n, t, NoLink)
             L1 == Now(L, q, Tail(L[q]))
         IN  /\ Lists(n1, Now(f, q, n[t]), V, L1) /\ Loose(n1, L1, t)
             /\ t \in ListThreads /\ t = Head(L[q]) /\ t \in Members(L[q])
             /\ L1[q] = Tail(L[q]) /\ (L1[q] # <<>> => LastOf(L1[q]) = LastOf(L[q]))
             /\ \A p \in Places : p # q => L1[p] = L[p]
             /\ \A u \in ListThreads : Loose(n, L, u) => Loose(n1, L1, u)
<1> DEFINE t == f[q]  n1 == Now(n, t, NoLink)  C == Tail(L[q])  L1 == Now(L, q, C)  f1 == Now(f, q, n[t])
<1>1. /\ n \in Nexts /\ f \in [Places -> Links] /\ L \in [Places -> Seq(ListThreads)]
      /\ \A p \in V : Chain(n, L[p], f[p])
      /\ \A p \in Places \ V : L[p] = <<>>
      /\ \A p, u \in Places : p # u => Members(L[p]) \cap Members(L[u]) = {}
      /\ q \in Places /\ Chain(n, L[q], t)
  BY DEF Lists
<1>2. /\ Chain(n1, C, n[t]) /\ t \in Members(L[q]) /\ t = Head(L[q])
      /\ Members(C) \subseteq Members(L[q]) /\ t \notin Members(C)
      /\ C # <<>> => LastOf(C) = LastOf(L[q])
  BY <1>1, TailChain
<1>3. C \in Seq(ListThreads) /\ n[t] \in Links /\ t \in ListThreads /\ NoLink \in Links
  BY <1>1, <1>2, ChainType DEF Links
<1> HIDE DEF t, C
<1>4. n1 \in Nexts /\ n1[t] = NoLink /\ \A u \in ListThreads : u # t => n1[u] = n[u]
  BY <1>1, <1>3 DEF Now, Nexts
<1>5. L1 \in [Places -> Seq(ListThreads)] /\ L1[q] = C /\ \A p \in Places : p # q => L1[p] = L[p]
  BY <1>1, <1>3 DEF Now
<1>6. f1 \in [Places -> Links] /\ f1[q] = n[t] /\ \A p \in Places : p # q => f1[p] = f[p]
  BY <1>1, <1>3 DEF Now
<1> HIDE DEF n1, L1, f1
<1>7. \A p \in Places : Members(L[p]) \subseteq ListThreads /\ (p # q => t \notin Members(L[p]))
  BY <1>1, <1>2, SameMembers
<1>8. \A p \in V : Chain(n1, L1[p], f1[p])
  <2> SUFFICES ASSUME NEW p \in V, p # q PROVE Chain(n1, L[p], f[p])
    BY <1>2, <1>5, <1>6 DEF n1
  <2>1. Chain(n, L[p], f[p]) /\ \A u \in Members(L[p]) : n1[u] = n[u]
    BY <1>1, <1>4, <1>7
  <2> QED
    BY <2>1, KeepChain
<1>9. \A p, u \in Places : p # u => Members(L1[p]) \cap Members(L1[u]) = {}
  <2>1. \A p \in Places : Members(L1[p]) \subseteq Members(L[p])
    BY <1>2, <1>5
  <2>2. \A p, u \in Places : p # u => Members(L[p]) \cap Members(L[u]) = {}
    BY <1>1
  <2> QED
    BY ONLY <2>1, <2>2
<1>10. \A p \in Places \ V : L1[p] = <<>>
  BY <1>1, <1>5
<1>11. Lists(n1, f1, V, L1)
  BY <1>4, <1>5, <1>6, <1>8, <1>9, <1>10, Zenon DEF Lists
<1>12. Loose(n1, L1, t)
  BY <1>2, <1>4, <1>5, <1>7 DEF Loose
<1>13. ASSUME NEW u \in ListThreads, Loose(n, L, u) PROVE Loose(n1, L1, u)
  <2>1. u # t
    BY <1>1, <1>2, <1>13 DEF Loose
  <2> QED
    BY <1>2, <1>4, <1>5, <1>13, <2>1 DEF Loose
<1> QED
  BY <1>2, <1>3, <1>5, <1>11, <1>12, <1>13 DEF t, n1, C, L1, f1

LEMMA HeadsFacts ==
  ASSUME NEW hd, NEW bh \in [Undefs -> Links], NEW z
  PROVE  /\ Heads(hd, bh)[NoLink] = hd /\ Now(Heads(hd, bh), NoLink, z) = Heads(z, bh)
         /\ \A x \in Undefs : /\ Heads(hd, bh)[x] = bh[x] /\ x # NoLink /\ x \in Places
                              /\ Now(Heads(hd, bh), x, z) = Heads(hd, Now(bh, x, z))
         /\ NoLink \in Places
BY ListsAssumption DEF Heads, Now, Places

\* The list of a place is empty when its head is null.
LEMMA HeadNull ==
  ASSUME NEW n, NEW f, NEW V, NEW L, Lists(n, f, V, L), NEW q \in V
  PROVE  (L[q] = <<>> <=> f[q] = NoLink) /\ (L[q] # <<>> => LastOf(L[q]) \in Members(L[q])) /\ Chain(n, L[q], f[q])
BY ChainType DEF Lists

\* vm_thread_queue.
LEMMA EnqueueIs ==
  ASSUME NEW V \in SUBSET Places, NEW L, Lists(next, Heads(head, behind), V, L), NoLink \in V,
         behind \in [Undefs -> Links], L[NoLink] # <<>> => tail = LastOf(L[NoLink]),
         NEW R, NEW r, Chain(next, R, r), R # <<>>,
         \A p \in Places : Members(L[p]) \cap Members(R) = {}, Enqueue(r)
  PROVE  LET L1 == Now(L, NoLink, L[NoLink] \o R) IN
         /\ Lists(next', Heads(head', behind), V, L1)
         /\ L1[NoLink] # <<>> /\ tail' = LastOf(L1[NoLink])
         /\ \A u \in ListThreads : u \notin Members(R) /\ Loose(next, L, u) => Loose(next', L1, u)
<1> DEFINE f == Heads(head, behind)  L1 == Now(L, NoLink, L[NoLink] \o R)
           n1 == NextIf(next, L[NoLink], r)  f1 == HeadIf(f, L[NoLink], NoLink, r)
<1>1. f[NoLink] = head /\ Now(f, NoLink, r) = Heads(r, behind)
  BY HeadsFacts
<1>2. L[NoLink] = <<>> <=> head = NoLink
  BY <1>1, HeadNull
<1>3. /\ Lists(n1, f1, V, L1) /\ Chain(n1, R, r)
      /\ L1[NoLink] # <<>> /\ LastOf(L1[NoLink]) = LastOf(R)
      /\ \A u \in ListThreads : u \notin Members(R) /\ Loose(next, L, u) => Loose(n1, L1, u)
  BY AppendList
<1> HIDE DEF L1
<1>4. next' = n1 /\ f1 = Heads(head', behind)
  <2>1. /\ head' = IF head = NoLink THEN r ELSE head
        /\ next' = IF head = NoLink THEN next ELSE [next EXCEPT ![tail] = r]
    BY DEF Enqueue
  <2>2. CASE L[NoLink] = <<>>
    BY <1>1, <1>2, <2>1, <2>2 DEF NextIf, HeadIf
  <2>3. CASE L[NoLink] # <<>>
    BY <1>1, <1>2, <2>1, <2>3 DEF NextIf, HeadIf, Now
  <2> QED
    BY <2>2, <2>3
<1> HIDE DEF n1, f1, f
<1>5. tail' = LastOf(R)
  <2>1. tail' = EndOf(next', r)
    BY DEF Enqueue
  <2> QED
    BY <1>3, <1>4, <2>1, WalkEnds
<1> QED
  BY <1>3, <1>4, <1>5 DEF L1

\* vm_thread_wait.
LEMMA AttachIs ==
  ASSUME NEW V \in SUBSET Places, NEW L, Lists(next, Heads(head, behind), V, L), NEW x \in Undefs, x \in V,
         behind \in [Undefs -> Links],
         NEW R, NEW r, Chain(next, R, r), R # <<>>,
         \A p \in Places : Members(L[p]) \cap Members(R) = {}, Attach(r, x)
  PROVE  LET L1 == Now(L, x, L[x] \o R) IN
         /\ Lists(next', Heads(head, behind'), V, L1)
         /\ \A u \in ListThreads : u \notin Members(R) /\ Loose(next, L, u) => Loose(next', L1, u)
         /\ behind' \in [Undefs -> Links]
<1> DEFINE f == Heads(head, behind)  L1 == Now(L, x, L[x] \o R)
           n1 == NextIf(next, L[x], r)  f1 == HeadIf(f, L[x], x, r)
<1>1. f[x] = behind[x] /\ Now(f, x, r) = Heads(head, Now(behind, x, r)) /\ r \in Links
  <2>1. f[x] = behind[x] /\ Now(f, x, r) = Heads(head, Now(behind, x, r))
    <3>1. \A y \in Undefs : f[y] = behind[y] /\ Now(f, y, r) = Heads(head, Now(behind, y, r))
      BY HeadsFacts
    <3> QED
      BY <3>1
  <2>2. r \in Links
    BY ChainType
  <2> QED
    BY <2>1, <2>2
<1>2. (L[x] = <<>> <=> behind[x] = NoLink) /\ Chain(next, L[x], behind[x])
  BY <1>1, HeadNull
<1>3. /\ Lists(n1, f1, V, L1)
      /\ \A u \in ListThreads : u \notin Members(R) /\ Loose(next, L, u) => Loose(n1, L1, u)
  BY AppendList
<1> HIDE DEF L1
<1>4. next' = n1 /\ f1 = Heads(head, behind') /\ behind' \in [Undefs -> Links]
  <2>1. CASE L[x] = <<>>
    <3>1. behind' = [behind EXCEPT ![x] = r] /\ next' = next
      BY <1>2, <2>1 DEF Attach
    <3>2. behind' = Now(behind, x, r) /\ behind' \in [Undefs -> Links]
      BY <1>1, <3>1 DEF Now
    <3> QED
      BY <1>1, <2>1, <3>1, <3>2 DEF NextIf, HeadIf
  <2>2. CASE L[x] # <<>>
    <3>1. next' = [next EXCEPT ![EndOf(next, behind[x])] = r] /\ behind' = behind
      BY <1>2, <2>2 DEF Attach
    <3>2. EndOf(next, behind[x]) = LastOf(L[x])
      BY <1>2, <2>2, WalkEnds
    <3>3. next' = Now(next, LastOf(L[x]), r)
      BY <3>1, <3>2 DEF Now
    <3> QED
      BY <2>2, <3>1, <3>3 DEF NextIf, HeadIf
  <2> QED
    BY <2>1, <2>2
<1> HIDE DEF n1, f1, f
<1> QED
  BY <1>3, <1>4 DEF L1

-----------------------------------------------------------------------------
(* The invariant and what it says of the queues.                           *)

\* The queue and the variables whose lists count.
Lively == {NoLink} \cup {x \in undefs : Unlocked(x)}

\* The threads in the lists are L; those that run or do not exist are in none.
Linked(L) ==
  /\ Lists(next, Heads(head, behind), Lively, L)
  /\ L[NoLink] # <<>> => tail = LastOf(L[NoLink])
  /\ \A w \in ListWorkers : held[w] # NoLink => Loose(next, L, held[w])
  /\ \A t \in ListThreads \ begun : Loose(next, L, t)

\* No thread has two workers, no variable two that bind it.
Owners ==
  /\ undefs \subseteq Undefs /\ begun \subseteq ListThreads
  /\ \A w \in ListWorkers : held[w] \in begun \cup {NoLink} /\ binding[w] \in undefs \cup {NoLink}
  /\ \A v, w \in ListWorkers :
       v # w => (held[v] # NoLink => held[v] # held[w]) /\ (binding[v] # NoLink => binding[v] # binding[w])

ListInv == ListTypeOK /\ Owners /\ \E L : Linked(L)

Ready == ListFrom(next, head)
Waiting == [x \in Undefs |-> IF x \in undefs /\ Unlocked(x) THEN ListFrom(next, behind[x]) ELSE <<>>]
Running == {held[w] : w \in ListWorkers} \ {NoLink}

LEMMA AbstractOf ==
  ASSUME NEW n, NEW hd, NEW bh, bh \in Firsts, NEW V, NEW L, Lists(n, Heads(hd, bh), V, L), NoLink \in V
  PROVE  /\ ListFrom(n, hd) = L[NoLink]
         /\ \A x \in Undefs : (IF x \in V THEN ListFrom(n, bh[x]) ELSE <<>>) = L[x]
<1> DEFINE f == Heads(hd, bh)
<1>1. f[NoLink] = hd /\ \A x \in Undefs : f[x] = bh[x] /\ x \in Places
  BY HeadsFacts DEF Firsts
<1>2. \A p \in V : Chain(n, L[p], f[p])
  BY DEF Lists
<1>3. \A p \in Places \ V : L[p] = <<>>
  BY DEF Lists
<1> HIDE DEF f
<1>4. Chain(n, L[NoLink], hd)
  BY <1>1, <1>2
<1>5. ListFrom(n, hd) = L[NoLink]
  BY <1>4, ListIs
<1>6. ASSUME NEW x \in Undefs, x \in V PROVE ListFrom(n, bh[x]) = L[x]
  <2>1. Chain(n, L[x], bh[x])
    BY <1>1, <1>2, <1>6
  <2> QED
    BY <2>1, ListIs
<1> QED
  BY <1>1, <1>3, <1>5, <1>6

LEMMA LivelyType ==
  ASSUME Owners
  PROVE  Lively \in SUBSET Places /\ NoLink \in Lively /\ (\A x \in Undefs : x \in Lively <=> x \in undefs /\ Unlocked(x))
BY ListsAssumption DEF Owners, Lively, Places

\* The lists in memory are the queues.
LEMMA Viewed ==
  ASSUME NEW L
  PROVE  /\ ListTypeOK /\ Owners /\ Linked(L) => Ready = L[NoLink] /\ Waiting = [x \in Undefs |-> L[x]]
         /\ (ListTypeOK /\ Owners /\ Linked(L))' => Ready' = L[NoLink] /\ Waiting' = [x \in Undefs |-> L[x]]
<1>1. ASSUME ListTypeOK, Owners, Linked(L) PROVE Ready = L[NoLink] /\ Waiting = [x \in Undefs |-> L[x]]
  <2>1. behind \in Firsts /\ Lists(next, Heads(head, behind), Lively, L)
    BY <1>1 DEF ListTypeOK, Linked, Firsts
  <2>2. NoLink \in Lively /\ \A x \in Undefs : x \in Lively <=> x \in undefs /\ Unlocked(x)
    BY <1>1, LivelyType
  <2>3. /\ ListFrom(next, head) = L[NoLink]
        /\ \A x \in Undefs : (IF x \in Lively THEN ListFrom(next, behind[x]) ELSE <<>>) = L[x]
    BY <2>1, <2>2, AbstractOf
  <2> QED
    BY <2>2, <2>3 DEF Ready, Waiting
<1>2. ASSUME ListTypeOK', Owners', Linked(L)' PROVE Ready' = L[NoLink] /\ Waiting' = [x \in Undefs |-> L[x]]
  <2>1. behind' \in Firsts /\ Lists(next', Heads(head', behind'), Lively', L)
    BY <1>2 DEF ListTypeOK, Linked, Firsts
  <2>2. NoLink \in Lively' /\ \A x \in Undefs : x \in Lively' <=> x \in undefs' /\ Unlocked(x)'
    BY <1>2, ListsAssumption DEF Owners, Lively
  <2>3. /\ ListFrom(next', head') = L[NoLink]
        /\ \A x \in Undefs : (IF x \in Lively' THEN ListFrom(next', behind'[x]) ELSE <<>>) = L[x]
    BY <2>1, <2>2, AbstractOf
  <2> QED
    BY <2>2, <2>3 DEF Ready, Waiting
<1> QED
  BY <1>1, <1>2

LEMMA ListInvInit ==
  ASSUME ListInit
  PROVE  ListInv /\ Q!Init
<1> DEFINE L == [p \in Places |-> IF p = NoLink THEN <<FirstThread>> ELSE <<>>]  f == Heads(head, behind)
<1>1. ListTypeOK /\ Owners
  BY ListsAssumption DEF ListInit, ListTypeOK, Owners, Links
<1>2. /\ NoLink \in Places /\ L \in [Places -> Seq(ListThreads)] /\ L[NoLink] = <<FirstThread>>
      /\ \A p \in Places : p # NoLink => L[p] = <<>>
      /\ f[NoLink] = FirstThread /\ \A p \in Places : p # NoLink => f[p] = NoLink
      /\ f \in [Places -> Links]
  BY ListsAssumption DEF ListInit, Places, Heads, Links
<1> HIDE DEF L, f
<1>3. /\ Chain(next, <<FirstThread>>, FirstThread) /\ Members(<<FirstThread>>) = {FirstThread}
      /\ LastOf(<<FirstThread>>) = FirstThread /\ next \in Nexts
  BY OneChain, ListsAssumption DEF ListInit, Nexts, Links
<1>4. \A p \in Places : Chain(next, L[p], f[p]) /\ (p # NoLink => Members(L[p]) = {})
  BY <1>2, <1>3, EmptyChain
<1>5. \A p, q \in Places : p # q => Members(L[p]) \cap Members(L[q]) = {}
  BY <1>4
<1>6. Lively \in SUBSET Places /\ \A p \in Places : p \in Lively
  BY ListsAssumption DEF ListInit, Lively, Places, Unlocked
<1>7. Lists(next, f, Lively, L)
  BY <1>2, <1>3, <1>4, <1>5, <1>6 DEF Lists
<1>8. \A t \in ListThreads \ begun : Loose(next, L, t)
  BY <1>2, <1>3, <1>4 DEF ListInit, Loose
<1>9. Linked(L)
  BY <1>2, <1>3, <1>7, <1>8 DEF Linked, f, ListInit
<1>10. Ready = <<FirstThread>> /\ Waiting = [x \in Undefs |-> <<>>]
  <2>1. \A x \in Undefs : x # NoLink /\ x \in Places
    BY ListsAssumption DEF Places
  <2>2. Ready = L[NoLink] /\ Waiting = [x \in Undefs |-> L[x]]
    BY <1>1, <1>9, Viewed
  <2> QED
    BY <1>2, <2>1, <2>2
<1>11. Running = {} /\ begun = {FirstThread}
  BY DEF ListInit, Running
<1> QED
  BY <1>1, <1>9, <1>10, <1>11 DEF ListInv, Q!Init, Ready, Waiting, Running

-----------------------------------------------------------------------------
(* Every action.                                                           *)

LEMMA AppendIs ==
  ASSUME NEW S \in Seq(ListThreads), NEW t \in ListThreads
  PROVE  Append(S, t) = S \o <<t>>
OBVIOUS

\* A thread that its worker lets go of.
LEMMA GoneIs ==
  ASSUME NEW w \in ListWorkers, ListTypeOK, Owners, held[w] # NoLink, LetsGo(w)
  PROVE  /\ Running' = Running \ {held[w]} /\ held[w] \in Running
         /\ held' \in [ListWorkers -> Links] /\ held'[w] = NoLink
         /\ \A v \in ListWorkers : v # w => held'[v] = held[v] /\ held[v] # held[w]
<1>1. /\ held' \in [ListWorkers -> Links] /\ held'[w] = NoLink
      /\ \A v \in ListWorkers : v # w => held'[v] = held[v] /\ held[v] # held[w]
  BY DEF ListTypeOK, LetsGo, Owners, Links
<1>2. Running' = Running \ {held[w]}
  BY <1>1 DEF Running
<1> QED
  BY <1>1, <1>2 DEF Running

LEMMA GetThreadStep ==
  ASSUME ListInv, NEW w \in ListWorkers, GetThread(w)
  PROVE  ListInv' /\ Q!Take
<1>1. PICK L : Linked(L)
  BY DEF ListInv
<1> DEFINE f == Heads(head, behind)  n1 == Now(next, head, NoLink)  L1 == Now(L, NoLink, Tail(L[NoLink]))
<1>2. /\ Lists(next, f, Lively, L) /\ ListTypeOK /\ Owners /\ Lively \in SUBSET Places /\ NoLink \in Lively
      /\ f[NoLink] = head /\ Now(f, NoLink, next[head]) = Heads(next[head], behind)
      /\ NoLink \in Places
  BY <1>1, HeadsFacts, LivelyType DEF ListInv, Linked, ListTypeOK
<1>3. L[NoLink] # <<>>
  BY <1>2, HeadNull DEF GetThread
<1>4. /\ Lists(n1, Heads(next[head], behind), Lively, L1) /\ Loose(n1, L1, head)
      /\ head \in ListThreads /\ head = Head(L[NoLink]) /\ head \in Members(L[NoLink])
      /\ L1[NoLink] = Tail(L[NoLink]) /\ (L1[NoLink] # <<>> => LastOf(L1[NoLink]) = LastOf(L[NoLink]))
      /\ \A p \in Places : p # NoLink => L1[p] = L[p]
      /\ \A u \in ListThreads : Loose(next, L, u) => Loose(n1, L1, u)
  <2> HIDE DEF f
  <2>1. LET t == f[NoLink]
            m == Now(next, t, NoLink)
            M == Now(L, NoLink, Tail(L[NoLink]))
        IN  /\ Lists(m, Now(f, NoLink, next[t]), Lively, M) /\ Loose(m, M, t)
            /\ t \in ListThreads /\ t = Head(L[NoLink]) /\ t \in Members(L[NoLink])
            /\ M[NoLink] = Tail(L[NoLink]) /\ (M[NoLink] # <<>> => LastOf(M[NoLink]) = LastOf(L[NoLink]))
            /\ \A p \in Places : p # NoLink => M[p] = L[p]
            /\ \A u \in ListThreads : Loose(next, L, u) => Loose(m, M, u)
    BY ONLY <1>2, <1>3, TakeList
  <2> QED
    BY ONLY <1>2, <2>1
<1> HIDE DEF L1, f
<1>5. /\ next' = n1 /\ head' = next[head] /\ tail' = tail /\ behind' = behind /\ undefs' = undefs
      /\ binding' = binding /\ begun' = begun /\ held[w] = NoLink /\ Lively' = Lively
      /\ held' = [held EXCEPT ![w] = head]
  BY DEF GetThread, Now, Lively, Unlocked
<1> HIDE DEF n1
<1>6. /\ held' \in [ListWorkers -> Links] /\ held'[w] = head /\ \A v \in ListWorkers : v # w => held'[v] = held[v]
      /\ head # NoLink /\ next[head] \in Links
  BY <1>2, <1>4, <1>5, ListsAssumption DEF ListTypeOK, Links
<1>7. ~ Loose(next, L, head)
  BY <1>2, <1>4 DEF Loose
<1>8. head \in begun /\ \A v \in ListWorkers : held[v] # head
  BY <1>1, <1>4, <1>6, <1>7 DEF Linked
<1>9. ListTypeOK'
  BY <1>2, <1>4, <1>5, <1>6 DEF ListTypeOK, Lists, Nexts
<1>10. Owners'
  BY <1>2, <1>5, <1>6, <1>8 DEF Owners
<1>11. Linked(L1)'
  <2>1. \A v \in ListWorkers : held'[v] # NoLink => Loose(n1, L1, held'[v])
    BY <1>1, <1>2, <1>4, <1>6, ListsAssumption DEF Linked, Owners
  <2>2. \A t \in ListThreads \ begun : Loose(n1, L1, t)
    BY <1>1, <1>4 DEF Linked
  <2>3. L1[NoLink] # <<>> => tail = LastOf(L1[NoLink])
    BY <1>1, <1>3, <1>4 DEF Linked
  <2> QED
    BY <1>4, <1>5, <2>1, <2>2, <2>3 DEF Linked
<1>12. ListInv'
  BY <1>9, <1>10, <1>11 DEF ListInv
<1>13. /\ Ready = L[NoLink] /\ Waiting = [x \in Undefs |-> L[x]]
       /\ Ready' = L1[NoLink] /\ Waiting' = [x \in Undefs |-> L1[x]]
  BY <1>1, <1>2, <1>9, <1>10, <1>11, Viewed
<1>14. Running' = Running \cup {head}
  BY <1>5, <1>6 DEF Running
<1>15. Waiting' = Waiting
  BY <1>4, <1>13, ListsAssumption DEF Places
<1>16. Ready # <<>> /\ Running' = Running \cup {Head(Ready)} /\ Ready' = Tail(Ready) /\ Waiting' = Waiting /\ begun' = begun
  BY <1>3, <1>4, <1>5, <1>13, <1>14, <1>15
<1> QED
  BY <1>12, <1>16 DEF Q!Take, Ready, Waiting, Running

\* A thread that is in no list is put into the queue.
LEMMA EnqueueOne ==
  ASSUME NEW L, Linked(L), ListTypeOK, Owners, NEW t \in ListThreads, Loose(next, L, t), Enqueue(t)
  PROVE  LET L1 == Now(L, NoLink, Append(L[NoLink], t)) IN
         /\ Lists(next', Heads(head', behind), Lively, L1)
         /\ L1[NoLink] # <<>> /\ tail' = LastOf(L1[NoLink])
         /\ head' \in Links /\ tail' \in Links /\ next' \in Nexts
         /\ \A u \in ListThreads : u # t /\ Loose(next, L, u) => Loose(next', L1, u)
         /\ L1[NoLink] = Append(L[NoLink], t) /\ \A p \in Places : p # NoLink => L1[p] = L[p]
<1> DEFINE L1 == Now(L, NoLink, L[NoLink] \o <<t>>)
<1>1. /\ Lists(next, Heads(head, behind), Lively, L) /\ Lively \in SUBSET Places /\ NoLink \in Lively
      /\ behind \in [Undefs -> Links] /\ (L[NoLink] # <<>> => tail = LastOf(L[NoLink]))
      /\ NoLink \in Places /\ L \in [Places -> Seq(ListThreads)]
  BY LivelyType DEF Linked, ListTypeOK, Lists, Places
<1>2. Chain(next, <<t>>, t) /\ Members(<<t>>) = {t} /\ <<t>> # <<>> /\ LastOf(<<t>>) = t
  BY OneChain DEF Loose
<1>3. \A p \in Places : Members(L[p]) \cap Members(<<t>>) = {}
  BY <1>2 DEF Loose
<1>4. /\ Lists(next', Heads(head', behind), Lively, L1)
      /\ L1[NoLink] # <<>> /\ tail' = LastOf(L1[NoLink])
      /\ \A u \in ListThreads : u \notin Members(<<t>>) /\ Loose(next, L, u) => Loose(next', L1, u)
  BY <1>1, <1>2, <1>3, EnqueueIs
<1>5. L[NoLink] \o <<t>> = Append(L[NoLink], t)
  BY <1>1, AppendIs
<1>6. L1[NoLink] = Append(L[NoLink], t) /\ \A p \in Places : p # NoLink => L1[p] = L[p]
  BY <1>1, <1>5 DEF Now
<1>7. next' \in Nexts /\ L1[NoLink] \in Seq(ListThreads) /\ head' \in Links
  <2>1. Heads(head', behind)[NoLink] = head' /\ Heads(head', behind) \in [Places -> Links]
    BY <1>1, <1>4, HeadsFacts DEF Lists
  <2> QED
    BY <1>1, <1>4, <2>1 DEF Lists
<1>8. tail' \in Links
  <2>1. tail' = L1[NoLink][Len(L1[NoLink])]
    BY <1>4 DEF LastOf
  <2> HIDE DEF L1
  <2>2. Len(L1[NoLink]) \in 1 .. Len(L1[NoLink])
    BY <1>4, <1>7
  <2> QED
    BY <1>7, <2>1, <2>2 DEF Links
<1> HIDE DEF L1
<1>9. L1 = Now(L, NoLink, Append(L[NoLink], t))
  BY <1>5 DEF L1
<1> QED
  BY <1>2, <1>4, <1>6, <1>7, <1>8, <1>9

LEMMA QueueOwnStep ==
  ASSUME ListInv, NEW w \in ListWorkers, QueueOwn(w)
  PROVE  ListInv' /\ held[w] \in Running /\ Q!Put(held[w])
<1>0. PICK t : t = held[w]
  OBVIOUS
<1>1. PICK L : Linked(L)
  BY DEF ListInv
<1> DEFINE L1 == Now(L, NoLink, Append(L[NoLink], t))
<1>2. /\ ListTypeOK /\ Owners /\ Enqueue(t) /\ LetsGo(w) /\ t # NoLink /\ t \in begun /\ t \in ListThreads
      /\ Loose(next, L, t)
      /\ behind' = behind /\ undefs' = undefs /\ binding' = binding /\ begun' = begun /\ Lively' = Lively
  BY <1>0, <1>1 DEF ListInv, QueueOwn, Runs, Owners, Linked, Lively, Unlocked
<1>3. /\ Running' = Running \ {t} /\ t \in Running
      /\ held' \in [ListWorkers -> Links] /\ held'[w] = NoLink
      /\ \A v \in ListWorkers : v # w => held'[v] = held[v] /\ held[v] # t
  BY <1>0, <1>2, GoneIs
<1>4. /\ Lists(next', Heads(head', behind), Lively, L1)
      /\ L1[NoLink] # <<>> /\ tail' = LastOf(L1[NoLink])
      /\ head' \in Links /\ tail' \in Links /\ next' \in Nexts
      /\ \A u \in ListThreads : u # t /\ Loose(next, L, u) => Loose(next', L1, u)
      /\ L1[NoLink] = Append(L[NoLink], t) /\ \A p \in Places : p # NoLink => L1[p] = L[p]
  BY <1>1, <1>2, EnqueueOne
<1> HIDE DEF L1
<1>5. ListTypeOK'
  BY <1>2, <1>3, <1>4 DEF ListTypeOK, Nexts
<1>6. Owners'
  BY <1>2, <1>3 DEF Owners
<1>7. Linked(L1)'
  <2>1. \A v \in ListWorkers : held'[v] # NoLink => Loose(next', L1, held'[v])
    BY <1>1, <1>2, <1>3, <1>4 DEF Linked, Owners
  <2>2. \A u \in ListThreads \ begun : Loose(next', L1, u)
    BY <1>1, <1>2, <1>4 DEF Linked
  <2> QED
    BY <1>2, <1>4, <2>1, <2>2 DEF Linked
<1>8. /\ Ready = L[NoLink] /\ Waiting = [x \in Undefs |-> L[x]]
      /\ Ready' = L1[NoLink] /\ Waiting' = [x \in Undefs |-> L1[x]]
  BY <1>1, <1>2, <1>5, <1>6, <1>7, Viewed
<1>9. Waiting' = Waiting
  BY <1>4, <1>8, ListsAssumption DEF Places
<1>10. Ready' = Append(Ready, t) /\ Running' = Running \ {t} /\ Waiting' = Waiting /\ begun' = begun
  BY <1>2, <1>3, <1>4, <1>8, <1>9
<1>11. Q!Put(held[w])
  BY <1>0, <1>10 DEF Q!Put, Ready, Waiting, Running
<1> QED
  BY <1>0, <1>3, <1>5, <1>6, <1>7, <1>11 DEF ListInv

LEMMA ThreadExitStep ==
  ASSUME ListInv, NEW w \in ListWorkers, ThreadExit(w)
  PROVE  ListInv' /\ held[w] \in Running /\ Q!Exit(held[w])
<1> DEFINE t == held[w]
<1>1. PICK L : Linked(L)
  BY DEF ListInv
<1>2. /\ ListTypeOK /\ Owners /\ LetsGo(w) /\ t # NoLink /\ head' = head /\ tail' = tail /\ next' = next
      /\ behind' = behind /\ undefs' = undefs /\ binding' = binding /\ begun' = begun /\ Lively' = Lively
  BY <1>1 DEF ListInv, ThreadExit, Runs, Lively, Unlocked
<1>3. /\ Running' = Running \ {t} /\ t \in Running
      /\ held' \in [ListWorkers -> Links] /\ held'[w] = NoLink
      /\ \A v \in ListWorkers : v # w => held'[v] = held[v] /\ held[v] # t
  BY <1>2, GoneIs
<1> HIDE DEF t
<1>4. ListTypeOK' /\ Owners' /\ Linked(L)'
  BY <1>1, <1>2, <1>3 DEF ListTypeOK, Owners, Linked
<1>5. /\ Ready = L[NoLink] /\ Waiting = [x \in Undefs |-> L[x]]
      /\ Ready' = L[NoLink] /\ Waiting' = [x \in Undefs |-> L[x]]
  BY <1>1, <1>2, <1>4, Viewed
<1>6. Ready' = Ready /\ Running' = Running \ {t} /\ Waiting' = Waiting /\ begun' = begun
  BY <1>2, <1>3, <1>5
<1>7. Q!Exit(t)
  BY <1>6 DEF Q!Exit, Ready, Waiting, Running
<1> QED
  BY <1>3, <1>4, <1>7 DEF ListInv, t

LEMMA StartThreadStep ==
  ASSUME ListInv, NEW w \in ListWorkers, NEW t \in ListThreads, StartThread(w, t)
  PROVE  ListInv' /\ held[w] \in Running /\ Q!Spawn(t)
<1>1. PICK L : Linked(L)
  BY DEF ListInv
<1> DEFINE L1 == Now(L, NoLink, Append(L[NoLink], t))
<1>2. /\ ListTypeOK /\ Owners /\ Enqueue(t) /\ t \notin begun /\ held[w] # NoLink
      /\ Loose(next, L, t)
      /\ held' = held /\ behind' = behind /\ undefs' = undefs /\ binding' = binding
      /\ begun' = begun \cup {t} /\ Lively' = Lively
  BY <1>1 DEF ListInv, StartThread, Runs, Linked, Lively, Unlocked
<1>3. /\ Lists(next', Heads(head', behind), Lively, L1)
      /\ L1[NoLink] # <<>> /\ tail' = LastOf(L1[NoLink])
      /\ head' \in Links /\ tail' \in Links /\ next' \in Nexts
      /\ \A u \in ListThreads : u # t /\ Loose(next, L, u) => Loose(next', L1, u)
      /\ L1[NoLink] = Append(L[NoLink], t) /\ \A p \in Places : p # NoLink => L1[p] = L[p]
  BY <1>1, <1>2, EnqueueOne
<1> HIDE DEF L1
<1>4. ListTypeOK'
  BY <1>2, <1>3 DEF ListTypeOK, Nexts
<1>5. Owners'
  BY <1>2 DEF Owners
<1>6. Linked(L1)'
  <2>1. \A v \in ListWorkers : held[v] # NoLink => held[v] # t /\ held[v] \in ListThreads
    BY <1>2 DEF Owners
  <2>2. \A v \in ListWorkers : held[v] # NoLink => Loose(next', L1, held[v])
    BY <1>1, <1>3, <2>1 DEF Linked
  <2>3. \A u \in ListThreads \ begun' : Loose(next', L1, u)
    BY <1>1, <1>2, <1>3 DEF Linked
  <2> QED
    BY <1>2, <1>3, <2>2, <2>3 DEF Linked
<1>7. /\ Ready = L[NoLink] /\ Waiting = [x \in Undefs |-> L[x]]
      /\ Ready' = L1[NoLink] /\ Waiting' = [x \in Undefs |-> L1[x]]
  BY <1>1, <1>2, <1>4, <1>5, <1>6, Viewed
<1>8. Waiting' = Waiting /\ Running' = Running
  BY <1>2, <1>3, <1>7, ListsAssumption DEF Places, Running
<1>9. Ready' = Append(Ready, t)
  BY <1>3, <1>7
<1>10. Q!Spawn(t)
  BY <1>2, <1>8, <1>9 DEF Q!Spawn, Ready, Waiting, Running
<1>11. held[w] \in Running
  BY <1>2 DEF Running
<1> QED
  BY <1>4, <1>5, <1>6, <1>10, <1>11 DEF ListInv

LEMMA WaitForStep ==
  ASSUME ListInv, NEW w \in ListWorkers, NEW x \in Undefs, WaitFor(w, x)
  PROVE  ListInv' /\ held[w] \in Running /\ Q!Wait(held[w], x)
<1>0. PICK t : t = held[w]
  OBVIOUS
<1>1. PICK L : Linked(L)
  BY DEF ListInv
<1> DEFINE L1 == Now(L, x, L[x] \o <<t>>)
<1>2. /\ ListTypeOK /\ Owners /\ Attach(t, x) /\ LetsGo(w) /\ t # NoLink /\ t \in begun /\ t \in ListThreads
      /\ Loose(next, L, t) /\ x \in Lively /\ x # NoLink /\ Lively \in SUBSET Places
      /\ head' = head /\ tail' = tail /\ undefs' = undefs /\ binding' = binding /\ begun' = begun
      /\ Lively' = Lively
  BY <1>0, <1>1, LivelyType, ListsAssumption DEF ListInv, WaitFor, Runs, Owners, Linked, Lively, Unlocked
<1>3. /\ Running' = Running \ {t} /\ t \in Running
      /\ held' \in [ListWorkers -> Links] /\ held'[w] = NoLink
      /\ \A v \in ListWorkers : v # w => held'[v] = held[v] /\ held[v] # t
  BY <1>0, <1>2, GoneIs
<1>4. Chain(next, <<t>>, t) /\ Members(<<t>>) = {t} /\ <<t>> # <<>>
  BY <1>2, OneChain DEF Loose
<1>5. \A p \in Places : Members(L[p]) \cap Members(<<t>>) = {}
  BY <1>2, <1>4 DEF Loose
<1>6. Lists(next, Heads(head, behind), Lively, L) /\ behind \in [Undefs -> Links]
  BY <1>1, <1>2 DEF Linked, ListTypeOK
<1>7. /\ Lists(next', Heads(head, behind'), Lively, L1)
      /\ \A u \in ListThreads : u \notin Members(<<t>>) /\ Loose(next, L, u) => Loose(next', L1, u)
      /\ behind' \in [Undefs -> Links]
  BY <1>2, <1>4, <1>5, <1>6, AttachIs
<1>8. /\ L \in [Places -> Seq(ListThreads)] /\ x \in Places /\ NoLink \in Places
      /\ \A y \in Undefs : y \in Places
  BY <1>6 DEF Lists, Places
<1>9. L[x] \o <<t>> = Append(L[x], t)
  BY <1>2, <1>8, AppendIs
<1>10. L1[x] = Append(L[x], t) /\ L1[NoLink] = L[NoLink] /\ \A p \in Places : p # x => L1[p] = L[p]
  BY <1>2, <1>8, <1>9 DEF Now
<1> HIDE DEF L1
<1>11. ListTypeOK'
  BY <1>2, <1>3, <1>7 DEF ListTypeOK, Lists, Nexts
<1>12. Owners'
  BY <1>2, <1>3 DEF Owners
<1>13. Linked(L1)'
  <2>1. \A v \in ListWorkers : held'[v] # NoLink => Loose(next', L1, held'[v])
    BY <1>1, <1>2, <1>3, <1>4, <1>7 DEF Linked, Owners
  <2>2. \A u \in ListThreads \ begun : Loose(next', L1, u)
    BY <1>1, <1>2, <1>4, <1>7 DEF Linked
  <2>3. L1[NoLink] # <<>> => tail = LastOf(L1[NoLink])
    BY <1>1, <1>10 DEF Linked
  <2> QED
    BY <1>2, <1>7, <2>1, <2>2, <2>3 DEF Linked
<1>14. /\ Ready = L[NoLink] /\ Waiting = [y \in Undefs |-> L[y]]
       /\ Ready' = L1[NoLink] /\ Waiting' = [y \in Undefs |-> L1[y]]
  BY <1>1, <1>2, <1>11, <1>12, <1>13, Viewed
<1>15. Waiting' = [Waiting EXCEPT ![x] = Append(@, t)]
  BY <1>8, <1>10, <1>14
<1>16. Ready' = Ready /\ Running' = Running \ {t} /\ begun' = begun
  BY <1>2, <1>3, <1>10, <1>14
<1>17. Q!Wait(held[w], x)
  BY <1>0, <1>15, <1>16 DEF Q!Wait, Ready, Waiting, Running
<1> QED
  BY <1>0, <1>3, <1>11, <1>12, <1>13, <1>17 DEF ListInv

\* A variable's list that is about to go to another place.
LEMMA PutAside ==
  ASSUME NEW L, Linked(L), ListTypeOK, Owners, NEW x \in Undefs, x \in Lively
  PROVE  LET L0 == Emptied(L, x) IN
         /\ Lists(next, Heads(head, behind), Lively \ {x}, L0) /\ Chain(next, L[x], behind[x])
         /\ \A p \in Places : Members(L0[p]) \cap Members(L[x]) = {}
         /\ \A u \in ListThreads : Loose(next, L, u) => Loose(next, L0, u) /\ u \notin Members(L[x])
         /\ L0[x] = <<>> /\ \A p \in Places : p # x => L0[p] = L[p]
         /\ L \in [Places -> Seq(ListThreads)] /\ L0 \in [Places -> Seq(ListThreads)]
         /\ L[x] = <<>> <=> behind[x] = NoLink
<1> DEFINE f == Heads(head, behind)  L0 == Emptied(L, x)  W == Lively
<1>1. Lists(next, f, W, L) /\ W \in SUBSET Places /\ x \in W
  BY LivelyType DEF Linked
<1>2. f[x] = behind[x] /\ x \in Places
  BY ListsAssumption DEF Heads, Places
<1>3. L \in [Places -> Seq(ListThreads)]
  BY <1>1 DEF Lists
<1>4. L0[x] = <<>> /\ \A p \in Places : p # x => L0[p] = L[p]
  BY <1>2, <1>3 DEF Emptied, Now
<1> HIDE DEF f, W
<1>5. Chain(next, L[x], f[x])
  BY <1>1 DEF Lists
<1>6. \A p \in Places : Members(L0[p]) \cap Members(L[x]) = {}
  BY ONLY <1>1, DropList
<1>7. \A u \in ListThreads : Loose(next, L, u) => Loose(next, L0, u)
  BY ONLY <1>1, DropList
<1>8. Lists(next, f, W \ {x}, L0)
  BY ONLY <1>1, DropList
<1> HIDE DEF L0
<1>9. L0 \in [Places -> Seq(ListThreads)]
  BY <1>8 DEF Lists
<1>10. L[x] = <<>> <=> behind[x] = NoLink
  BY <1>2, <1>5, ChainType
<1>11. \A u \in ListThreads : Loose(next, L, u) => u \notin Members(L[x])
  BY <1>2 DEF Loose
<1> QED
  BY <1>2, <1>3, <1>4, <1>5, <1>6, <1>7, <1>8, <1>9, <1>10, <1>11 DEF L0, f, W

\* The worker holds the variable's mutex until the variable is bound: its list
\* counts no more, for the threads are in the queue.
LEMMA ResumeWaitingStep ==
  ASSUME ListInv, NEW w \in ListWorkers, NEW x \in Undefs, ResumeWaiting(w, x)
  PROVE  ListInv' /\ held[w] \in Running /\ Q!Wake(x)
<1>1. PICK L : Linked(L)
  BY DEF ListInv
<1> DEFINE L0 == Emptied(L, x)  V == Lively \ {x}
<1>2. /\ ListTypeOK /\ Owners /\ held[w] # NoLink /\ binding[w] = NoLink /\ x \in undefs /\ Unlocked(x)
      /\ x \in Lively /\ x # NoLink /\ Lively \in SUBSET Places /\ NoLink \in Lively
      /\ held' = held /\ behind' = behind /\ undefs' = undefs /\ begun' = begun
      /\ binding' = [binding EXCEPT ![w] = x]
  BY LivelyType, ListsAssumption DEF ListInv, ResumeWaiting, Runs
<1>3. /\ binding' \in [ListWorkers -> Undefs \cup {NoLink}] /\ binding'[w] = x
      /\ \A v \in ListWorkers : v # w => binding'[v] = binding[v] /\ binding[v] # x
  BY <1>2 DEF ListTypeOK, Unlocked
<1>4. Lively' = V
  BY <1>2, <1>3 DEF Lively, Unlocked
<1>5. /\ behind \in [Undefs -> Links] /\ x \in Places /\ NoLink \in Places
      /\ \A y \in Undefs : y \in Places
      /\ L[NoLink] # <<>> => tail = LastOf(L[NoLink])
  BY <1>1, <1>2 DEF Linked, ListTypeOK, Places
<1>6. /\ Lists(next, Heads(head, behind), V, L0) /\ Chain(next, L[x], behind[x])
      /\ \A p \in Places : Members(L0[p]) \cap Members(L[x]) = {}
      /\ \A u \in ListThreads : Loose(next, L, u) => Loose(next, L0, u) /\ u \notin Members(L[x])
      /\ L0[x] = <<>> /\ \A p \in Places : p # x => L0[p] = L[p]
      /\ L \in [Places -> Seq(ListThreads)] /\ L0 \in [Places -> Seq(ListThreads)]
      /\ L[x] = <<>> <=> behind[x] = NoLink
  BY <1>1, <1>2, PutAside
<1> HIDE DEF L0, V
<1>v. V \in SUBSET Places /\ NoLink \in V
  BY <1>2 DEF V
<1>7. \E L1 : /\ Lists(next', Heads(head', behind), V, L1)
              /\ L1[NoLink] # <<>> => tail' = LastOf(L1[NoLink])
              /\ \A u \in ListThreads : Loose(next, L, u) => Loose(next', L1, u)
              /\ L1[NoLink] = L[NoLink] \o L[x] /\ L1[x] = <<>>
              /\ \A p \in Places : p # x /\ p # NoLink => L1[p] = L[p]
              /\ tail' \in Links
  <2>1. CASE behind[x] = NoLink
    <3>1. head' = head /\ tail' = tail /\ next' = next
      BY <2>1 DEF ResumeWaiting
    <3>2. L[x] = <<>>
      BY <1>6, <2>1
    <3>3. L[NoLink] \o L[x] = L[NoLink]
      BY <1>5, <1>6, <3>2
    <3>4. tail \in Links /\ L0[NoLink] = L[NoLink]
      BY <1>2, <1>5, <1>6 DEF ListTypeOK
    <3> WITNESS L0
    <3> QED
      BY <1>5, <1>6, <3>1, <3>3, <3>4
  <2>2. CASE behind[x] # NoLink
    <3> DEFINE R == L[x]  r == behind[x]  L1 == Now(L0, NoLink, L0[NoLink] \o R)
    <3>1. Enqueue(r)
      BY <2>2 DEF ResumeWaiting
    <3>2. R # <<>> /\ Chain(next, R, r)
      BY <1>6, <2>2
    <3>3. /\ L0[NoLink] = L[NoLink]
          /\ \A p \in Places : Members(L0[p]) \cap Members(R) = {}
          /\ Lists(next, Heads(head, behind), V, L0)
      BY <1>2, <1>5, <1>6
    <3> HIDE DEF R, r
    <3>4. /\ Lists(next', Heads(head', behind), V, L1)
          /\ L1[NoLink] # <<>> /\ tail' = LastOf(L1[NoLink])
          /\ \A u \in ListThreads : u \notin Members(R) /\ Loose(next, L0, u) => Loose(next', L1, u)
      BY <1>5, <1>v, <3>1, <3>2, <3>3, EnqueueIs
    <3>5. L0 \in [Places -> Seq(ListThreads)]
      BY <1>6 DEF Lists
    <3>6. /\ L1[NoLink] = L[NoLink] \o L[x] /\ L1[x] = <<>>
          /\ \A p \in Places : p # x /\ p # NoLink => L1[p] = L[p]
      BY <1>2, <1>5, <1>6, <3>3, <3>5 DEF Now, R
    <3> HIDE DEF L1
    <3>7. \A u \in ListThreads : Loose(next, L, u) => Loose(next', L1, u)
      BY <1>5, <1>6, <3>4 DEF Loose, R
    <3>8. tail' \in Links
      <4>1. L1[NoLink] \in Seq(ListThreads)
        BY <1>5, <3>4 DEF Lists
      <4>2. Len(L1[NoLink]) \in 1 .. Len(L1[NoLink])
        BY <3>4, <4>1
      <4> QED
        BY <3>4, <4>1, <4>2 DEF LastOf, Links
    <3> QED
      BY <3>4, <3>6, <3>7, <3>8
  <2> QED
    BY <2>1, <2>2
<1>8. PICK L1 : /\ Lists(next', Heads(head', behind), V, L1)
                /\ L1[NoLink] # <<>> => tail' = LastOf(L1[NoLink])
                /\ \A u \in ListThreads : Loose(next, L, u) => Loose(next', L1, u)
                /\ L1[NoLink] = L[NoLink] \o L[x] /\ L1[x] = <<>>
                /\ \A p \in Places : p # x /\ p # NoLink => L1[p] = L[p]
                /\ tail' \in Links
  BY <1>7
<1>9. ListTypeOK'
  <2>1. next' \in Nexts /\ Heads(head', behind) \in [Places -> Links]
    BY <1>8 DEF Lists
  <2>2. head' \in Links
    BY <1>5, <2>1, HeadsFacts
  <2> QED
    BY <1>2, <1>3, <1>8, <2>1, <2>2 DEF ListTypeOK, Nexts
<1>10. Owners'
  BY <1>2, <1>3 DEF Owners
<1>11. Linked(L1)'
  <2>1. \A v \in ListWorkers : held[v] # NoLink => Loose(next', L1, held[v])
    BY <1>1, <1>2, <1>8 DEF Linked, Owners
  <2>2. \A u \in ListThreads \ begun : Loose(next', L1, u)
    BY <1>1, <1>8 DEF Linked
  <2> QED
    BY <1>2, <1>4, <1>8, <2>1, <2>2 DEF Linked
<1>12. /\ Ready = L[NoLink] /\ Waiting = [y \in Undefs |-> L[y]]
       /\ Ready' = L1[NoLink] /\ Waiting' = [y \in Undefs |-> L1[y]]
  BY <1>1, <1>2, <1>9, <1>10, <1>11, Viewed
<1>13. Waiting[x] = L[x] /\ Waiting' = [Waiting EXCEPT ![x] = <<>>]
  <2>1. \A y \in Undefs : L1[y] = IF y = x THEN <<>> ELSE L[y]
    BY <1>5, <1>8, ListsAssumption
  <2> QED
    BY <1>12, <2>1
<1>14. Ready' = Ready \o Waiting[x] /\ Running' = Running /\ begun' = begun
  <2>1. Running' = Running /\ begun' = begun
    BY <1>2 DEF Running
  <2>2. Ready' = Ready \o Waiting[x]
    BY ONLY <1>8, <1>12, <1>13
  <2> QED
    BY <2>1, <2>2
<1>15. Q!Wake(x)
  BY <1>13, <1>14 DEF Q!Wake, Ready, Waiting, Running
<1>16. held[w] \in Running
  BY <1>2 DEF Running
<1> QED
  BY <1>9, <1>10, <1>11, <1>15, <1>16 DEF ListInv

LEMMA SetReferenceStep ==
  ASSUME ListInv, NEW w \in ListWorkers, SetReference(w)
  PROVE  ListInv' /\ UNCHANGED <<Ready, Waiting, Running, begun>>
<1> DEFINE x == binding[w]
<1>1. PICK L : Linked(L)
  BY DEF ListInv
<1>2. /\ ListTypeOK /\ Owners /\ x # NoLink /\ x \in undefs
      /\ head' = head /\ tail' = tail /\ next' = next /\ held' = held /\ behind' = behind /\ begun' = begun
      /\ undefs' = undefs \ {x}
      /\ binding' = [binding EXCEPT ![w] = NoLink]
  BY DEF ListInv, SetReference, Owners
<1>3. /\ binding' \in [ListWorkers -> Undefs \cup {NoLink}] /\ binding'[w] = NoLink
      /\ \A v \in ListWorkers : v # w => binding'[v] = binding[v] /\ binding[v] # x
  BY <1>2 DEF ListTypeOK, Owners
<1>4. Lively' = Lively
  <2>1. \A y \in undefs : y # NoLink
    BY <1>2, ListsAssumption DEF Owners
  <2>2. ~ Unlocked(x)
    BY DEF Unlocked
  <2>3. ASSUME NEW y \in undefs, y # x PROVE Unlocked(y)' <=> Unlocked(y)
    BY <1>3, <2>1, <2>3 DEF Unlocked
  <2> HIDE DEF x
  <2> QED
    BY <1>2, <2>2, <2>3 DEF Lively
<1>5. ListTypeOK'
  BY <1>2, <1>3 DEF ListTypeOK
<1>6. Owners'
  <2>1. \A v \in ListWorkers : binding'[v] \in undefs' \cup {NoLink}
    BY <1>2, <1>3 DEF Owners
  <2>2. \A u, v \in ListWorkers : u # v /\ binding'[u] # NoLink => binding'[u] # binding'[v]
    BY <1>2, <1>3 DEF Owners
  <2> QED
    BY <1>2, <2>1, <2>2 DEF Owners
<1>7. Linked(L)'
  BY <1>1, <1>2, <1>4 DEF Linked
<1>8. /\ Ready = L[NoLink] /\ Waiting = [y \in Undefs |-> L[y]]
      /\ Ready' = L[NoLink] /\ Waiting' = [y \in Undefs |-> L[y]]
  BY <1>1, <1>2, <1>5, <1>6, <1>7, Viewed
<1>9. Running' = Running
  BY <1>2 DEF Running
<1> QED
  BY <1>2, <1>5, <1>6, <1>7, <1>8, <1>9 DEF ListInv

LEMMA UniteStep ==
  ASSUME ListInv, NEW w \in ListWorkers, NEW x \in Undefs, NEW y \in Undefs, Unite(w, x, y)
  PROVE  ListInv' /\ held[w] \in Running /\ x # y /\ Q!Join(x, y)
<1>1. PICK L : Linked(L)
  BY DEF ListInv
<1> DEFINE L0 == Emptied(L, x)  V == Lively \ {x}
<1>2. /\ ListTypeOK /\ Owners /\ held[w] # NoLink /\ x \in undefs /\ y \in undefs /\ x # y
      /\ Unlocked(x) /\ x \in Lively /\ y \in Lively /\ x # NoLink /\ y # NoLink
      /\ Lively \in SUBSET Places /\ NoLink \in Lively
      /\ head' = head /\ tail' = tail /\ held' = held /\ binding' = binding /\ begun' = begun
      /\ undefs' = undefs \ {x}
  BY LivelyType, ListsAssumption DEF ListInv, Unite, Runs
<1>3. Lively' = V
  BY <1>2 DEF Lively, Unlocked
<1>4. /\ behind \in [Undefs -> Links] /\ NoLink \in Places /\ \A z \in Undefs : z \in Places
      /\ L[NoLink] # <<>> => tail = LastOf(L[NoLink])
  BY <1>1, <1>2 DEF Linked, ListTypeOK, Places
<1>5. /\ Lists(next, Heads(head, behind), V, L0) /\ Chain(next, L[x], behind[x])
      /\ \A p \in Places : Members(L0[p]) \cap Members(L[x]) = {}
      /\ \A u \in ListThreads : Loose(next, L, u) => Loose(next, L0, u) /\ u \notin Members(L[x])
      /\ L0[x] = <<>> /\ \A p \in Places : p # x => L0[p] = L[p]
      /\ L \in [Places -> Seq(ListThreads)] /\ L0 \in [Places -> Seq(ListThreads)]
      /\ L[x] = <<>> <=> behind[x] = NoLink
  BY <1>1, <1>2, PutAside
<1> HIDE DEF L0, V
<1>v. V \in SUBSET Places /\ y \in V
  BY <1>2 DEF V
<1>6. \E L1 : /\ Lists(next', Heads(head, behind'), V, L1)
              /\ \A u \in ListThreads : Loose(next, L, u) => Loose(next', L1, u)
              /\ L1[y] = L[y] \o L[x] /\ L1[x] = <<>>
              /\ \A p \in Places : p # x /\ p # y => L1[p] = L[p]
              /\ behind' \in [Undefs -> Links]
  <2>1. CASE behind[x] = NoLink
    <3>1. next' = next /\ behind' = behind
      BY <2>1 DEF Unite
    <3>2. L[x] = <<>>
      BY <1>5, <2>1
    <3>3. L[y] \o L[x] = L[y]
      BY <1>4, <1>5, <3>2
    <3>4. L0[y] = L[y]
      BY <1>2, <1>4, <1>5
    <3> WITNESS L0
    <3> QED
      BY <1>4, <1>5, <3>1, <3>3, <3>4
  <2>2. CASE behind[x] # NoLink
    <3> DEFINE R == L[x]  r == behind[x]  L1 == Now(L0, y, L0[y] \o R)
    <3>1. Attach(r, y)
      BY <2>2 DEF Unite
    <3>2. R # <<>> /\ Chain(next, R, r)
      BY <1>5, <2>2
    <3>3. /\ L0[y] = L[y]
          /\ \A p \in Places : Members(L0[p]) \cap Members(R) = {}
          /\ Lists(next, Heads(head, behind), V, L0)
      BY <1>2, <1>4, <1>5
    <3> HIDE DEF R, r
    <3>4. /\ Lists(next', Heads(head, behind'), V, L1)
          /\ \A u \in ListThreads : u \notin Members(R) /\ Loose(next, L0, u) => Loose(next', L1, u)
          /\ behind' \in [Undefs -> Links]
      BY <1>4, <1>v, <3>1, <3>2, <3>3, AttachIs
    <3>5. /\ L1[y] = L[y] \o L[x] /\ L1[x] = <<>>
          /\ \A p \in Places : p # x /\ p # y => L1[p] = L[p]
      BY <1>2, <1>4, <1>5, <3>3 DEF Now, R
    <3> HIDE DEF L1
    <3>6. \A u \in ListThreads : Loose(next, L, u) => Loose(next', L1, u)
      BY <1>5, <3>4 DEF R
    <3> QED
      BY <3>4, <3>5, <3>6
  <2> QED
    BY <2>1, <2>2
<1>7. PICK L1 : /\ Lists(next', Heads(head, behind'), V, L1)
                /\ \A u \in ListThreads : Loose(next, L, u) => Loose(next', L1, u)
                /\ L1[y] = L[y] \o L[x] /\ L1[x] = <<>>
                /\ \A p \in Places : p # x /\ p # y => L1[p] = L[p]
                /\ behind' \in [Undefs -> Links]
  BY <1>6
<1>8. ListTypeOK'
  BY <1>2, <1>7 DEF ListTypeOK, Lists, Nexts
<1>9. Owners'
  BY <1>2 DEF Owners, Unlocked
<1>10. Linked(L1)'
  <2>1. \A v \in ListWorkers : held[v] # NoLink => Loose(next', L1, held[v])
    BY <1>1, <1>2, <1>7 DEF Linked, Owners
  <2>2. \A u \in ListThreads \ begun : Loose(next', L1, u)
    BY <1>1, <1>7 DEF Linked
  <2>3. L1[NoLink] # <<>> => tail = LastOf(L1[NoLink])
    BY <1>2, <1>4, <1>7
  <2> QED
    BY <1>2, <1>3, <1>7, <2>1, <2>2, <2>3 DEF Linked
<1>11. /\ Ready = L[NoLink] /\ Waiting = [z \in Undefs |-> L[z]]
       /\ Ready' = L1[NoLink] /\ Waiting' = [z \in Undefs |-> L1[z]]
  BY <1>1, <1>2, <1>8, <1>9, <1>10, Viewed
<1>12. Waiting[x] = L[x] /\ Waiting' = [Waiting EXCEPT ![x] = <<>>, ![y] = @ \o Waiting[x]]
  <2>1. \A z \in Undefs : L1[z] = IF z = x THEN <<>> ELSE IF z = y THEN L[y] \o L[x] ELSE L[z]
    BY <1>2, <1>4, <1>7
  <2>2. Waiting[x] = L[x]
    BY <1>11
  <2> QED
    BY <1>2, <1>11, <2>1, <2>2
<1>13. Ready' = Ready /\ Running' = Running /\ begun' = begun
  <2>1. Running' = Running /\ begun' = begun
    BY <1>2 DEF Running
  <2>2. L1[NoLink] = L[NoLink]
    BY <1>2, <1>4, <1>7
  <2> QED
    BY <1>11, <2>1, <2>2
<1>14. Q!Join(x, y)
  BY <1>12, <1>13 DEF Q!Join, Ready, Waiting, Running
<1>15. held[w] \in Running
  BY <1>2 DEF Running
<1> QED
  BY <1>2, <1>8, <1>9, <1>10, <1>14, <1>15 DEF ListInv

-----------------------------------------------------------------------------

LEMMA ListStep ==
  ASSUME ListInv, [ListNext]_listVars
  PROVE  ListInv' /\ [Q!Next]_<<Ready, Waiting, Running, begun>>
<1>1. CASE UNCHANGED listVars
  <2>1. PICK L : Linked(L)
    BY DEF ListInv
  <2>2. ListTypeOK' /\ Owners' /\ Linked(L)' /\ UNCHANGED <<Ready, Waiting, Running, begun>>
    BY <1>1, <2>1 DEF listVars, ListInv, ListTypeOK, Owners, Linked, Lively, Unlocked, Ready, Waiting, Running
  <2> QED
    BY <2>2 DEF ListInv
<1>2. ASSUME NEW w \in ListWorkers, GetThread(w) PROVE ListInv' /\ Q!Next
  BY <1>2, GetThreadStep DEF Q!Next
<1>3. ASSUME NEW w \in ListWorkers, QueueOwn(w) PROVE ListInv' /\ Q!Next
  BY <1>3, QueueOwnStep DEF Q!Next, Q!Put, Running
<1>4. ASSUME NEW w \in ListWorkers, ThreadExit(w) PROVE ListInv' /\ Q!Next
  BY <1>4, ThreadExitStep DEF Q!Next, Q!Exit, Running
<1>5. ASSUME NEW w \in ListWorkers, SetReference(w) PROVE ListInv' /\ UNCHANGED <<Ready, Waiting, Running, begun>>
  BY <1>5, SetReferenceStep
<1>6. ASSUME NEW w \in ListWorkers, NEW t \in ListThreads, StartThread(w, t) PROVE ListInv' /\ Q!Next
  BY <1>6, StartThreadStep DEF Q!Next, Running
<1>7. ASSUME NEW w \in ListWorkers, NEW x \in Undefs, WaitFor(w, x) PROVE ListInv' /\ Q!Next
  BY <1>7, WaitForStep DEF Q!Next, Running
<1>8. ASSUME NEW w \in ListWorkers, NEW x \in Undefs, ResumeWaiting(w, x) PROVE ListInv' /\ Q!Next
  BY <1>8, ResumeWaitingStep DEF Q!Next, Running
<1>9. ASSUME NEW w \in ListWorkers, NEW x \in Undefs, NEW y \in Undefs, Unite(w, x, y) PROVE ListInv' /\ Q!Next
  BY <1>9, UniteStep DEF Q!Next, Running
<1> QED
  BY <1>1, <1>2, <1>3, <1>4, <1>5, <1>6, <1>7, <1>8, <1>9 DEF ListNext

\* The pointers are always null or a thread's, and a thread has one worker at most.
THEOREM ListsTypeCorrect == ListSpec => [](ListTypeOK /\ Owners)
<1>1. ListInit => ListInv
  BY ListInvInit
<1>2. ListInv /\ [ListNext]_listVars => ListInv'
  BY ListStep
<1>3. ListInv => ListTypeOK /\ Owners
  BY DEF ListInv
<1> QED
  BY <1>1, <1>2, <1>3, PTL DEF ListSpec

\* vm_thread_queue, vm_thread_get, vm_thread_wait and vm_bind, with one link per
\* thread, are operations of queues: no thread is lost, taken twice or overtaken.
THEOREM QueuesImplemented == ListSpec => ImplementsQueues
<1>1. ListInit => ListInv /\ Q!Init
  BY ListInvInit
<1>2. ListInv /\ [ListNext]_listVars => ListInv' /\ [Q!Next]_<<Ready, Waiting, Running, begun>>
  BY ListStep
<1> QED
  BY <1>1, <1>2, PTL DEF ListSpec, ImplementsQueues, Q!Spec, Ready, Waiting, Running

=============================================================================

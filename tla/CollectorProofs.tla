--------------------------- MODULE CollectorProofs ---------------------------
(* One collection of any well-formed heap, with any objects that point to    *)
(* each other in any way: marks and mark stack, layout, reachability, walks. *)
EXTENDS Collector, FunctionTheorems, FiniteSetTheorems, SequenceTheorems, WellFoundedInduction, TLAPS

\* Induction on the numbers, for a set instead of a predicate.
LEMMA NumberInduction ==
  ASSUME NEW S, 0 \in S, \A n \in Nat : n \in S => n + 1 \in S
  PROVE  Nat \subseteq S
<1> SUFFICES ASSUME Nat \ S # {} PROVE FALSE
  OBVIOUS
<1> DEFINE T == Nat \ S
<1>1. PICK n \in T : \A k \in T : ~ (<<k, n>> \in OpToRel(<,Nat))
  BY WFMin, NatLessThanWellFounded
<1>2. \A k \in T : ~ (k < n)
  BY <1>1 DEF OpToRel
<1>3. n # 0 /\ n - 1 \in Nat /\ n - 1 \in S
  BY <1>2
<1> QED
  BY <1>3

-----------------------------------------------------------------------------
(* Repetition.                                                             *)

Count == Cardinality(Ids)

LEMMA CountType == Count \in Nat /\ IsFiniteSet(Ids)
BY PointersAssumption, FS_CardinalityType DEF Count

Steps(f, x, g) == g[0] = x /\ \A k \in Nat : k + 1 <= Count => g[k + 1] = f[g[k]]

LEMMA RepeatedIs ==
  ASSUME NEW f, NEW x
  PROVE  \E g : Steps(f, x, g) /\ Repeated(f, x) = g[Count]
<1> DEFINE Pass(j, g) == g = [k \in 0 .. j |-> IF k = 0 THEN x ELSE f[g[k - 1]]]
           R == {j \in Nat : \E g : Pass(j, g)}
<1>1. 0 \in R
  <2> DEFINE g == [k \in 0 .. 0 |-> x]
  <2>1. Pass(0, g)
    OBVIOUS
  <2> QED
    BY <2>1
<1>2. ASSUME NEW j \in Nat, j \in R PROVE j + 1 \in R
  <2>1. PICK g : Pass(j, g)
    BY <1>2
  <2> DEFINE h == [k \in 0 .. j + 1 |-> IF k = j + 1 THEN f[g[j]] ELSE g[k]]
  <2>2. Pass(j + 1, h)
    BY <2>1
  <2>3. \E i : Pass(j + 1, i)
    BY <2>2
  <2> QED
    BY <2>3
<1>3. Count \in R
  BY <1>1, <1>2, CountType, NumberInduction
<1>4. PICK g : Pass(Count, g) /\ Repeated(f, x) = g[Count]
  BY <1>3 DEF Repeated, Count
<1>5. Steps(f, x, g)
  BY <1>4, CountType DEF Steps
<1> QED
  BY <1>4, <1>5

\* What f keeps, its repetition keeps.
LEMMA RepeatedIn ==
  ASSUME NEW f, NEW P, NEW x \in P, \A y \in P : f[y] \in P
  PROVE  Repeated(f, x) \in P
<1>1. PICK g : Steps(f, x, g) /\ Repeated(f, x) = g[Count]
  BY RepeatedIs
<1> DEFINE U == {k \in Nat : k <= Count => g[k] \in P}
<1>2. 0 \in U
  BY <1>1 DEF Steps
<1>3. ASSUME NEW k \in Nat, k \in U PROVE k + 1 \in U
  BY <1>1, <1>3, CountType DEF Steps
<1> HIDE DEF U
<1>4. Nat \subseteq U
  BY <1>2, <1>3, NumberInduction
<1> QED
  BY <1>1, <1>4, CountType DEF U

-----------------------------------------------------------------------------
(* Sizes of sets of objects.                                               *)

Sums(h) ==
  CHOOSE g : g = [s \in SUBSET Ids |->
                    IF s = {} THEN 0 ELSE LET x == CHOOSE x \in s : TRUE IN Size(h[x]) + g[s \ {x}]]

LEMMA SumsIs ==
  MapThenSumSet(LAMBDA x : Size(obj[x]), Ids) = Sums(obj)[Ids]
BY DEF MapThenSumSet, MapThenFoldSet, Sums

Pick(s) == CHOOSE x \in s : TRUE
Body(h, g, s) == IF s = {} THEN 0 ELSE Size(h[Pick(s)]) + g[s \ {Pick(s)}]

LEMMA Removed ==
  ASSUME NEW s \in SUBSET Ids, NEW x \in s
  PROVE  /\ Cardinality(s) \in Nat /\ Cardinality(s) >= 1 /\ s \ {x} \in SUBSET Ids
         /\ Cardinality(s \ {x}) = Cardinality(s) - 1
<1>1. IsFiniteSet(s)
  BY CountType, FS_Subset
<1>2. IsFiniteSet(s \ {x}) /\ Cardinality(s \ {x}) = Cardinality(s) - 1 /\ Cardinality(s \ {x}) \in Nat /\ Cardinality(s) \in Nat
  BY <1>1, FS_RemoveElement, FS_CardinalityType
<1> QED
  BY <1>2

LEMMA PickIn ==
  ASSUME NEW s, s # {}
  PROVE  Pick(s) \in s
BY DEF Pick

LEMMA SumsDef ==
  ASSUME NEW h
  PROVE  Sums(h) = [s \in SUBSET Ids |-> Body(h, Sums(h), s)]
<1> DEFINE Small(m) == {s \in SUBSET Ids : Cardinality(s) <= m}
           Pass(m, g) == g = [s \in Small(m) |-> Body(h, g, s)]
           R == {m \in Nat : \E g : Pass(m, g)}
<1>1. 0 \in R
  <2> DEFINE g == [s \in Small(0) |-> 0]
  <2>1. \A s \in Small(0) : s = {}
    BY CountType, FS_Subset, FS_EmptySet, FS_CardinalityType
  <2>2. Pass(0, g)
    BY <2>1 DEF Body
  <2> QED
    BY <2>2
<1>2. ASSUME NEW m \in Nat, m \in R PROVE m + 1 \in R
  <2>1. PICK g : Pass(m, g)
    BY <1>2
  <2> DEFINE k == [s \in Small(m + 1) |-> Body(h, g, s)]
  <2>2. ASSUME NEW s \in Small(m + 1), s # {} PROVE g[s \ {Pick(s)}] = k[s \ {Pick(s)}]
    <3> DEFINE r == s \ {Pick(s)}
    <3>1. Pick(s) \in s
      BY <2>2, PickIn
    <3>2. /\ Cardinality(s) \in Nat /\ r \in SUBSET Ids
          /\ Cardinality(r) = Cardinality(s) - 1
      BY <3>1, Removed
    <3>3. r \in Small(m) /\ r \in Small(m + 1)
      BY <3>2
    <3> HIDE DEF r
    <3>4. g[r] = Body(h, g, r)
      BY <2>1, <3>3
    <3>5. k[r] = Body(h, g, r)
      BY <3>3
    <3> QED
      BY <3>4, <3>5 DEF r
  <2>3. \A s \in Small(m + 1) : Body(h, g, s) = Body(h, k, s)
    BY <2>2 DEF Body
  <2>4. Pass(m + 1, k)
    BY <2>3
  <2>5. \E j : Pass(m + 1, j)
    BY <2>4
  <2> QED
    BY <2>5
<1>3. Count \in R
  BY <1>1, <1>2, CountType, NumberInduction
<1>4. Small(Count) = SUBSET Ids
  BY CountType, FS_Subset DEF Count
<1>5. \E g : g = [s \in SUBSET Ids |-> Body(h, g, s)]
  BY <1>3, <1>4
<1>6. Sums(h) = CHOOSE g : g = [s \in SUBSET Ids |-> Body(h, g, s)]
  BY DEF Sums, Body, Pick
<1> QED
  BY <1>5, <1>6

Sized(h) == \A x \in Ids : Size(h[x]) \in Nat /\ Size(h[x]) >= 2

\* A sum with one object more.
LEMMA SumOne ==
  ASSUME NEW h, Sized(h)
  PROVE  /\ Sums(h)[{}] = 0
         /\ \A s \in SUBSET Ids : Sums(h)[s] \in Nat
         /\ \A s \in SUBSET Ids : \A x \in s : Sums(h)[s] = Size(h[x]) + Sums(h)[s \ {x}]
<1> DEFINE g == Sums(h)
           I(s) == g[s] \in Nat /\ \A x \in s : g[s] = Size(h[x]) + g[s \ {x}]
           U == {m \in Nat : \A s \in SUBSET Ids : Cardinality(s) <= m => I(s)}
<1>1. \A s \in SUBSET Ids : g[s] = Body(h, g, s)
  <2>1. g = [s \in SUBSET Ids |-> Body(h, g, s)]
    BY SumsDef
  <2> HIDE DEF g
  <2> QED
    BY <2>1
<1>2. g[{}] = 0
  BY <1>1 DEF Body
<1> HIDE DEF g
<1>3. 0 \in U
  <2>1. \A s \in SUBSET Ids : Cardinality(s) <= 0 => s = {}
    BY CountType, FS_Subset, FS_EmptySet, FS_CardinalityType
  <2> QED
    BY <1>2, <2>1
<1>4. ASSUME NEW m \in Nat, m \in U PROVE m + 1 \in U
  <2> SUFFICES ASSUME NEW s \in SUBSET Ids, Cardinality(s) <= m + 1 PROVE I(s)
    OBVIOUS
  <2>1. CASE s = {}
    BY <1>2, <2>1
  <2>2. CASE s # {}
    <3> DEFINE c == Pick(s)
    <3>1. c \in s
      BY <2>2, PickIn
    <3> HIDE DEF c
    <3>2. g[s] = Size(h[c]) + g[s \ {c}]
      BY <1>1, <2>2 DEF Body, c
    <3>3. \A x \in s : Cardinality(s \ {x}) <= m /\ s \ {x} \in SUBSET Ids
      BY Removed
    <3>4. \A x \in s : I(s \ {x})
      BY <1>4, <3>3
    <3>5. \A x \in s : Size(h[x]) \in Nat
      BY DEF Sized
    <3>6. g[s] \in Nat
      BY <3>1, <3>2, <3>4, <3>5
    <3>7. ASSUME NEW x \in s, x # c PROVE g[s] = Size(h[x]) + g[s \ {x}]
      <4>1. g[s \ {c}] = Size(h[x]) + g[(s \ {c}) \ {x}]
        BY <3>1, <3>4, <3>7
      <4>2. g[s \ {x}] = Size(h[c]) + g[(s \ {x}) \ {c}]
        BY <3>1, <3>4, <3>7
      <4>3. (s \ {c}) \ {x} = (s \ {x}) \ {c}
        OBVIOUS
      <4>4. g[s \ {c}] \in Nat /\ g[s \ {x}] \in Nat /\ Size(h[c]) \in Nat /\ Size(h[x]) \in Nat
        BY <3>1, <3>4, <3>5
      <4>5. g[(s \ {x}) \ {c}] \in Nat
        <5>1. s \ {x} \in SUBSET Ids /\ c \in s \ {x} /\ Cardinality(s \ {x}) <= m
          BY <3>1, <3>3, <3>7
        <5>2. (s \ {x}) \ {c} \in SUBSET Ids /\ Cardinality((s \ {x}) \ {c}) <= m
          BY <5>1, Removed
        <5> QED
          BY <1>4, <5>2
      <4> QED
        BY <3>2, <4>1, <4>2, <4>3, <4>4, <4>5
    <3> QED
      BY <3>2, <3>6, <3>7
  <2> QED
    BY <2>1, <2>2
<1> HIDE DEF U
<1>5. Nat \subseteq U
  BY <1>3, <1>4, NumberInduction
<1>6. ASSUME NEW s \in SUBSET Ids PROVE I(s)
  <2>1. Cardinality(s) \in Nat
    BY CountType, FS_Subset, FS_CardinalityType
  <2> QED
    BY <1>5, <2>1 DEF U
<1> QED
  BY <1>2, <1>6 DEF g

\* Every object more takes two units at least.
LEMMA SumGrows ==
  ASSUME NEW h, Sized(h), NEW A, NEW B \in SUBSET Ids, A \subseteq B
  PROVE  Sums(h)[A] + 2 * Cardinality(B \ A) <= Sums(h)[B]
<1> DEFINE g == Sums(h)
           U == {m \in Nat : \A S \in SUBSET Ids :
                               A \subseteq S /\ Cardinality(S \ A) <= m => g[A] + 2 * Cardinality(S \ A) <= g[S]}
<1>1. /\ \A s \in SUBSET Ids : g[s] \in Nat
      /\ \A s \in SUBSET Ids : \A x \in s : g[s] = Size(h[x]) + g[s \ {x}]
  BY SumOne
<1> HIDE DEF g
<1>2. \A S \in SUBSET Ids : Cardinality(S \ A) \in Nat /\ (Cardinality(S \ A) <= 0 => S \ A = {})
  BY CountType, FS_Subset, FS_EmptySet, FS_CardinalityType
<1>3. Cardinality({}) = 0
  BY FS_EmptySet
<1>4. 0 \in U
  <2> SUFFICES ASSUME NEW S \in SUBSET Ids, A \subseteq S, Cardinality(S \ A) <= 0
               PROVE  g[A] + 2 * Cardinality(S \ A) <= g[S]
    OBVIOUS
  <2>1. S \ A = {} /\ S = A
    BY <1>2
  <2>2. g[A] = g[S] /\ g[S] \in Nat /\ Cardinality(S \ A) = 0
    BY <1>1, <1>3, <2>1
  <2> QED
    BY <2>2
<1>5. ASSUME NEW m \in Nat, m \in U PROVE m + 1 \in U
  <2> SUFFICES ASSUME NEW S \in SUBSET Ids, A \subseteq S, Cardinality(S \ A) <= m + 1
               PROVE  g[A] + 2 * Cardinality(S \ A) <= g[S]
    OBVIOUS
  <2>1. CASE S \ A = {}
    <3>1. S = A
      BY <2>1
    <3>2. g[A] = g[S] /\ g[S] \in Nat /\ Cardinality(S \ A) = 0
      BY <1>1, <1>3, <2>1, <3>1
    <3> QED
      BY <3>2
  <2>2. CASE S \ A # {}
    <3>1. PICK x \in S \ A : TRUE
      BY <2>2
    <3> DEFINE T == S \ {x}
    <3>2. T \in SUBSET Ids /\ A \subseteq T /\ T \ A = (S \ A) \ {x}
      OBVIOUS
    <3>3. Cardinality(S \ A) \in Nat /\ Cardinality((S \ A) \ {x}) = Cardinality(S \ A) - 1
      BY Removed
    <3>4. Cardinality(T \ A) \in Nat /\ Cardinality(T \ A) = Cardinality(S \ A) - 1
      BY <1>2, <3>2, <3>3
    <3>5. g[S] = Size(h[x]) + g[T] /\ g[T] \in Nat /\ g[A] \in Nat /\ Size(h[x]) \in Nat /\ Size(h[x]) >= 2
      BY <1>1, <3>2 DEF Sized
    <3> HIDE DEF T
    <3>6. Cardinality(T \ A) <= m
      BY <3>3, <3>4
    <3>7. g[A] + 2 * Cardinality(T \ A) <= g[T]
      BY <1>5, <3>2, <3>6
    <3> QED
      BY <3>3, <3>4, <3>5, <3>7
  <2> QED
    BY <2>1, <2>2
<1> HIDE DEF U
<1>6. Nat \subseteq U
  BY <1>4, <1>5, NumberInduction
<1> QED
  BY <1>2, <1>6 DEF U, g

-----------------------------------------------------------------------------
(* What a well-formed heap gives.                                          *)

\* The pointer i of the copy of x, before the walks.
Goal(h, x, i) == IF IsLink(h[x].kind, i) THEN h[x].ptrs[i] ELSE EndOfRefs(h, h[x].ptrs[i])

LEMMA WellSized ==
  ASSUME NEW h, WellFormed(h)
  PROVE  Sized(h)
<1> SUFFICES ASSUME NEW x \in Ids PROVE Size(h[x]) \in Nat /\ Size(h[x]) >= 2
  BY DEF Sized
<1> DEFINE k == h[x].kind
           n == Len(h[x].ptrs)
           w == h[x].words
<1>1. k \in Kinds /\ n \in Nat /\ w \in Nat
  BY DEF WellFormed
<1>2. /\ k \in {"undef", "ref"} => n = 1
      /\ k = "pair" => n >= 2
      /\ k = "leaf" => w >= 1
  BY DEF WellFormed
<1>3. Size(h[x]) = Header(k) + 2 * (n + w)
  BY DEF Size
<1> HIDE DEF k, n, w
<1>4. /\ Header(k) \in Nat
      /\ k \in {"undef", "ref", "leaf", "pair"} => Header(k) = 1
      /\ k \notin {"undef", "ref", "leaf", "pair"} => Header(k) >= 2
  BY <1>1 DEF Header, Kinds
<1> QED
  BY <1>1, <1>2, <1>3, <1>4

LEMMA EndsOfRefs ==
  ASSUME NEW h, WellFormed(h), NEW p \in Pointers
  PROVE  /\ EndOfRefs(h, p) \in Pointers
         /\ (p \in Ids => h[p].kind # "thread")
              => (EndOfRefs(h, p) \in Ids => h[EndOfRefs(h, p)].kind # "thread")
<1> DEFINE f == [q \in Pointers |-> IF q \in Ids /\ h[q].kind = "ref" THEN h[q].ptrs[1] ELSE q]
           Fields == {q \in Pointers : q \in Ids => h[q].kind # "thread"}
<1>1. EndOfRefs(h, p) = Repeated(f, p)
  BY DEF EndOfRefs
<1>2. \A q \in Ids : h[q].kind = "ref" => /\ h[q].ptrs[1] \in Pointers
                                          /\ h[q].ptrs[1] \in Ids => h[h[q].ptrs[1]].kind # "thread"
  BY DEF WellFormed, IsLink
<1>3. \A q \in Pointers : f[q] \in Pointers
  BY <1>2
<1>4. \A q \in Fields : f[q] \in Fields
  BY <1>2
<1> HIDE DEF f, Fields
<1>5. Repeated(f, p) \in Pointers
  BY <1>3, RepeatedIn
<1>6. p \in Fields => Repeated(f, p) \in Fields
  BY <1>4, RepeatedIn
<1> QED
  BY <1>1, <1>5, <1>6 DEF Fields

LEMMA Goals ==
  ASSUME NEW h, WellFormed(h), NEW x \in Ids, NEW i \in DOMAIN h[x].ptrs
  PROVE  /\ Goal(h, x, i) \in Pointers
         /\ IsLink(h[x].kind, i) /\ Goal(h, x, i) # Null
              => Goal(h, x, i) \in Ids \ {First} /\ h[Goal(h, x, i)].kind = "thread"
         /\ ~IsLink(h[x].kind, i) /\ Goal(h, x, i) \in Ids => h[Goal(h, x, i)].kind # "thread"
<1>1. h[x].ptrs[i] \in Pointers
  BY DEF WellFormed
<1>2. CASE IsLink(h[x].kind, i)
  BY <1>1, <1>2 DEF WellFormed, Goal
<1>3. CASE ~IsLink(h[x].kind, i)
  <2>1. h[x].ptrs[i] \in Ids => h[h[x].ptrs[i]].kind # "thread"
    BY <1>3 DEF WellFormed
  <2> QED
    BY <1>1, <1>3, <2>1, EndsOfRefs DEF Goal
<1> QED
  BY <1>2, <1>3

-----------------------------------------------------------------------------
(* The types, with those of the copies.                                    *)

Values == Pointers \cup ({"at"} \X Nat)
Contents == [kind : Kinds, ptrs : Seq(Values), words : Nat]

TypeInv ==
  /\ TypeOK
  /\ obj \in Heaps
  /\ \A a \in DOMAIN to : to[a] \in Contents
  /\ src # Null => field \in 1 .. Len(obj[src].ptrs) + 1

Objects == [kind : Kinds, ptrs : Seq(Pointers), words : Nat]

\* The copy at a, with one pointer more, and with other pointers.
Extended(t, a, p) == [t EXCEPT ![a].ptrs = Append(@, p)]
Filled(t, a, ptrs) == [t EXCEPT ![a].ptrs = ptrs]
\* A new copy at a.
Started(t, a, o) == [b \in DOMAIN t \cup {a} |-> IF b = a THEN [o EXCEPT !.ptrs = <<>>] ELSE t[b]]

LEMMA ExtendedIs ==
  ASSUME NEW t, NEW a, NEW p, a \in DOMAIN t => t[a] \in Contents
  PROVE  /\ DOMAIN Extended(t, a, p) = DOMAIN t
         /\ \A b \in DOMAIN t \ {a} : Extended(t, a, p)[b] = t[b]
         /\ a \in DOMAIN t =>
              /\ Extended(t, a, p)[a].kind = t[a].kind /\ Extended(t, a, p)[a].words = t[a].words
              /\ Extended(t, a, p)[a].ptrs = Append(t[a].ptrs, p)
              /\ p \in Values => Extended(t, a, p)[a] \in Contents
BY DEF Extended, Contents

LEMMA FilledIs ==
  ASSUME NEW t, NEW a, NEW ptrs, a \in DOMAIN t => t[a] \in Contents
  PROVE  /\ DOMAIN Filled(t, a, ptrs) = DOMAIN t
         /\ \A b \in DOMAIN t \ {a} : Filled(t, a, ptrs)[b] = t[b]
         /\ a \in DOMAIN t =>
              /\ Filled(t, a, ptrs)[a].kind = t[a].kind /\ Filled(t, a, ptrs)[a].words = t[a].words
              /\ Filled(t, a, ptrs)[a].ptrs = ptrs
              /\ ptrs \in Seq(Values) => Filled(t, a, ptrs)[a] \in Contents
BY DEF Filled, Contents

LEMMA StartedIs ==
  ASSUME NEW t, NEW a, NEW o \in Objects, NEW u, u = Started(t, a, o)
  PROVE  /\ DOMAIN u = DOMAIN t \cup {a}
         /\ \A b \in DOMAIN t : b # a => u[b] = t[b]
         /\ u[a] \in Contents
         /\ u[a].kind = o.kind /\ u[a].words = o.words /\ u[a].ptrs = <<>>
<1> DEFINE e == [o EXCEPT !.ptrs = <<>>]
<1>1. e \in Contents /\ e.kind = o.kind /\ e.words = o.words /\ e.ptrs = <<>>
  <2>1. e = [kind |-> o.kind, ptrs |-> <<>>, words |-> o.words]
    BY DEF Objects
  <2>2. <<>> \in Seq(Values)
    OBVIOUS
  <2> QED
    BY <2>1, <2>2 DEF Contents, Objects
<1> HIDE DEF e
<1>2. u = [b \in DOMAIN t \cup {a} |-> IF b = a THEN e ELSE t[b]]
  BY DEF Started, e
<1> QED
  BY <1>1, <1>2

\* What CopyLink and CopyField do.
CopyPointer(p) ==
  /\ phase = "copy" /\ src \in Ids /\ field \in DOMAIN obj[src].ptrs /\ p = Goal(obj, src, field)
  /\ to' = Extended(to, top, p)
  /\ \/ (p \in Ids => p \in marked) /\ UNCHANGED <<stack, marked>>
     \/ p \in Ids /\ (p \notin marked \/ IsLink(obj[src].kind, field)) /\ StackAdd(p)
  /\ field' = field + 1
  /\ UNCHANGED <<obj, src, fwd, top, cursor, base, old, roots, phase>>

LEMMA CopiesPointer ==
  ASSUME TypeInv, CopyLink \/ CopyField
  PROVE  CopyPointer(Goal(obj, src, field))
<1>1. src \in Ids /\ WellFormed(obj) /\ src # Null
  BY HeapsAssumption DEF TypeInv, TypeOK, CopyLink, CopyField
<1>2. obj[src].ptrs \in Seq(Pointers)
  BY <1>1 DEF WellFormed
<1>3. field \in DOMAIN obj[src].ptrs
  BY <1>1, <1>2 DEF TypeInv, CopyLink, CopyField
<1>4. CASE CopyLink
  <2>1. IsLink(obj[src].kind, field) /\ obj[src].ptrs[field] = Goal(obj, src, field)
    BY <1>4 DEF CopyLink, Goal
  <2>2. Goal(obj, src, field) # Null => Goal(obj, src, field) \in Ids
    BY <1>1, <1>3, <2>1, Goals
  <2> QED
    BY <1>1, <1>3, <1>4, <2>1, <2>2, PointersAssumption DEF CopyLink, CopyPointer, Extended
<1>5. CASE CopyField
  <2>1. ~IsLink(obj[src].kind, field) /\ Target(obj[src].ptrs[field]) = Goal(obj, src, field)
    BY <1>5 DEF CopyField, Goal, Target
  <2> QED
    BY <1>1, <1>3, <1>5, <2>1 DEF CopyField, CopyPointer, Extended
<1> QED
  BY <1>4, <1>5

LEMMA Resized ==
  ASSUME NEW o \in Contents
  PROVE  Size(o) \in Nat /\ Stride(o) \in Nat
<1> DEFINE n == Len(o.ptrs)
           k == o.kind
           w == o.words
<1>1. n \in Nat /\ k \in Kinds /\ w \in Nat
  BY DEF Contents
<1>2. Size(o) = Header(k) + 2 * (n + w) /\ Stride(o) = IF k = "tuple" THEN Header("tuple") + 15 * n ELSE Size(o)
  BY DEF Size, Stride
<1> HIDE DEF n, k, w
<1>3. Header(k) \in Nat /\ Header("tuple") = 4
  BY <1>1 DEF Header, Kinds
<1> QED
  BY <1>1, <1>2, <1>3

LEMMA InitTypes == Init => TypeInv
<1> SUFFICES ASSUME Init PROVE TypeInv
  OBVIOUS
<1>1. WellFormed(obj) /\ base \in Nat
  BY HeapsAssumption, BasesAssumption DEF Init
<1>2. TypeOK
  BY <1>1, PointersAssumption DEF Init, TypeOK, WellFormed, NoAddress
<1> QED
  BY <1>2 DEF Init, TypeInv

LEMMA TypesKept == TypeInv /\ [Next]_vars => TypeInv'
<1> SUFFICES ASSUME TypeInv, [Next]_vars PROVE TypeInv'
  OBVIOUS
<1> USE DEF copyVars
<1>1. WellFormed(obj)
  BY HeapsAssumption DEF TypeInv
<1>2. \A x \in Ids : obj[x] \in [kind : Kinds, ptrs : Seq(Pointers), words : Nat] /\ Len(obj[x].ptrs) \in Nat
  BY <1>1 DEF WellFormed
<1>3. CASE StackPop
  <2>1. src' \in Ids /\ stack' \in Seq(Ids) /\ field' = 1
    BY <1>3 DEF StackPop, TypeInv, TypeOK
  <2>2. to' = Started(to, top, obj[src'])
    BY <1>3 DEF StackPop, Started
  <2>3. DOMAIN to' = DOMAIN to \cup {top} /\ \A a \in DOMAIN to' : to'[a] \in Contents
    <3>1. PICK o \in Objects : o = obj[src']
      BY <1>2, <2>1 DEF Objects
    <3>2. PICK t : t = Started(to, top, o)
      OBVIOUS
    <3>3. to' = t
      BY ONLY <2>2, <3>1, <3>2
    <3>6. DOMAIN t = DOMAIN to \cup {top}
      BY <3>2, StartedIs
    <3>7. t[top] \in Contents
      BY <3>2, StartedIs
    <3>8. \A b \in DOMAIN to : b # top => t[b] = to[b]
      BY <3>2 DEF Started
    <3>4. \A a \in DOMAIN to : to[a] \in Contents
      BY DEF TypeInv
    <3>5. \A a \in DOMAIN t : t[a] \in Contents
      BY <3>4, <3>6, <3>7, <3>8
    <3> QED
      BY <3>3, <3>5, <3>6
  <2>4. UNCHANGED <<obj, marked, fwd, top, cursor, base, old, roots, phase>>
    BY <1>3 DEF StackPop
  <2> QED
    BY <1>2, <2>1, <2>3, <2>4 DEF TypeInv, TypeOK
<1>4. CASE CopyLink \/ CopyField
  <2> DEFINE p == Goal(obj, src, field)
  <2>1. CopyPointer(p)
    BY <1>4, CopiesPointer
  <2>2. p \in Pointers
    BY <1>1, <2>1, Goals DEF CopyPointer
  <2> HIDE DEF p
  <2>3. DOMAIN to' = DOMAIN to /\ \A a \in DOMAIN to' : to'[a] \in Contents
    <3>1. to' = Extended(to, top, p) /\ p \in Values
      BY <2>1, <2>2 DEF CopyPointer, Values
    <3> QED
      BY <3>1, ExtendedIs DEF TypeInv
  <2>4. stack' \in Seq(Ids) /\ marked' \subseteq Ids
    <3>1. stack \in Seq(Ids) /\ marked \subseteq Ids
      BY DEF TypeInv, TypeOK
    <3>2. \/ UNCHANGED <<stack, marked>>
          \/ p \in Ids /\ stack' = Append(stack, p) /\ marked' = marked \cup {p}
      BY <2>1 DEF CopyPointer, StackAdd
    <3> QED
      BY <3>1, <3>2
  <2>5. field' \in 1 .. Len(obj[src].ptrs) + 1 /\ src \in Ids
    BY <1>2, <2>1 DEF CopyPointer
  <2> QED
    BY <2>1, <2>3, <2>4, <2>5 DEF CopyPointer, TypeInv, TypeOK
<1>5. CASE Forward
  <2>1. src \in Ids
    BY <1>5 DEF Forward, TypeInv, TypeOK
  <2>2. Sized(obj)
    BY <1>1, WellSized
  <2>3. Size(obj[src]) \in Nat
    BY <2>1, <2>2 DEF Sized
  <2>4. fwd' \in [Ids -> Nat \cup {NoAddress}] /\ top' \in Nat
    BY <1>5, <2>3 DEF Forward, TypeInv, TypeOK
  <2> QED
    BY <1>5, <2>4 DEF Forward, TypeInv, TypeOK
<1>6. CASE StartRelax \/ EndRelax \/ KeepPlace \/ EndOffset \/ Ended
  BY <1>6 DEF StartRelax, EndRelax, KeepPlace, EndOffset, Ended, vars, TypeInv, TypeOK
<1>7. ASSUME NEW b \in Bases, ChangePlace(b) PROVE TypeInv'
  BY <1>7, BasesAssumption DEF ChangePlace, TypeInv, TypeOK
<1>8. CASE Relax
  <2> DEFINE ptrs == [i \in DOMAIN to[cursor].ptrs |-> Relaxed(to[cursor].ptrs[i])]
  <2>1. cursor \in DOMAIN to /\ to[cursor] \in Contents /\ to' = Filled(to, cursor, ptrs)
    BY <1>8 DEF Relax, Walk, Filled, TypeInv
  <2>2. \A v \in Values : Relaxed(v) \in Values
    <3>1. \A x \in Ids : fwd[x] # NoAddress => base + fwd[x] \in Nat
      BY DEF TypeInv, TypeOK
    <3> QED
      BY <3>1 DEF Relaxed, Values, At
  <2>3. ptrs \in Seq(Values)
    BY <2>1, <2>2 DEF Contents
  <2> HIDE DEF ptrs
  <2>4. DOMAIN to' = DOMAIN to /\ \A a \in DOMAIN to' : to'[a] \in Contents
    BY <2>1, <2>3, FilledIs DEF TypeInv
  <2>5. cursor' = cursor + Stride(to[cursor]) /\ UNCHANGED <<obj, copyVars, top, base, old, roots, phase>>
    BY <1>8 DEF Relax, Walk
  <2>6. Stride(to[cursor]) \in Nat
    BY <2>1, Resized
  <2> QED
    BY <2>4, <2>5, <2>6 DEF TypeInv, TypeOK
<1>9. CASE Offset
  <2> DEFINE ptrs == [i \in DOMAIN to[cursor].ptrs |-> Moved(to[cursor].ptrs[i])]
  <2>1. cursor \in DOMAIN to /\ to[cursor] \in Contents /\ to' = Filled(to, cursor, ptrs)
    BY <1>9 DEF Offset, Walk, Filled, TypeInv
  <2>2. \A v \in Values : Moved(v) \in Values
    BY DEF Moved, Values, At, TypeInv, TypeOK
  <2>3. ptrs \in Seq(Values)
    BY <2>1, <2>2 DEF Contents
  <2> HIDE DEF ptrs
  <2>4. DOMAIN to' = DOMAIN to /\ \A a \in DOMAIN to' : to'[a] \in Contents
    BY <2>1, <2>3, FilledIs DEF TypeInv
  <2>5. cursor' = cursor + Size(to[cursor]) /\ UNCHANGED <<obj, copyVars, top, base, old, roots, phase>>
    BY <1>9 DEF Offset, Walk
  <2>6. Size(to[cursor]) \in Nat
    BY <2>1, Resized
  <2> QED
    BY <2>4, <2>5, <2>6 DEF TypeInv, TypeOK
<1>10. CASE UNCHANGED vars
  BY <1>10 DEF vars, TypeInv, TypeOK
<1> QED
  BY <1>3, <1>4, <1>5, <1>6, <1>7, <1>8, <1>9, <1>10 DEF Next

\* Objects, copies, stack and roots are always what the types say.
THEOREM TypeCorrect == Spec => []TypeOK
<1>1. TypeInv => TypeOK
  BY DEF TypeInv
<1> QED
  BY InitTypes, TypesKept, <1>1, PTL DEF Spec

-----------------------------------------------------------------------------
(* The marks: each marked object is copied, current or on the stack, in    *)
(* one of these and once.  A thread that is linked from an object that has *)
(* not been copied as far as the link is not marked: CopyLink, which does  *)
(* not look at the mark, pushes no thread twice.                           *)

Copied == {x \in Ids : fwd[x] # NoAddress}

PastLink(x) == fwd[x] # NoAddress \/ (src = x /\ field > 1)

StackInv ==
  /\ \A i, j \in 1 .. Len(stack) : stack[i] = stack[j] => i = j
  /\ \A i \in 1 .. Len(stack) : stack[i] \in marked /\ fwd[stack[i]] = NoAddress /\ stack[i] # src
MarkInv ==
  /\ \A x \in Ids : fwd[x] # NoAddress => x \in marked
  /\ src # Null => src \in marked /\ fwd[src] = NoAddress
  /\ \A x \in marked : fwd[x] # NoAddress \/ x = src \/ \E i \in 1 .. Len(stack) : stack[i] = x
LinkInv ==
  \A x \in Ids : IsLink(obj[x].kind, 1) /\ obj[x].ptrs[1] # Null /\ ~PastLink(x) => obj[x].ptrs[1] \notin marked
TopInv == top = Sums(obj)[Copied]
EndInv == phase # "copy" => src = Null /\ stack = <<>>

CopyInv == StackInv /\ MarkInv /\ LinkInv /\ TopInv /\ EndInv

LEMMA InitCopy == Init => CopyInv
<1> SUFFICES ASSUME Init PROVE CopyInv
  OBVIOUS
<1>1. WellFormed(obj)
  BY HeapsAssumption DEF Init
<1>2. Copied = {}
  BY DEF Copied, Init
<1>3. Sums(obj)[{}] = 0
  BY <1>1, WellSized, SumOne
<1>4. LinkInv
  <2>1. \A x \in Ids : IsLink(obj[x].kind, 1) /\ obj[x].ptrs[1] # Null => obj[x].ptrs[1] # First
    <3> SUFFICES ASSUME NEW x \in Ids, IsLink(obj[x].kind, 1), obj[x].ptrs[1] # Null
                 PROVE  obj[x].ptrs[1] # First
      OBVIOUS
    <3>1. 1 \in DOMAIN obj[x].ptrs
      BY <1>1 DEF WellFormed, IsLink
    <3> QED
      BY <1>1, <3>1 DEF WellFormed
  <2> QED
    BY <2>1 DEF LinkInv, Init
<1> QED
  BY <1>2, <1>3, <1>4, PointersAssumption DEF CopyInv, StackInv, MarkInv, TopInv, EndInv, Init

\* The first pointer of an object that has a link.
LEMMA Links ==
  ASSUME NEW h, WellFormed(h), NEW x \in Ids, NEW i, IsLink(h[x].kind, i)
  PROVE  /\ i = 1 /\ 1 \in DOMAIN h[x].ptrs /\ Goal(h, x, 1) = h[x].ptrs[1]
         /\ h[x].ptrs[1] # Null => h[x].ptrs[1] \in Ids \ {First} /\ h[h[x].ptrs[1]].kind = "thread"
         /\ \A y \in Ids : IsLink(h[y].kind, 1) /\ h[y].ptrs[1] = h[x].ptrs[1] /\ h[x].ptrs[1] # Null => x = y
<1>1. i = 1
  BY DEF IsLink
<1>2. 1 \in DOMAIN h[x].ptrs
  BY DEF WellFormed, IsLink
<1> QED
  BY <1>1, <1>2 DEF WellFormed, Goal

LEMMA Popped ==
  ASSUME NEW s \in Seq(Ids), s # <<>>
  PROVE  /\ Len(s) \in Nat /\ Len(s) >= 1 /\ Len(SubSeq(s, 1, Len(s) - 1)) = Len(s) - 1
         /\ \A i \in 1 .. Len(s) - 1 : SubSeq(s, 1, Len(s) - 1)[i] = s[i]
<1>1. Len(s) \in Nat /\ Len(s) >= 1
  OBVIOUS
<1> DEFINE n == Len(s) - 1
<1>2. \A i \in 1 .. n : s[i] \in Ids
  BY <1>1
<1>3. n \in Int /\ n >= 0
  BY <1>1
<1> HIDE DEF n
<1>4. /\ Len(SubSeq(s, 1, n)) = IF 1 <= n THEN n - 1 + 1 ELSE 0
      /\ \A i \in 1 .. n - 1 + 1 : SubSeq(s, 1, n)[i] = s[1 + i - 1]
  BY <1>2, <1>3, SubSeqProperties
<1>5. Len(SubSeq(s, 1, n)) = n /\ \A i \in 1 .. n : SubSeq(s, 1, n)[i] = s[i]
  BY <1>3, <1>4
<1> QED
  BY <1>1, <1>5 DEF n

LEMMA CopyKept == TypeInv /\ CopyInv /\ [Next]_vars => CopyInv'
<1> SUFFICES ASSUME TypeInv, CopyInv, [Next]_vars PROVE CopyInv'
  OBVIOUS
<1>1. WellFormed(obj)
  BY HeapsAssumption DEF TypeInv
<1>2. /\ stack \in Seq(Ids) /\ src \in Ids \cup {Null} /\ field \in Nat /\ marked \subseteq Ids /\ top \in Nat
      /\ fwd \in [Ids -> Nat \cup {NoAddress}]
  BY DEF TypeInv, TypeOK
<1>3. CASE StackPop
  <2>1. /\ src = Null /\ stack # <<>> /\ src' = stack[Len(stack)] /\ stack' = SubSeq(stack, 1, Len(stack) - 1)
        /\ field' = 1 /\ UNCHANGED <<obj, marked, fwd, top, phase>> /\ phase = "copy"
    BY <1>3 DEF StackPop
  <2>2. /\ Len(stack) \in Nat /\ Len(stack) >= 1 /\ Len(stack') = Len(stack) - 1
        /\ \A i \in 1 .. Len(stack') : stack'[i] = stack[i]
    <3>1. stack \in Seq(Ids) /\ stack # <<>>
      BY <1>2, <2>1
    <3>2. /\ Len(stack) \in Nat /\ Len(stack) >= 1 /\ Len(SubSeq(stack, 1, Len(stack) - 1)) = Len(stack) - 1
          /\ \A i \in 1 .. Len(stack) - 1 : SubSeq(stack, 1, Len(stack) - 1)[i] = stack[i]
      BY <3>1, Popped
    <3> QED
      BY <2>1, <3>2
  <2>3. src' \in Ids
    BY <1>2, <2>1, <2>2
  <2>4. StackInv'
    BY <2>1, <2>2 DEF CopyInv, StackInv
  <2>5. MarkInv'
    <3>1. src' \in marked /\ fwd[src'] = NoAddress
      BY <2>1, <2>2 DEF CopyInv, StackInv
    <3>2. \A x \in marked : fwd[x] # NoAddress \/ \E i \in 1 .. Len(stack) : stack[i] = x
      BY <1>2, <2>1, PointersAssumption DEF CopyInv, MarkInv
    <3>3. \A x \in marked : fwd[x] # NoAddress \/ x = src' \/ \E i \in 1 .. Len(stack') : stack'[i] = x
      BY <2>1, <2>2, <3>2
    <3> QED
      BY <2>1, <3>1, <3>3 DEF CopyInv, MarkInv
  <2>6. LinkInv'
    BY <1>2, <2>1, PointersAssumption DEF CopyInv, LinkInv, PastLink
  <2> QED
    BY <2>1, <2>4, <2>5, <2>6 DEF CopyInv, TopInv, EndInv, Copied
<1>4. CASE CopyLink \/ CopyField
  <2> DEFINE p == Goal(obj, src, field)
  <2>1. CopyPointer(p)
    BY <1>4, CopiesPointer
  <2>2. /\ src \in Ids /\ field \in DOMAIN obj[src].ptrs /\ field \in Nat /\ field >= 1 /\ phase = "copy"
        /\ field' = field + 1 /\ UNCHANGED <<obj, src, fwd, top, phase>>
    BY <1>1, <2>1 DEF CopyPointer, WellFormed
  <2>3. /\ IsLink(obj[src].kind, field) /\ p # Null => p = obj[src].ptrs[1] /\ field = 1 /\ p \in Ids
        /\ ~IsLink(obj[src].kind, field) /\ p \in Ids => obj[p].kind # "thread"
    <3>1. CASE IsLink(obj[src].kind, field)
      BY <1>1, <2>2, <3>1, Links
    <3>2. CASE ~IsLink(obj[src].kind, field)
      BY <1>1, <2>2, <3>2, Goals
    <3> QED
      BY <3>1, <3>2
  <2> HIDE DEF p
  <2>4. CASE UNCHANGED <<stack, marked>>
    BY <2>2, <2>4 DEF CopyInv, StackInv, MarkInv, LinkInv, TopInv, EndInv, PastLink, Copied
  <2>5. CASE ~UNCHANGED <<stack, marked>>
    <3>1. p \in Ids /\ stack' = Append(stack, p) /\ marked' = marked \cup {p}
          /\ (p \notin marked \/ IsLink(obj[src].kind, field))
      BY <2>1, <2>5 DEF CopyPointer, StackAdd
    <3>2. p \notin marked
      BY <1>2, <2>2, <2>3, <3>1, PointersAssumption DEF CopyInv, LinkInv, MarkInv, PastLink
    <3>3. /\ Len(stack) \in Nat /\ Len(stack') = Len(stack) + 1 /\ stack'[Len(stack) + 1] = p
          /\ \A i \in 1 .. Len(stack) : stack'[i] = stack[i]
      BY <1>2, <3>1
    <3>4. fwd[p] = NoAddress /\ p # src /\ \A i \in 1 .. Len(stack) : stack[i] # p
      BY <2>2, <3>1, <3>2, PointersAssumption DEF CopyInv, MarkInv, StackInv
    <3>5. StackInv'
      <4>1. \A i \in 1 .. Len(stack') : i = Len(stack) + 1 \/ i \in 1 .. Len(stack)
        BY <3>3
      <4> QED
        BY <2>2, <3>1, <3>3, <3>4, <4>1 DEF CopyInv, StackInv
    <3>6. MarkInv'
      <4>1. \A x \in marked' : fwd[x] # NoAddress \/ x = src \/ \E i \in 1 .. Len(stack') : stack'[i] = x
        BY <3>1, <3>3 DEF CopyInv, MarkInv
      <4> QED
        BY <2>2, <3>1, <4>1 DEF CopyInv, MarkInv
    <3>7. LinkInv'
      <4> SUFFICES ASSUME NEW x \in Ids, IsLink(obj[x].kind, 1), obj[x].ptrs[1] # Null, ~PastLink(x)'
                   PROVE  obj[x].ptrs[1] \notin marked'
        BY <2>2 DEF LinkInv
      <4>1. ~PastLink(x)
        BY <2>2 DEF PastLink
      <4>2. obj[x].ptrs[1] \notin marked
        BY <4>1 DEF CopyInv, LinkInv
      <4>3. obj[x].ptrs[1] \in Ids /\ obj[obj[x].ptrs[1]].kind = "thread"
        BY <1>1, Links
      <4>4. obj[x].ptrs[1] # p
        <5>1. CASE IsLink(obj[src].kind, field)
          <6>1. x # src
            BY <2>2 DEF PastLink
          <6> QED
            BY <1>1, <2>2, <2>3, <3>1, <5>1, <6>1, Links, PointersAssumption
        <5>2. CASE ~IsLink(obj[src].kind, field)
          BY <2>3, <3>1, <4>3, <5>2
        <5> QED
          BY <5>1, <5>2
      <4> QED
        BY <3>1, <4>2, <4>4
    <3> QED
      BY <2>2, <3>5, <3>6, <3>7 DEF CopyInv, TopInv, EndInv, Copied
  <2> QED
    BY <2>4, <2>5
<1>5. CASE Forward
  <2>1. /\ phase = "copy" /\ src # Null /\ fwd' = [fwd EXCEPT ![src] = top] /\ top' = top + Size(obj[src])
        /\ src' = Null /\ UNCHANGED <<obj, marked, stack, field, phase>>
    BY <1>5 DEF Forward
  <2>2. src \in Ids /\ src # src' /\ fwd[src] = NoAddress /\ src \in marked /\ src' \notin Ids
    BY <1>2, <2>1, PointersAssumption DEF CopyInv, MarkInv
  <2>3. fwd'[src] # NoAddress /\ \A x \in Ids \ {src} : fwd'[x] = fwd[x]
    BY <1>2, <2>1, <2>2 DEF NoAddress
  <2>4. StackInv'
    BY <1>2, <2>1, <2>2, <2>3 DEF CopyInv, StackInv
  <2>5. MarkInv'
    BY <1>2, <2>1, <2>2, <2>3 DEF CopyInv, MarkInv
  <2>6. LinkInv'
    BY <1>2, <2>1, <2>2, <2>3 DEF CopyInv, LinkInv, PastLink
  <2>7. TopInv'
    <3> DEFINE C == Copied \cup {src}
    <3>1. Copied' = C /\ src \in C /\ C \ {src} = Copied /\ C \in SUBSET Ids
      BY <2>2, <2>3 DEF Copied
    <3> HIDE DEF C
    <3>2. Sized(obj)
      BY <1>1, WellSized
    <3>3. Sums(obj)[C] = Size(obj[src]) + Sums(obj)[C \ {src}]
      BY <3>1, <3>2, SumOne
    <3>4. Sums(obj)[C \ {src}] \in Nat /\ Size(obj[src]) \in Nat
      BY <2>2, <3>1, <3>2, SumOne DEF Sized
    <3>5. top = Sums(obj)[Copied]
      BY DEF CopyInv, TopInv
    <3>6. top' = Sums(obj)[C]
      <4>1. top = Sums(obj)[C \ {src}]
        BY <3>1, <3>5, Zenon
      <4> QED
        BY <2>1, <3>3, <3>4, <4>1
    <3>7. obj' = obj
      BY <2>1
    <3> QED
      BY <3>1, <3>6, <3>7 DEF TopInv
  <2> QED
    BY <2>1, <2>4, <2>5, <2>6, <2>7 DEF CopyInv, EndInv
<1>6. CASE UNCHANGED <<obj, marked, stack, src, field, fwd, top>> /\ ((phase' # "copy") => src = Null /\ stack = <<>>)
  BY <1>6 DEF CopyInv, StackInv, MarkInv, LinkInv, TopInv, EndInv, PastLink, Copied
<1>7. CASE StartRelax
  BY <1>6, <1>7 DEF StartRelax, copyVars
<1>8. CASE Relax \/ EndRelax \/ KeepPlace \/ (\E b \in Bases : ChangePlace(b)) \/ Offset \/ EndOffset
  <2>1. UNCHANGED <<obj, marked, stack, src, field, fwd, top>> /\ phase # "copy"
    BY <1>8 DEF Relax, EndRelax, KeepPlace, ChangePlace, Offset, EndOffset, Walk, copyVars
  <2> QED
    BY <1>6, <2>1 DEF CopyInv, EndInv
<1>9. CASE Ended \/ UNCHANGED vars
  BY <1>6, <1>9 DEF Ended, vars, copyVars, CopyInv, EndInv
<1> QED
  BY <1>3, <1>4, <1>5, <1>7, <1>8, <1>9 DEF Next

\* The stack's objects are marked, not copied and not current, each once: with
\* their sizes, and the current one's, the sum over all objects has room.
LEMMA MarksApart == TypeInv /\ CopyInv => MarkStackApart
<1> SUFFICES ASSUME TypeInv, CopyInv PROVE MarkStackApart
  OBVIOUS
<1> DEFINE S == {stack[i] : i \in 1 .. Len(stack)}
           A == IF src = Null THEN Copied ELSE Copied \cup {src}
           now == IF src = Null THEN 0 ELSE Size(obj[src])
<1>1. WellFormed(obj) /\ Sized(obj)
  BY HeapsAssumption, WellSized DEF TypeInv
<1>2. stack \in Seq(Ids) /\ src \in Ids \cup {Null} /\ Len(stack) \in Nat
  BY DEF TypeInv, TypeOK
<1>3. S \in SUBSET Ids /\ A \in SUBSET Ids /\ Copied \in SUBSET Ids
  BY <1>2 DEF Copied
<1>4. S \cap A = {}
  BY DEF CopyInv, StackInv, Copied
<1>5. Cardinality(S) = Len(stack)
  <2> DEFINE f == [i \in 1 .. Len(stack) |-> stack[i]]
  <2>1. f \in Bijection(1 .. Len(stack), S)
    <3>1. \A i, j \in 1 .. Len(stack) : f[i] = f[j] => i = j
      BY DEF CopyInv, StackInv
    <3>2. f \in [1 .. Len(stack) -> S] /\ \A x \in S : \E i \in 1 .. Len(stack) : f[i] = x
      OBVIOUS
    <3> HIDE DEF f, S
    <3> QED
      BY <3>1, <3>2, Fun_IsBij
  <2> HIDE DEF f, S
  <2>2. IsFiniteSet(1 .. Len(stack)) /\ Cardinality(1 .. Len(stack)) = Len(stack)
    BY <1>2, FS_Interval
  <2> DEFINE D == 1 .. Len(stack)
  <2> HIDE DEF D
  <2>3. Cardinality(1 .. Len(stack)) = Cardinality(S)
    <3>1. ExistsBijection(D, S)
      BY <2>1 DEF D, ExistsBijection
    <3>2. Cardinality(S) = Cardinality(D)
      BY <2>2, <3>1, FS_Bijection DEF D
    <3> QED
      BY <3>2 DEF D
  <2> QED
    BY <2>2, <2>3
<1>6. Sums(obj)[A] = top + now /\ top \in Nat /\ now \in Nat
  <2>1. top = Sums(obj)[Copied] /\ top \in Nat
    BY DEF CopyInv, TopInv, TypeInv, TypeOK
  <2>2. CASE src = Null
    BY <2>1, <2>2
  <2>3. CASE src # Null
    <3>1. src \in Ids /\ src \in A /\ A \ {src} = Copied
      BY <1>2, <2>3 DEF CopyInv, MarkInv, Copied
    <3> HIDE DEF A
    <3>2. Sums(obj)[A] = Size(obj[src]) + Sums(obj)[A \ {src}]
      BY <1>1, <1>3, <3>1, SumOne
    <3>3. Sums(obj)[A \ {src}] = top
      BY <2>1, <3>1, Zenon
    <3>4. Size(obj[src]) \in Nat
      BY <1>1, <3>1 DEF Sized
    <3> QED
      BY <2>1, <2>3, <3>2, <3>3, <3>4
  <2> QED
    BY <2>2, <2>3
<1> HIDE DEF S, A, now
<1>7. Sums(obj)[A] + 2 * Len(stack) <= Sums(obj)[Ids]
  <2>1. Sums(obj)[A] + 2 * Cardinality(Ids \ A) <= Sums(obj)[Ids]
    BY <1>1, <1>3, SumGrows
  <2>2. Cardinality(S) <= Cardinality(Ids \ A) /\ Cardinality(Ids \ A) \in Nat
    <3>1. S \subseteq Ids \ A
      BY <1>3, <1>4
    <3>2. IsFiniteSet(Ids \ A)
      BY CountType, FS_Subset
    <3> QED
      BY <3>1, <3>2, FS_Subset, FS_CardinalityType
  <2>3. Sums(obj)[A] \in Nat /\ Sums(obj)[Ids] \in Nat
    BY <1>1, <1>3, SumOne
  <2> QED
    BY <1>2, <1>5, <2>1, <2>2, <2>3
<1> QED
  BY <1>2, <1>6, <1>7, SumsIs DEF MarkStackApart, now

LEMMA CopyAlways == Spec => [](TypeInv /\ CopyInv)
<1>1. Init => TypeInv /\ CopyInv
  BY InitTypes, InitCopy
<1>2. TypeInv /\ CopyInv /\ [Next]_vars => (TypeInv /\ CopyInv)'
  BY TypesKept, CopyKept
<1> QED
  BY <1>1, <1>2, PTL DEF Spec

\* The mark stack, which grows down from the end of the half, never meets the
\* copies, which grow up in it, whatever the heap holds.
THEOREM MarkStackSafe == Spec => []MarkStackApart
BY CopyAlways, MarksApart, PTL

-----------------------------------------------------------------------------
(* What the queue reaches: the least closed set of objects with First.     *)

Closed(h, P) == \A x \in P : \A i \in DOMAIN h[x].ptrs : Goal(h, x, i) \in Ids => Goal(h, x, i) \in P

Grow(h) ==
  [S \in SUBSET Ids |-> S \cup ((UNION {{Goal(h, x, i) : i \in DOMAIN h[x].ptrs} : x \in S}) \cap Ids)]
Live(h) == Repeated(Grow(h), {First})

LEMMA ReachedIs == Reached = Live(obj)
BY DEF Reached, Live, Grow, Children, Goal, Target

LEMMA Grows ==
  ASSUME NEW h, NEW S \in SUBSET Ids
  PROVE  /\ Grow(h)[S] \in SUBSET Ids /\ S \subseteq Grow(h)[S]
         /\ \A P \in SUBSET Ids : S \subseteq P /\ Closed(h, P) => Grow(h)[S] \subseteq P
         /\ Grow(h)[S] = S => Closed(h, S)
<1> DEFINE of(x) == {Goal(h, x, i) : i \in DOMAIN h[x].ptrs}
           W == {of(x) : x \in S}
           Q == (UNION W) \cap Ids
<1>1. Grow(h)[S] = S \cup Q
  BY DEF Grow
<1>2. /\ \A q \in Q : q \in Ids /\ \E x \in S : \E i \in DOMAIN h[x].ptrs : q = Goal(h, x, i)
      /\ \A x \in S : \A i \in DOMAIN h[x].ptrs : Goal(h, x, i) \in Ids => Goal(h, x, i) \in Q
  <2>1. /\ \A c \in W : \E x \in S : \A q \in c : \E i \in DOMAIN h[x].ptrs : q = Goal(h, x, i)
        /\ \A x \in S : \E c \in W : \A i \in DOMAIN h[x].ptrs : Goal(h, x, i) \in c
    <3>1. ASSUME NEW c \in W PROVE \E x \in S : \A q \in c : \E i \in DOMAIN h[x].ptrs : q = Goal(h, x, i)
      <4>1. PICK x \in S : c = {Goal(h, x, i) : i \in DOMAIN h[x].ptrs}
        OBVIOUS
      <4>2. \A q \in c : \E i \in DOMAIN h[x].ptrs : q = Goal(h, x, i)
        BY <4>1
      <4> QED
        BY <4>2
    <3>2. ASSUME NEW x \in S PROVE \E c \in W : \A i \in DOMAIN h[x].ptrs : Goal(h, x, i) \in c
      <4>1. of(x) \in W /\ \A i \in DOMAIN h[x].ptrs : Goal(h, x, i) \in of(x)
        OBVIOUS
      <4> HIDE DEF of
      <4> QED
        BY <4>1
    <3> QED
      BY <3>1, <3>2
  <2> HIDE DEF W
  <2>2. \A q : q \in Q <=> q \in Ids /\ \E c \in W : q \in c
    OBVIOUS
  <2> HIDE DEF Q
  <2>3. ASSUME NEW q \in Q PROVE q \in Ids /\ \E x \in S : \E i \in DOMAIN h[x].ptrs : q = Goal(h, x, i)
    BY <2>1, <2>2, <2>3
  <2>4. ASSUME NEW x \in S, NEW i \in DOMAIN h[x].ptrs, Goal(h, x, i) \in Ids PROVE Goal(h, x, i) \in Q
    BY <2>1, <2>2, <2>4
  <2> QED
    BY <2>3, <2>4
<1> HIDE DEF Q
<1> QED
  BY <1>1, <1>2 DEF Closed

LEMMA LiveIs ==
  ASSUME NEW h
  PROVE  /\ Live(h) \in SUBSET Ids /\ First \in Live(h) /\ Closed(h, Live(h))
         /\ \A P \in SUBSET Ids : First \in P /\ Closed(h, P) => Live(h) \subseteq P
<1> DEFINE f == Grow(h)
           All == SUBSET Ids
<1>1. {First} \in All
  BY PointersAssumption
<1>2. PICK g : Steps(f, {First}, g) /\ Live(h) = g[Count]
  BY RepeatedIs DEF Live
<1>3. /\ g[0] = {First}
      /\ \A k \in Nat : k + 1 <= Count => g[k + 1] = f[g[k]]
  BY <1>2 DEF Steps
<1> DEFINE U == {k \in Nat : k <= Count =>
                    /\ g[k] \in All /\ First \in g[k]
                    /\ f[g[k]] = g[k] \/ Cardinality(g[k]) >= k + 1}
<1> HIDE DEF f
<1>4. \A S \in All : f[S] \in All /\ S \subseteq f[S]
  BY Grows DEF f
<1>5. \A S \in All : IsFiniteSet(S) /\ Cardinality(S) \in Nat /\ Cardinality(S) <= Count
  BY CountType, FS_Subset, FS_CardinalityType DEF Count
<1>6. 0 \in U
  BY <1>1, <1>3, FS_Singleton
<1>7. ASSUME NEW k \in Nat, k \in U PROVE k + 1 \in U
  <2> SUFFICES ASSUME k + 1 <= Count
               PROVE  /\ g[k + 1] \in All /\ First \in g[k + 1]
                      /\ f[g[k + 1]] = g[k + 1] \/ Cardinality(g[k + 1]) >= k + 2
    OBVIOUS
  <2>1. g[k] \in All /\ First \in g[k] /\ (f[g[k]] = g[k] \/ Cardinality(g[k]) >= k + 1)
    BY <1>7, CountType
  <2>2. g[k + 1] = f[g[k]]
    BY <1>3
  <2>3. g[k + 1] \in All /\ First \in g[k + 1] /\ g[k] \subseteq g[k + 1]
    BY <1>4, <2>1, <2>2
  <2>4. CASE f[g[k]] = g[k]
    BY <2>2, <2>3, <2>4
  <2>5. CASE f[g[k]] # g[k] /\ Cardinality(g[k]) >= k + 1
    <3>1. g[k] # g[k + 1]
      BY <2>2, <2>5
    <3>2. Cardinality(g[k]) < Cardinality(g[k + 1])
      BY <1>5, <2>3, <3>1, FS_Subset
    <3> QED
      BY <1>5, <2>1, <2>3, <2>5, <3>2
  <2> QED
    BY <2>1, <2>4, <2>5
<1> HIDE DEF U
<1>8. Count \in U
  BY <1>6, <1>7, CountType, NumberInduction
<1>9. g[Count] \in All /\ First \in g[Count] /\ (f[g[Count]] = g[Count] \/ Cardinality(g[Count]) >= Count + 1)
  BY <1>8, CountType DEF U
<1>10. f[g[Count]] = g[Count]
  BY <1>5, <1>9, CountType
<1>11. Closed(h, g[Count])
  BY <1>9, <1>10, Grows DEF f
<1>12. ASSUME NEW P \in SUBSET Ids, First \in P, Closed(h, P) PROVE Live(h) \subseteq P
  <2> DEFINE Q == SUBSET P
  <2>1. \A S \in Q : f[S] \in Q
    BY <1>12, Grows DEF f
  <2>2. {First} \in Q
    BY <1>12
  <2> HIDE DEF Q
  <2>3. Live(h) \in Q
    BY <2>1, <2>2, RepeatedIn DEF Live, f
  <2> QED
    BY <2>3 DEF Q
<1> QED
  BY <1>2, <1>9, <1>11, <1>12

LEMMA TailIs ==
  ASSUME NEW h, WellFormed(h)
  PROVE  QueueTail(h) \in Live(h)
<1> DEFINE f == [t \in Ids |-> IF h[t].ptrs[1] = Null THEN t ELSE h[t].ptrs[1]]
           P == {t \in Live(h) : h[t].kind = "thread"}
<1>1. Live(h) \in SUBSET Ids /\ First \in Live(h) /\ Closed(h, Live(h))
  BY LiveIs
<1>2. First \in P
  BY <1>1 DEF WellFormed
<1>3. ASSUME NEW t \in P PROVE f[t] \in P
  <2>1. t \in Ids /\ t \in Live(h) /\ IsLink(h[t].kind, 1)
    BY <1>1 DEF IsLink
  <2>2. 1 \in DOMAIN h[t].ptrs /\ Goal(h, t, 1) = h[t].ptrs[1]
    BY <2>1, Links
  <2>3. h[t].ptrs[1] # Null => h[t].ptrs[1] \in Ids /\ h[h[t].ptrs[1]].kind = "thread"
    BY <2>1, Links
  <2>4. h[t].ptrs[1] # Null => h[t].ptrs[1] \in Live(h)
    BY <1>1, <2>1, <2>2, <2>3 DEF Closed
  <2> QED
    BY <2>1, <2>3, <2>4
<1>4. QueueTail(h) = Repeated(f, First)
  BY DEF QueueTail
<1> HIDE DEF f, P
<1>5. QueueTail(h) \in P
  BY <1>2, <1>3, <1>4, RepeatedIn
<1> QED
  BY <1>5 DEF P

-----------------------------------------------------------------------------
(* The layout: the copies lie end to end from 0 to top, each as large as   *)
(* its object, and the current object's copy begins at top.                *)

EndOf(x) == fwd[x] + Size(obj[x])

SpanInv ==
  /\ \A x \in Copied : EndOf(x) <= top
  /\ \A x, y \in Copied : x # y => EndOf(x) <= fwd[y] \/ EndOf(y) <= fwd[x]
TileInv ==
  /\ (Copied = {} /\ top = 0) \/ \E x \in Copied : fwd[x] = 0
  /\ \A x \in Copied : EndOf(x) = top \/ \E y \in Copied : fwd[y] = EndOf(x)
DomainInv ==
  /\ \A a \in DOMAIN to : (src # Null /\ a = top) \/ \E x \in Copied : fwd[x] = a
  /\ \A x \in Copied : fwd[x] \in DOMAIN to
  /\ src # Null => top \in DOMAIN to

LayoutInv == SpanInv /\ TileInv /\ DomainInv

LEMMA InitLayout == Init => LayoutInv
BY DEF Init, LayoutInv, SpanInv, TileInv, DomainInv, Copied, EndOf

LEMMA LayoutKept == TypeInv /\ CopyInv /\ LayoutInv /\ [Next]_vars => LayoutInv'
<1> SUFFICES ASSUME TypeInv, CopyInv, LayoutInv, [Next]_vars PROVE LayoutInv'
  OBVIOUS
<1>1. Sized(obj) /\ \A x \in Ids : Size(obj[x]) \in Nat /\ Size(obj[x]) >= 2
  BY HeapsAssumption, WellSized DEF TypeInv, Sized
<1>2. top \in Nat /\ fwd \in [Ids -> Nat \cup {NoAddress}] /\ src \in Ids \cup {Null}
  BY DEF TypeInv, TypeOK
<1>3. CASE StackPop
  <2>1. /\ src = Null /\ src' = stack[Len(stack)] /\ UNCHANGED <<obj, fwd, top>>
        /\ DOMAIN to' = DOMAIN to \cup {top}
    BY <1>3 DEF StackPop
  <2>2. src' # Null
    <3>1. stack \in Seq(Ids) /\ stack # <<>>
      BY <1>3 DEF StackPop, TypeInv, TypeOK
    <3>2. src' \in Ids
      BY <2>1, <3>1
    <3> QED
      BY <3>2, PointersAssumption
  <2> QED
    BY <2>1, <2>2 DEF LayoutInv, SpanInv, TileInv, DomainInv, Copied, EndOf
<1>4. CASE CopyLink \/ CopyField
  <2> DEFINE p == Goal(obj, src, field)
  <2>1. CopyPointer(p)
    BY <1>4, CopiesPointer
  <2> HIDE DEF p
  <2>2. DOMAIN to' = DOMAIN to /\ UNCHANGED <<obj, src, fwd, top>>
    <3>1. to' = Extended(to, top, p) /\ UNCHANGED <<obj, src, fwd, top>>
      BY <2>1 DEF CopyPointer
    <3> QED
      BY <3>1 DEF Extended
  <2> QED
    BY <2>2 DEF LayoutInv, SpanInv, TileInv, DomainInv, Copied, EndOf
<1>5. CASE Forward
  <2>1. /\ src # Null /\ fwd' = [fwd EXCEPT ![src] = top] /\ top' = top + Size(obj[src])
        /\ src' = Null /\ UNCHANGED <<obj, to>>
    BY <1>5 DEF Forward
  <2>2. src \in Ids /\ fwd[src] = NoAddress
    BY <1>2, <2>1 DEF CopyInv, MarkInv
  <2> PICK z \in Ids : z = src
    BY <2>2
  <2>3. fwd'[z] = top /\ top \in Nat /\ \A x \in Ids \ {z} : fwd'[x] = fwd[x]
    BY <1>2, <2>1, <2>2
  <2>4. Copied' = Copied \cup {z} /\ z \notin Copied
    BY <2>2, <2>3 DEF Copied, NoAddress
  <2>5. /\ \A x \in Copied : x \in Ids /\ x # z /\ fwd'[x] = fwd[x] /\ EndOf(x)' = EndOf(x)
                             /\ fwd[x] \in Nat /\ EndOf(x) \in Nat
        /\ EndOf(z)' = top' /\ top' \in Nat /\ top' >= top
    <3>1. ASSUME NEW x \in Copied
          PROVE  /\ x \in Ids /\ x # z /\ fwd'[x] = fwd[x] /\ fwd[x] \in Nat
                 /\ EndOf(x)' = EndOf(x) /\ EndOf(x) \in Nat
      <4>1. x \in Ids /\ fwd[x] # NoAddress
        BY DEF Copied
      <4>2. x # z /\ fwd'[x] = fwd[x] /\ fwd[x] \in Nat
        BY <1>2, <2>2, <2>3, <4>1
      <4> QED
        BY <1>1, <2>1, <4>1, <4>2 DEF EndOf
    <3>2. EndOf(z)' = top' /\ top' \in Nat /\ top' >= top
      BY <1>1, <1>2, <2>1, <2>3 DEF EndOf
    <3> QED
      BY <3>1, <3>2
  <2>6. SpanInv'
    <3>1. \A x \in Copied : EndOf(x) <= top
      BY DEF LayoutInv, SpanInv
    <3>2. \A x, y \in Copied : x # y => EndOf(x) <= fwd[y] \/ EndOf(y) <= fwd[x]
      BY DEF LayoutInv, SpanInv
    <3>3. ASSUME NEW x \in Copied' PROVE EndOf(x)' <= top'
      <4>1. CASE x = z
        BY <2>5, <4>1
      <4>2. CASE x \in Copied
        BY <2>3, <2>5, <3>1, <4>2
      <4> QED
        BY <2>4, <4>1, <4>2
    <3>4. ASSUME NEW x \in Copied', NEW y \in Copied', x # y
          PROVE  EndOf(x)' <= fwd'[y] \/ EndOf(y)' <= fwd'[x]
      <4>1. CASE x = z /\ y \in Copied
        BY <2>3, <2>5, <3>1, <4>1
      <4>2. CASE x \in Copied /\ y = z
        BY <2>3, <2>5, <3>1, <4>2
      <4>3. CASE x \in Copied /\ y \in Copied
        BY <2>5, <3>2, <3>4, <4>3
      <4> QED
        BY <2>4, <3>4, <4>1, <4>2, <4>3
    <3> QED
      BY <3>3, <3>4 DEF SpanInv
  <2>7. TileInv'
    <3>1. \E x \in Copied' : fwd'[x] = 0
      BY <2>3, <2>4, <2>5 DEF LayoutInv, TileInv
    <3>2. \A x \in Copied : EndOf(x) = top \/ \E y \in Copied : fwd[y] = EndOf(x)
      BY DEF LayoutInv, TileInv
    <3>3. ASSUME NEW x \in Copied' PROVE EndOf(x)' = top' \/ \E y \in Copied' : fwd'[y] = EndOf(x)'
      <4>1. CASE x = z
        BY <2>5, <4>1
      <4>2. CASE x \in Copied
        BY <2>3, <2>4, <2>5, <3>2, <4>2
      <4> QED
        BY <2>4, <4>1, <4>2
    <3> QED
      BY <3>1, <3>3 DEF TileInv
  <2>8. DomainInv'
    <3>1. \A a \in DOMAIN to : a = top \/ \E x \in Copied : fwd[x] = a
      BY DEF LayoutInv, DomainInv
    <3>2. top \in DOMAIN to /\ \A x \in Copied : fwd[x] \in DOMAIN to
      BY <2>1 DEF LayoutInv, DomainInv
    <3>3. ASSUME NEW a \in DOMAIN to PROVE \E x \in Copied' : fwd'[x] = a
      BY <2>3, <2>4, <2>5, <3>1
    <3>4. ASSUME NEW x \in Copied' PROVE fwd'[x] \in DOMAIN to
      BY <2>3, <2>4, <2>5, <3>2
    <3> QED
      BY <2>1, <3>3, <3>4 DEF DomainInv
  <2> QED
    BY <2>6, <2>7, <2>8 DEF LayoutInv
<1>6. CASE UNCHANGED <<obj, fwd, src, top>> /\ DOMAIN to' = DOMAIN to
  BY <1>6 DEF LayoutInv, SpanInv, TileInv, DomainInv, Copied, EndOf
<1>7. CASE StartRelax \/ EndRelax \/ KeepPlace \/ (\E b \in Bases : ChangePlace(b)) \/ EndOffset \/ Ended \/ UNCHANGED vars
  <2>1. UNCHANGED <<obj, fwd, src, top, to>>
    BY <1>7 DEF StartRelax, EndRelax, KeepPlace, ChangePlace, EndOffset, Ended, vars, copyVars
  <2> QED
    BY <1>6, <2>1
<1>8. CASE Relax \/ Offset
  <2>1. UNCHANGED <<obj, fwd, src, top>> /\ DOMAIN to' = DOMAIN to
    BY <1>8 DEF Relax, Offset, Walk, copyVars
  <2> QED
    BY <1>6, <2>1
<1> QED
  BY <1>3, <1>4, <1>5, <1>7, <1>8 DEF Next

-----------------------------------------------------------------------------
(* The marks and what the queue reaches.                                   *)

ReachInv ==
  /\ First \in marked /\ marked \subseteq Live(obj)
  /\ \A x \in Copied : \A i \in DOMAIN obj[x].ptrs : Goal(obj, x, i) \in Ids => Goal(obj, x, i) \in marked
  /\ src # Null => \A i \in 1 .. field - 1 : Goal(obj, src, i) \in Ids => Goal(obj, src, i) \in marked

LEMMA InitReach == Init => ReachInv
<1>1. First \in Live(obj)
  BY LiveIs
<1> QED
  BY <1>1 DEF Init, ReachInv, Copied

LEMMA ReachKept == TypeInv /\ CopyInv /\ ReachInv /\ [Next]_vars => ReachInv'
<1> SUFFICES ASSUME TypeInv, CopyInv, ReachInv, [Next]_vars PROVE ReachInv'
  OBVIOUS
<1>1. WellFormed(obj)
  BY HeapsAssumption DEF TypeInv
<1>2. /\ src \in Ids \cup {Null} /\ field \in Nat /\ marked \subseteq Ids /\ top \in Nat
      /\ fwd \in [Ids -> Nat \cup {NoAddress}] /\ \A x \in Ids : obj[x].ptrs \in Seq(Pointers)
  BY <1>1 DEF TypeInv, TypeOK, WellFormed
<1>3. CASE StackPop
  <2>1. field' = 1 /\ UNCHANGED <<obj, marked, fwd>>
    BY <1>3 DEF StackPop
  <2> QED
    BY <2>1 DEF ReachInv, Copied
<1>4. CASE CopyLink \/ CopyField
  <2>1. CopyPointer(Goal(obj, src, field))
    BY <1>4, CopiesPointer
  <2>2. PICK p : p = Goal(obj, src, field)
    OBVIOUS
  <2>3. /\ src \in Ids /\ field \in DOMAIN obj[src].ptrs /\ field' = field + 1 /\ UNCHANGED <<obj, src, fwd>>
        /\ marked \subseteq marked' /\ (p \in Ids => p \in marked') /\ (\A x \in marked' : x \in marked \/ (x = p /\ p \in Ids))
    <3>1. CopyPointer(p)
      BY <2>1, <2>2
    <3>2. src \in Ids /\ field \in DOMAIN obj[src].ptrs /\ field' = field + 1 /\ UNCHANGED <<obj, src, fwd>>
      BY <3>1 DEF CopyPointer
    <3>3. \/ (p \in Ids => p \in marked) /\ marked' = marked
          \/ p \in Ids /\ marked' = marked \cup {p}
      BY <3>1 DEF CopyPointer, StackAdd
    <3> QED
      BY <3>2, <3>3
  <2>4. src \in Live(obj)
    BY <2>3, PointersAssumption DEF CopyInv, MarkInv, ReachInv
  <2>5. p \in Ids => p \in Live(obj)
    BY <2>2, <2>3, <2>4, LiveIs DEF Closed
  <2>6. First \in marked' /\ marked' \subseteq Live(obj)
    BY <2>3, <2>5 DEF ReachInv
  <2>7. \A x \in Copied : \A i \in DOMAIN obj[x].ptrs : Goal(obj, x, i) \in Ids => Goal(obj, x, i) \in marked'
    BY <2>3 DEF ReachInv
  <2>8. \A i \in 1 .. field : Goal(obj, src, i) \in Ids => Goal(obj, src, i) \in marked'
    <3>1. \A i \in 1 .. field - 1 : Goal(obj, src, i) \in Ids => Goal(obj, src, i) \in marked
      BY <2>3, PointersAssumption DEF ReachInv
    <3>2. \A i \in 1 .. field : i \in 1 .. field - 1 \/ i = field
      BY <1>2
    <3> QED
      BY <2>2, <2>3, <3>1, <3>2
  <2>9. field' - 1 = field /\ Copied' = Copied
    BY <1>2, <2>3 DEF Copied
  <2> QED
    BY <2>3, <2>6, <2>7, <2>8, <2>9 DEF ReachInv
<1>5. CASE Forward
  <2>1. /\ src # Null /\ fwd' = [fwd EXCEPT ![src] = top] /\ field = Len(obj[src].ptrs) + 1
        /\ src' = Null /\ UNCHANGED <<obj, marked>>
    BY <1>5 DEF Forward
  <2>2. src \in Ids
    BY <1>2, <2>1
  <2>3. \A x \in Copied' : x \in Copied \/ x = src
    BY <1>2, <2>1, <2>2 DEF Copied
  <2>4. \A i \in DOMAIN obj[src].ptrs : i \in 1 .. field - 1
    BY <1>2, <2>1, <2>2
  <2>5. \A x \in Copied' : \A i \in DOMAIN obj[x].ptrs : Goal(obj, x, i) \in Ids => Goal(obj, x, i) \in marked
    BY <2>1, <2>3, <2>4 DEF ReachInv
  <2> QED
    BY <2>1, <2>5 DEF ReachInv
<1>6. CASE ~ (StackPop \/ CopyLink \/ CopyField \/ Forward)
  <2>1. UNCHANGED <<obj, copyVars>>
    BY <1>6 DEF Next, StartRelax, Relax, EndRelax, KeepPlace, ChangePlace, Offset, EndOffset, Walk, Ended, vars
  <2> QED
    BY <2>1 DEF ReachInv, Copied, copyVars
<1> QED
  BY <1>3, <1>4, <1>5, <1>6

\* When the copying ends.
LEMMA AllCopied ==
  ASSUME TypeInv, CopyInv, ReachInv, src = Null, stack = <<>>
  PROVE  Copied = Live(obj) /\ \A x \in Ids : fwd[x] # NoAddress <=> x \in Live(obj)
<1>1. marked = Copied
  <2>1. marked \subseteq Ids /\ \A i \in 1 .. Len(stack) : FALSE
    BY DEF TypeInv, TypeOK
  <2>2. \A x \in marked : fwd[x] # NoAddress
    BY <2>1, PointersAssumption DEF CopyInv, MarkInv
  <2>3. \A x \in Ids : fwd[x] # NoAddress => x \in marked
    BY DEF CopyInv, MarkInv
  <2> QED
    BY <2>1, <2>2, <2>3 DEF Copied
<1>2. First \in Copied /\ Copied \subseteq Live(obj) /\ Copied \in SUBSET Ids
  BY <1>1 DEF ReachInv, Copied
<1>3. Closed(obj, Copied)
  BY <1>1 DEF Closed, ReachInv
<1>4. Live(obj) \subseteq Copied
  BY <1>2, <1>3, LiveIs
<1> QED
  BY <1>2, <1>4 DEF Copied

-----------------------------------------------------------------------------
(* The contents: what each pointer of each copy is by now.                 *)

NoTuples == \A h \in Heaps : \A x \in Ids : h[x].kind # "tuple"

Pointed(b, q) == IF q \in Ids THEN At(b + fwd[q]) ELSE q

\* The pointer to q in the copy of x.
Turned(x, q) ==
  CASE phase = "copy" -> q
    [] phase = "relax" -> IF fwd[x] < cursor THEN Pointed(base, q) ELSE q
    [] phase = "offset" -> Pointed(IF fwd[x] < cursor THEN base ELSE old, q)
    [] OTHER -> Pointed(base, q)

Same(c, o) == c.kind = o.kind /\ c.words = o.words /\ Len(c.ptrs) = Len(o.ptrs)

ContentInv ==
  \A x \in Copied :
    /\ Same(to[fwd[x]], obj[x])
    /\ \A i \in DOMAIN obj[x].ptrs : to[fwd[x]].ptrs[i] = Turned(x, Goal(obj, x, i))
CurrentInv ==
  src # Null =>
    /\ to[top].kind = obj[src].kind /\ to[top].words = obj[src].words /\ Len(to[top].ptrs) = field - 1
    /\ \A i \in 1 .. field - 1 : to[top].ptrs[i] = Goal(obj, src, i)
CursorInv == phase \in {"relax", "offset"} => cursor = top \/ \E x \in Copied : fwd[x] = cursor
PlaceInv ==
  /\ phase # "offset" /\ phase # "done" => base = old
  /\ roots = IF phase = "copy" THEN <<First, QueueTail(obj)>>
             ELSE <<Pointed(base, First), Pointed(base, QueueTail(obj))>>

CollectInv == TypeInv /\ CopyInv /\ LayoutInv /\ ReachInv
ImageInv == ContentInv /\ CurrentInv /\ CursorInv /\ PlaceInv

LEMMA InitImage == Init => ImageInv
BY DEF Init, ImageInv, ContentInv, CurrentInv, CursorInv, PlaceInv, Copied

\* A walk replaces the pointers of one copy and goes on to the next.
LEMMA Walked ==
  ASSUME CollectInv, src = Null, NEW z \in Copied, cursor = fwd[z],
         NEW n, n = fwd[z] + Size(obj[z])
  PROVE  /\ n = top \/ \E x \in Copied : fwd[x] = n
         /\ \A x \in Copied : x # z => fwd[x] # cursor /\ (fwd[x] < n <=> fwd[x] < cursor)
         /\ fwd[z] < n /\ ~ (fwd[z] < cursor)
<1>1. \A x \in Ids : Size(obj[x]) \in Nat /\ Size(obj[x]) >= 2
  BY HeapsAssumption, WellSized DEF CollectInv, TypeInv, Sized
<1>2. top \in Nat /\ \A x \in Copied : x \in Ids /\ fwd[x] \in Nat
  BY DEF CollectInv, TypeInv, TypeOK, Copied
<1>3. n = top \/ \E x \in Copied : fwd[x] = n
  BY DEF CollectInv, LayoutInv, TileInv, EndOf
<1>4. \A x \in Copied : x # z => fwd[x] + Size(obj[x]) <= fwd[z] \/ n <= fwd[x]
  BY DEF CollectInv, LayoutInv, SpanInv, EndOf
<1>5. fwd[z] \in Nat /\ n \in Nat /\ n >= fwd[z] + 2
  BY <1>1, <1>2
<1>6. \A x \in Copied : x # z => fwd[x] # cursor /\ (fwd[x] < n <=> fwd[x] < cursor)
  BY <1>1, <1>2, <1>4, <1>5
<1> QED
  BY <1>2, <1>3, <1>5, <1>6

LEMMA GoalsCopied ==
  ASSUME CollectInv, src = Null, stack = <<>>
  PROVE  /\ \A x \in Copied : \A i \in DOMAIN obj[x].ptrs :
              /\ Goal(obj, x, i) \in Pointers
              /\ Goal(obj, x, i) \in Ids => Goal(obj, x, i) \in Copied
         /\ First \in Copied /\ QueueTail(obj) \in Copied
<1>1. WellFormed(obj)
  BY HeapsAssumption DEF CollectInv, TypeInv
<1>2. Copied = Live(obj)
  BY AllCopied DEF CollectInv
<1>3. First \in Copied /\ Closed(obj, Copied) /\ QueueTail(obj) \in Copied
  BY <1>1, <1>2, LiveIs, TailIs
<1>4. \A x \in Copied : x \in Ids
  BY DEF Copied
<1>5. ASSUME NEW x \in Copied, NEW i \in DOMAIN obj[x].ptrs
      PROVE  Goal(obj, x, i) \in Pointers
  BY <1>1, <1>4, Goals
<1> QED
  BY <1>3, <1>5 DEF Closed

LEMMA CopiedIs ==
  ASSUME CollectInv, NEW x \in Copied
  PROVE  x \in Ids /\ fwd[x] \in Nat /\ fwd[x] < top /\ fwd[x] \in DOMAIN to /\ to[fwd[x]] \in Contents
<1>1. x \in Ids /\ fwd[x] \in Nat /\ top \in Nat
  BY DEF CollectInv, TypeInv, TypeOK, Copied
<1>2. Size(obj[x]) \in Nat /\ Size(obj[x]) >= 2
  BY <1>1, HeapsAssumption, WellSized DEF CollectInv, TypeInv, Sized
<1>3. fwd[x] + Size(obj[x]) <= top
  BY DEF CollectInv, LayoutInv, SpanInv, EndOf
<1>4. fwd[x] < top
  BY <1>1, <1>2, <1>3
<1>5. fwd[x] \in DOMAIN to
  BY DEF CollectInv, LayoutInv, DomainInv
<1> QED
  BY <1>1, <1>4, <1>5 DEF CollectInv, TypeInv

LEMMA RelaxedIs ==
  ASSUME NEW q, q \in Ids => q \in Copied
  PROVE  Relaxed(q) = Pointed(base, q)
BY DEF Relaxed, Pointed, Copied

LEMMA MovedIs ==
  ASSUME CollectInv, NEW q \in Pointers, q \in Ids => q \in Copied
  PROVE  Moved(Pointed(old, q)) = Pointed(base, q)
<1>1. base \in Nat /\ old \in Nat /\ top \in Nat
  BY DEF CollectInv, TypeInv, TypeOK
<1>2. CASE q \notin Ids
  BY <1>2 DEF Moved, Pointed
<1>3. CASE q \in Ids
  <2>1. fwd[q] \in Nat /\ fwd[q] < top
    BY <1>3, CopiedIs
  <2> DEFINE p == <<"at", old + fwd[q]>>
  <2>2. Pointed(old, q) = p /\ Pointed(base, q) = <<"at", base + fwd[q]>>
    BY <1>3 DEF Pointed, At
  <2>3. p \notin Pointers
    <3>1. p \in {"at"} \X Nat
      BY <1>1, <2>1
    <3> HIDE DEF p
    <3> QED
      BY <3>1, PointersAssumption
  <2>4. p[2] = old + fwd[q] /\ p[2] >= old /\ p[2] < old + top
    BY <1>1, <2>1
  <2>5. p[2] + (base - old) = base + fwd[q]
    BY <1>1, <2>1, <2>4
  <2> HIDE DEF p
  <2>6. Moved(p) = At(p[2] + (base - old))
    BY <2>3, <2>4 DEF Moved
  <2> QED
    BY <2>2, <2>5, <2>6 DEF At
<1> QED
  BY <1>2, <1>3

LEMMA WalkKeeps ==
  ASSUME CollectInv, ContentInv, src = Null, phase \in {"relax", "offset"},
         NEW z \in Copied, NEW ptrs, cursor = fwd[z], to' = Filled(to, fwd[z], ptrs),
         Len(ptrs) = Len(obj[z].ptrs), cursor' = fwd[z] + Size(obj[z]),
         \A i \in DOMAIN obj[z].ptrs : ptrs[i] = Pointed(base, Goal(obj, z, i)),
         UNCHANGED <<obj, copyVars, top, base, old, phase>>
  PROVE  ContentInv' /\ CursorInv'
<1>1. /\ cursor' = top \/ \E x \in Copied : fwd[x] = cursor'
      /\ \A x \in Copied : x # z => fwd[x] # cursor /\ (fwd[x] < cursor' <=> fwd[x] < cursor)
      /\ fwd[z] < cursor' /\ ~ (fwd[z] < cursor)
  <2>1. PICK n : n = fwd[z] + Size(obj[z])
    OBVIOUS
  <2>2. /\ n = top \/ \E x \in Copied : fwd[x] = n
        /\ \A x \in Copied : x # z => fwd[x] # cursor /\ (fwd[x] < n <=> fwd[x] < cursor)
        /\ fwd[z] < n /\ ~ (fwd[z] < cursor)
    BY <2>1, Walked
  <2> QED
    BY <2>1, <2>2
<1>2. Copied' = Copied
  BY DEF Copied, copyVars
<1>3. fwd[z] \in DOMAIN to /\ to[fwd[z]] \in Contents /\ \A x \in Copied : fwd[x] \in DOMAIN to
  BY CopiedIs
<1>4. PICK t : t = Filled(to, fwd[z], ptrs)
  OBVIOUS
<1>5. /\ t[fwd[z]].kind = to[fwd[z]].kind /\ t[fwd[z]].words = to[fwd[z]].words /\ t[fwd[z]].ptrs = ptrs
      /\ \A b \in DOMAIN to : b # fwd[z] => t[b] = to[b]
  BY <1>3, <1>4 DEF Filled, Contents
<1>6. ASSUME NEW x \in Copied, x # z
      PROVE  t[fwd[x]] = to[fwd[x]] /\ \A q : Turned(x, q)' = Turned(x, q)
  <2>1. t[fwd[x]] = to[fwd[x]]
    BY <1>1, <1>3, <1>5, <1>6
  <2>2. (fwd[x] < cursor') <=> fwd[x] < cursor
    BY <1>1, <1>6
  <2> QED
    BY <2>1, <2>2 DEF Turned, Pointed, copyVars
<1>7. \A q : Turned(z, q)' = Pointed(base, q)
  BY <1>1 DEF Turned, Pointed, copyVars
<1>8. Same(to[fwd[z]], obj[z]) /\ Same(t[fwd[z]], obj[z])
  BY <1>5 DEF ContentInv, Same
<1>9. ASSUME NEW x \in Copied
      PROVE  /\ Same(t[fwd[x]], obj[x])
             /\ \A i \in DOMAIN obj[x].ptrs : t[fwd[x]].ptrs[i] = Turned(x, Goal(obj, x, i))'
  <2>1. CASE x = z
    BY <1>5, <1>7, <1>8, <2>1
  <2>2. CASE x # z
    BY <1>6, <2>2 DEF ContentInv
  <2> QED
    BY <2>1, <2>2
<1>10. t = to' /\ UNCHANGED <<obj, fwd, top>>
  BY <1>4 DEF copyVars
<1>11. ContentInv'
  BY <1>2, <1>9, <1>10 DEF ContentInv
<1> QED
  BY <1>1, <1>2, <1>10, <1>11 DEF CursorInv

LEMMA PopImage == CollectInv /\ ImageInv /\ StackPop => ImageInv'
<1> SUFFICES ASSUME CollectInv, ImageInv, StackPop PROVE ImageInv'
  OBVIOUS
<1>1. /\ phase = "copy" /\ src = Null /\ stack # <<>> /\ src' = stack[Len(stack)] /\ field' = 1
      /\ UNCHANGED <<obj, fwd, top, cursor, base, old, roots, phase>>
  BY DEF StackPop
<1>2. src' \in Ids /\ WellFormed(obj)
  <2>1. stack \in Seq(Ids)
    BY DEF CollectInv, TypeInv, TypeOK
  <2> QED
    BY <1>1, <2>1, HeapsAssumption DEF CollectInv, TypeInv
<1>3. PICK o \in Objects : o = obj[src']
  BY <1>2 DEF Objects, WellFormed
<1>4. PICK t : t = to'
  OBVIOUS
<1>5. t = Started(to, top, o)
  BY <1>3, <1>4 DEF StackPop, Started
<1>6. t[top].kind = o.kind /\ t[top].words = o.words /\ t[top].ptrs = <<>>
  BY <1>5 DEF Started, Objects
<1>7. \A b \in DOMAIN to : b # top => t[b] = to[b]
  BY <1>5 DEF Started
<1>8. \A x \in Copied : fwd[x] \in DOMAIN to /\ fwd[x] # top
  <2>1. ASSUME NEW x \in Copied PROVE fwd[x] \in DOMAIN to /\ fwd[x] # top
    <3>1. fwd[x] \in DOMAIN to /\ fwd[x] \in Nat /\ fwd[x] < top
      BY CopiedIs
    <3> QED
      BY <3>1
  <2> QED
    BY <2>1
<1>9. Copied' = Copied /\ \A x, q : Turned(x, q)' = Turned(x, q)
  BY <1>1 DEF Copied, Turned, Pointed
<1>10. ContentInv'
  <2>1. \A x \in Copied : t[fwd[x]] = to[fwd[x]]
    BY <1>7, <1>8
  <2> QED
    BY <1>1, <1>4, <1>9, <2>1 DEF ImageInv, ContentInv
<1>11. CurrentInv'
  BY <1>1, <1>3, <1>4, <1>6 DEF CurrentInv
<1> QED
  BY <1>1, <1>10, <1>11 DEF ImageInv, CursorInv, PlaceInv

LEMMA PointerImage == CollectInv /\ ImageInv /\ (CopyLink \/ CopyField) => ImageInv'
<1> SUFFICES ASSUME CollectInv, ImageInv, CopyLink \/ CopyField PROVE ImageInv'
  OBVIOUS
<1>1. CopyPointer(Goal(obj, src, field))
  BY CopiesPointer DEF CollectInv
<1>2. PICK p : p = Goal(obj, src, field)
  OBVIOUS
<1>3. PICK t : t = to'
  OBVIOUS
<1>4. /\ phase = "copy" /\ src \in Ids /\ src # Null /\ field \in DOMAIN obj[src].ptrs /\ field' = field + 1
      /\ t = Extended(to, top, p) /\ UNCHANGED <<obj, src, fwd, top, cursor, base, old, roots, phase>>
  BY <1>1, <1>2, <1>3, PointersAssumption DEF CopyPointer
<1>5. top \in DOMAIN to /\ to[top] \in Contents /\ field \in Nat /\ field >= 1
  BY <1>4 DEF CollectInv, LayoutInv, DomainInv, TypeInv
<1>6. /\ t[top].kind = to[top].kind /\ t[top].words = to[top].words /\ t[top].ptrs = Append(to[top].ptrs, p)
  BY <1>4, <1>5 DEF Extended, Contents
<1>7. \A b \in DOMAIN to : b # top => t[b] = to[b]
  BY <1>4 DEF Extended
<1>8. \A x \in Copied : fwd[x] \in DOMAIN to /\ fwd[x] # top
  <2>1. ASSUME NEW x \in Copied PROVE fwd[x] \in DOMAIN to /\ fwd[x] # top
    <3>1. fwd[x] \in DOMAIN to /\ fwd[x] \in Nat /\ fwd[x] < top
      BY CopiedIs
    <3> QED
      BY <3>1
  <2> QED
    BY <2>1
<1>9. Copied' = Copied /\ \A x, q : Turned(x, q)' = Turned(x, q)
  BY <1>4 DEF Copied, Turned, Pointed
<1>10. ContentInv'
  <2>1. \A x \in Copied : t[fwd[x]] = to[fwd[x]]
    BY <1>7, <1>8
  <2> QED
    BY <1>3, <1>4, <1>9, <2>1 DEF ImageInv, ContentInv
<1>11. CurrentInv'
  <2>1. /\ to[top].kind = obj[src].kind /\ to[top].words = obj[src].words /\ Len(to[top].ptrs) = field - 1
        /\ \A i \in 1 .. field - 1 : to[top].ptrs[i] = Goal(obj, src, i)
    BY <1>4 DEF ImageInv, CurrentInv
  <2>2. PICK s : s = to[top].ptrs
    OBVIOUS
  <2>3. PICK r : r = Append(s, p)
    OBVIOUS
  <2>4. s \in Seq(Values) /\ Len(s) = field - 1
    BY <1>5, <2>1, <2>2 DEF Contents
  <2>5. Len(r) = field /\ r[field] = p /\ \A i \in 1 .. field - 1 : r[i] = s[i]
    BY <1>5, <2>3, <2>4
  <2>6. \A i \in 1 .. field : r[i] = Goal(obj, src, i)
    <3>1. \A i \in 1 .. field : i = field \/ i \in 1 .. field - 1
      BY <1>5
    <3> QED
      BY <1>2, <2>1, <2>2, <2>5, <3>1
  <2>7. t[top].ptrs = r /\ field' - 1 = field
    BY <1>4, <1>5, <1>6, <2>2, <2>3
  <2> QED
    BY <1>3, <1>4, <1>6, <2>1, <2>5, <2>6, <2>7 DEF CurrentInv
<1> QED
  BY <1>4, <1>10, <1>11 DEF ImageInv, CursorInv, PlaceInv

LEMMA ForwardImage == CollectInv /\ ImageInv /\ Forward => ImageInv'
<1> SUFFICES ASSUME CollectInv, ImageInv, Forward PROVE ImageInv'
  OBVIOUS
<1>1. /\ phase = "copy" /\ src # Null /\ field = Len(obj[src].ptrs) + 1
      /\ fwd' = [fwd EXCEPT ![src] = top] /\ src' = Null
      /\ UNCHANGED <<obj, to, cursor, base, old, roots, phase>>
  BY DEF Forward
<1>2. /\ src \in Ids /\ fwd \in [Ids -> Nat \cup {NoAddress}] /\ field \in Nat
      /\ obj[src].ptrs \in Seq(Pointers)
  BY <1>1, HeapsAssumption DEF CollectInv, TypeInv, TypeOK, WellFormed
<1>3. PICK z \in Ids : z = src
  BY <1>2
<1>4. /\ fwd'[z] = top /\ \A x \in Ids \ {z} : fwd'[x] = fwd[x]
      /\ \A x \in Copied' : x \in Ids /\ (x = z \/ x \in Copied)
  BY <1>1, <1>2, <1>3 DEF Copied
<1>5. /\ to[top].kind = obj[z].kind /\ to[top].words = obj[z].words /\ Len(to[top].ptrs) = field - 1
      /\ \A i \in 1 .. field - 1 : to[top].ptrs[i] = Goal(obj, z, i)
  BY <1>1, <1>3 DEF ImageInv, CurrentInv
<1>6. Len(obj[z].ptrs) = field - 1 /\ DOMAIN obj[z].ptrs = 1 .. field - 1
  BY <1>1, <1>2, <1>3
<1>7. \A x, q : Turned(x, q)' = q /\ Turned(x, q) = q
  BY <1>1 DEF Turned
<1>8. ContentInv'
  <2> SUFFICES ASSUME NEW x \in Copied'
               PROVE  /\ Same(to[fwd'[x]], obj[x])
                      /\ \A i \in DOMAIN obj[x].ptrs : to[fwd'[x]].ptrs[i] = Goal(obj, x, i)
    BY <1>1, <1>7 DEF ContentInv
  <2>1. CASE x = z
    BY <1>4, <1>5, <1>6, <2>1 DEF Same
  <2>2. CASE x # z
    BY <1>4, <1>7, <2>2 DEF ImageInv, ContentInv
  <2> QED
    BY <2>1, <2>2
<1> QED
  BY <1>1, <1>8 DEF ImageInv, CurrentInv, CursorInv, PlaceInv

LEMMA StartImage == CollectInv /\ ImageInv /\ StartRelax => ImageInv'
<1> SUFFICES ASSUME CollectInv, ImageInv, StartRelax PROVE ImageInv'
  OBVIOUS
<1>1. /\ phase = "copy" /\ src = Null /\ stack = <<>> /\ phase' = "relax" /\ cursor' = 0
      /\ roots' = [i \in 1 .. 2 |-> Relaxed(roots[i])]
      /\ UNCHANGED <<obj, src, fwd, to, top, base, old>>
  BY DEF StartRelax, copyVars
<1>2. Copied' = Copied
  BY <1>1 DEF Copied
<1>3. ContentInv'
  <2>1. \A x \in Copied : \A q : Turned(x, q)' = q /\ Turned(x, q) = q
    <3> SUFFICES ASSUME NEW x \in Copied, NEW q PROVE Turned(x, q)' = q /\ Turned(x, q) = q
      OBVIOUS
    <3>1. fwd[x] \in Nat
      BY CopiedIs
    <3>2. ~ (fwd[x] < cursor')
      BY <1>1, <3>1
    <3> QED
      BY <1>1, <3>2 DEF Turned
  <2> QED
    BY <1>1, <1>2, <2>1 DEF ImageInv, ContentInv
<1>4. CursorInv'
  BY <1>1, <1>2 DEF CursorInv, CollectInv, LayoutInv, TileInv
<1>5. PlaceInv'
  <2>1. roots = <<First, QueueTail(obj)>> /\ base = old
    BY <1>1 DEF ImageInv, PlaceInv
  <2>2. First \in Copied /\ QueueTail(obj) \in Copied
    BY <1>1, GoalsCopied
  <2>3. Relaxed(First) = Pointed(base, First) /\ Relaxed(QueueTail(obj)) = Pointed(base, QueueTail(obj))
    BY <2>2, RelaxedIs
  <2>4. roots' = <<Relaxed(First), Relaxed(QueueTail(obj))>>
    BY <1>1, <2>1
  <2>5. \A q : Pointed(base, q)' = Pointed(base, q)
    BY <1>1 DEF Pointed
  <2> QED
    BY <1>1, <2>1, <2>3, <2>4, <2>5 DEF PlaceInv
<1> QED
  BY <1>1, <1>3, <1>4, <1>5 DEF ImageInv, CurrentInv

\* The object at the cursor.
LEMMA AtCursor ==
  ASSUME CollectInv, ContentInv, src = Null, cursor < top, cursor \in DOMAIN to, NoTuples
  PROVE  \E z \in Copied :
           /\ cursor = fwd[z] /\ to[cursor].ptrs \in Seq(Values)
           /\ Len(to[cursor].ptrs) = Len(obj[z].ptrs) /\ DOMAIN to[cursor].ptrs = DOMAIN obj[z].ptrs
           /\ Size(to[cursor]) = Size(obj[z]) /\ Stride(to[cursor]) = Size(obj[z])
<1>1. PICK z \in Copied : cursor = fwd[z]
  BY DEF CollectInv, LayoutInv, DomainInv
<1>2. to[cursor] \in Contents /\ z \in Ids
  BY <1>1, CopiedIs
<1>3. Same(to[cursor], obj[z])
  BY <1>1 DEF ContentInv
<1>4. obj[z].ptrs \in Seq(Pointers) /\ obj[z].kind # "tuple"
  BY <1>2, HeapsAssumption DEF CollectInv, TypeInv, WellFormed, NoTuples
<1>5. to[cursor].ptrs \in Seq(Values)
  BY <1>2 DEF Contents
<1>6. Len(to[cursor].ptrs) = Len(obj[z].ptrs) /\ to[cursor].kind = obj[z].kind /\ to[cursor].words = obj[z].words
  BY <1>3 DEF Same
<1>7. DOMAIN to[cursor].ptrs = DOMAIN obj[z].ptrs
  BY <1>4, <1>5, <1>6
<1>8. Size(to[cursor]) = Size(obj[z])
  BY <1>6 DEF Size
<1>9. Stride(to[cursor]) = Size(obj[z])
  BY <1>4, <1>6, <1>8 DEF Stride
<1> QED
  BY <1>1, <1>5, <1>6, <1>7, <1>8, <1>9

LEMMA RelaxImage == NoTuples /\ CollectInv /\ ImageInv /\ Relax => ImageInv'
<1> SUFFICES ASSUME NoTuples, CollectInv, ImageInv, Relax PROVE ImageInv'
  OBVIOUS
<1>1. /\ phase = "relax" /\ cursor < top /\ cursor \in DOMAIN to
      /\ UNCHANGED <<obj, copyVars, top, base, old, roots, phase>>
      /\ cursor' = cursor + Stride(to[cursor])
      /\ to' = Filled(to, cursor, [i \in DOMAIN to[cursor].ptrs |-> Relaxed(to[cursor].ptrs[i])])
  BY DEF Relax, Walk, Filled
<1>2. src = Null /\ stack = <<>> /\ ContentInv
  BY <1>1 DEF CollectInv, CopyInv, EndInv, ImageInv
<1>3. PICK z \in Copied :
           /\ cursor = fwd[z] /\ to[cursor].ptrs \in Seq(Values)
           /\ Len(to[cursor].ptrs) = Len(obj[z].ptrs) /\ DOMAIN to[cursor].ptrs = DOMAIN obj[z].ptrs
           /\ Stride(to[cursor]) = Size(obj[z])
  BY <1>1, <1>2, AtCursor
<1>4. PICK s \in Seq(Values) : s = to[cursor].ptrs
  BY <1>3
<1>5. PICK r : r = [i \in DOMAIN s |-> Relaxed(s[i])]
  OBVIOUS
<1>6. Len(r) = Len(s) /\ DOMAIN s = DOMAIN obj[z].ptrs
  BY <1>3, <1>4, <1>5
<1>7. ASSUME NEW i \in DOMAIN obj[z].ptrs PROVE r[i] = Pointed(base, Goal(obj, z, i))
  <2>1. r[i] = Relaxed(s[i])
    BY <1>5, <1>6
  <2>2. ~ (fwd[z] < cursor)
    BY <1>3, CopiedIs
  <2>3. s[i] = Goal(obj, z, i)
    BY <1>1, <1>2, <1>3, <1>4, <2>2 DEF ContentInv, Turned
  <2>4. Goal(obj, z, i) \in Ids => Goal(obj, z, i) \in Copied
    BY <1>2, GoalsCopied
  <2> QED
    BY <2>1, <2>3, <2>4, RelaxedIs
<1>8. to' = Filled(to, fwd[z], r) /\ Len(r) = Len(obj[z].ptrs) /\ cursor' = fwd[z] + Size(obj[z])
  BY <1>1, <1>3, <1>4, <1>5, <1>6
<1>9. UNCHANGED <<obj, copyVars, top, base, old, phase>> /\ phase \in {"relax", "offset"}
  BY <1>1
<1>10. ContentInv' /\ CursorInv'
  BY <1>2, <1>3, <1>7, <1>8, <1>9, WalkKeeps
<1> QED
  BY <1>1, <1>2, <1>10 DEF ImageInv, CurrentInv, PlaceInv, Pointed, copyVars

LEMMA OffsetImage == NoTuples /\ CollectInv /\ ImageInv /\ Offset => ImageInv'
<1> SUFFICES ASSUME NoTuples, CollectInv, ImageInv, Offset PROVE ImageInv'
  OBVIOUS
<1>1. /\ phase = "offset" /\ cursor < top /\ cursor \in DOMAIN to
      /\ UNCHANGED <<obj, copyVars, top, base, old, roots, phase>>
      /\ cursor' = cursor + Size(to[cursor])
      /\ to' = Filled(to, cursor, [i \in DOMAIN to[cursor].ptrs |-> Moved(to[cursor].ptrs[i])])
  BY DEF Offset, Walk, Filled
<1>2. src = Null /\ stack = <<>> /\ ContentInv
  BY <1>1 DEF CollectInv, CopyInv, EndInv, ImageInv
<1>3. PICK z \in Copied :
           /\ cursor = fwd[z] /\ to[cursor].ptrs \in Seq(Values)
           /\ Len(to[cursor].ptrs) = Len(obj[z].ptrs) /\ DOMAIN to[cursor].ptrs = DOMAIN obj[z].ptrs
           /\ Size(to[cursor]) = Size(obj[z])
  BY <1>1, <1>2, AtCursor
<1>4. PICK s \in Seq(Values) : s = to[cursor].ptrs
  BY <1>3
<1>5. PICK r : r = [i \in DOMAIN s |-> Moved(s[i])]
  OBVIOUS
<1>6. Len(r) = Len(s) /\ DOMAIN s = DOMAIN obj[z].ptrs
  BY <1>3, <1>4, <1>5
<1>7. ASSUME NEW i \in DOMAIN obj[z].ptrs PROVE r[i] = Pointed(base, Goal(obj, z, i))
  <2>1. r[i] = Moved(s[i])
    BY <1>5, <1>6
  <2>2. ~ (fwd[z] < cursor)
    BY <1>3, CopiedIs
  <2>3. s[i] = Pointed(old, Goal(obj, z, i))
    BY <1>1, <1>2, <1>3, <1>4, <2>2 DEF ContentInv, Turned
  <2>4. Goal(obj, z, i) \in Pointers /\ (Goal(obj, z, i) \in Ids => Goal(obj, z, i) \in Copied)
    BY <1>2, GoalsCopied
  <2> QED
    BY <2>1, <2>3, <2>4, MovedIs
<1>8. to' = Filled(to, fwd[z], r) /\ Len(r) = Len(obj[z].ptrs) /\ cursor' = fwd[z] + Size(obj[z])
  BY <1>1, <1>3, <1>4, <1>5, <1>6
<1>9. UNCHANGED <<obj, copyVars, top, base, old, phase>> /\ phase \in {"relax", "offset"}
  BY <1>1
<1>10. ContentInv' /\ CursorInv'
  BY <1>2, <1>3, <1>7, <1>8, <1>9, WalkKeeps
<1> QED
  BY <1>1, <1>2, <1>10 DEF ImageInv, CurrentInv, PlaceInv, Pointed, copyVars

\* The end of a walk, and no move.
LEMMA EndImage == CollectInv /\ ImageInv /\ (EndRelax \/ EndOffset \/ KeepPlace) => ImageInv'
<1> SUFFICES ASSUME CollectInv, ImageInv, EndRelax \/ EndOffset \/ KeepPlace PROVE ImageInv'
  OBVIOUS
<1>1. /\ UNCHANGED <<obj, copyVars, to, top, cursor, base, old, roots>>
      /\ \/ phase = "relax" /\ cursor >= top /\ phase' = "resize"
         \/ phase = "offset" /\ cursor >= top /\ phase' = "done"
         \/ phase = "resize" /\ phase' = "done"
  BY DEF EndRelax, EndOffset, KeepPlace
<1>2. src = Null
  BY <1>1 DEF CollectInv, CopyInv, EndInv
<1>3. ASSUME NEW x \in Copied, NEW q PROVE Turned(x, q)' = Turned(x, q)
  <2>1. cursor >= top => fwd[x] < cursor
    <3>1. fwd[x] \in Nat /\ fwd[x] < top /\ top \in Nat /\ cursor \in Nat
      BY CopiedIs DEF CollectInv, TypeInv, TypeOK
    <3> QED
      BY <3>1
  <2>2. Turned(x, q)' = Pointed(base, q)
    BY <1>1 DEF Turned, Pointed, copyVars
  <2>3. Turned(x, q) = Pointed(base, q)
    BY <1>1, <2>1 DEF Turned
  <2> QED
    BY <2>2, <2>3
<1>4. Copied' = Copied /\ UNCHANGED <<obj, fwd, to>>
  BY <1>1 DEF Copied, copyVars
<1>5. ContentInv'
  BY <1>3, <1>4 DEF ImageInv, ContentInv
<1> QED
  BY <1>1, <1>2, <1>5 DEF ImageInv, CurrentInv, CursorInv, PlaceInv, Pointed, copyVars

LEMMA ChangeImage == CollectInv /\ ImageInv /\ (\E b \in Bases : ChangePlace(b)) => ImageInv'
<1> SUFFICES ASSUME CollectInv, ImageInv, NEW b \in Bases, ChangePlace(b) PROVE ImageInv'
  OBVIOUS
<1>1. /\ phase = "resize" /\ phase' = "offset" /\ base' = b /\ cursor' = 0
      /\ roots' = [i \in 1 .. 2 |-> At(roots[i][2] + (b - base))]
      /\ UNCHANGED <<obj, src, stack, fwd, to, top, old>>
  BY DEF ChangePlace, copyVars
<1>2. src = Null /\ stack = <<>> /\ base = old
  BY <1>1 DEF CollectInv, CopyInv, EndInv, ImageInv, PlaceInv
<1>3. Copied' = Copied
  BY <1>1 DEF Copied
<1>4. ContentInv'
  <2>1. \A x \in Copied : \A q : Turned(x, q)' = Turned(x, q)
    <3> SUFFICES ASSUME NEW x \in Copied, NEW q PROVE Turned(x, q)' = Turned(x, q)
      OBVIOUS
    <3>1. fwd[x] \in Nat
      BY CopiedIs
    <3>2. ~ (fwd[x] < cursor')
      BY <1>1, <3>1
    <3>3. Turned(x, q)' = Pointed(old, q)
      BY <1>1, <3>2 DEF Turned, Pointed
    <3>4. Turned(x, q) = Pointed(base, q)
      BY <1>1 DEF Turned
    <3> QED
      BY <1>2, <3>3, <3>4
  <2> QED
    BY <1>1, <1>3, <2>1 DEF ImageInv, ContentInv
<1>5. CursorInv'
  BY <1>1, <1>3 DEF CursorInv, CollectInv, LayoutInv, TileInv
<1>6. PlaceInv'
  <2>1. roots = <<Pointed(base, First), Pointed(base, QueueTail(obj))>>
    BY <1>1 DEF ImageInv, PlaceInv
  <2>2. First \in Copied /\ QueueTail(obj) \in Copied
    BY <1>2, GoalsCopied
  <2>3. ASSUME NEW q \in Copied PROVE At(Pointed(base, q)[2] + (b - base)) = At(b + fwd[q]) /\ q \in Ids
    <3>1. q \in Ids /\ fwd[q] \in Nat /\ base \in Nat /\ b \in Nat
      BY CopiedIs, BasesAssumption DEF CollectInv, TypeInv, TypeOK
    <3>2. Pointed(base, q)[2] = base + fwd[q]
      BY <3>1 DEF Pointed, At
    <3>3. base + fwd[q] + (b - base) = b + fwd[q]
      BY <3>1
    <3> QED
      BY <3>1, <3>2, <3>3
  <2>4. roots' = <<At(b + fwd[First]), At(b + fwd[QueueTail(obj)])>>
    BY <1>1, <2>1, <2>2, <2>3
  <2> QED
    BY <1>1, <2>2, <2>3, <2>4 DEF PlaceInv, Pointed
<1> QED
  BY <1>1, <1>2, <1>4, <1>5, <1>6 DEF ImageInv, CurrentInv

LEMMA ImageKept == NoTuples /\ CollectInv /\ ImageInv /\ [Next]_vars => ImageInv'
<1>1. UNCHANGED vars /\ ImageInv => ImageInv'
  BY DEF vars, copyVars, ImageInv, ContentInv, CurrentInv, CursorInv, PlaceInv, Copied, Turned, Pointed
<1> QED
  BY <1>1, PopImage, PointerImage, ForwardImage, StartImage, RelaxImage, OffsetImage, EndImage, ChangeImage
     DEF Next, Ended

LEMMA CollectAlways == Spec => []CollectInv
<1>1. Init => CollectInv
  BY InitTypes, InitCopy, InitLayout, InitReach DEF CollectInv
<1>2. CollectInv /\ [Next]_vars => CollectInv'
  BY TypesKept, CopyKept, LayoutKept, ReachKept DEF CollectInv
<1> QED
  BY <1>1, <1>2, PTL DEF Spec

LEMMA ImageAlways == ASSUME NoTuples PROVE Spec => []ImageInv
<1>1. CollectInv /\ ImageInv /\ [Next]_vars => ImageInv'
  BY ImageKept
<1> QED
  BY InitImage, CollectAlways, <1>1, PTL DEF Spec

LEMMA Faithful == CollectInv /\ ImageInv => CopyIsFaithful
<1> SUFFICES ASSUME CollectInv, ImageInv, phase = "done"
             PROVE  /\ {x \in Ids : fwd[x] # NoAddress} = Reached
                    /\ DOMAIN to = {fwd[x] : x \in Reached}
                    /\ \A x \in Reached :
                         LET c == to[fwd[x]] IN
                         /\ c.kind = obj[x].kind /\ c.words = obj[x].words
                         /\ c.ptrs = [i \in DOMAIN obj[x].ptrs |->
                               Image(IF IsLink(c.kind, i) THEN obj[x].ptrs[i] ELSE Target(obj[x].ptrs[i]))]
                    /\ roots = <<Image(First), Image(QueueTail(obj))>>
  BY DEF CopyIsFaithful
<1>1. src = Null /\ stack = <<>>
  BY DEF CollectInv, CopyInv, EndInv
<1>2. Copied = Reached
  BY <1>1, AllCopied, ReachedIs DEF CollectInv
<1>3. \A q : Image(q) = Pointed(base, q)
  BY DEF Image, Pointed
<1>4. DOMAIN to = {fwd[x] : x \in Copied}
  BY <1>1 DEF CollectInv, LayoutInv, DomainInv
<1>5. ASSUME NEW x \in Copied
      PROVE  LET c == to[fwd[x]] IN
             /\ c.kind = obj[x].kind /\ c.words = obj[x].words
             /\ c.ptrs = [i \in DOMAIN obj[x].ptrs |->
                            Image(IF IsLink(c.kind, i) THEN obj[x].ptrs[i] ELSE Target(obj[x].ptrs[i]))]
  <2>1. x \in Ids /\ to[fwd[x]] \in Contents
    BY CopiedIs
  <2>2. PICK c : c = to[fwd[x]]
    OBVIOUS
  <2>3. c.kind = obj[x].kind /\ c.words = obj[x].words /\ Len(c.ptrs) = Len(obj[x].ptrs)
    BY <2>2 DEF ImageInv, ContentInv, Same
  <2>4. c.ptrs \in Seq(Values) /\ obj[x].ptrs \in Seq(Pointers)
    BY <2>1, <2>2 DEF Contents, CollectInv, TypeInv, TypeOK
  <2>5. DOMAIN c.ptrs = DOMAIN obj[x].ptrs
    BY <2>3, <2>4
  <2>6. \A i \in DOMAIN obj[x].ptrs : c.ptrs[i] = Image(Goal(obj, x, i))
    BY <1>3, <2>2 DEF ImageInv, ContentInv, Turned
  <2>7. \A i : Goal(obj, x, i) = IF IsLink(c.kind, i) THEN obj[x].ptrs[i] ELSE Target(obj[x].ptrs[i])
    BY <2>3 DEF Goal, Target
  <2>8. c.ptrs = [i \in DOMAIN c.ptrs |-> c.ptrs[i]]
    BY <2>4
  <2>9. c.ptrs = [i \in DOMAIN obj[x].ptrs |-> Image(Goal(obj, x, i))]
    BY <2>5, <2>6, <2>8
  <2> QED
    BY <2>2, <2>3, <2>7, <2>9
<1>6. roots = <<Image(First), Image(QueueTail(obj))>>
  BY <1>3 DEF ImageInv, PlaceInv
<1> QED
  BY <1>2, <1>4, <1>5, <1>6 DEF Copied

\* In a heap without tuples, whose items vm_gc_relax steps over with the size
\* of another structure, each object that the run queue reaches is copied, once
\* and nothing else, and every pointer leads to the copy, wherever the memory is.
THEOREM FaithfulCopy == ASSUME NoTuples PROVE Spec => []CopyIsFaithful
<1>1. CollectInv /\ ImageInv => CopyIsFaithful
  BY Faithful
<1> QED
  BY CollectAlways, ImageAlways, <1>1, PTL

\* Without tuples the walks go from copy to copy.
THEOREM WalksOnObjects == ASSUME NoTuples PROVE Spec => []CursorOnObject
<1>1. CollectInv /\ ImageInv => CursorOnObject
  BY DEF CollectInv, LayoutInv, DomainInv, ImageInv, CursorInv, CursorOnObject
<1> QED
  BY CollectAlways, ImageAlways, <1>1, PTL

=============================================================================

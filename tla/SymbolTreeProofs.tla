-------------------------- MODULE SymbolTreeProofs --------------------------
(* The assembler's search tree, for any keys, in any order, and any growth   *)
(* of its array: it is a tree in order, balanced, and finds what it holds.   *)
EXTENDS SymbolTree, FunctionTheorems, FiniteSetTheorems, SequenceTheorems, WellFoundedInduction, TLAPS

\* Induction on the numbers, for a set instead of a predicate.
LEMMA CountingUp ==
  ASSUME NEW S, 0 \in S, \A n \in Nat : n \in S => n + 1 \in S
  PROVE  Nat \subseteq S
<1> SUFFICES ASSUME Nat \ S # {} PROVE FALSE
  OBVIOUS
<1>1. PICK n \in Nat \ S : \A k \in Nat \ S : ~ (<<k, n>> \in OpToRel(<,Nat))
  BY WFMin, NatLessThanWellFounded
<1>2. \A k \in Nat \ S : ~ (k < n)
  BY <1>1 DEF OpToRel
<1>3. n # 0 /\ n - 1 \in Nat /\ n - 1 \in S
  BY <1>2
<1> QED
  BY <1>3

-----------------------------------------------------------------------------
(* Loops.                                                                  *)

Turns(f, x, n, g) == g[0] = x /\ \A k \in Nat : k + 1 <= n => g[k + 1] = f[g[k]]

LEMMA RepeatedIs ==
  ASSUME NEW f, NEW x, NEW n \in Nat
  PROVE  \E g : Turns(f, x, n, g) /\ Repeated(f, x, n) = g[n]
<1> DEFINE Pass(j, g) == g = [k \in 0 .. j |-> IF k = 0 THEN x ELSE f[g[k - 1]]]
           R == {j \in Nat : \E g : Pass(j, g)}
<1>1. 0 \in R
  <2>1. Pass(0, [k \in 0 .. 0 |-> x])
    OBVIOUS
  <2> QED
    BY <2>1
<1>2. ASSUME NEW j \in Nat, j \in R PROVE j + 1 \in R
  <2>1. PICK g : Pass(j, g)
    BY <1>2
  <2>2. Pass(j + 1, [k \in 0 .. j + 1 |-> IF k = j + 1 THEN f[g[j]] ELSE g[k]])
    BY <2>1
  <2>3. \E h : Pass(j + 1, h)
    BY <2>2
  <2> QED
    BY <2>3
<1>3. n \in R
  BY <1>1, <1>2, CountingUp
<1>4. PICK g : Pass(n, g) /\ Repeated(f, x, n) = g[n]
  BY <1>3 DEF Repeated
<1>5. Turns(f, x, n, g)
  BY <1>4 DEF Turns
<1> QED
  BY <1>4, <1>5

LEMMA OneMoreTurn ==
  ASSUME NEW f, NEW x, NEW n \in Nat
  PROVE  Repeated(f, x, 0) = x /\ Repeated(f, x, n + 1) = f[Repeated(f, x, n)]
<1>1. Repeated(f, x, 0) = x
  BY RepeatedIs DEF Turns
<1>2. PICK g : Turns(f, x, n, g) /\ Repeated(f, x, n) = g[n]
  BY RepeatedIs
<1>3. PICK h : Turns(f, x, n + 1, h) /\ Repeated(f, x, n + 1) = h[n + 1]
  BY RepeatedIs
<1> DEFINE S == {k \in Nat : k <= n => g[k] = h[k]}
<1>4. 0 \in S
  BY <1>2, <1>3 DEF Turns
<1>5. ASSUME NEW k \in Nat, k \in S PROVE k + 1 \in S
  BY <1>2, <1>3, <1>5 DEF Turns
<1> HIDE DEF S
<1>6. n \in S
  BY <1>4, <1>5, CountingUp
<1>7. h[n + 1] = f[h[n]]
  BY <1>3 DEF Turns
<1> QED
  BY <1>1, <1>2, <1>3, <1>6, <1>7 DEF S

\* A loop whose turns make something smaller until they change nothing.
LEMMA LoopEnds ==
  ASSUME NEW f, NEW S, NEW x \in S, NEW n \in Nat, NEW w,
         \A y \in S : f[y] \in S /\ w[y] \in Nat /\ (f[y] = y \/ w[f[y]] < w[y]),
         w[x] <= n
  PROVE  Repeated(f, x, n) \in S /\ f[Repeated(f, x, n)] = Repeated(f, x, n)
<1> DEFINE y(k) == Repeated(f, x, k)
           D == {k \in Nat : y(k) \in S /\ (f[y(k)] = y(k) \/ w[y(k)] <= n - k)}
<1>1. 0 \in D
  BY OneMoreTurn
<1>2. ASSUME NEW k \in Nat, k \in D PROVE k + 1 \in D
  <2>1. y(k + 1) = f[y(k)]
    BY OneMoreTurn
  <2> HIDE DEF y
  <2>2. y(k) \in S
    BY <1>2
  <2>3. y(k + 1) \in S /\ w[y(k)] \in Nat /\ w[y(k + 1)] \in Nat
    BY <2>1, <2>2
  <2>4. CASE f[y(k)] = y(k)
    BY <2>1, <2>3, <2>4
  <2>5. CASE f[y(k)] # y(k)
    BY <1>2, <2>1, <2>2, <2>3, <2>5
  <2> QED
    BY <2>4, <2>5
<1> HIDE DEF D
<1>3. n \in D
  BY <1>1, <1>2, CountingUp
<1>4. y(n) \in S /\ (f[y(n)] = y(n) \/ w[y(n)] <= 0)
  BY <1>3 DEF D
<1> HIDE DEF y
<1>5. f[y(n)] \in S /\ w[y(n)] \in Nat /\ w[f[y(n)]] \in Nat /\ (f[y(n)] = y(n) \/ w[f[y(n)]] < w[y(n)])
  BY <1>4
<1>6. f[y(n)] = y(n)
  BY <1>4, <1>5
<1> QED
  BY <1>4, <1>6 DEF y

-----------------------------------------------------------------------------
(* Arrays of nodes, and assignments to them.                               *)

Links(N) == N \cup {Nil}
Records(N) == [p : Links(N), kid : [Sides -> Links(N)], height : Nat, key : Keys, value : Nat]
Arrays(N) == [N -> Records(N)]
Nodes(N) == N \subseteq Nat /\ IsFiniteSet(N)

Up(T, n) == T[n].p
Kid(T, n, s) == T[n].kid[s]
High(T, n) == T[n].height
KeyOf(T, n) == T[n].key

Larger(a, b) == IF a < b THEN b ELSE a
Raised(T, n) == 1 + Larger(Height(T, Kid(T, n, "l")), Height(T, Kid(T, n, "r")))

SameData(T, U, N) == \A n \in N : KeyOf(U, n) = KeyOf(T, n) /\ U[n].value = T[n].value

LEMMA ArrayTypes ==
  ASSUME NEW N, Nodes(N), NEW T \in Arrays(N), NEW n \in N
  PROVE  /\ DOMAIN T = N /\ n \in Nat /\ n # Nil
         /\ Up(T, n) \in Links(N) /\ High(T, n) \in Nat /\ KeyOf(T, n) \in Keys /\ KeyOf(T, n) \in Int
         /\ \A s \in Sides : Kid(T, n, s) \in Links(N)
         /\ "l" \in Sides /\ "r" \in Sides
         /\ \A s \in Sides : Opposite(s) \in Sides /\ Opposite(Opposite(s)) = s /\ Opposite(s) # s
         /\ \A m \in Links(N) : Height(T, m) \in Nat
<1>1. T[n] \in Records(N) /\ \A m \in N : T[m] \in Records(N)
  BY DEF Arrays
<1>2. \A m \in N : T[m].height \in Nat
  BY <1>1 DEF Records
<1>3. \A s \in Sides : Opposite(s) \in Sides /\ Opposite(Opposite(s)) = s /\ Opposite(s) # s
  BY DEF Sides, Opposite
<1>4. \A m \in Links(N) : Height(T, m) \in Nat
  BY <1>2 DEF Height, Links
<1>5. n \in Nat /\ n # Nil
  BY DEF Nodes, Nil
<1>6. Up(T, n) \in Links(N) /\ High(T, n) \in Nat /\ KeyOf(T, n) \in Keys /\ \A s \in Sides : Kid(T, n, s) \in Links(N)
  BY <1>1 DEF Records, Up, High, KeyOf, Kid
<1> QED
  BY <1>3, <1>4, <1>5, <1>6, SymbolTreeAssumption DEF Arrays, Sides

LEMMA WithKidIs ==
  ASSUME NEW N, NEW T \in Arrays(N), NEW n \in N, NEW s \in Sides, NEW m \in Links(N)
  PROVE  /\ WithKid(T, n, s, m) \in Arrays(N)
         /\ \A x \in N : /\ Up(WithKid(T, n, s, m), x) = Up(T, x)
                         /\ High(WithKid(T, n, s, m), x) = High(T, x)
                         /\ \A u \in Sides : Kid(WithKid(T, n, s, m), x, u) = IF x = n /\ u = s THEN m ELSE Kid(T, x, u)
         /\ SameData(T, WithKid(T, n, s, m), N)
<1> DEFINE U == WithKid(T, n, s, m)
<1>1. \A x \in N : T[x] \in Records(N)
  BY DEF Arrays
<1>2. \A x \in N : U[x] = IF x = n THEN [T[n] EXCEPT !.kid = [T[n].kid EXCEPT ![s] = m]] ELSE T[x]
  BY DEF Arrays, WithKid
<1>3. DOMAIN U = N /\ U = [x \in N |-> U[x]]
  BY DEF Arrays, WithKid
<1> HIDE DEF U
<1>4. [T[n].kid EXCEPT ![s] = m] \in [Sides -> Links(N)]
  BY <1>1 DEF Records
<1>5. [T[n] EXCEPT !.kid = [T[n].kid EXCEPT ![s] = m]] \in Records(N)
  BY <1>1, <1>4 DEF Records
<1>6. U \in Arrays(N)
  BY <1>1, <1>2, <1>3, <1>5 DEF Arrays
<1>7. \A x \in N : Up(U, x) = Up(T, x) /\ High(U, x) = High(T, x) /\ U[x].key = T[x].key /\ U[x].value = T[x].value
  BY <1>1, <1>2 DEF Records, Up, High
<1>8. \A x \in N, u \in Sides : Kid(U, x, u) = IF x = n /\ u = s THEN m ELSE Kid(T, x, u)
  BY <1>1, <1>2 DEF Records, Kid
<1> QED
  BY <1>6, <1>7, <1>8 DEF U, SameData, KeyOf

LEMMA WithParentIs ==
  ASSUME NEW N, NEW T \in Arrays(N), NEW n \in N, NEW p \in Links(N)
  PROVE  /\ WithParent(T, n, p) \in Arrays(N)
         /\ \A x \in N : /\ Up(WithParent(T, n, p), x) = IF x = n THEN p ELSE Up(T, x)
                         /\ High(WithParent(T, n, p), x) = High(T, x)
                         /\ \A u \in Sides : Kid(WithParent(T, n, p), x, u) = Kid(T, x, u)
         /\ SameData(T, WithParent(T, n, p), N)
<1> DEFINE U == WithParent(T, n, p)
<1>1. \A x \in N : T[x] \in Records(N)
  BY DEF Arrays
<1>2. \A x \in N : U[x] = IF x = n THEN [T[n] EXCEPT !.p = p] ELSE T[x]
  BY DEF Arrays, WithParent
<1>3. DOMAIN U = N /\ U = [x \in N |-> U[x]]
  BY DEF Arrays, WithParent
<1> HIDE DEF U
<1>5. [T[n] EXCEPT !.p = p] \in Records(N)
  BY <1>1 DEF Records
<1>6. U \in Arrays(N)
  BY <1>1, <1>2, <1>3, <1>5 DEF Arrays
<1>7. \A x \in N : Up(U, x) = (IF x = n THEN p ELSE Up(T, x)) /\ High(U, x) = High(T, x) /\ U[x].key = T[x].key /\ U[x].value = T[x].value
  BY <1>1, <1>2 DEF Records, Up, High
<1>8. \A x \in N, u \in Sides : Kid(U, x, u) = Kid(T, x, u)
  BY <1>1, <1>2 DEF Records, Kid
<1> QED
  BY <1>6, <1>7, <1>8 DEF U, SameData, KeyOf

LEMMA MeasuredIs ==
  ASSUME NEW N, Nodes(N), NEW T \in Arrays(N), NEW n \in N
  PROVE  /\ Measured(T, n) \in Arrays(N)
         /\ \A x \in N : /\ Up(Measured(T, n), x) = Up(T, x)
                         /\ High(Measured(T, n), x) = IF x = n THEN Raised(T, n) ELSE High(T, x)
                         /\ \A u \in Sides : Kid(Measured(T, n), x, u) = Kid(T, x, u)
         /\ SameData(T, Measured(T, n), N)
<1> DEFINE U == Measured(T, n)
           h == Raised(T, n)
<1>1. \A x \in N : T[x] \in Records(N)
  BY DEF Arrays
<1>0. h \in Nat
  BY ArrayTypes DEF Raised, Larger
<1>9. U = [T EXCEPT ![n].height = h]
  BY DEF Measured, Raised, Larger, Kid
<1> HIDE DEF h, U
<1>2. \A x \in N : U[x] = IF x = n THEN [T[n] EXCEPT !.height = h] ELSE T[x]
  BY <1>9 DEF Arrays
<1>3. DOMAIN U = N /\ U = [x \in N |-> U[x]]
  BY <1>9 DEF Arrays
<1>5. [T[n] EXCEPT !.height = h] \in Records(N)
  BY <1>0, <1>1 DEF Records
<1>6. U \in Arrays(N)
  BY <1>1, <1>2, <1>3, <1>5 DEF Arrays
<1>7. \A x \in N : Up(U, x) = Up(T, x) /\ High(U, x) = (IF x = n THEN h ELSE High(T, x)) /\ U[x].key = T[x].key /\ U[x].value = T[x].value
  BY <1>1, <1>2 DEF Records, Up, High
<1>8. \A x \in N, u \in Sides : Kid(U, x, u) = Kid(T, x, u)
  BY <1>1, <1>2 DEF Records, Kid
<1> QED
  BY <1>6, <1>7, <1>8 DEF U, h, SameData, KeyOf

-----------------------------------------------------------------------------
(* Rotations, as changes of links.                                         *)

\* What a rotation of n down to side s links are different nodes.
Four(T, N, n, s) ==
  LET t == Kid(T, n, Opposite(s))
      m == Kid(T, t, s)
  IN /\ t \in N /\ t # n /\ Up(T, n) \notin {n, t} /\ m \notin {n, t}
     /\ m # Nil => m # Up(T, n)
     /\ Kid(T, n, s) \notin {n, t} /\ Kid(T, t, Opposite(s)) \notin {n, t}

\* The side of p on which its child n is.
SideOf(T, p, n) == IF Kid(T, p, "l") = n THEN "l" ELSE "r"

Relinked(T, R, N, n, s, t, m, p) ==
  /\ R \in Arrays(N) /\ SameData(T, R, N)
  /\ \A x \in N : Up(R, x) = IF x = t THEN p ELSE IF x = n THEN t ELSE IF x = m THEN n ELSE Up(T, x)
  /\ \A x \in N, u \in Sides :
       Kid(R, x, u) = IF x = n /\ u = Opposite(s) THEN m
                      ELSE IF x = t /\ u = s THEN n
                      ELSE IF x = p /\ u = SideOf(T, p, n) THEN t ELSE Kid(T, x, u)
  /\ \A x \in N \ {n, t} : High(R, x) = High(T, x)
  /\ High(R, n) = Raised(R, n) /\ High(R, t) = Raised(R, t)

LEMMA RotatedIs ==
  ASSUME NEW N, Nodes(N), NEW T \in Arrays(N), NEW n \in N, NEW s \in Sides, Four(T, N, n, s)
  PROVE  Relinked(T, Rotated(T, n, s), N, n, s, Kid(T, n, Opposite(s)),
                  Kid(T, Kid(T, n, Opposite(s)), s), Up(T, n))
<1> DEFINE t == Kid(T, n, Opposite(s))
           m == Kid(T, t, s)
           p == Up(T, n)
           A == IF p = Nil THEN T ELSE WithKid(T, p, SideOf(T, p, n), t)
           B == WithParent(A, t, p)
           C == WithParent(B, n, t)
           D == WithKid(C, n, Opposite(s), m)
           E == IF m = Nil THEN D ELSE WithParent(D, m, n)
           F == WithKid(E, t, s, n)
           G == Measured(F, n)
           H == Measured(G, t)
<1>0. Rotated(T, n, s) = H
  BY DEF Rotated, Kid, Up, SideOf
<1>1. /\ t \in N /\ t # n /\ p # n /\ p # t /\ m # n /\ m # t /\ (m # Nil => m # p)
      /\ m \in Links(N) /\ p \in Links(N) /\ Opposite(s) \in Sides /\ Opposite(s) # s
      /\ SideOf(T, p, n) \in Sides /\ n \in Links(N) /\ t \in Links(N) /\ Nil \notin N
  BY ArrayTypes DEF Four, SideOf, Sides, Links, Nodes, Nil
<1> HIDE DEF A, B, C, D, E, F, G, H, t, m, p
<1>2. A \in Arrays(N) /\ SameData(T, A, N)
      /\ \A x \in N : /\ Up(A, x) = Up(T, x) /\ High(A, x) = High(T, x)
                      /\ \A u \in Sides : Kid(A, x, u) = IF x = p /\ u = SideOf(T, p, n) THEN t ELSE Kid(T, x, u)
  <2>1. CASE p = Nil
    BY <1>1, <2>1 DEF SameData, A
  <2>2. CASE p # Nil
    <3>1. p \in N /\ A = WithKid(T, p, SideOf(T, p, n), t)
      BY <1>1, <2>2 DEF Links, A
    <3>2. SideOf(T, p, n) \in Sides /\ t \in Links(N)
      BY <1>1
    <3> HIDE DEF A
    <3> DEFINE v == SideOf(T, p, n)
    <3> HIDE DEF v
    <3>3. A = WithKid(T, p, v, t) /\ v \in Sides
      BY <3>1, <3>2 DEF v
    <3>4. p \in N /\ v \in Sides /\ t \in Links(N)
      BY <3>1, <3>2, <3>3
    <3>5. /\ WithKid(T, p, v, t) \in Arrays(N) /\ SameData(T, WithKid(T, p, v, t), N)
          /\ \A x \in N : /\ Up(WithKid(T, p, v, t), x) = Up(T, x) /\ High(WithKid(T, p, v, t), x) = High(T, x)
                          /\ \A u \in Sides : Kid(WithKid(T, p, v, t), x, u) = IF x = p /\ u = v THEN t ELSE Kid(T, x, u)
      BY <3>4, WithKidIs
    <3>6. A = WithKid(T, p, v, t)
      BY <3>3
    <3> HIDE DEF A
    <3> QED
      BY <3>5, <3>6 DEF v
  <2> QED
    BY <2>1, <2>2
<1>3. B \in Arrays(N) /\ SameData(A, B, N)
      /\ \A x \in N : /\ Up(B, x) = (IF x = t THEN p ELSE Up(A, x)) /\ High(B, x) = High(A, x)
                      /\ \A u \in Sides : Kid(B, x, u) = Kid(A, x, u)
  BY <1>1, <1>2, WithParentIs DEF B
<1>4. C \in Arrays(N) /\ SameData(B, C, N)
      /\ \A x \in N : /\ Up(C, x) = (IF x = n THEN t ELSE Up(B, x)) /\ High(C, x) = High(B, x)
                      /\ \A u \in Sides : Kid(C, x, u) = Kid(B, x, u)
  BY <1>1, <1>3, WithParentIs DEF C
<1>5. D \in Arrays(N) /\ SameData(C, D, N)
      /\ \A x \in N : /\ Up(D, x) = Up(C, x) /\ High(D, x) = High(C, x)
                      /\ \A u \in Sides : Kid(D, x, u) = IF x = n /\ u = Opposite(s) THEN m ELSE Kid(C, x, u)
  BY <1>1, <1>4, WithKidIs DEF D
<1>6. E \in Arrays(N) /\ SameData(D, E, N)
      /\ \A x \in N : /\ Up(E, x) = (IF x = m THEN n ELSE Up(D, x)) /\ High(E, x) = High(D, x)
                      /\ \A u \in Sides : Kid(E, x, u) = Kid(D, x, u)
  <2>1. CASE m = Nil
    BY <1>1, <1>5, <2>1 DEF SameData, E
  <2>2. CASE m # Nil
    <3>1. m \in N /\ E = WithParent(D, m, n)
      BY <1>1, <2>2 DEF Links, E
    <3>2. n \in Links(N) /\ D \in Arrays(N)
      BY <1>1, <1>5
    <3>3. /\ WithParent(D, m, n) \in Arrays(N) /\ SameData(D, WithParent(D, m, n), N)
          /\ \A x \in N : /\ Up(WithParent(D, m, n), x) = (IF x = m THEN n ELSE Up(D, x))
                          /\ High(WithParent(D, m, n), x) = High(D, x)
                          /\ \A u \in Sides : Kid(WithParent(D, m, n), x, u) = Kid(D, x, u)
      BY <3>1, <3>2, WithParentIs
    <3> QED
      BY <3>1, <3>3
  <2> QED
    BY <2>1, <2>2
<1>7. F \in Arrays(N) /\ SameData(E, F, N)
      /\ \A x \in N : /\ Up(F, x) = Up(E, x) /\ High(F, x) = High(E, x)
                      /\ \A u \in Sides : Kid(F, x, u) = IF x = t /\ u = s THEN n ELSE Kid(E, x, u)
  BY <1>1, <1>6, WithKidIs DEF F
<1>8. G \in Arrays(N) /\ SameData(F, G, N)
      /\ \A x \in N : /\ Up(G, x) = Up(F, x) /\ High(G, x) = IF x = n THEN Raised(F, n) ELSE High(F, x)
                      /\ \A u \in Sides : Kid(G, x, u) = Kid(F, x, u)
  BY <1>1, <1>7, MeasuredIs DEF G
<1>9. H \in Arrays(N) /\ SameData(G, H, N)
      /\ \A x \in N : /\ Up(H, x) = Up(G, x) /\ High(H, x) = IF x = t THEN Raised(G, t) ELSE High(G, x)
                      /\ \A u \in Sides : Kid(H, x, u) = Kid(G, x, u)
  BY <1>1, <1>8, MeasuredIs DEF H
<1>10. \A x \in N : Up(H, x) = IF x = t THEN p ELSE IF x = n THEN t ELSE IF x = m THEN n ELSE Up(T, x)
  BY <1>1, <1>2, <1>3, <1>4, <1>5, <1>6, <1>7, <1>8, <1>9
<1>11. \A x \in N, u \in Sides :
         Kid(H, x, u) = IF x = n /\ u = Opposite(s) THEN m
                        ELSE IF x = t /\ u = s THEN n
                        ELSE IF x = p /\ u = SideOf(T, p, n) THEN t ELSE Kid(T, x, u)
  BY <1>1, <1>2, <1>3, <1>4, <1>5, <1>6, <1>7, <1>8, <1>9
<1>12. SameData(T, H, N)
  BY <1>2, <1>3, <1>4, <1>5, <1>6, <1>7, <1>8, <1>9 DEF SameData
<1>13. \A x \in N \ {n, t} : High(H, x) = High(T, x)
  BY <1>1, <1>2, <1>3, <1>4, <1>5, <1>6, <1>7, <1>8, <1>9
<1>14. "l" \in Sides /\ "r" \in Sides /\ \A u \in Sides : u = s \/ u = Opposite(s)
  BY DEF Sides, Opposite
<1>15. /\ Kid(H, n, Opposite(s)) = m /\ Kid(H, n, s) = Kid(T, n, s)
       /\ Kid(H, t, Opposite(s)) = Kid(T, t, Opposite(s)) /\ Kid(H, t, s) = n
       /\ Kid(T, n, s) \notin {n, t} /\ Kid(T, t, Opposite(s)) \notin {n, t}
  BY <1>1, <1>11 DEF Four, t, p, m
<1>16. \A u \in Sides : Kid(H, n, u) \notin {n, t} /\ Kid(H, t, u) # t
  BY <1>1, <1>14, <1>15
<1>17. \A x \in N, u \in Sides : Kid(F, x, u) = Kid(H, x, u) /\ Kid(G, x, u) = Kid(H, x, u)
  BY <1>8, <1>9
<1>18. H \in Arrays(N) /\ \A x \in N, u \in Sides : Kid(H, x, u) \in Links(N)
  BY <1>9, ArrayTypes
<1>19. \A u \in Sides : Height(F, Kid(F, n, u)) = Height(H, Kid(H, n, u))
  BY <1>1, <1>8, <1>9, <1>16, <1>17, <1>18 DEF Height, High, Links
<1>20. \A u \in Sides : Height(G, Kid(G, t, u)) = Height(H, Kid(H, t, u))
  BY <1>1, <1>9, <1>16, <1>17, <1>18 DEF Height, High, Links
<1>21. Raised(F, n) = Raised(H, n) /\ Raised(G, t) = Raised(H, t)
  BY <1>14, <1>19, <1>20 DEF Raised
<1>22. High(H, n) = Raised(H, n) /\ High(H, t) = Raised(H, t)
  BY <1>1, <1>8, <1>9, <1>21
<1>23. Relinked(T, H, N, n, s, t, m, p)
  BY <1>9, <1>10, <1>11, <1>12, <1>13, <1>22 DEF Relinked
<1> QED
  BY <1>0, <1>23 DEF t, m, p

-----------------------------------------------------------------------------
(* Trees in order.  Every node n has an interval lo[n] .. hi[n] around its   *)
(* key, in which the keys of its subtrees lie: those of a child are one half *)
(* of those of its parent.                                                   *)

Floor == CHOOSE l \in Int : \A k \in Keys : l < k
Ceiling == CHOOSE h \in Int : \A k \in Keys : k < h

Linked(T, N, r) ==
  /\ r \in N
  /\ \A x \in N : Up(T, x) = Nil <=> x = r
  /\ \A x \in N, u \in Sides : Kid(T, x, u) # Nil => Up(T, Kid(T, x, u)) = x
  /\ \A x \in N : Up(T, x) # Nil => \E u \in Sides : Kid(T, Up(T, x), u) = x

Around(T, N, lo, hi) ==
  \A x \in N : lo[x] \in Int /\ hi[x] \in Int /\ lo[x] < KeyOf(T, x) /\ KeyOf(T, x) < hi[x]

Halved(T, N, lo, hi) ==
  \A x \in N :
    /\ Kid(T, x, "l") # Nil => lo[Kid(T, x, "l")] = lo[x] /\ hi[Kid(T, x, "l")] = KeyOf(T, x)
    /\ Kid(T, x, "r") # Nil => lo[Kid(T, x, "r")] = KeyOf(T, x) /\ hi[Kid(T, x, "r")] = hi[x]

\* Where there are keys, there is a subtree.
Filled(T, N, lo, hi) ==
  \A a, m \in N :
    /\ lo[a] < KeyOf(T, m) /\ KeyOf(T, m) < KeyOf(T, a) => Kid(T, a, "l") # Nil
    /\ KeyOf(T, a) < KeyOf(T, m) /\ KeyOf(T, m) < hi[a] => Kid(T, a, "r") # Nil

Apart(lo, hi, a, b) == hi[a] <= lo[b] \/ hi[b] <= lo[a]
Under(T, lo, hi, a, b) ==
  (lo[b] <= lo[a] /\ hi[a] <= KeyOf(T, b)) \/ (KeyOf(T, b) <= lo[a] /\ hi[a] <= hi[b])
Nested(T, N, lo, hi) ==
  \A a, b \in N : a # b => Apart(lo, hi, a, b) \/ Under(T, lo, hi, a, b) \/ Under(T, lo, hi, b, a)

Ordered(T, N, r, lo, hi) ==
  /\ lo[r] = Floor /\ hi[r] = Ceiling
  /\ Around(T, N, lo, hi) /\ Halved(T, N, lo, hi) /\ Filled(T, N, lo, hi) /\ Nested(T, N, lo, hi)

Tree(T, N, r, lo, hi) == Nodes(N) /\ T \in Arrays(N) /\ Linked(T, N, r) /\ Ordered(T, N, r, lo, hi)

LEMMA TreeTypes ==
  ASSUME NEW T, NEW N, NEW r, NEW lo, NEW hi, Tree(T, N, r, lo, hi), NEW x \in N
  PROVE  /\ lo[x] \in Int /\ hi[x] \in Int /\ KeyOf(T, x) \in Int
         /\ lo[x] < KeyOf(T, x) /\ KeyOf(T, x) < hi[x] /\ x # Nil
         /\ r \in N /\ "l" \in Sides /\ "r" \in Sides
         /\ Nodes(N) /\ T \in Arrays(N)
BY ArrayTypes DEF Tree, Ordered, Around, Linked

LEMMA KidIs ==
  ASSUME NEW T, NEW N, NEW r, NEW lo, NEW hi, Tree(T, N, r, lo, hi), NEW x \in N, NEW u \in Sides,
         Kid(T, x, u) # Nil
  PROVE  /\ Kid(T, x, u) \in N /\ Up(T, Kid(T, x, u)) = x
         /\ lo[x] <= lo[Kid(T, x, u)] /\ hi[Kid(T, x, u)] <= hi[x]
         /\ hi[Kid(T, x, u)] - lo[Kid(T, x, u)] < hi[x] - lo[x]
         /\ Under(T, lo, hi, Kid(T, x, u), x)
<1>1. Kid(T, x, u) \in N /\ Up(T, Kid(T, x, u)) = x
  BY ArrayTypes DEF Tree, Linked, Links
<1>2. u = "l" \/ u = "r"
  BY DEF Sides
<1>3. /\ lo[x] \in Int /\ hi[x] \in Int /\ lo[x] < KeyOf(T, x) /\ KeyOf(T, x) < hi[x] /\ KeyOf(T, x) \in Int
      /\ lo[Kid(T, x, u)] \in Int /\ hi[Kid(T, x, u)] \in Int
  BY <1>1, ArrayTypes DEF Tree, Ordered, Around
<1>4. CASE u = "l"
  BY <1>1, <1>3, <1>4 DEF Tree, Ordered, Halved, Under
<1>5. CASE u = "r"
  BY <1>1, <1>3, <1>5 DEF Tree, Ordered, Halved, Under
<1> QED
  BY <1>1, <1>2, <1>4, <1>5

LEMMA KidsDiffer ==
  ASSUME NEW T, NEW N, NEW r, NEW lo, NEW hi, Tree(T, N, r, lo, hi), NEW x \in N, NEW u \in Sides, NEW v \in Sides,
         Kid(T, x, u) # Nil, Kid(T, x, v) = Kid(T, x, u)
  PROVE  u = v
<1> SUFFICES ASSUME u # v PROVE FALSE
  OBVIOUS
<1> DEFINE c == Kid(T, x, u)
<1>1. Kid(T, x, "l") = c /\ Kid(T, x, "r") = c /\ c # Nil
  <2>1. u \in {"l", "r"} /\ v \in {"l", "r"}
    BY DEF Sides
  <2> QED
    BY <2>1
<1> HIDE DEF c
<1>2. lo[c] = lo[x] /\ lo[c] = KeyOf(T, x)
  BY <1>1 DEF Tree, Ordered, Halved
<1>3. lo[x] \in Int /\ KeyOf(T, x) \in Int /\ lo[x] < KeyOf(T, x)
  BY TreeTypes
<1> QED
  BY <1>2, <1>3

LEMMA FourNodes ==
  ASSUME NEW T, NEW N, NEW r, NEW lo, NEW hi, Tree(T, N, r, lo, hi), NEW n \in N, NEW s \in Sides,
         Kid(T, n, Opposite(s)) # Nil
  PROVE  Four(T, N, n, s)
<1> DEFINE t == Kid(T, n, Opposite(s))
           w(x) == hi[x] - lo[x]
<1> HIDE DEF t, w
<1>1. Nodes(N) /\ T \in Arrays(N) /\ Opposite(s) \in Sides
  BY ArrayTypes DEF Tree
<1>2. \A x \in N : w(x) \in Int /\ x # Nil
  BY <1>1, ArrayTypes DEF Tree, Ordered, Around, w
<1>3. \A x \in N, u \in Sides : Kid(T, x, u) # Nil => Kid(T, x, u) \in N /\ w(Kid(T, x, u)) < w(x) /\ Up(T, Kid(T, x, u)) = x
  BY KidIs DEF w
<1>4. t \in N /\ w(t) < w(n) /\ Up(T, t) = n
  BY <1>1, <1>3 DEF t
<1>5. \A x \in N : Up(T, x) # Nil => Up(T, x) \in N /\ w(x) < w(Up(T, x))
  <2>1. \A x \in N : Up(T, x) \in Links(N)
    BY <1>1, ArrayTypes
  <2> SUFFICES ASSUME NEW x \in N, Up(T, x) # Nil PROVE Up(T, x) \in N /\ w(x) < w(Up(T, x))
    OBVIOUS
  <2>2. Up(T, x) \in N
    BY <2>1 DEF Links
  <2>3. PICK u \in Sides : Kid(T, Up(T, x), u) = x
    BY DEF Tree, Linked
  <2> QED
    BY <1>2, <1>3, <2>2, <2>3
<1>6. Up(T, n) # n /\ Up(T, n) # t
  BY <1>2, <1>4, <1>5
<1>7. Kid(T, t, s) # n /\ Kid(T, t, s) # t /\ Kid(T, n, s) # n /\ Kid(T, t, Opposite(s)) # n /\ Kid(T, t, Opposite(s)) # t
  BY <1>1, <1>2, <1>3, <1>4
<1>8. Kid(T, t, s) # Nil => Kid(T, t, s) # Up(T, n)
  BY <1>2, <1>3, <1>4, <1>5
<1>9. Kid(T, n, s) # t
  <2>1. \A u, v \in Sides : Kid(T, n, u) # Nil /\ Kid(T, n, v) = Kid(T, n, u) => u = v
    BY KidsDiffer
  <2>2. s # Opposite(s)
    BY DEF Opposite, Sides
  <2> QED
    BY <1>1, <2>1, <2>2 DEF t
<1> QED
  BY <1>2, <1>4, <1>6, <1>7, <1>8, <1>9 DEF Four, t

\* A rotation: the intervals of two nodes change.
Turned(T, lo, hi, lo2, hi2, N, n, s, t) ==
  /\ \A x \in N : lo2[x] = IF x = t THEN lo[n] ELSE IF x = n /\ s = "r" THEN KeyOf(T, t) ELSE lo[x]
  /\ \A x \in N : hi2[x] = IF x = t THEN hi[n] ELSE IF x = n /\ s = "l" THEN KeyOf(T, t) ELSE hi[x]

Rotation(T, R, N, r, lo, hi, lo2, hi2, n, s, t, m, p) ==
  /\ Tree(T, N, r, lo, hi) /\ n \in N /\ s \in Sides
  /\ t = Kid(T, n, Opposite(s)) /\ t # Nil /\ m = Kid(T, t, s) /\ p = Up(T, n)
  /\ Relinked(T, R, N, n, s, t, m, p)
  /\ Turned(T, lo, hi, lo2, hi2, N, n, s, t)

LEMMA RotationFacts ==
  ASSUME NEW T, NEW R, NEW N, NEW r, NEW lo, NEW hi, NEW lo2, NEW hi2, NEW n, NEW s, NEW t, NEW m, NEW p,
         Rotation(T, R, N, r, lo, hi, lo2, hi2, n, s, t, m, p)
  PROVE  /\ n \in N /\ t \in N /\ t # n /\ m \in Links(N) /\ p \in Links(N) /\ Up(T, t) = n
         /\ p # n /\ p # t /\ m # n /\ m # t /\ (m # Nil => m # p /\ Up(T, m) = t) /\ Nil \notin N
         /\ \A u \in Sides : u = s \/ u = Opposite(s)
         /\ s # Opposite(s) /\ Opposite(s) \in Sides /\ s \in Sides
         /\ R \in Arrays(N) /\ Nodes(N) /\ T \in Arrays(N)
         /\ Kid(T, n, s) # n /\ Kid(T, n, s) # t /\ Kid(T, t, Opposite(s)) # n /\ Kid(T, t, Opposite(s)) # t
<1>1. n \in N /\ s \in Sides /\ Tree(T, N, r, lo, hi) /\ t = Kid(T, n, Opposite(s)) /\ m = Kid(T, t, s) /\ p = Up(T, n)
      /\ t # Nil
  BY DEF Rotation
<1>2. Four(T, N, n, s)
  BY <1>1, FourNodes
<1>3. \A u \in Sides : u = s \/ u = Opposite(s)
  BY <1>1 DEF Sides, Opposite
<1>4. s # Opposite(s) /\ Opposite(s) \in Sides /\ s \in Sides /\ p \in Links(N) /\ Nil \notin N
  BY <1>1, ArrayTypes DEF Tree, Nodes, Nil
<1>5. t \in N /\ t # n /\ p # n /\ p # t /\ m # n /\ m # t /\ (m # Nil => m # p)
      /\ Kid(T, n, s) # n /\ Kid(T, n, s) # t /\ Kid(T, t, Opposite(s)) # n /\ Kid(T, t, Opposite(s)) # t
  BY <1>1, <1>2 DEF Four
<1>6. m \in Links(N)
  BY <1>1, <1>4, <1>5, ArrayTypes DEF Tree
<1>7. Up(T, t) = n /\ (m # Nil => Up(T, m) = t)
  BY <1>1, <1>4, <1>5 DEF Tree, Linked
<1>8. R \in Arrays(N) /\ Nodes(N) /\ T \in Arrays(N)
  BY DEF Rotation, Relinked, Tree
<1> QED
  BY <1>1, <1>3, <1>4, <1>5, <1>6, <1>7, <1>8

LEMMA RotationLinks ==
  ASSUME NEW T, NEW R, NEW N, NEW r, NEW lo, NEW hi, NEW lo2, NEW hi2, NEW n, NEW s, NEW t, NEW m, NEW p,
         Rotation(T, R, N, r, lo, hi, lo2, hi2, n, s, t, m, p)
  PROVE  Linked(R, N, IF n = r THEN t ELSE r)
<1>1. /\ n \in N /\ t \in N /\ t # n /\ m \in Links(N) /\ p \in Links(N) /\ Up(T, t) = n
      /\ p # n /\ p # t /\ m # n /\ m # t /\ (m # Nil => m # p /\ Up(T, m) = t) /\ Nil \notin N
      /\ \A u \in Sides : u = s \/ u = Opposite(s)
      /\ s # Opposite(s) /\ Opposite(s) \in Sides /\ s \in Sides
      /\ R \in Arrays(N) /\ Nodes(N) /\ T \in Arrays(N)
      /\ Kid(T, n, s) # n /\ Kid(T, n, s) # t /\ Kid(T, t, Opposite(s)) # n /\ Kid(T, t, Opposite(s)) # t
  BY RotationFacts
<1>2. t = Kid(T, n, Opposite(s)) /\ m = Kid(T, t, s) /\ p = Up(T, n)
  BY DEF Rotation
<1>3. /\ r \in N
      /\ \A x \in N : Up(T, x) = Nil <=> x = r
      /\ \A x \in N, u \in Sides : Kid(T, x, u) # Nil => Up(T, Kid(T, x, u)) = x
      /\ \A x \in N : Up(T, x) # Nil => \E u \in Sides : Kid(T, Up(T, x), u) = x
  BY DEF Rotation, Tree, Linked
<1>4. \A x \in N : Up(R, x) = IF x = t THEN p ELSE IF x = n THEN t ELSE IF x = m THEN n ELSE Up(T, x)
  BY DEF Rotation, Relinked
<1>5. \A x \in N, u \in Sides :
        Kid(R, x, u) = IF x = n /\ u = Opposite(s) THEN m
                       ELSE IF x = t /\ u = s THEN n
                       ELSE IF x = p /\ u = SideOf(T, p, n) THEN t ELSE Kid(T, x, u)
  BY DEF Rotation, Relinked
<1>6. p # Nil => p \in N /\ SideOf(T, p, n) \in Sides /\ Kid(T, p, SideOf(T, p, n)) = n
  <2> SUFFICES ASSUME p # Nil PROVE p \in N /\ SideOf(T, p, n) \in Sides /\ Kid(T, p, SideOf(T, p, n)) = n
    OBVIOUS
  <2>1. PICK u \in Sides : Kid(T, p, u) = n
    BY <1>1, <1>2, <1>3
  <2> QED
    BY <1>1, <2>1 DEF Links, SideOf, Sides
<1>7. \A x \in N, u \in Sides : Kid(T, x, u) \in Links(N) /\ Kid(R, x, u) \in Links(N)
  BY <1>1, ArrayTypes
<1> DEFINE q == IF n = r THEN t ELSE r
           v == SideOf(T, p, n)
<1>12. \A x \in N, u, w \in Sides : Kid(T, x, u) # Nil /\ Kid(T, x, w) = Kid(T, x, u) => u = w
  BY KidsDiffer DEF Rotation
<1>8. q \in N
  BY <1>1, <1>3
<1>9. \A x \in N : Up(R, x) = Nil <=> x = q
  BY <1>1, <1>2, <1>3, <1>4
<1> HIDE DEF q, v
<1>10. \A x \in N, u \in Sides : Kid(R, x, u) # Nil => Up(R, Kid(R, x, u)) = x
  <2> SUFFICES ASSUME NEW x \in N, NEW u \in Sides, Kid(R, x, u) # Nil PROVE Up(R, Kid(R, x, u)) = x
    OBVIOUS
  <2>1. CASE x = n /\ u = Opposite(s)
    BY <1>1, <1>4, <1>5, <2>1 DEF Links
  <2>2. CASE x = t /\ u = s
    BY <1>1, <1>4, <1>5, <2>2
  <2>3. CASE x = p /\ u = v
    <3>1. Kid(R, x, u) = t
      BY <1>1, <1>5, <2>3 DEF v
    <3> QED
      BY <1>1, <1>4, <3>1, <2>3
  <2>4. CASE ~(x = n /\ u = Opposite(s)) /\ ~(x = t /\ u = s) /\ ~(x = p /\ u = v)
    <3> DEFINE c == Kid(T, x, u)
    <3>1. Kid(R, x, u) = c
      BY <1>5, <2>4 DEF v
    <3>2. c \in N /\ Up(T, c) = x
      BY <1>3, <1>7, <3>1 DEF Links
    <3>3. c # t
      BY <1>1, <1>2, <1>3, <2>4, <3>2
    <3>4. c # n
      BY <1>1, <1>2, <1>6, <1>12, <2>4, <3>2 DEF v
    <3>5. c # m
      BY <1>1, <1>2, <1>12, <2>4, <3>2
    <3> QED
      BY <1>4, <3>1, <3>2, <3>3, <3>4, <3>5
  <2> QED
    BY <2>1, <2>2, <2>3, <2>4
<1>11. \A x \in N : Up(R, x) # Nil => \E u \in Sides : Kid(R, Up(R, x), u) = x
  <2> SUFFICES ASSUME NEW x \in N, Up(R, x) # Nil PROVE \E u \in Sides : Kid(R, Up(R, x), u) = x
    OBVIOUS
  <2>1. CASE x = t
    BY <1>1, <1>4, <1>5, <1>6, <2>1
  <2>2. CASE x = n
    BY <1>1, <1>4, <1>5, <2>2
  <2>3. CASE x = m
    BY <1>1, <1>4, <1>5, <2>3
  <2>4. CASE x \notin {t, n, m}
    <3>1. Up(R, x) = Up(T, x)
      BY <1>4, <2>4
    <3>2. PICK u \in Sides : Kid(T, Up(T, x), u) = x
      BY <1>3, <3>1
    <3>3. Up(T, x) \in N
      BY <1>1, <3>1, ArrayTypes DEF Links
    <3>4. Kid(R, Up(T, x), u) = x
      BY <1>1, <1>2, <1>5, <1>6, <2>4, <3>2, <3>3
    <3> QED
      BY <3>1, <3>4
  <2> QED
    BY <2>1, <2>2, <2>3, <2>4
<1> QED
  BY <1>8, <1>9, <1>10, <1>11 DEF Linked, q

IsHalf(T, lo, hi, x, u, c) ==
  IF u = "l" THEN lo[c] = lo[x] /\ hi[c] = KeyOf(T, x) ELSE lo[c] = KeyOf(T, x) /\ hi[c] = hi[x]

LEMMA HalvedIs ==
  ASSUME NEW T, NEW N, NEW lo, NEW hi
  PROVE  Halved(T, N, lo, hi) <=>
           \A x \in N, u \in Sides : Kid(T, x, u) # Nil => IsHalf(T, lo, hi, x, u, Kid(T, x, u))
BY DEF Halved, IsHalf, Sides

\* What a rotation does, without what it leaves as it is.
LEMMA RotationIntervals ==
  ASSUME NEW T, NEW R, NEW N, NEW r, NEW lo, NEW hi, NEW lo2, NEW hi2, NEW n, NEW s, NEW t, NEW m, NEW p,
         Rotation(T, R, N, r, lo, hi, lo2, hi2, n, s, t, m, p)
  PROVE  /\ \A x \in N : /\ KeyOf(R, x) = KeyOf(T, x) /\ KeyOf(T, x) \in Int
                         /\ lo[x] \in Int /\ hi[x] \in Int /\ lo[x] < KeyOf(T, x) /\ KeyOf(T, x) < hi[x]
                         /\ lo2[x] \in Int /\ hi2[x] \in Int
         /\ \A x \in N : x \notin {n, t} => lo2[x] = lo[x] /\ hi2[x] = hi[x]
         /\ lo2[t] = lo[n] /\ hi2[t] = hi[n]
         /\ \/ /\ s = "l" /\ KeyOf(T, n) < KeyOf(T, t) /\ lo[t] = KeyOf(T, n) /\ hi[t] = hi[n]
               /\ lo2[n] = lo[n] /\ hi2[n] = KeyOf(T, t)
               /\ m # Nil => lo[m] = KeyOf(T, n) /\ hi[m] = KeyOf(T, t)
            \/ /\ s = "r" /\ KeyOf(T, t) < KeyOf(T, n) /\ lo[t] = lo[n] /\ hi[t] = KeyOf(T, n)
               /\ lo2[n] = KeyOf(T, t) /\ hi2[n] = hi[n]
               /\ m # Nil => lo[m] = KeyOf(T, t) /\ hi[m] = KeyOf(T, n)
<1>1. n \in N /\ t \in N /\ t # n /\ s \in Sides
  BY RotationFacts
<1>2. Tree(T, N, r, lo, hi) /\ t = Kid(T, n, Opposite(s)) /\ t # Nil /\ m = Kid(T, t, s)
  BY DEF Rotation
<1>3. \A x \in N : KeyOf(R, x) = KeyOf(T, x)
  BY DEF Rotation, Relinked, SameData
<1>4. \A x \in N : KeyOf(T, x) \in Int /\ lo[x] \in Int /\ hi[x] \in Int /\ lo[x] < KeyOf(T, x) /\ KeyOf(T, x) < hi[x]
  BY <1>2, TreeTypes
<1>5. \A x \in N : /\ lo2[x] = IF x = t THEN lo[n] ELSE IF x = n /\ s = "r" THEN KeyOf(T, t) ELSE lo[x]
                   /\ hi2[x] = IF x = t THEN hi[n] ELSE IF x = n /\ s = "l" THEN KeyOf(T, t) ELSE hi[x]
  BY DEF Rotation, Turned
<1>6. \A x \in N, u \in Sides : Kid(T, x, u) # Nil => IsHalf(T, lo, hi, x, u, Kid(T, x, u))
  BY <1>2, HalvedIs DEF Tree, Ordered
<1>7. \A x \in N : lo2[x] \in Int /\ hi2[x] \in Int
  BY <1>1, <1>4, <1>5
<1>8. CASE s = "l"
  <2>1. t = Kid(T, n, "r") /\ m = Kid(T, t, "l") /\ "l" \in Sides /\ "r" \in Sides
    BY <1>2, <1>8 DEF Opposite, Sides
  <2>2. lo[t] = KeyOf(T, n) /\ hi[t] = hi[n]
    BY <1>1, <1>2, <1>6, <2>1 DEF IsHalf
  <2>3. m # Nil => lo[m] = lo[t] /\ hi[m] = KeyOf(T, t)
    BY <1>1, <1>2, <1>6, <2>1 DEF IsHalf
  <2> QED
    BY <1>1, <1>3, <1>4, <1>5, <1>7, <1>8, <2>2, <2>3
<1>9. CASE s = "r"
  <2>1. t = Kid(T, n, "l") /\ m = Kid(T, t, "r") /\ "l" \in Sides /\ "r" \in Sides
    BY <1>2, <1>9 DEF Opposite, Sides
  <2>2. lo[t] = lo[n] /\ hi[t] = KeyOf(T, n)
    BY <1>1, <1>2, <1>6, <2>1 DEF IsHalf
  <2>3. m # Nil => lo[m] = KeyOf(T, t) /\ hi[m] = hi[t]
    BY <1>1, <1>2, <1>6, <2>1 DEF IsHalf
  <2> QED
    BY <1>1, <1>3, <1>4, <1>5, <1>7, <1>9, <2>2, <2>3
<1> QED
  BY <1>1, <1>8, <1>9 DEF Sides

LEMMA RotationOrder ==
  ASSUME NEW T, NEW R, NEW N, NEW r, NEW lo, NEW hi, NEW lo2, NEW hi2, NEW n, NEW s, NEW t, NEW m, NEW p,
         Rotation(T, R, N, r, lo, hi, lo2, hi2, n, s, t, m, p)
  PROVE  Ordered(R, N, IF n = r THEN t ELSE r, lo2, hi2)
<1>1. /\ n \in N /\ t \in N /\ t # n /\ m \in Links(N) /\ p \in Links(N) /\ Up(T, t) = n
      /\ p # n /\ p # t /\ m # n /\ m # t /\ (m # Nil => m # p /\ Up(T, m) = t) /\ Nil \notin N
      /\ \A u \in Sides : u = s \/ u = Opposite(s)
      /\ s # Opposite(s) /\ Opposite(s) \in Sides /\ s \in Sides
      /\ R \in Arrays(N) /\ Nodes(N) /\ T \in Arrays(N)
      /\ Kid(T, n, s) # n /\ Kid(T, n, s) # t /\ Kid(T, t, Opposite(s)) # n /\ Kid(T, t, Opposite(s)) # t
  BY RotationFacts
<1>2. t = Kid(T, n, Opposite(s)) /\ m = Kid(T, t, s) /\ p = Up(T, n)
  BY DEF Rotation
<1>3. /\ \A x \in N : /\ KeyOf(R, x) = KeyOf(T, x) /\ KeyOf(T, x) \in Int
                      /\ lo[x] \in Int /\ hi[x] \in Int /\ lo[x] < KeyOf(T, x) /\ KeyOf(T, x) < hi[x]
                      /\ lo2[x] \in Int /\ hi2[x] \in Int
      /\ \A x \in N : x \notin {n, t} => lo2[x] = lo[x] /\ hi2[x] = hi[x]
      /\ lo2[t] = lo[n] /\ hi2[t] = hi[n]
  BY RotationIntervals
<1>4. \/ /\ s = "l" /\ KeyOf(T, n) < KeyOf(T, t) /\ lo[t] = KeyOf(T, n) /\ hi[t] = hi[n]
         /\ lo2[n] = lo[n] /\ hi2[n] = KeyOf(T, t)
         /\ m # Nil => lo[m] = KeyOf(T, n) /\ hi[m] = KeyOf(T, t)
      \/ /\ s = "r" /\ KeyOf(T, t) < KeyOf(T, n) /\ lo[t] = lo[n] /\ hi[t] = KeyOf(T, n)
         /\ lo2[n] = KeyOf(T, t) /\ hi2[n] = hi[n]
         /\ m # Nil => lo[m] = KeyOf(T, t) /\ hi[m] = KeyOf(T, n)
  BY RotationIntervals
<1>5. \A x \in N, u \in Sides :
        Kid(R, x, u) = IF x = n /\ u = Opposite(s) THEN m
                       ELSE IF x = t /\ u = s THEN n
                       ELSE IF x = p /\ u = SideOf(T, p, n) THEN t ELSE Kid(T, x, u)
  BY DEF Rotation, Relinked
<1>6. Tree(T, N, r, lo, hi)
  BY DEF Rotation
<1> DEFINE q == IF n = r THEN t ELSE r
           v == SideOf(T, p, n)
<1>7. \A x \in N, u \in Sides : Kid(T, x, u) # Nil => IsHalf(T, lo, hi, x, u, Kid(T, x, u))
  BY <1>6, HalvedIs DEF Tree, Ordered
<1>8. p # Nil => p \in N /\ v \in Sides /\ Kid(T, p, v) = n
  <2> SUFFICES ASSUME p # Nil PROVE p \in N /\ v \in Sides /\ Kid(T, p, v) = n
    OBVIOUS
  <2>1. PICK u \in Sides : Kid(T, p, u) = n
    BY <1>1, <1>2, <1>6 DEF Tree, Linked
  <2> QED
    BY <1>1, <2>1 DEF Links, SideOf, Sides
<1> HIDE DEF q, v
<1>9. \A x \in N, u, w \in Sides : Kid(T, x, u) # Nil /\ Kid(T, x, w) = Kid(T, x, u) => u = w
  BY <1>6, KidsDiffer
<1>10. \A x \in N, u \in Sides : Kid(T, x, u) # Nil => Up(T, Kid(T, x, u)) = x
  BY <1>6 DEF Tree, Linked
<1>11. \A x \in N, u \in Sides : Kid(T, x, u) \in Links(N)
  BY <1>1, ArrayTypes
<1>12. lo2[q] = Floor /\ hi2[q] = Ceiling
  <2>1. lo[r] = Floor /\ hi[r] = Ceiling /\ r \in N /\ Up(T, r) = Nil
    BY <1>6 DEF Tree, Ordered, Linked
  <2> QED
    BY <1>1, <1>3, <2>1 DEF q
<1>13. Around(R, N, lo2, hi2)
  <2> SUFFICES ASSUME NEW x \in N PROVE lo2[x] < KeyOf(T, x) /\ KeyOf(T, x) < hi2[x]
    BY <1>3 DEF Around
  <2> QED
    BY <1>1, <1>3, <1>4
<1>14. Halved(R, N, lo2, hi2)
  <2> SUFFICES ASSUME NEW x \in N, NEW u \in Sides, Kid(R, x, u) # Nil
               PROVE  IsHalf(R, lo2, hi2, x, u, Kid(R, x, u))
    BY HalvedIs
  <2>0. Opposite("l") = "r" /\ Opposite("r") = "l" /\ u \in {"l", "r"}
    BY DEF Opposite, Sides
  <2>1. CASE x = n /\ u = Opposite(s)
    <3>1. Kid(R, x, u) = m /\ m \in N
      BY <1>1, <1>5, <2>1 DEF Links
    <3>2. lo2[m] = lo[m] /\ hi2[m] = hi[m] /\ m # Nil
      BY <1>1, <1>3, <3>1
    <3> QED
      BY <1>1, <1>3, <1>4, <2>0, <2>1, <3>1, <3>2 DEF IsHalf
  <2>2. CASE x = t /\ u = s
    <3>1. Kid(R, x, u) = n
      BY <1>1, <1>5, <2>2
    <3> QED
      BY <1>1, <1>3, <1>4, <2>0, <2>2, <3>1 DEF IsHalf
  <2>3. CASE x = p /\ u = v
    <3>1. Kid(R, x, u) = t /\ Kid(T, p, v) = n
      BY <1>1, <1>5, <1>8, <2>3 DEF v
    <3>2. IsHalf(T, lo, hi, p, v, n)
      BY <1>1, <1>7, <1>8, <2>3, <3>1
    <3> QED
      BY <1>1, <1>3, <2>0, <2>3, <3>1, <3>2 DEF IsHalf
  <2>4. CASE ~(x = n /\ u = Opposite(s)) /\ ~(x = t /\ u = s) /\ ~(x = p /\ u = v)
    <3> DEFINE c == Kid(T, x, u)
    <3>1. Kid(R, x, u) = c
      BY <1>5, <2>4 DEF v
    <3>2. c \in N /\ Up(T, c) = x /\ IsHalf(T, lo, hi, x, u, c)
      BY <1>7, <1>10, <1>11, <3>1 DEF Links
    <3>3. c # t
      BY <1>1, <1>2, <2>4, <3>2
    <3>4. c # n
      BY <1>1, <1>2, <1>8, <1>9, <2>4, <3>2 DEF v
    <3> HIDE DEF c
    <3>5. lo2[c] = lo[c] /\ hi2[c] = hi[c] /\ KeyOf(R, x) = KeyOf(T, x)
      BY <1>3, <3>2, <3>3, <3>4
    <3>6. CASE x \notin {n, t}
      BY <1>3, <3>1, <3>2, <3>5, <3>6 DEF IsHalf
    <3>7. CASE x = n
      <4>1. u = s
        BY <1>1, <2>4, <3>7
      <4> QED
        BY <1>4, <2>0, <3>1, <3>2, <3>5, <3>7, <4>1 DEF IsHalf
    <3>8. CASE x = t
      <4>1. u = Opposite(s)
        BY <1>1, <2>4, <3>8
      <4> QED
        BY <1>3, <1>4, <2>0, <3>1, <3>2, <3>5, <3>8, <4>1 DEF IsHalf
    <3> QED
      BY <3>6, <3>7, <3>8
  <2> QED
    BY <2>1, <2>2, <2>3, <2>4
<1>15. Filled(R, N, lo2, hi2)
  <2>0. "l" \in Sides /\ "r" \in Sides /\ Opposite("l") = "r" /\ Opposite("r") = "l"
    BY DEF Opposite, Sides
  <2> SUFFICES ASSUME NEW a \in N, NEW b \in N
               PROVE  /\ lo2[a] < KeyOf(T, b) /\ KeyOf(T, b) < KeyOf(T, a) => Kid(R, a, "l") # Nil
                      /\ KeyOf(T, a) < KeyOf(T, b) /\ KeyOf(T, b) < hi2[a] => Kid(R, a, "r") # Nil
    BY <1>3 DEF Filled
  <2>1. \A x \in N :
          /\ lo[x] < KeyOf(T, b) /\ KeyOf(T, b) < KeyOf(T, x) => Kid(T, x, "l") # Nil
          /\ KeyOf(T, x) < KeyOf(T, b) /\ KeyOf(T, b) < hi[x] => Kid(T, x, "r") # Nil
    BY <1>6 DEF Tree, Ordered, Filled
  <2>2. n # Nil /\ t # Nil
    BY <1>1
  <2>3. CASE a \notin {n, t}
    <3>1. lo2[a] = lo[a] /\ hi2[a] = hi[a]
      BY <1>3, <2>3
    <3>2. \A u \in Sides : Kid(T, a, u) # Nil => Kid(R, a, u) # Nil
      BY <1>5, <2>2, <2>3
    <3> QED
      BY <2>0, <2>1, <3>1, <3>2
  <2>4. CASE a = n
    <3>1. Kid(R, n, Opposite(s)) = m /\ Kid(R, n, s) = Kid(T, n, s)
      BY <1>1, <1>5
    <3> QED
      BY <1>1, <1>2, <1>3, <1>4, <2>0, <2>1, <2>4, <3>1
  <2>5. CASE a = t
    <3>1. Kid(R, t, s) = n /\ Kid(R, t, Opposite(s)) = Kid(T, t, Opposite(s))
      BY <1>1, <1>5
    <3> QED
      BY <1>1, <1>2, <1>3, <1>4, <2>0, <2>1, <2>2, <2>5, <3>1
  <2> QED
    BY <2>3, <2>4, <2>5
<1>16. Nested(R, N, lo2, hi2)
  <2> SUFFICES ASSUME NEW a \in N, NEW b \in N, a # b
               PROVE  Apart(lo2, hi2, a, b) \/ Under(R, lo2, hi2, a, b) \/ Under(R, lo2, hi2, b, a)
    BY DEF Nested
  <2> DEFINE Fit(x, y) == Apart(lo2, hi2, x, y) \/ Under(R, lo2, hi2, x, y) \/ Under(R, lo2, hi2, y, x)
             Fitted(x, y) == Apart(lo, hi, x, y) \/ Under(T, lo, hi, x, y) \/ Under(T, lo, hi, y, x)
  <2>1. \A x, y \in N : x # y => Fitted(x, y)
    BY <1>6 DEF Tree, Ordered, Nested
  <2>2. \A x, y \in N : Fit(x, y) => Fit(y, x)
    BY DEF Apart
  <2>3. \A x, y \in N : x \notin {n, t} /\ y \notin {n, t} /\ x # y => Fit(x, y)
    BY <1>3, <2>1 DEF Apart, Under
  <2>4. Fit(n, t)
    BY <1>1, <1>3, <1>4 DEF Apart, Under
  <2>5. ASSUME NEW x \in N, x \notin {n, t} PROVE Fit(x, n) /\ Fit(x, t)
    <3>1. Fitted(x, n) /\ Fitted(x, t)
      BY <1>1, <2>1, <2>5
    <3>2. lo2[x] = lo[x] /\ hi2[x] = hi[x] /\ KeyOf(R, x) = KeyOf(T, x) /\ KeyOf(R, n) = KeyOf(T, n) /\ KeyOf(R, t) = KeyOf(T, t)
      BY <1>1, <1>3, <2>5
    <3>3. /\ lo[x] \in Int /\ hi[x] \in Int /\ lo[x] < KeyOf(T, x) /\ KeyOf(T, x) < hi[x] /\ KeyOf(T, x) \in Int
          /\ lo[n] \in Int /\ hi[n] \in Int /\ lo[n] < KeyOf(T, n) /\ KeyOf(T, n) < hi[n] /\ KeyOf(T, n) \in Int
          /\ lo[t] \in Int /\ hi[t] \in Int /\ lo[t] < KeyOf(T, t) /\ KeyOf(T, t) < hi[t] /\ KeyOf(T, t) \in Int
      BY <1>1, <1>3
    <3>4. CASE s = "l"
      BY <1>3, <1>4, <3>1, <3>2, <3>3, <3>4 DEF Apart, Under
    <3>5. CASE s = "r"
      BY <1>3, <1>4, <3>1, <3>2, <3>3, <3>5 DEF Apart, Under
    <3> QED
      BY <1>4, <3>4, <3>5
  <2> HIDE DEF Fit
  <2>6. Fit(a, b)
    BY <1>1, <2>2, <2>3, <2>4, <2>5
  <2> QED
    BY <2>6 DEF Fit
<1>17. Ordered(R, N, q, lo2, hi2)
  BY <1>12, <1>13, <1>14, <1>15, <1>16 DEF Ordered
<1> QED
  BY <1>17 DEF q

LEMMA RotationIsTree ==
  ASSUME NEW T, NEW N, NEW r, NEW lo, NEW hi, Tree(T, N, r, lo, hi), NEW n \in N, NEW s \in Sides,
         NEW t, t = Kid(T, n, Opposite(s)), t # Nil
  PROVE  \E lo2, hi2 :
           /\ Tree(Rotated(T, n, s), N, IF n = r THEN t ELSE r, lo2, hi2)
           /\ Rotation(T, Rotated(T, n, s), N, r, lo, hi, lo2, hi2, n, s, t, Kid(T, t, s), Up(T, n))
<1> DEFINE lo2 == [x \in N |-> IF x = t THEN lo[n] ELSE IF x = n /\ s = "r" THEN KeyOf(T, t) ELSE lo[x]]
           hi2 == [x \in N |-> IF x = t THEN hi[n] ELSE IF x = n /\ s = "l" THEN KeyOf(T, t) ELSE hi[x]]
           R == Rotated(T, n, s)
           m == Kid(T, t, s)
           p == Up(T, n)
<1>1. Four(T, N, n, s) /\ T \in Arrays(N) /\ Nodes(N)
  BY FourNodes DEF Tree
<1>2. Relinked(T, R, N, n, s, t, m, p)
  BY <1>1, RotatedIs
<1>3. Turned(T, lo, hi, lo2, hi2, N, n, s, t)
  BY DEF Turned
<1> HIDE DEF lo2, hi2, R, m, p
<1>4. Rotation(T, R, N, r, lo, hi, lo2, hi2, n, s, t, m, p)
  BY <1>2, <1>3 DEF Rotation, m, p
<1>5. Linked(R, N, IF n = r THEN t ELSE r) /\ Ordered(R, N, IF n = r THEN t ELSE r, lo2, hi2)
  BY <1>4, RotationLinks, RotationOrder
<1>6. R \in Arrays(N)
  BY <1>2 DEF Relinked
<1>7. Tree(R, N, IF n = r THEN t ELSE r, lo2, hi2)
  BY <1>1, <1>5, <1>6 DEF Tree
<1> QED
  BY <1>4, <1>7 DEF R, m, p

\* The heights of subtrees after a rotation.
LEMMA RotationHeights ==
  ASSUME NEW T, NEW R, NEW N, NEW r, NEW lo, NEW hi, NEW lo2, NEW hi2, NEW n, NEW s, NEW t, NEW m, NEW p,
         Rotation(T, R, N, r, lo, hi, lo2, hi2, n, s, t, m, p)
  PROVE  /\ \A x \in N : x \notin {n, t} => High(R, x) = High(T, x)
         /\ \A x \in N, u \in Sides : x \notin {n, t, p} =>
              Kid(R, x, u) = Kid(T, x, u) /\ Height(R, Kid(R, x, u)) = Height(T, Kid(T, x, u))
         /\ p # Nil => \E v \in Sides :
              /\ Kid(T, p, v) = n /\ Kid(R, p, v) = t
              /\ Kid(R, p, Opposite(v)) = Kid(T, p, Opposite(v))
              /\ Height(R, Kid(R, p, Opposite(v))) = Height(T, Kid(T, p, Opposite(v)))
         /\ Kid(R, n, Opposite(s)) = m /\ Height(R, m) = Height(T, m)
         /\ Kid(R, n, s) = Kid(T, n, s) /\ Height(R, Kid(T, n, s)) = Height(T, Kid(T, n, s))
         /\ Kid(R, t, Opposite(s)) = Kid(T, t, Opposite(s))
         /\ Height(R, Kid(T, t, Opposite(s))) = Height(T, Kid(T, t, Opposite(s)))
         /\ Kid(R, t, s) = n
         /\ High(R, n) = Raised(R, n) /\ High(R, t) = Raised(R, t)
<1>1. /\ n \in N /\ t \in N /\ t # n /\ m \in Links(N) /\ p \in Links(N) /\ Up(T, t) = n
      /\ p # n /\ p # t /\ m # n /\ m # t /\ (m # Nil => m # p /\ Up(T, m) = t) /\ Nil \notin N
      /\ \A u \in Sides : u = s \/ u = Opposite(s)
      /\ s # Opposite(s) /\ Opposite(s) \in Sides /\ s \in Sides
      /\ R \in Arrays(N) /\ Nodes(N) /\ T \in Arrays(N)
      /\ Kid(T, n, s) # n /\ Kid(T, n, s) # t /\ Kid(T, t, Opposite(s)) # n /\ Kid(T, t, Opposite(s)) # t
  BY RotationFacts
<1>2. t = Kid(T, n, Opposite(s)) /\ m = Kid(T, t, s) /\ p = Up(T, n) /\ Tree(T, N, r, lo, hi)
  BY DEF Rotation
<1>3. \A x \in N, u \in Sides :
        Kid(R, x, u) = IF x = n /\ u = Opposite(s) THEN m
                       ELSE IF x = t /\ u = s THEN n
                       ELSE IF x = p /\ u = SideOf(T, p, n) THEN t ELSE Kid(T, x, u)
  BY DEF Rotation, Relinked
<1>4. \A x \in N : x \notin {n, t} => High(R, x) = High(T, x)
  BY DEF Rotation, Relinked
<1>5. High(R, n) = Raised(R, n) /\ High(R, t) = Raised(R, t)
  BY DEF Rotation, Relinked
<1>6. \A c \in Links(N) : c \notin {n, t} => Height(R, c) = Height(T, c)
  BY <1>4 DEF Height, High, Links
<1>7. \A x \in N, u \in Sides : Kid(T, x, u) \in Links(N)
  BY <1>1, ArrayTypes
<1>8. \A x \in N, u \in Sides : Kid(T, x, u) # Nil => Up(T, Kid(T, x, u)) = x
  BY <1>2 DEF Tree, Linked
<1>9. \A x \in N, u, w \in Sides : Kid(T, x, u) # Nil /\ Kid(T, x, w) = Kid(T, x, u) => u = w
  BY <1>2, KidsDiffer
<1>10. \A x \in N, u \in Sides : x \notin {n, t, p} =>
          Kid(R, x, u) = Kid(T, x, u) /\ Height(R, Kid(R, x, u)) = Height(T, Kid(T, x, u))
  <2> SUFFICES ASSUME NEW x \in N, NEW u \in Sides, x \notin {n, t, p}
               PROVE  Kid(R, x, u) = Kid(T, x, u) /\ Height(R, Kid(R, x, u)) = Height(T, Kid(T, x, u))
    OBVIOUS
  <2>1. Kid(R, x, u) = Kid(T, x, u)
    BY <1>3
  <2>2. Kid(T, x, u) \notin {n, t}
    BY <1>1, <1>2, <1>8
  <2> QED
    BY <1>6, <1>7, <2>1, <2>2
<1>11. ASSUME p # Nil
       PROVE  \E v \in Sides :
                /\ Kid(T, p, v) = n /\ Kid(R, p, v) = t
                /\ Kid(R, p, Opposite(v)) = Kid(T, p, Opposite(v))
                /\ Height(R, Kid(R, p, Opposite(v))) = Height(T, Kid(T, p, Opposite(v)))
  <2> DEFINE v == SideOf(T, p, n)
  <2>1. PICK w \in Sides : Kid(T, p, w) = n
    BY <1>1, <1>2, <1>11 DEF Tree, Linked
  <2>2. p \in N /\ v \in Sides /\ Kid(T, p, v) = n
    BY <1>1, <1>11, <2>1 DEF Links, SideOf, Sides
  <2>3. Opposite(v) \in Sides /\ Opposite(v) # v
    BY <1>1, <2>2, ArrayTypes
  <2> HIDE DEF v
  <2>4. Kid(R, p, v) = t /\ Kid(R, p, Opposite(v)) = Kid(T, p, Opposite(v))
    BY <1>1, <1>3, <2>2, <2>3 DEF v
  <2>5. Kid(T, p, Opposite(v)) # n
    BY <1>1, <1>9, <2>2, <2>3
  <2>6. Kid(T, p, Opposite(v)) # t
    BY <1>1, <1>8, <2>2, <2>3
  <2>7. Height(R, Kid(R, p, Opposite(v))) = Height(T, Kid(T, p, Opposite(v)))
    BY <1>6, <1>7, <2>2, <2>3, <2>4, <2>5, <2>6
  <2> QED
    BY <2>2, <2>4, <2>7
<1>12. Kid(R, n, Opposite(s)) = m /\ Kid(R, n, s) = Kid(T, n, s)
       /\ Kid(R, t, Opposite(s)) = Kid(T, t, Opposite(s)) /\ Kid(R, t, s) = n
  BY <1>1, <1>3
<1>13. Height(R, m) = Height(T, m) /\ Height(R, Kid(T, n, s)) = Height(T, Kid(T, n, s))
       /\ Height(R, Kid(T, t, Opposite(s))) = Height(T, Kid(T, t, Opposite(s)))
  BY <1>1, <1>6, <1>7
<1> QED
  BY <1>4, <1>5, <1>10, <1>11, <1>12, <1>13

-----------------------------------------------------------------------------
(* Balance.  Where __balance has not been yet, a node has the height that it *)
(* had before one of its subtrees got higher.                                *)

Level(a, b) == a <= b + 1 /\ b <= a + 1
Even(T, x) ==
  High(T, x) = Raised(T, x) /\ Level(Height(T, Kid(T, x, "l")), Height(T, Kid(T, x, "r")))
WasEven(T, x, u, h) ==
  LET other == Height(T, Kid(T, x, Opposite(u))) IN
  /\ Level(h, other) /\ High(T, x) = 1 + Larger(h, other)
  /\ Height(T, Kid(T, x, u)) = h \/ Height(T, Kid(T, x, u)) = h + 1
Uneven(T, x) == \E u \in Sides, h \in Nat : WasEven(T, x, u, h)

LEMMA RaisedIs ==
  ASSUME NEW N, Nodes(N), NEW T \in Arrays(N), NEW x \in N, NEW u \in Sides
  PROVE  LET a == Height(T, Kid(T, x, u))
             b == Height(T, Kid(T, x, Opposite(u)))
         IN /\ a \in Nat /\ b \in Nat /\ Raised(T, x) = 1 + Larger(a, b)
            /\ Even(T, x) <=> High(T, x) = 1 + Larger(a, b) /\ Level(a, b)
<1>1. \A c \in Links(N) : Height(T, c) \in Nat
  BY ArrayTypes
<1>2. \A w \in Sides : Kid(T, x, w) \in Links(N)
  BY ArrayTypes
<1>3. (u = "l" /\ Opposite(u) = "r") \/ (u = "r" /\ Opposite(u) = "l")
  BY DEF Sides, Opposite
<1>4. "l" \in Sides /\ "r" \in Sides
  BY DEF Sides
<1>5. Height(T, Kid(T, x, "l")) \in Nat /\ Height(T, Kid(T, x, "r")) \in Nat
  BY <1>1, <1>2, <1>4
<1>6. CASE u = "l" /\ Opposite(u) = "r"
  BY <1>5, <1>6 DEF Raised, Even, Larger, Level
<1>7. CASE u = "r" /\ Opposite(u) = "l"
  BY <1>5, <1>7 DEF Raised, Even, Larger, Level
<1> QED
  BY <1>3, <1>6, <1>7

LEMMA ParentUneven ==
  ASSUME NEW N, Nodes(N), NEW T \in Arrays(N), NEW U \in Arrays(N), NEW p \in N, NEW v \in Sides,
         NEW n \in N, NEW c \in N, Even(T, p), Kid(T, p, v) = n, Kid(U, p, v) = c,
         Height(U, Kid(U, p, Opposite(v))) = Height(T, Kid(T, p, Opposite(v))),
         High(U, p) = High(T, p), High(U, c) = High(T, n) \/ High(U, c) = High(T, n) + 1
  PROVE  Uneven(U, p)
<1>1. Height(T, n) = High(T, n) /\ Height(U, c) = High(U, c) /\ High(T, n) \in Nat
  BY ArrayTypes DEF Height, High
<1>2. High(T, p) = 1 + Larger(High(T, n), Height(T, Kid(T, p, Opposite(v)))) /\ Level(High(T, n), Height(T, Kid(T, p, Opposite(v))))
  BY <1>1, RaisedIs
<1>3. WasEven(U, p, v, High(T, n))
  BY <1>1, <1>2 DEF WasEven
<1> QED
  BY <1>1, <1>3 DEF Uneven

Rebalanced(T, U, N, n, c, q, lo, hi, lo2, hi2) ==
  /\ Tree(U, N, q, lo2, hi2) /\ SameData(T, U, N)
  /\ c \in N /\ Up(U, c) = Up(T, n) /\ lo2[c] = lo[n] /\ hi2[c] = hi[n]
  /\ \A x \in N : x # Up(T, n) => Even(U, x)
  /\ Up(T, n) # Nil => Uneven(U, Up(T, n))

\* Only links and keys make a tree.
LEMMA SameShape ==
  ASSUME NEW T, NEW N, NEW r, NEW lo, NEW hi, Tree(T, N, r, lo, hi), NEW U \in Arrays(N),
         \A x \in N : Up(U, x) = Up(T, x) /\ KeyOf(U, x) = KeyOf(T, x) /\ \A u \in Sides : Kid(U, x, u) = Kid(T, x, u)
  PROVE  Tree(U, N, r, lo, hi)
<1>1. Nodes(N) /\ T \in Arrays(N) /\ Linked(T, N, r) /\ Ordered(T, N, r, lo, hi)
  BY DEF Tree
<1>2. \A x \in N, u \in Sides : Kid(T, x, u) \in Links(N)
  BY <1>1, ArrayTypes
<1>3. \A x \in N : Up(T, x) \in Links(N)
  BY <1>1, ArrayTypes
<1>4. Linked(U, N, r)
  BY <1>1, <1>2, <1>3 DEF Linked, Links
<1>5. Halved(U, N, lo, hi)
  <2>1. \A x \in N, u \in Sides : Kid(T, x, u) # Nil => IsHalf(T, lo, hi, x, u, Kid(T, x, u))
    BY <1>1, HalvedIs DEF Ordered
  <2>2. \A x \in N, u \in Sides : Kid(U, x, u) # Nil => IsHalf(U, lo, hi, x, u, Kid(U, x, u))
    BY <2>1 DEF IsHalf
  <2> QED
    BY <2>2, HalvedIs
<1>6. Around(U, N, lo, hi)
  BY <1>1 DEF Ordered, Around
<1>7. Filled(U, N, lo, hi)
  BY <1>1 DEF Ordered, Filled, Sides
<1>8. Nested(U, N, lo, hi)
  BY <1>1 DEF Ordered, Nested, Under
<1> QED
  BY <1>1, <1>4, <1>5, <1>6, <1>7, <1>8 DEF Tree, Ordered

LEMMA MeasuredStep ==
  ASSUME NEW T, NEW N, NEW r, NEW lo, NEW hi, Tree(T, N, r, lo, hi), NEW n \in N,
         \A x \in N : x # n => Even(T, x), Uneven(T, n),
         Level(Height(T, Kid(T, n, "l")), Height(T, Kid(T, n, "r")))
  PROVE  Rebalanced(T, Measured(T, n), N, n, n, r, lo, hi, lo, hi)
<1> DEFINE U == Measured(T, n)
<1>1. Nodes(N) /\ T \in Arrays(N) /\ Linked(T, N, r)
  BY DEF Tree
<1>2. /\ U \in Arrays(N) /\ SameData(T, U, N)
      /\ \A x \in N : /\ Up(U, x) = Up(T, x) /\ High(U, x) = IF x = n THEN Raised(T, n) ELSE High(T, x)
                      /\ \A u \in Sides : Kid(U, x, u) = Kid(T, x, u)
  BY <1>1, MeasuredIs
<1> HIDE DEF U
<1>3. Tree(U, N, r, lo, hi)
  BY <1>2, SameShape DEF SameData
<1>4. \A x \in N, u \in Sides : Kid(T, x, u) \in Links(N) /\ (Kid(T, x, u) = n => x = Up(T, n))
  <2>1. n # Nil /\ \A x \in N, u \in Sides : Kid(T, x, u) \in Links(N)
    BY <1>1, ArrayTypes
  <2> QED
    BY <1>1, <2>1 DEF Linked
<1>5. \A c \in Links(N) : c # n => Height(U, c) = Height(T, c)
  BY <1>2 DEF Links, Height, High
<1>6. \A x \in N, u \in Sides : x # Up(T, n) => Height(U, Kid(U, x, u)) = Height(T, Kid(T, x, u))
  BY <1>2, <1>4, <1>5
<1>7. "l" \in Sides /\ "r" \in Sides
  BY DEF Sides
<1>8. Up(T, n) # n
  <2> SUFFICES ASSUME Up(T, n) = n PROVE FALSE
    OBVIOUS
  <2>1. PICK u \in Sides : Kid(T, n, u) = n
    BY <1>1, ArrayTypes DEF Linked
  <2>2. n # Nil /\ hi[n] \in Int /\ lo[n] \in Int
    BY TreeTypes
  <2>3. hi[n] - lo[n] < hi[n] - lo[n]
    BY <2>1, <2>2, KidIs
  <2> QED
    BY <2>2, <2>3
<1>9. ASSUME NEW x \in N, x # Up(T, n) PROVE Even(U, x)
  <2>1. Raised(U, x) = Raised(T, x) /\ Height(U, Kid(U, x, "l")) = Height(T, Kid(T, x, "l"))
        /\ Height(U, Kid(U, x, "r")) = Height(T, Kid(T, x, "r"))
    BY <1>6, <1>7, <1>9 DEF Raised
  <2>2. CASE x = n
    BY <1>2, <2>1, <2>2 DEF Even
  <2>3. CASE x # n
    BY <1>2, <2>1, <2>3 DEF Even
  <2> QED
    BY <2>2, <2>3
<1>10. ASSUME Up(T, n) # Nil PROVE Uneven(U, Up(T, n))
  <2> DEFINE p == Up(T, n)
  <2>1. PICK v \in Sides : Kid(T, p, v) = n
    BY <1>1, <1>10 DEF Linked
  <2>2. p \in N
    BY <1>1, <1>10, ArrayTypes DEF Links
  <2> HIDE DEF p
  <2>3. Opposite(v) \in Sides /\ Opposite(v) # v /\ n # Nil
    BY <1>1, ArrayTypes
  <2>4. Kid(T, p, Opposite(v)) # n
    BY <2>1, <2>2, <2>3, KidsDiffer
  <2>5. Height(U, Kid(U, p, Opposite(v))) = Height(T, Kid(T, p, Opposite(v)))
    BY <1>2, <1>4, <1>5, <2>2, <2>3, <2>4
  <2>6. High(U, n) = High(T, n) \/ High(U, n) = High(T, n) + 1
    <3>1. PICK u \in Sides, h \in Nat : WasEven(T, n, u, h)
      BY DEF Uneven
    <3>2. High(U, n) = Raised(T, n)
      BY <1>2
    <3>3. /\ Height(T, Kid(T, n, u)) \in Nat /\ Height(T, Kid(T, n, Opposite(u))) \in Nat
          /\ Raised(T, n) = 1 + Larger(Height(T, Kid(T, n, u)), Height(T, Kid(T, n, Opposite(u))))
      BY <1>1, RaisedIs
    <3> QED
      BY <3>1, <3>2, <3>3 DEF WasEven, Larger, Level
  <2>7. p # n /\ Even(T, p) /\ High(U, p) = High(T, p) /\ Kid(U, p, v) = n
    BY <1>2, <1>8, <2>1, <2>2 DEF p
  <2>8. Uneven(U, p)
    BY <1>1, <1>2, <2>1, <2>2, <2>5, <2>6, <2>7, ParentUneven
  <2> QED
    BY <2>8 DEF p
<1>11. Rebalanced(T, U, N, n, n, r, lo, hi, lo, hi)
  BY <1>2, <1>3, <1>9, <1>10 DEF Rebalanced
<1> QED
  BY <1>11 DEF U

\* The heights at a node that __balance turns about.
LEMMA Leaning ==
  ASSUME NEW T, NEW N, Nodes(N), T \in Arrays(N), NEW n \in N, NEW u \in Sides, Uneven(T, n),
         Height(T, Kid(T, n, u)) >= Height(T, Kid(T, n, Opposite(u))) + 2
  PROVE  /\ Height(T, Kid(T, n, Opposite(u))) \in Nat
         /\ Height(T, Kid(T, n, u)) = Height(T, Kid(T, n, Opposite(u))) + 2
         /\ High(T, n) = Height(T, Kid(T, n, Opposite(u))) + 2
         /\ Kid(T, n, u) # Nil
<1>1. PICK w \in Sides, h \in Nat : WasEven(T, n, w, h)
  BY DEF Uneven
<1>2. /\ Height(T, Kid(T, n, u)) \in Nat /\ Height(T, Kid(T, n, Opposite(u))) \in Nat
  BY RaisedIs
<1>3. (w = u \/ w = Opposite(u)) /\ Opposite(Opposite(u)) = u
  BY DEF Sides, Opposite
<1>4. Kid(T, n, u) # Nil
  BY <1>2 DEF Height
<1> QED
  BY <1>1, <1>2, <1>3, <1>4 DEF WasEven, Level, Larger

LEMMA OthersEven ==
  ASSUME NEW T, NEW R, NEW N, NEW r, NEW lo, NEW hi, NEW lo2, NEW hi2, NEW n, NEW s, NEW t, NEW m, NEW p,
         Rotation(T, R, N, r, lo, hi, lo2, hi2, n, s, t, m, p), NEW x \in N, x \notin {n, t, p}, Even(T, x)
  PROVE  Even(R, x)
<1>1. "l" \in Sides /\ "r" \in Sides
  BY DEF Sides
<1>2. High(R, x) = High(T, x) /\ \A u \in Sides : Height(R, Kid(R, x, u)) = Height(T, Kid(T, x, u))
  BY RotationHeights
<1> QED
  BY <1>1, <1>2 DEF Even, Raised

LEMMA SingleStep ==
  ASSUME NEW T, NEW N, NEW r, NEW lo, NEW hi, Tree(T, N, r, lo, hi), NEW n \in N, NEW u \in Sides,
         \A x \in N : x # n => Even(T, x), Uneven(T, n),
         Height(T, Kid(T, n, u)) >= Height(T, Kid(T, n, Opposite(u))) + 2,
         NEW t, t = Kid(T, n, u),
         Height(T, Kid(T, t, u)) >= Height(T, Kid(T, t, Opposite(u)))
  PROVE  \E q, lo2, hi2 : Rebalanced(T, Rotated(T, n, Opposite(u)), N, n, t, q, lo, hi, lo2, hi2)
<1> DEFINE R == Rotated(T, n, Opposite(u))
           v == Opposite(u)
           m == Kid(T, t, v)
           p == Up(T, n)
           q == IF n = r THEN t ELSE r
           o == Height(T, Kid(T, n, v))
<1>1. Nodes(N) /\ T \in Arrays(N) /\ v \in Sides /\ Opposite(v) = u
  BY ArrayTypes DEF Tree
<1>2. /\ o \in Nat /\ Height(T, t) = o + 2 /\ High(T, n) = o + 2 /\ t # Nil
  BY <1>1, Leaning
<1>3. \E lo2, hi2 : Tree(R, N, q, lo2, hi2) /\ Rotation(T, R, N, r, lo, hi, lo2, hi2, n, v, t, m, p)
  BY <1>1, <1>2, RotationIsTree
<1> HIDE DEF R, v, m, p, q, o
<1>4. PICK lo2, hi2 : Tree(R, N, q, lo2, hi2) /\ Rotation(T, R, N, r, lo, hi, lo2, hi2, n, v, t, m, p)
  BY <1>3
<1>5. /\ t \in N /\ t # n /\ p # n /\ p # t /\ p \in Links(N) /\ m \in Links(N)
      /\ R \in Arrays(N) /\ SameData(T, R, N) /\ Up(R, t) = p
  BY <1>4, RotationFacts DEF Rotation, Relinked
<1>6. lo2[t] = lo[n] /\ hi2[t] = hi[n]
  BY <1>4, RotationIntervals
<1>7. /\ Kid(R, n, u) = m /\ Height(R, m) = Height(T, m)
      /\ Kid(R, n, v) = Kid(T, n, v) /\ Height(R, Kid(T, n, v)) = o
      /\ Kid(R, t, u) = Kid(T, t, u) /\ Height(R, Kid(T, t, u)) = Height(T, Kid(T, t, u))
      /\ Kid(R, t, v) = n
      /\ High(R, n) = Raised(R, n) /\ High(R, t) = Raised(R, t)
  BY <1>1, <1>4, RotationHeights DEF o
<1>8. /\ Height(T, Kid(T, t, u)) \in Nat /\ Height(T, m) \in Nat /\ Level(Height(T, Kid(T, t, u)), Height(T, m))
      /\ High(T, t) = 1 + Larger(Height(T, Kid(T, t, u)), Height(T, m))
  BY <1>1, <1>5, RaisedIs DEF v, m
<1>9. Height(T, t) = High(T, t) /\ Height(R, t) = High(R, t) /\ Height(R, n) = High(R, n)
  BY <1>2, <1>5, TreeTypes DEF Height, High
<1>10. Height(T, Kid(T, t, u)) = o + 1 /\ (Height(T, m) = o + 1 \/ Height(T, m) = o)
  BY <1>2, <1>8, <1>9 DEF Larger, Level, m, v
<1>11. /\ Raised(R, n) = 1 + Larger(Height(T, m), o) /\ (Even(R, n) <=> High(R, n) = Raised(R, n) /\ Level(Height(T, m), o))
       /\ Raised(R, t) = 1 + Larger(Height(T, Kid(T, t, u)), High(R, n))
       /\ (Even(R, t) <=> High(R, t) = Raised(R, t) /\ Level(Height(T, Kid(T, t, u)), High(R, n)))
  <2>1. Nodes(N) /\ R \in Arrays(N) /\ n \in N /\ t \in N /\ u \in Sides /\ Opposite(u) = v
    BY <1>1, <1>5 DEF v
  <2>2. LET a == Height(R, Kid(R, n, u)) b == Height(R, Kid(R, n, v))
        IN /\ Raised(R, n) = 1 + Larger(a, b) /\ (Even(R, n) <=> High(R, n) = 1 + Larger(a, b) /\ Level(a, b))
    BY <2>1, RaisedIs
  <2>3. LET a == Height(R, Kid(R, t, u)) b == Height(R, Kid(R, t, v))
        IN /\ Raised(R, t) = 1 + Larger(a, b) /\ (Even(R, t) <=> High(R, t) = 1 + Larger(a, b) /\ Level(a, b))
    BY <2>1, RaisedIs
  <2> QED
    BY <1>7, <1>9, <2>2, <2>3
<1>12. /\ Even(R, n) /\ Even(R, t) /\ (High(R, t) = o + 2 \/ High(R, t) = o + 3)
  <2>1. Even(R, n) /\ High(R, n) = 1 + Height(T, m)
    BY <1>2, <1>7, <1>10, <1>11 DEF Level, Larger
  <2> QED
    BY <1>2, <1>7, <1>10, <1>11, <2>1 DEF Level, Larger
<1>13. ASSUME NEW x \in N, x # p PROVE Even(R, x)
  BY <1>4, <1>12, <1>13, OthersEven
<1>14. ASSUME p # Nil PROVE Uneven(R, p)
  <2>1. p \in N /\ Even(T, p)
    BY <1>5, <1>14 DEF Links
  <2>2. PICK w \in Sides : /\ Kid(T, p, w) = n /\ Kid(R, p, w) = t
                           /\ Height(R, Kid(R, p, Opposite(w))) = Height(T, Kid(T, p, Opposite(w)))
    BY <1>4, <1>14, RotationHeights
  <2>3. High(R, p) = High(T, p)
    BY <1>4, <1>5, <2>1, RotationHeights
  <2>4. High(R, t) = High(T, n) \/ High(R, t) = High(T, n) + 1
    BY <1>2, <1>12
  <2> QED
    BY <1>1, <1>5, <2>1, <2>2, <2>3, <2>4, ParentUneven
<1>15. Rebalanced(T, R, N, n, t, q, lo, hi, lo2, hi2)
  BY <1>4, <1>5, <1>6, <1>13, <1>14 DEF Rebalanced, p
<1>16. \E q2, lo3, hi3 : Rebalanced(T, R, N, n, t, q2, lo, hi, lo3, hi3)
  BY <1>15
<1> QED
  BY <1>16 DEF R

LEMMA DoubleStep ==
  ASSUME NEW T, NEW N, NEW r, NEW lo, NEW hi, Tree(T, N, r, lo, hi), NEW n \in N, NEW u \in Sides,
         \A x \in N : x # n => Even(T, x), Uneven(T, n),
         Height(T, Kid(T, n, u)) >= Height(T, Kid(T, n, Opposite(u))) + 2,
         NEW t, t = Kid(T, n, u),
         Height(T, Kid(T, t, u)) < Height(T, Kid(T, t, Opposite(u)))
  PROVE  LET U == Rotated(T, t, u)
         IN \E q, lo2, hi2 : Rebalanced(T, Rotated(U, n, Opposite(u)), N, n, Kid(U, n, u), q, lo, hi, lo2, hi2)
<1> DEFINE U == Rotated(T, t, u)
           R == Rotated(U, n, Opposite(u))
           v == Opposite(u)
           c == Kid(T, t, v)
           p == Up(T, n)
           o == Height(T, Kid(T, n, v))
           q1 == IF t = r THEN c ELSE r
           q2 == IF n = q1 THEN c ELSE q1
<1>1. Nodes(N) /\ T \in Arrays(N) /\ v \in Sides /\ Opposite(v) = u /\ u # v
  BY ArrayTypes DEF Tree
<1>2. /\ o \in Nat /\ Height(T, t) = o + 2 /\ High(T, n) = o + 2 /\ t # Nil
  BY <1>1, Leaning
<1>3. t \in N /\ Up(T, t) = n
  BY <1>2, KidIs
<1>4. /\ Height(T, Kid(T, t, u)) \in Nat /\ Height(T, c) \in Nat /\ Level(Height(T, Kid(T, t, u)), Height(T, c))
      /\ High(T, t) = 1 + Larger(Height(T, Kid(T, t, u)), Height(T, c))
  <2>1. t # n
    <3> SUFFICES ASSUME t = n PROVE FALSE
      OBVIOUS
    <3>1. hi[n] \in Int /\ lo[n] \in Int
      BY TreeTypes
    <3>2. hi[t] - lo[t] < hi[n] - lo[n]
      BY <1>2, KidIs
    <3> QED
      BY <3>1, <3>2
  <2> QED
    BY <1>1, <1>3, <2>1, RaisedIs
<1> HIDE DEF U, R, v, c, p, o, q1, q2
<1>5. Height(T, t) = High(T, t)
  BY <1>2 DEF Height, High
<1>6. Height(T, Kid(T, t, u)) = o /\ Height(T, c) = o + 1 /\ c # Nil
  BY <1>2, <1>4, <1>5 DEF Larger, Level, v, c, Height
\* t goes down to side u, below c.
<1>7. \E lo1, hi1 : Tree(U, N, q1, lo1, hi1) /\ Rotation(T, U, N, r, lo, hi, lo1, hi1, t, u, c, Kid(T, c, u), n)
  BY <1>3, <1>6, RotationIsTree DEF U, c, v, q1
<1>8. PICK lo1, hi1 : Tree(U, N, q1, lo1, hi1) /\ Rotation(T, U, N, r, lo, hi, lo1, hi1, t, u, c, Kid(T, c, u), n)
  BY <1>7
<1>9. /\ c \in N /\ c # t /\ n # c /\ n # t /\ Kid(T, c, u) \in Links(N)
      /\ U \in Arrays(N) /\ SameData(T, U, N) /\ Up(U, c) = n
  BY <1>8, RotationFacts DEF Rotation, Relinked
<1>10. lo1[n] = lo[n] /\ hi1[n] = hi[n]
  BY <1>8, <1>9, RotationIntervals
<1>11. /\ Kid(U, t, v) = Kid(T, c, u) /\ Height(U, Kid(T, c, u)) = Height(T, Kid(T, c, u))
       /\ Kid(U, t, u) = Kid(T, t, u) /\ Height(U, Kid(T, t, u)) = o
       /\ Kid(U, c, v) = Kid(T, c, v) /\ Height(U, Kid(T, c, v)) = Height(T, Kid(T, c, v))
       /\ Kid(U, c, u) = t
       /\ High(U, t) = Raised(U, t)
  BY <1>6, <1>8, RotationHeights DEF v
<1>12. /\ High(U, n) = High(T, n) /\ Kid(U, n, u) = c /\ Kid(U, n, v) = Kid(T, n, v)
       /\ Height(U, Kid(U, n, v)) = o
  <2>1. n # Nil
    BY TreeTypes
  <2>2. PICK w \in Sides : /\ Kid(T, n, w) = t /\ Kid(U, n, w) = c /\ Kid(U, n, Opposite(w)) = Kid(T, n, Opposite(w))
                           /\ Height(U, Kid(U, n, Opposite(w))) = Height(T, Kid(T, n, Opposite(w)))
    BY <1>8, <2>1, RotationHeights
  <2>3. w = u
    BY <1>2, <2>2, KidsDiffer
  <2>4. High(U, n) = High(T, n)
    BY <1>8, <1>9, RotationHeights
  <2> QED
    BY <2>2, <2>3, <2>4 DEF v, o
<1>13. Even(T, c) /\ \A x \in N : x \notin {n, t, c} => Even(U, x)
  BY <1>8, <1>9, OthersEven
<1>14. /\ Height(T, Kid(T, c, u)) \in Nat /\ Height(T, Kid(T, c, v)) \in Nat
       /\ Level(Height(T, Kid(T, c, u)), Height(T, Kid(T, c, v)))
       /\ High(T, c) = 1 + Larger(Height(T, Kid(T, c, u)), Height(T, Kid(T, c, v)))
  BY <1>1, <1>9, <1>13, RaisedIs DEF v
<1>15. Height(T, c) = High(T, c)
  BY <1>6 DEF Height, High
<1>16. /\ Height(T, Kid(T, c, u)) <= o /\ Level(Height(T, Kid(T, c, u)), o)
       /\ Height(T, Kid(T, c, v)) <= o /\ Level(Height(T, Kid(T, c, v)), o)
  BY <1>2, <1>6, <1>14, <1>15 DEF Larger, Level
<1>17. Even(U, t) /\ High(U, t) = o + 1
  <2>1. LET a == Height(U, Kid(U, t, u)) b == Height(U, Kid(U, t, v))
        IN /\ Raised(U, t) = 1 + Larger(a, b) /\ (Even(U, t) <=> High(U, t) = 1 + Larger(a, b) /\ Level(a, b))
    BY <1>1, <1>3, <1>9, RaisedIs DEF v
  <2> QED
    BY <1>2, <1>11, <1>14, <1>16, <2>1 DEF Larger, Level
\* n goes down to the other side, below c.
<1>18. \E lo2, hi2 : Tree(R, N, q2, lo2, hi2) /\ Rotation(U, R, N, q1, lo1, hi1, lo2, hi2, n, v, c, Kid(U, c, v), Up(U, n))
  <2>1. c = Kid(U, n, Opposite(v)) /\ c # Nil
    BY <1>1, <1>6, <1>12
  <2> QED
    BY <1>1, <1>8, <2>1, RotationIsTree DEF R, q2, v
<1>19. PICK lo2, hi2 : Tree(R, N, q2, lo2, hi2) /\ Rotation(U, R, N, q1, lo1, hi1, lo2, hi2, n, v, c, Kid(U, c, v), Up(U, n))
  BY <1>18
<1>20. Up(U, n) = p
  <2>1. Up(U, n) = IF n = c THEN n ELSE IF n = t THEN c ELSE IF n = Kid(T, c, u) THEN t ELSE Up(T, n)
    BY <1>8 DEF Rotation, Relinked
  <2>2. n # Kid(T, c, u)
    <3> SUFFICES ASSUME n = Kid(T, c, u) PROVE FALSE
      OBVIOUS
    <3>1. n # Nil /\ hi[n] \in Int /\ lo[n] \in Int /\ hi[c] \in Int /\ lo[c] \in Int /\ hi[t] \in Int /\ lo[t] \in Int
      BY <1>3, <1>9, TreeTypes
    <3>2. hi[n] - lo[n] < hi[c] - lo[c]
      BY <1>9, <3>1, KidIs
    <3>3. hi[c] - lo[c] < hi[t] - lo[t]
      BY <1>1, <1>3, <1>6, KidIs DEF c
    <3>4. hi[t] - lo[t] < hi[n] - lo[n]
      BY <1>2, KidIs
    <3> QED
      BY <3>1, <3>2, <3>3, <3>4
  <2> QED
    BY <1>9, <2>1, <2>2 DEF p
<1>21. /\ p # n /\ p # c /\ p \in Links(N)
       /\ R \in Arrays(N) /\ SameData(U, R, N) /\ Up(R, c) = p
  BY <1>9, <1>19, <1>20, RotationFacts DEF Rotation, Relinked
<1>22. lo2[c] = lo[n] /\ hi2[c] = hi[n]
  BY <1>10, <1>19, RotationIntervals
<1>23. p # t
  <2> SUFFICES ASSUME p = t PROVE FALSE
    OBVIOUS
  <2>1. PICK w \in Sides : Kid(T, t, w) = n
    BY <1>2 DEF Tree, Linked, p
  <2>2. n # Nil /\ hi[n] \in Int /\ lo[n] \in Int /\ hi[t] \in Int /\ lo[t] \in Int
    BY <1>3, TreeTypes
  <2>3. hi[n] - lo[n] < hi[t] - lo[t]
    BY <1>3, <2>1, <2>2, KidIs
  <2>4. hi[t] - lo[t] < hi[n] - lo[n]
    BY <1>2, KidIs
  <2> QED
    BY <2>2, <2>3, <2>4
<1>24. /\ Kid(R, n, u) = Kid(T, c, v) /\ Height(R, Kid(T, c, v)) = Height(T, Kid(T, c, v))
       /\ Kid(R, n, v) = Kid(U, n, v) /\ Height(R, Kid(U, n, v)) = o
       /\ Kid(R, c, u) = t /\ Height(R, t) = Height(U, t)
       /\ Kid(R, c, v) = n
       /\ High(R, n) = Raised(R, n) /\ High(R, c) = Raised(R, c)
  BY <1>1, <1>11, <1>12, <1>19, RotationHeights
<1>25. Height(R, t) = o + 1 /\ Height(R, n) = High(R, n)
  BY <1>2, <1>17, <1>24, TreeTypes DEF Height, High
<1>26. Even(R, n) /\ High(R, n) = o + 1
  <2>1. LET a == Height(R, Kid(R, n, u)) b == Height(R, Kid(R, n, v))
        IN /\ Raised(R, n) = 1 + Larger(a, b) /\ (Even(R, n) <=> High(R, n) = 1 + Larger(a, b) /\ Level(a, b))
    BY <1>1, <1>21, RaisedIs DEF v
  <2> QED
    BY <1>2, <1>14, <1>16, <1>24, <2>1 DEF Larger, Level
<1>27. Even(R, c) /\ High(R, c) = o + 2
  <2>1. LET a == Height(R, Kid(R, c, u)) b == Height(R, Kid(R, c, v))
        IN /\ Raised(R, c) = 1 + Larger(a, b) /\ (Even(R, c) <=> High(R, c) = 1 + Larger(a, b) /\ Level(a, b))
    BY <1>1, <1>9, <1>21, RaisedIs DEF v
  <2> QED
    BY <1>2, <1>24, <1>25, <1>26, <2>1 DEF Larger, Level
<1>28. ASSUME NEW x \in N, x # p PROVE Even(R, x)
  <2>1. CASE x \in {n, c}
    BY <1>26, <1>27, <2>1
  <2>2. CASE x \notin {n, c}
    <3>1. Even(U, x)
      BY <1>13, <1>17, <2>2
    <3> QED
      BY <1>19, <1>20, <1>28, <2>2, <3>1, OthersEven
  <2> QED
    BY <2>1, <2>2
<1>29. ASSUME p # Nil PROVE Uneven(R, p)
  <2>1. p \in N /\ Even(U, p)
    BY <1>13, <1>21, <1>23, <1>29 DEF Links
  <2>2. PICK w \in Sides : /\ Kid(U, p, w) = n /\ Kid(R, p, w) = c
                           /\ Height(R, Kid(R, p, Opposite(w))) = Height(U, Kid(U, p, Opposite(w)))
    BY <1>19, <1>20, <1>29, RotationHeights
  <2>3. High(R, p) = High(U, p)
    BY <1>19, <1>21, <2>1, RotationHeights
  <2>4. High(R, c) = High(U, n) \/ High(R, c) = High(U, n) + 1
    BY <1>2, <1>12, <1>27
  <2> QED
    BY <1>1, <1>9, <1>21, <2>1, <2>2, <2>3, <2>4, ParentUneven
<1>30. SameData(T, R, N)
  BY <1>9, <1>21 DEF SameData
<1>31. Rebalanced(T, R, N, n, c, q2, lo, hi, lo2, hi2)
  BY <1>9, <1>19, <1>21, <1>22, <1>28, <1>29, <1>30 DEF Rebalanced, p
<1>32. \E q3, lo3, hi3 : Rebalanced(T, R, N, n, Kid(U, n, u), q3, lo, hi, lo3, hi3)
  BY <1>12, <1>31
<1> QED
  BY <1>32 DEF R, U

\* One turn of __balance.
LEMMA BalanceIs ==
  ASSUME NEW T, NEW N, NEW r, NEW lo, NEW hi, Tree(T, N, r, lo, hi), NEW n \in N,
         \A x \in N : x # n => Even(T, x), Uneven(T, n)
  PROVE  \E q, lo2, hi2 : Rebalanced(T, Balance(T, n).tree, N, n, Balance(T, n).top, q, lo, hi, lo2, hi2)
<1> DEFINE l == Height(T, Kid(T, n, "l"))
           h == Height(T, Kid(T, n, "r"))
<1>1. Nodes(N) /\ T \in Arrays(N) /\ "l" \in Sides /\ "r" \in Sides /\ Opposite("l") = "r" /\ Opposite("r") = "l"
  BY DEF Tree, Sides, Opposite
<1>2. l \in Nat /\ h \in Nat
  BY <1>1, RaisedIs
<1> HIDE DEF l, h
<1>3. CASE l - h \in -1 .. 1
  <2>1. Balance(T, n) = [tree |-> Measured(T, n), top |-> n]
    BY <1>3 DEF Balance, l, h, Kid
  <2>2. Level(l, h)
    BY <1>2, <1>3 DEF Level
  <2>3. Rebalanced(T, Measured(T, n), N, n, n, r, lo, hi, lo, hi)
    BY <2>2, MeasuredStep DEF l, h
  <2>4. Balance(T, n).tree = Measured(T, n) /\ Balance(T, n).top = n
    BY <2>1
  <2> QED
    BY <2>3, <2>4
<1>4. CASE l - h \notin -1 .. 1
  <2> DEFINE u == IF l - h > 0 THEN "l" ELSE "r"
             t == Kid(T, n, u)
             bent == Height(T, Kid(T, t, u)) < Height(T, Kid(T, t, Opposite(u)))
             U == IF bent THEN Rotated(T, t, u) ELSE T
  <2>1. Balance(T, n) = [tree |-> Rotated(U, n, Opposite(u)), top |-> Kid(U, n, u)]
    BY <1>4 DEF Balance, l, h, Kid
  <2>2. Balance(T, n).tree = Rotated(U, n, Opposite(u)) /\ Balance(T, n).top = Kid(U, n, u)
    BY <2>1
  <2>3. u \in Sides /\ Height(T, Kid(T, n, u)) >= Height(T, Kid(T, n, Opposite(u))) + 2
    BY <1>1, <1>2, <1>4 DEF l, h
  <2>4. t \in N /\ Opposite(u) \in Sides
    BY <1>1, <2>3, Leaning, KidIs, ArrayTypes
  <2> HIDE DEF u
  <2>5. CASE bent
    <3>1. \E q, lo2, hi2 : Rebalanced(T, Rotated(Rotated(T, t, u), n, Opposite(u)), N, n, Kid(Rotated(T, t, u), n, u), q, lo, hi, lo2, hi2)
      BY <2>3, <2>5, DoubleStep
    <3> QED
      BY <2>2, <2>5, <3>1
  <2>6. CASE ~bent
    <3>1. Height(T, Kid(T, t, u)) >= Height(T, Kid(T, t, Opposite(u)))
      <4>1. Height(T, Kid(T, t, u)) \in Nat /\ Height(T, Kid(T, t, Opposite(u))) \in Nat
        BY <1>1, <2>3, <2>4, RaisedIs
      <4> QED
        BY <2>6, <4>1
    <3>2. \E q, lo2, hi2 : Rebalanced(T, Rotated(T, n, Opposite(u)), N, n, t, q, lo, hi, lo2, hi2)
      BY <2>3, <3>1, SingleStep
    <3> QED
      BY <2>2, <2>6, <3>2
  <2> QED
    BY <2>5, <2>6
<1> QED
  BY <1>3, <1>4

-----------------------------------------------------------------------------
(* The loops up and down the tree end: fewer and fewer nodes lie below, and  *)
(* more and more.                                                            *)

Within(T, N, lo, hi, x) == {m \in N : lo[x] < KeyOf(T, m) /\ KeyOf(T, m) < hi[x]}
Spread(T, N, lo, hi, x) == Cardinality(Within(T, N, lo, hi, x))

LEMMA Spreads ==
  ASSUME NEW T, NEW N, NEW r, NEW lo, NEW hi, Tree(T, N, r, lo, hi), NEW x \in N
  PROVE  /\ Spread(T, N, lo, hi, x) \in Nat /\ Cardinality(N) \in Nat
         /\ 1 <= Spread(T, N, lo, hi, x) /\ Spread(T, N, lo, hi, x) <= Cardinality(N)
<1> DEFINE W == Within(T, N, lo, hi, x)
<1>1. IsFiniteSet(N) /\ W \subseteq N
  BY DEF Tree, Nodes, Within
<1>2. x \in W
  BY TreeTypes DEF Within
<1> HIDE DEF W
<1>3. IsFiniteSet(W) /\ Cardinality(W) <= Cardinality(N) /\ Cardinality(W) \in Nat /\ Cardinality(N) \in Nat
  BY <1>1, FS_Subset, FS_CardinalityType
<1>4. Cardinality(W) # 0
  BY <1>2, <1>3, FS_EmptySet
<1> QED
  BY <1>3, <1>4 DEF Spread, W

LEMMA SpreadGrows ==
  ASSUME NEW T, NEW N, NEW r, NEW lo, NEW hi, Tree(T, N, r, lo, hi), NEW x \in N, NEW u \in Sides, Kid(T, x, u) # Nil
  PROVE  Spread(T, N, lo, hi, Kid(T, x, u)) < Spread(T, N, lo, hi, x)
<1> DEFINE c == Kid(T, x, u)
           V == Within(T, N, lo, hi, c)
           W == Within(T, N, lo, hi, x)
<1>1. c \in N /\ lo[x] <= lo[c] /\ hi[c] <= hi[x] /\ Under(T, lo, hi, c, x)
  BY KidIs
<1> HIDE DEF c
<1>2. \A m \in N : /\ lo[m] \in Int /\ hi[m] \in Int /\ KeyOf(T, m) \in Int
                   /\ lo[m] < KeyOf(T, m) /\ KeyOf(T, m) < hi[m]
  BY TreeTypes
<1>3. x \in W /\ x \notin V /\ V \subseteq W \ {x} /\ W \subseteq N
  BY <1>1, <1>2 DEF Under, Within
<1>4. IsFiniteSet(N)
  BY DEF Tree, Nodes
<1> HIDE DEF V, W
<1>5. IsFiniteSet(W) /\ Cardinality(W) \in Nat
  BY <1>3, <1>4, FS_Subset, FS_CardinalityType
<1>6. IsFiniteSet(W \ {x}) /\ Cardinality(W \ {x}) = Cardinality(W) - 1
  BY <1>3, <1>5, FS_RemoveElement
<1>7. IsFiniteSet(V) /\ Cardinality(V) <= Cardinality(W \ {x}) /\ Cardinality(V) \in Nat
  BY <1>3, <1>6, FS_Subset, FS_CardinalityType
<1> QED
  BY <1>5, <1>6, <1>7 DEF Spread, V, W, c

LEMMA UpIs ==
  ASSUME NEW T, NEW N, NEW r, NEW lo, NEW hi, Tree(T, N, r, lo, hi), NEW x \in N, Up(T, x) # Nil
  PROVE  /\ Up(T, x) \in N /\ Spread(T, N, lo, hi, x) < Spread(T, N, lo, hi, Up(T, x))
         /\ \E u \in Sides : Kid(T, Up(T, x), u) = x
<1>1. Up(T, x) \in N
  BY ArrayTypes DEF Tree, Links
<1>2. PICK u \in Sides : Kid(T, Up(T, x), u) = x
  BY DEF Tree, Linked
<1>3. x # Nil
  BY TreeTypes
<1> QED
  BY <1>1, <1>2, <1>3, SpreadGrows

BalanceTurn(l) ==
  IF l.at = Nil THEN l
  ELSE [tree |-> Balance(l.tree, l.at).tree, top |-> Balance(l.tree, l.at).top,
        at |-> Balance(l.tree, l.at).tree[Balance(l.tree, l.at).top].p]

LEMMA BalancedTurns ==
  ASSUME NEW T, NEW n, Size(T) \in Nat
  PROVE  \E g : /\ g[0] = [tree |-> T, top |-> Nil, at |-> n]
                /\ \A k \in Nat : k + 1 <= Size(T) => g[k + 1] = BalanceTurn(g[k])
                /\ Balanced(T, n) = g[Size(T)]
<1> DEFINE x == [tree |-> T, top |-> Nil, at |-> n]
           Pass(j, g) == g = [k \in 0 .. j |-> IF k = 0 THEN x ELSE BalanceTurn(g[k - 1])]
           R == {j \in Nat : \E g : Pass(j, g)}
<1>1. 0 \in R
  <2>1. Pass(0, [k \in 0 .. 0 |-> x])
    OBVIOUS
  <2> QED
    BY <2>1
<1>2. ASSUME NEW j \in Nat, j \in R PROVE j + 1 \in R
  <2>1. PICK g : Pass(j, g)
    BY <1>2
  <2>2. Pass(j + 1, [k \in 0 .. j + 1 |-> IF k = j + 1 THEN BalanceTurn(g[j]) ELSE g[k]])
    BY <2>1
  <2>3. \E h : Pass(j + 1, h)
    BY <2>2
  <2> QED
    BY <2>3
<1>3. Size(T) \in R
  BY <1>1, <1>2, CountingUp
<1> DEFINE G == CHOOSE g : Pass(Size(T), g)
<1>4. Balanced(T, n) = G[Size(T)]
  BY DEF Balanced, BalanceTurn
<1>5. Pass(Size(T), G)
  BY <1>3
<1> HIDE DEF G
<1>6. /\ G[0] = x
      /\ \A k \in Nat : k + 1 <= Size(T) => G[k + 1] = BalanceTurn(G[k])
  BY <1>5
<1> QED
  BY <1>4, <1>6

LEMMA BalancedIs ==
  ASSUME NEW T, NEW N, NEW r, NEW lo, NEW hi, Tree(T, N, r, lo, hi), NEW n \in N,
         \A x \in N : x # n => Even(T, x), Uneven(T, n)
  PROVE  \E lo2, hi2 :
           /\ Tree(Balanced(T, n).tree, N, Balanced(T, n).top, lo2, hi2)
           /\ SameData(T, Balanced(T, n).tree, N)
           /\ \A x \in N : Even(Balanced(T, n).tree, x)
<1> DEFINE Ends(s) == \E lo2, hi2 : /\ Tree(s.tree, N, s.top, lo2, hi2) /\ SameData(T, s.tree, N)
                                    /\ \A x \in N : Even(s.tree, x)
           Goes(s, k, q, lo2, hi2) ==
             /\ Tree(s.tree, N, q, lo2, hi2) /\ SameData(T, s.tree, N)
             /\ s.at \in N /\ Uneven(s.tree, s.at) /\ \A x \in N : x # s.at => Even(s.tree, x)
             /\ k + 1 <= Spread(s.tree, N, lo2, hi2, s.at)
           I(s, k) == (s.at = Nil /\ Ends(s)) \/ \E q, lo2, hi2 : Goes(s, k, q, lo2, hi2)
<1>1. Size(T) = Cardinality(N) /\ Size(T) \in Nat
  BY Spreads, ArrayTypes DEF Size, Tree
<1>2. PICK g : /\ g[0] = [tree |-> T, top |-> Nil, at |-> n]
               /\ \A k \in Nat : k + 1 <= Size(T) => g[k + 1] = BalanceTurn(g[k])
               /\ Balanced(T, n) = g[Size(T)]
  BY <1>1, BalancedTurns
<1>3. I(g[0], 0)
  <2>1. g[0].tree = T /\ g[0].at = n
    BY <1>2
  <2>2. SameData(T, T, N) /\ 1 <= Spread(T, N, lo, hi, n)
    BY Spreads DEF SameData
  <2>3. Goes(g[0], 0, r, lo, hi)
    BY <2>1, <2>2
  <2> QED
    BY <2>3
<1>4. ASSUME NEW s, NEW k \in Nat, I(s, k) PROVE I(BalanceTurn(s), k + 1)
  <2> DEFINE b == BalanceTurn(s)
  <2>1. CASE s.at = Nil /\ Ends(s)
    BY <2>1 DEF BalanceTurn
  <2>2. CASE \E q, lo2, hi2 : Goes(s, k, q, lo2, hi2)
    <3> DEFINE U == Balance(s.tree, s.at).tree
               c == Balance(s.tree, s.at).top
    <3>1. PICK q, lo2, hi2 : Goes(s, k, q, lo2, hi2)
      BY <2>2
    <3>2. \E q3, lo3, hi3 : Rebalanced(s.tree, U, N, s.at, c, q3, lo2, hi2, lo3, hi3)
      BY <3>1, BalanceIs
    <3>3. PICK q3, lo3, hi3 : Rebalanced(s.tree, U, N, s.at, c, q3, lo2, hi2, lo3, hi3)
      BY <3>2
    <3>4. s.at # Nil
      BY <3>1, TreeTypes
    <3>5. b.tree = U /\ b.top = c /\ b.at = Up(U, c)
      BY <3>4 DEF BalanceTurn, Up
    <3> HIDE DEF U, c, b
    <3>6. /\ Tree(U, N, q3, lo3, hi3) /\ SameData(s.tree, U, N) /\ c \in N /\ Up(U, c) = Up(s.tree, s.at)
          /\ lo3[c] = lo2[s.at] /\ hi3[c] = hi2[s.at]
          /\ \A x \in N : x # Up(U, c) => Even(U, x)
          /\ Up(U, c) # Nil => Uneven(U, Up(U, c))
      BY <3>3 DEF Rebalanced
    <3>7. SameData(T, U, N)
      BY <3>1, <3>6 DEF SameData
    <3>8. CASE Up(U, c) = Nil
      <4>1. c = q3
        BY <3>6, <3>8 DEF Tree, Linked
      <4>2. \A x \in N : Even(U, x)
        BY <3>6, <3>8, TreeTypes
      <4>3. Tree(b.tree, N, b.top, lo3, hi3) /\ SameData(T, b.tree, N) /\ \A x \in N : Even(b.tree, x)
        BY <3>5, <3>6, <3>7, <4>1, <4>2
      <4> QED
        BY <3>5, <3>8, <4>3 DEF b
    <3>9. CASE Up(U, c) # Nil
      <4>1. Up(U, c) \in N /\ Spread(U, N, lo3, hi3, c) < Spread(U, N, lo3, hi3, Up(U, c))
        BY <3>6, <3>9, UpIs
      <4>2. Within(U, N, lo3, hi3, c) = Within(s.tree, N, lo2, hi2, s.at)
        BY <3>6 DEF Within, SameData
      <4>3. k + 1 <= Spread(U, N, lo3, hi3, c)
        BY <3>1, <4>2 DEF Spread
      <4>4. Spread(U, N, lo3, hi3, c) \in Nat /\ Spread(U, N, lo3, hi3, Up(U, c)) \in Nat
        BY <3>6, <4>1, Spreads
      <4>5. k + 2 <= Spread(U, N, lo3, hi3, Up(U, c))
        BY <4>1, <4>3, <4>4
      <4>6. Goes(b, k + 1, q3, lo3, hi3)
        BY <3>5, <3>6, <3>7, <3>9, <4>1, <4>5
      <4> QED
        BY <4>6 DEF b
    <3> QED
      BY <3>8, <3>9
  <2> QED
    BY <1>4, <2>1, <2>2
<1> DEFINE D == {k \in Nat : k <= Size(T) => I(g[k], k)}
<1> HIDE DEF I
<1>5. 0 \in D
  BY <1>3
<1>6. ASSUME NEW k \in Nat, k \in D PROVE k + 1 \in D
  BY <1>1, <1>2, <1>4, <1>6
<1> HIDE DEF D
<1>7. Size(T) \in D
  BY <1>1, <1>5, <1>6, CountingUp
<1>8. I(g[Size(T)], Size(T))
  BY <1>1, <1>7 DEF D
<1>9. ASSUME NEW s, I(s, Size(T)) PROVE Ends(s)
  <2> SUFFICES ASSUME NEW q, NEW lo2, NEW hi2, Goes(s, Size(T), q, lo2, hi2) PROVE FALSE
    BY <1>9 DEF I
  <2> DEFINE w == Spread(s.tree, N, lo2, hi2, s.at)
  <2>1. w \in Nat /\ w <= Cardinality(N)
    BY Spreads
  <2> QED
    BY <1>1, <2>1
<1> HIDE DEF Ends
<1>10. Ends(Balanced(T, n))
  BY <1>2, <1>8, <1>9
<1> QED
  BY <1>10 DEF Ends

-----------------------------------------------------------------------------
(* A new leaf.                                                             *)

LEMMA MadeNode ==
  ASSUME NEW N, Nodes(N), NEW T \in Arrays(N), NEW k \in Keys, NEW v \in Nat, NEW p \in Links(N),
         NEW c, c = Size(T), c \in Nat, c \notin N
  PROVE  /\ Nodes(N \cup {c}) /\ MakeNode(T, k, v, p) \in Arrays(N \cup {c})
         /\ \A x \in N : MakeNode(T, k, v, p)[x] = T[x]
         /\ Up(MakeNode(T, k, v, p), c) = p /\ High(MakeNode(T, k, v, p), c) = 1
         /\ KeyOf(MakeNode(T, k, v, p), c) = k /\ MakeNode(T, k, v, p)[c].value = v
         /\ \A s \in Sides : Kid(MakeNode(T, k, v, p), c, s) = Nil
<1> DEFINE M == N \cup {c}
           new == [p |-> p, kid |-> [s \in Sides |-> Nil], height |-> 1, key |-> k, value |-> v]
           U == MakeNode(T, k, v, p)
<1>1. Nodes(M)
  BY FS_AddElement DEF Nodes
<1>2. DOMAIN T = N
  BY DEF Arrays
<1>3. U = [n \in M |-> IF n # c THEN T[n] ELSE new]
  BY <1>2 DEF MakeNode
<1>4. new \in Records(M)
  BY DEF Records, Links
<1>5. \A x \in N : T[x] \in Records(M)
  <2>1. \A x \in N : T[x] \in Records(N)
    BY DEF Arrays
  <2>2. [Sides -> Links(N)] \subseteq [Sides -> Links(M)] /\ Links(N) \subseteq Links(M)
    BY DEF Links
  <2> QED
    BY <2>1, <2>2 DEF Records
<1>6. U \in Arrays(M)
  BY <1>3, <1>4, <1>5 DEF Arrays
<1>7. U[c] = new /\ \A x \in N : U[x] = T[x]
  BY <1>3
<1> HIDE DEF U
<1>8. Up(U, c) = p /\ High(U, c) = 1 /\ KeyOf(U, c) = k /\ U[c].value = v /\ \A s \in Sides : Kid(U, c, s) = Nil
  BY <1>7 DEF Up, High, KeyOf, Kid
<1> QED
  BY <1>1, <1>6, <1>7, <1>8 DEF U

\* V is T with a leaf c on side s of f.
Leafed(T, V, N, k, v, f, s, c) ==
  /\ Nodes(N \cup {c}) /\ c \notin N /\ V \in Arrays(N \cup {c})
  /\ \A x \in N : /\ Up(V, x) = Up(T, x) /\ High(V, x) = High(T, x) /\ KeyOf(V, x) = KeyOf(T, x)
                  /\ V[x].value = T[x].value
                  /\ \A u \in Sides : Kid(V, x, u) = IF x = f /\ u = s THEN c ELSE Kid(T, x, u)
  /\ Up(V, c) = f /\ High(V, c) = 1 /\ KeyOf(V, c) = k /\ V[c].value = v
  /\ \A u \in Sides : Kid(V, c, u) = Nil

LEMMA LeafedIs ==
  ASSUME NEW N, Nodes(N), NEW T \in Arrays(N), NEW k \in Keys, NEW v \in Nat, NEW f \in N, NEW s \in Sides,
         NEW c, c = Size(T), c \in Nat, c \notin N
  PROVE  Leafed(T, WithKid(MakeNode(T, k, v, f), f, s, c), N, k, v, f, s, c)
<1> DEFINE M == N \cup {c}
           U == MakeNode(T, k, v, f)
           V == WithKid(U, f, s, c)
<1>1. f \in Links(N) /\ c \in Links(M) /\ f \in M
  BY DEF Links
<1>2. /\ Nodes(M) /\ U \in Arrays(M)
      /\ \A x \in N : U[x] = T[x]
      /\ Up(U, c) = f /\ High(U, c) = 1 /\ KeyOf(U, c) = k /\ U[c].value = v
      /\ \A u \in Sides : Kid(U, c, u) = Nil
  BY <1>1, MadeNode
<1> HIDE DEF U
<1>3. /\ V \in Arrays(M)
      /\ \A x \in M : /\ Up(V, x) = Up(U, x) /\ High(V, x) = High(U, x)
                      /\ \A u \in Sides : Kid(V, x, u) = IF x = f /\ u = s THEN c ELSE Kid(U, x, u)
      /\ SameData(U, V, M)
  BY <1>1, <1>2, WithKidIs
<1> HIDE DEF V, M
<1>4. \A x \in N : x \in M /\ Up(U, x) = Up(T, x) /\ High(U, x) = High(T, x) /\ KeyOf(U, x) = KeyOf(T, x)
                   /\ \A u \in Sides : Kid(U, x, u) = Kid(T, x, u)
  BY <1>2 DEF Up, High, KeyOf, Kid, M
<1>5. c \in M /\ c # f
  BY DEF M
<1>6. \A x \in N : KeyOf(V, x) = KeyOf(T, x) /\ V[x].value = T[x].value
  BY <1>2, <1>3, <1>4 DEF SameData
<1>7. KeyOf(V, c) = k /\ V[c].value = v
  BY <1>2, <1>3, <1>5 DEF SameData
<1>8. Leafed(T, V, N, k, v, f, s, c)
  BY <1>2, <1>3, <1>4, <1>5, <1>6, <1>7 DEF Leafed, M
<1> QED
  BY <1>8 DEF V, U

LEMMA LeafOrder ==
  ASSUME NEW T, NEW V, NEW N, NEW r, NEW lo, NEW hi, NEW k, NEW v, NEW f, NEW s, NEW c,
         Tree(T, N, r, lo, hi), Leafed(T, V, N, k, v, f, s, c), f \in N, k \in Keys, s \in Sides,
         Kid(T, f, s) = Nil,
         (s = "l" /\ lo[f] < k /\ k < KeyOf(T, f)) \/ (s = "r" /\ KeyOf(T, f) < k /\ k < hi[f])
  PROVE  \E lo2, hi2 : Tree(V, N \cup {c}, r, lo2, hi2)
<1> DEFINE M == N \cup {c}
           lo2 == [x \in M |-> IF x # c THEN lo[x] ELSE IF s = "l" THEN lo[f] ELSE KeyOf(T, f)]
           hi2 == [x \in M |-> IF x # c THEN hi[x] ELSE IF s = "l" THEN KeyOf(T, f) ELSE hi[f]]
<1>1. /\ c \notin N /\ Nodes(M) /\ V \in Arrays(M) /\ c # Nil /\ c \in M
      /\ \A x \in N : /\ Up(V, x) = Up(T, x) /\ KeyOf(V, x) = KeyOf(T, x)
                      /\ \A u \in Sides : Kid(V, x, u) = IF x = f /\ u = s THEN c ELSE Kid(T, x, u)
      /\ Up(V, c) = f /\ KeyOf(V, c) = k /\ \A u \in Sides : Kid(V, c, u) = Nil
  BY DEF Leafed, Nodes, Nil
<1>2. /\ \A x \in N : x \in M /\ lo2[x] = lo[x] /\ hi2[x] = hi[x]
      /\ lo2[c] = (IF s = "l" THEN lo[f] ELSE KeyOf(T, f))
      /\ hi2[c] = (IF s = "l" THEN KeyOf(T, f) ELSE hi[f])
      /\ \A x \in M : x \in N \/ x = c
  BY <1>1
<1> HIDE DEF M, lo2, hi2
<1>3. \A x \in N : /\ KeyOf(T, x) \in Int /\ lo[x] \in Int /\ hi[x] \in Int /\ lo[x] < KeyOf(T, x) /\ KeyOf(T, x) < hi[x]
                   /\ x # Nil
  BY TreeTypes
<1>4. k \in Int /\ "l" \in Sides /\ "r" \in Sides
  BY SymbolTreeAssumption DEF Sides
<1>5. \A x \in N, u \in Sides : Kid(T, x, u) \in Links(N)
  BY ArrayTypes DEF Tree
<1>6. Linked(T, N, r) /\ Ordered(T, N, r, lo, hi)
  BY DEF Tree
<1>7. Linked(V, M, r)
  <2>1. r \in M /\ \A x \in M : Up(V, x) = Nil <=> x = r
    BY <1>1, <1>2, <1>3, <1>6 DEF Linked
  <2>2. ASSUME NEW x \in M, NEW u \in Sides, Kid(V, x, u) # Nil PROVE Up(V, Kid(V, x, u)) = x
    <3>1. x \in N
      BY <1>1, <1>2, <2>2
    <3>2. CASE x = f /\ u = s
      BY <1>1, <3>1, <3>2
    <3>3. CASE ~(x = f /\ u = s)
      <4>1. Kid(V, x, u) = Kid(T, x, u)
        BY <1>1, <3>1, <3>3
      <4>2. Kid(T, x, u) \in N
        BY <1>5, <2>2, <3>1, <4>1 DEF Links
      <4> QED
        BY <1>1, <1>6, <2>2, <3>1, <4>1, <4>2 DEF Linked
    <3> QED
      BY <3>2, <3>3
  <2>3. ASSUME NEW x \in M, Up(V, x) # Nil PROVE \E u \in Sides : Kid(V, Up(V, x), u) = x
    <3>1. CASE x = c
      BY <1>1, <3>1
    <3>2. CASE x \in N
      <4>1. PICK u \in Sides : Kid(T, Up(T, x), u) = x
        BY <1>1, <1>6, <2>3, <3>2 DEF Linked
      <4>2. Up(T, x) \in N
        BY <1>1, <2>3, <3>2, ArrayTypes DEF Links, Tree
      <4>3. Kid(V, Up(T, x), u) = x
        BY <1>1, <1>3, <3>2, <4>1, <4>2
      <4> QED
        BY <1>1, <3>2, <4>3
    <3> QED
      BY <1>2, <3>1, <3>2
  <2> QED
    BY <2>1, <2>2, <2>3 DEF Linked
<1>8. lo2[r] = Floor /\ hi2[r] = Ceiling
  BY <1>2, <1>6 DEF Linked, Ordered
<1>9. Around(V, M, lo2, hi2)
  <2> SUFFICES ASSUME NEW x \in M
               PROVE  lo2[x] \in Int /\ hi2[x] \in Int /\ lo2[x] < KeyOf(V, x) /\ KeyOf(V, x) < hi2[x]
    BY DEF Around
  <2>1. CASE x \in N
    BY <1>1, <1>2, <1>3, <2>1
  <2>2. CASE x = c
    BY <1>1, <1>2, <1>3, <1>4, <2>2
  <2> QED
    BY <1>2, <2>1, <2>2
<1>10. Halved(V, M, lo2, hi2)
  <2>1. \A x \in N, u \in Sides : Kid(T, x, u) # Nil => IsHalf(T, lo, hi, x, u, Kid(T, x, u))
    BY <1>6, HalvedIs DEF Ordered
  <2>2. ASSUME NEW x \in M, NEW u \in Sides, Kid(V, x, u) # Nil PROVE IsHalf(V, lo2, hi2, x, u, Kid(V, x, u))
    <3>1. x \in N
      BY <1>1, <1>2, <2>2
    <3>2. CASE x = f /\ u = s
      <4>1. Kid(V, x, u) = c
        BY <1>1, <3>1, <3>2
      <4> QED
        BY <1>1, <1>2, <3>1, <3>2, <4>1 DEF IsHalf, Sides
    <3>3. CASE ~(x = f /\ u = s)
      <4> DEFINE y == Kid(T, x, u)
      <4>1. Kid(V, x, u) = y
        BY <1>1, <3>1, <3>3
      <4>2. y \in N /\ IsHalf(T, lo, hi, x, u, y)
        BY <1>5, <2>1, <2>2, <3>1, <4>1 DEF Links
      <4> HIDE DEF y
      <4> QED
        BY <1>1, <1>2, <3>1, <4>1, <4>2 DEF IsHalf
    <3> QED
      BY <3>2, <3>3
  <2> QED
    BY <2>2, HalvedIs
<1>11. \A a, m \in N :
         /\ lo[a] < KeyOf(T, m) /\ KeyOf(T, m) < KeyOf(T, a) => Kid(T, a, "l") # Nil
         /\ KeyOf(T, a) < KeyOf(T, m) /\ KeyOf(T, m) < hi[a] => Kid(T, a, "r") # Nil
  BY <1>6 DEF Ordered, Filled
\* No key lies where the leaf is put.
<1>12. \A m \in N : ~(lo2[c] < KeyOf(T, m) /\ KeyOf(T, m) < hi2[c])
  BY <1>2, <1>11
<1>13. \A a \in N : a # f => Apart(lo, hi, a, f) \/ Under(T, lo, hi, a, f) \/ Under(T, lo, hi, f, a)
  BY <1>6 DEF Ordered, Nested
<1>14. lo2[c] \in Int /\ hi2[c] \in Int /\ lo2[c] < k /\ k < hi2[c] /\ lo[f] <= lo2[c] /\ hi2[c] <= hi[f]
       /\ (hi2[c] <= KeyOf(T, f) \/ KeyOf(T, f) <= lo2[c])
  BY <1>2, <1>3, <1>4
<1>15. Filled(V, M, lo2, hi2)
  <2> SUFFICES ASSUME NEW a \in M, NEW m \in M
               PROVE  /\ lo2[a] < KeyOf(V, m) /\ KeyOf(V, m) < KeyOf(V, a) => Kid(V, a, "l") # Nil
                      /\ KeyOf(V, a) < KeyOf(V, m) /\ KeyOf(V, m) < hi2[a] => Kid(V, a, "r") # Nil
    BY DEF Filled
  <2>1. CASE a = c
    BY <1>1, <1>2, <1>3, <1>4, <1>12, <1>14, <2>1
  <2>2. CASE a \in N /\ m \in N
    BY <1>1, <1>2, <1>4, <1>11, <2>2
  <2>3. CASE a = f /\ m = c
    BY <1>1, <1>2, <1>3, <1>4, <2>3
  <2>4. CASE a \in N /\ a # f /\ m = c
    <3>1. KeyOf(V, a) = KeyOf(T, a) /\ KeyOf(V, m) = k /\ lo2[a] = lo[a] /\ hi2[a] = hi[a]
          /\ Kid(V, a, "l") = Kid(T, a, "l") /\ Kid(V, a, "r") = Kid(T, a, "r")
      BY <1>1, <1>2, <1>4, <2>4
    <3>2. /\ lo[a] \in Int /\ hi[a] \in Int /\ KeyOf(T, a) \in Int /\ lo[a] < KeyOf(T, a) /\ KeyOf(T, a) < hi[a]
          /\ lo[f] \in Int /\ hi[f] \in Int /\ KeyOf(T, f) \in Int /\ lo[f] < KeyOf(T, f) /\ KeyOf(T, f) < hi[f]
      BY <1>3, <2>4
    <3>3. ~(lo2[c] < KeyOf(T, a) /\ KeyOf(T, a) < hi2[c])
      BY <1>12, <2>4
    <3>4. CASE Apart(lo, hi, a, f)
      BY <1>4, <1>14, <3>1, <3>2, <3>4 DEF Apart
    <3>5. CASE Under(T, lo, hi, a, f)
      BY <1>2, <1>4, <1>14, <3>1, <3>2, <3>3, <3>5 DEF Under
    <3>6. CASE Under(T, lo, hi, f, a)
      <4>1. /\ lo[a] < KeyOf(T, f) /\ KeyOf(T, f) < KeyOf(T, a) => Kid(T, a, "l") # Nil
            /\ KeyOf(T, a) < KeyOf(T, f) /\ KeyOf(T, f) < hi[a] => Kid(T, a, "r") # Nil
        BY <1>11, <2>4
      <4> QED
        BY <1>4, <1>14, <3>1, <3>2, <3>6, <4>1 DEF Under
    <3> QED
      BY <1>13, <2>4, <3>4, <3>5, <3>6
  <2> QED
    BY <1>2, <2>1, <2>2, <2>3, <2>4
<1>16. Nested(V, M, lo2, hi2)
  <2> DEFINE Fit(x, y) == Apart(lo2, hi2, x, y) \/ Under(V, lo2, hi2, x, y) \/ Under(V, lo2, hi2, y, x)
  <2>1. \A x, y \in N : x # y => Fit(x, y)
    <3>1. \A x, y \in N : x # y => Apart(lo, hi, x, y) \/ Under(T, lo, hi, x, y) \/ Under(T, lo, hi, y, x)
      BY <1>6 DEF Ordered, Nested
    <3> QED
      BY <1>1, <1>2, <3>1 DEF Apart, Under
  <2>2. ASSUME NEW x \in N PROVE Fit(x, c)
    <3>1. /\ lo[x] \in Int /\ hi[x] \in Int /\ KeyOf(T, x) \in Int /\ lo[x] < KeyOf(T, x) /\ KeyOf(T, x) < hi[x]
          /\ lo[f] \in Int /\ hi[f] \in Int /\ KeyOf(T, f) \in Int /\ lo[f] < KeyOf(T, f) /\ KeyOf(T, f) < hi[f]
      BY <1>3
    <3>2. lo2[x] = lo[x] /\ hi2[x] = hi[x] /\ KeyOf(V, x) = KeyOf(T, x) /\ KeyOf(V, c) = k
      BY <1>1, <1>2
    <3>3. ~(lo2[c] < KeyOf(T, x) /\ KeyOf(T, x) < hi2[c])
      BY <1>12
    <3>4. CASE x = f
      BY <1>14, <3>1, <3>2, <3>4 DEF Under
    <3>5. CASE x # f /\ Apart(lo, hi, x, f)
      BY <1>14, <3>1, <3>2, <3>5 DEF Apart
    <3>6. CASE x # f /\ Under(T, lo, hi, x, f)
      BY <1>2, <1>14, <3>1, <3>2, <3>3, <3>6 DEF Under, Apart
    <3>7. CASE x # f /\ Under(T, lo, hi, f, x)
      BY <1>14, <3>1, <3>2, <3>7 DEF Under
    <3> QED
      BY <1>13, <3>4, <3>5, <3>6, <3>7
  <2>3. \A x, y \in M : Fit(x, y) => Fit(y, x)
    BY DEF Apart
  <2>4. c \in M /\ \A x \in N : x \in M
    BY <1>1, <1>2
  <2>5. ASSUME NEW x \in M, NEW y \in M, x # y PROVE Fit(x, y)
    <3> HIDE DEF Fit
    <3> QED
      BY <1>2, <2>1, <2>2, <2>3, <2>4, <2>5
  <2> QED
    BY <2>5 DEF Nested
<1>17. Tree(V, M, r, lo2, hi2)
  BY <1>1, <1>7, <1>8, <1>9, <1>10, <1>15, <1>16 DEF Tree, Ordered
<1> QED
  BY <1>17 DEF M

LEMMA LeafHeights ==
  ASSUME NEW T, NEW V, NEW N, NEW r, NEW lo, NEW hi, NEW k, NEW v, NEW f, NEW s, NEW c,
         Tree(T, N, r, lo, hi), Leafed(T, V, N, k, v, f, s, c), f \in N, s \in Sides,
         Kid(T, f, s) = Nil, \A x \in N : Even(T, x)
  PROVE  /\ \A x \in N \cup {c} : x # f => Even(V, x)
         /\ Uneven(V, f)
<1> DEFINE M == N \cup {c}
<1>1. /\ c \notin N /\ Nodes(M) /\ V \in Arrays(M) /\ c # Nil /\ c \in M
      /\ \A x \in N : /\ High(V, x) = High(T, x) /\ x \in M
                      /\ \A u \in Sides : Kid(V, x, u) = IF x = f /\ u = s THEN c ELSE Kid(T, x, u)
      /\ High(V, c) = 1 /\ \A u \in Sides : Kid(V, c, u) = Nil
  BY DEF Leafed, Nodes, Nil
<1>2. \A x \in M : x \in N \/ x = c
  OBVIOUS
<1>3. \A x \in N : x # Nil /\ \A u \in Sides : Kid(T, x, u) \in Links(N)
  BY ArrayTypes, TreeTypes DEF Tree
<1>4. \A u \in Sides : u = s \/ u = Opposite(s)
  BY DEF Sides, Opposite
<1>5. Opposite(s) \in Sides /\ Opposite(s) # s /\ "l" \in Sides /\ "r" \in Sides
  BY DEF Sides, Opposite
<1> HIDE DEF M
<1>6. \A y \in Links(N) : Height(V, y) = Height(T, y)
  BY <1>1 DEF Links, Height, High
<1>7. \A x \in N, u \in Sides : ~(x = f /\ u = s) => Height(V, Kid(V, x, u)) = Height(T, Kid(T, x, u))
  BY <1>1, <1>3, <1>6
<1>8. ASSUME NEW x \in M, x # f PROVE Even(V, x)
  <2>1. CASE x = c
    <3>1. Height(V, Kid(V, x, "l")) = 0 /\ Height(V, Kid(V, x, "r")) = 0
      BY <1>1, <1>5, <2>1 DEF Height
    <3> QED
      BY <1>1, <2>1, <3>1 DEF Even, Raised, Larger, Level
  <2>2. CASE x \in N
    <3>1. Height(V, Kid(V, x, "l")) = Height(T, Kid(T, x, "l")) /\ Height(V, Kid(V, x, "r")) = Height(T, Kid(T, x, "r"))
      BY <1>5, <1>7, <1>8, <2>2
    <3>2. High(V, x) = High(T, x) /\ Even(T, x)
      BY <1>1, <2>2
    <3> QED
      BY <3>1, <3>2 DEF Even, Raised
  <2> QED
    BY <1>2, <2>1, <2>2
<1>9. Uneven(V, f)
  <2>1. Even(T, f) <=> /\ High(T, f) = 1 + Larger(Height(T, Kid(T, f, s)), Height(T, Kid(T, f, Opposite(s))))
                       /\ Level(Height(T, Kid(T, f, s)), Height(T, Kid(T, f, Opposite(s))))
    BY RaisedIs DEF Tree
  <2>2. Height(T, Kid(T, f, s)) = 0
    BY DEF Height
  <2>3. Height(V, Kid(V, f, s)) = 1
    BY <1>1 DEF Height, High
  <2>4. Height(V, Kid(V, f, Opposite(s))) = Height(T, Kid(T, f, Opposite(s)))
    BY <1>5, <1>7
  <2>5. High(V, f) = High(T, f)
    BY <1>1
  <2>6. WasEven(V, f, s, 0)
    BY <2>1, <2>2, <2>3, <2>4, <2>5 DEF WasEven
  <2> QED
    BY <2>6 DEF Uneven
<1> QED
  BY <1>8, <1>9 DEF M

\* The side of n on which k belongs.
Half(T, n, k) == IF KeyOf(T, n) < k THEN "r" ELSE "l"
Inside(T, N, lo, hi, k) == {n \in N : lo[n] < k /\ k < hi[n]}

\* A step down towards k stays around k.
LEMMA DownIs ==
  ASSUME NEW T, NEW N, NEW r, NEW lo, NEW hi, Tree(T, N, r, lo, hi), NEW k \in Int,
         NEW n \in Inside(T, N, lo, hi, k), KeyOf(T, n) # k
  PROVE  /\ Towards(T, n, k) = Kid(T, n, Half(T, n, k)) /\ Half(T, n, k) \in Sides
         /\ Towards(T, n, k) # Nil =>
              /\ Towards(T, n, k) \in Inside(T, N, lo, hi, k)
              /\ Spread(T, N, lo, hi, Towards(T, n, k)) < Spread(T, N, lo, hi, n)
<1> DEFINE s == Half(T, n, k)
           c == Kid(T, n, s)
<1>1. Towards(T, n, k) = c /\ s \in Sides
  BY DEF Towards, Half, Kid, KeyOf, Sides
<1>2. n \in N /\ lo[n] < k /\ k < hi[n]
  BY DEF Inside
<1>3. KeyOf(T, n) \in Int
  BY <1>2, TreeTypes
<1>4. ASSUME c # Nil PROVE c \in Inside(T, N, lo, hi, k) /\ Spread(T, N, lo, hi, c) < Spread(T, N, lo, hi, n)
  <2>1. c \in N /\ Spread(T, N, lo, hi, c) < Spread(T, N, lo, hi, n)
    BY <1>1, <1>2, <1>4, KidIs, SpreadGrows
  <2>2. IsHalf(T, lo, hi, n, s, c)
    BY <1>1, <1>2, <1>4, HalvedIs DEF Tree, Ordered
  <2>3. lo[c] \in Int /\ hi[c] \in Int
    BY <2>1, TreeTypes
  <2>4. lo[c] < k /\ k < hi[c]
    BY <1>2, <1>3, <2>2, <2>3 DEF IsHalf, Half
  <2> QED
    BY <2>1, <2>4 DEF Inside
<1> HIDE DEF c, s
<1> QED
  BY <1>1, <1>4 DEF c, s

LEMMA PlaceIs ==
  ASSUME NEW T, NEW N, NEW r, NEW lo, NEW hi, Tree(T, N, r, lo, hi), NEW k \in Int,
         Floor < k, k < Ceiling, \A m \in N : KeyOf(T, m) # k
  PROVE  LET f == PlaceFor(T, r, k)
             s == Half(T, f, k)
         IN /\ f \in N /\ s \in Sides /\ Kid(T, f, s) = Nil
            /\ (s = "l" /\ lo[f] < k /\ k < KeyOf(T, f)) \/ (s = "r" /\ KeyOf(T, f) < k /\ k < hi[f])
<1> DEFINE S == Inside(T, N, lo, hi, k)
           down == [n \in DOMAIN T |-> IF Towards(T, n, k) = Nil THEN n ELSE Towards(T, n, k)]
           w == [n \in N |-> Spread(T, N, lo, hi, n)]
           f == PlaceFor(T, r, k)
<1>1. DOMAIN T = N
  BY DEF Tree, Arrays
<1>2. S \subseteq N /\ r \in S
  BY DEF Inside, Tree, Linked, Ordered
<1>3. ASSUME NEW y \in S PROVE down[y] \in S /\ w[y] \in Nat /\ (down[y] = y \/ w[down[y]] < w[y])
  <2>1. y \in N /\ KeyOf(T, y) # k
    BY <1>2
  <2>2. down[y] = IF Towards(T, y, k) = Nil THEN y ELSE Towards(T, y, k)
    BY <1>1, <2>1
  <2>3. w[y] = Spread(T, N, lo, hi, y) /\ w[y] \in Nat
    BY <2>1, Spreads
  <2>4. Towards(T, y, k) # Nil => Towards(T, y, k) \in S /\ Spread(T, N, lo, hi, Towards(T, y, k)) < Spread(T, N, lo, hi, y)
    BY <2>1, DownIs
  <2> HIDE DEF S, down
  <2>5. down[y] # y => down[y] \in N
    BY <1>2, <2>2, <2>4
  <2> QED
    BY <2>2, <2>3, <2>4, <2>5
<1>4. Size(T) \in Nat /\ w[r] <= Size(T)
  <2>1. r \in N
    BY <1>2
  <2> QED
    BY <1>1, <2>1, Spreads DEF Size
<1> HIDE DEF w
<1>5. f = Repeated(down, r, Size(T))
  BY DEF PlaceFor
<1> HIDE DEF f, down, S
<1>6. f \in S /\ down[f] = f
  BY <1>2, <1>3, <1>4, <1>5, LoopEnds
<1>7. f \in N /\ lo[f] < k /\ k < hi[f] /\ KeyOf(T, f) # k /\ KeyOf(T, f) \in Int
  BY <1>2, <1>6, TreeTypes DEF S, Inside
<1>8. /\ Towards(T, f, k) = Kid(T, f, Half(T, f, k)) /\ Half(T, f, k) \in Sides
      /\ Towards(T, f, k) # Nil => Spread(T, N, lo, hi, Towards(T, f, k)) < Spread(T, N, lo, hi, f)
  BY <1>6, <1>7, DownIs DEF S
<1>9. Spread(T, N, lo, hi, f) \in Nat
  BY <1>7, Spreads
<1>10. Towards(T, f, k) = Nil
  BY <1>1, <1>6, <1>7, <1>8, <1>9 DEF down
<1> QED
  BY <1>7, <1>8, <1>10 DEF Half, f

\* All keys lie between two integers.
LEMMA KeyBounds == Floor \in Int /\ Ceiling \in Int /\ \A k \in Keys : k \in Int /\ Floor < k /\ k < Ceiling
<1>1. PICK n \in Nat : ExistsBijection(1 .. n, Keys)
  BY FS_NatBijection, SymbolTreeAssumption
<1>2. PICK f \in Bijection(1 .. n, Keys) : TRUE
  BY <1>1 DEF ExistsBijection
<1>3. (\A i \in 1 .. n : f[i] \in Keys) /\ \A k \in Keys : \E i \in 1 .. n : f[i] = k
  BY <1>2 DEF Bijection, Injection, Surjection
<1>4. Keys \subseteq Int
  BY SymbolTreeAssumption
<1> DEFINE Bounds(j, l, h) == \A i \in 1 .. j : l < f[i] /\ f[i] < h
           D == {j \in Nat : j <= n => \E l \in Int, h \in Int : Bounds(j, l, h)}
<1>5. 0 \in D
  <2>1. Bounds(0, 0, 0)
    OBVIOUS
  <2> QED
    BY <2>1
<1>6. ASSUME NEW j \in Nat, j \in D PROVE j + 1 \in D
  <2> SUFFICES ASSUME j + 1 <= n PROVE \E l \in Int, h \in Int : Bounds(j + 1, l, h)
    OBVIOUS
  <2>1. PICK l \in Int, h \in Int : Bounds(j, l, h)
    BY <1>6
  <2> DEFINE x == f[j + 1]
             l2 == IF l < x THEN l ELSE x - 1
             h2 == IF x < h THEN h ELSE x + 1
  <2>2. x \in Int /\ \A i \in 1 .. j : f[i] \in Int
    <3>1. \A i \in 1 .. j + 1 : i \in 1 .. n
      OBVIOUS
    <3>2. \A i \in 1 .. j + 1 : f[i] \in Keys
      BY <1>3, <3>1
    <3>3. j + 1 \in 1 .. j + 1 /\ \A i \in 1 .. j : i \in 1 .. j + 1
      OBVIOUS
    <3> QED
      BY <1>4, <3>2, <3>3
  <2>3. l2 \in Int /\ h2 \in Int /\ l2 < x /\ x < h2 /\ l2 <= l /\ h <= h2
    BY <2>2
  <2>4. \A i \in 1 .. j + 1 : i \in 1 .. j \/ i = j + 1
    OBVIOUS
  <2> HIDE DEF l2, h2
  <2>5. ASSUME NEW i \in 1 .. j + 1 PROVE l2 < f[i] /\ f[i] < h2
    <3>1. CASE i \in 1 .. j
      BY <2>1, <2>2, <2>3, <3>1
    <3>2. CASE i = j + 1
      BY <2>3, <3>2
    <3> QED
      BY <2>4, <3>1, <3>2
  <2>6. Bounds(j + 1, l2, h2)
    BY <2>5
  <2> HIDE DEF Bounds
  <2> QED
    BY <2>3, <2>6
<1> HIDE DEF D
<1>7. n \in D
  BY <1>5, <1>6, CountingUp
<1>8. PICK l \in Int, h \in Int : Bounds(n, l, h)
  BY <1>7 DEF D
<1>9. \A k \in Keys : l < k /\ k < h
  BY <1>3, <1>8
<1>10. (\E m \in Int : \A k \in Keys : m < k) /\ \E m \in Int : \A k \in Keys : k < m
  BY <1>9
<1> QED
  BY <1>4, <1>10 DEF Floor, Ceiling

\* The first node.
LEMMA FirstLeaf ==
  ASSUME NEW T, NEW c \in Nat, T \in Arrays({c}), Up(T, c) = Nil, High(T, c) = 1,
         \A s \in Sides : Kid(T, c, s) = Nil
  PROVE  (\E lo, hi : Tree(T, {c}, c, lo, hi)) /\ Even(T, c)
<1> DEFINE lo == [x \in {c} |-> Floor]
           hi == [x \in {c} |-> Ceiling]
<1>1. Nodes({c})
  BY FS_Singleton DEF Nodes
<1>2. KeyOf(T, c) \in Keys
  BY <1>1, ArrayTypes
<1>3. lo[c] = Floor /\ hi[c] = Ceiling /\ lo[c] \in Int /\ hi[c] \in Int /\ lo[c] < KeyOf(T, c) /\ KeyOf(T, c) < hi[c]
  BY <1>2, KeyBounds
<1>4. "l" \in Sides /\ "r" \in Sides /\ c # Nil
  BY DEF Sides, Nil
<1> HIDE DEF lo, hi
<1>5. Linked(T, {c}, c)
  BY <1>4 DEF Linked
<1>6. Around(T, {c}, lo, hi)
  BY <1>3 DEF Around
<1>7. Halved(T, {c}, lo, hi) /\ Nested(T, {c}, lo, hi)
  BY <1>4 DEF Halved, Nested
<1>8. Filled(T, {c}, lo, hi)
  BY <1>2, KeyBounds DEF Filled
<1>9. Tree(T, {c}, c, lo, hi)
  BY <1>1, <1>3, <1>5, <1>6, <1>7, <1>8 DEF Tree, Ordered
<1>10. Even(T, c)
  BY <1>4 DEF Even, Raised, Height, Larger, Level
<1> QED
  BY <1>9, <1>10

-----------------------------------------------------------------------------
(* Looking up.                                                             *)

LEMMA KeysDiffer ==
  ASSUME NEW T, NEW N, NEW r, NEW lo, NEW hi, Tree(T, N, r, lo, hi), NEW a \in N, NEW b \in N, a # b
  PROVE  KeyOf(T, a) # KeyOf(T, b)
<1>1. Apart(lo, hi, a, b) \/ Under(T, lo, hi, a, b) \/ Under(T, lo, hi, b, a)
  BY DEF Tree, Ordered, Nested
<1>2. /\ lo[a] \in Int /\ hi[a] \in Int /\ KeyOf(T, a) \in Int /\ lo[a] < KeyOf(T, a) /\ KeyOf(T, a) < hi[a]
      /\ lo[b] \in Int /\ hi[b] \in Int /\ KeyOf(T, b) \in Int /\ lo[b] < KeyOf(T, b) /\ KeyOf(T, b) < hi[b]
  BY TreeTypes
<1> QED
  BY <1>1, <1>2 DEF Apart, Under

\* Where a key is, there is a way down to it.
LEMMA WayDown ==
  ASSUME NEW T, NEW N, NEW r, NEW lo, NEW hi, Tree(T, N, r, lo, hi), NEW m \in N,
         NEW n \in Inside(T, N, lo, hi, KeyOf(T, m)), KeyOf(T, n) # KeyOf(T, m)
  PROVE  Towards(T, n, KeyOf(T, m)) # Nil
<1> DEFINE k == KeyOf(T, m)
<1>1. n \in N /\ lo[n] < k /\ k < hi[n]
  BY DEF Inside
<1>2. k \in Int /\ KeyOf(T, n) \in Int
  BY <1>1, TreeTypes
<1>3. /\ lo[n] < k /\ k < KeyOf(T, n) => Kid(T, n, "l") # Nil
      /\ KeyOf(T, n) < k /\ k < hi[n] => Kid(T, n, "r") # Nil
  BY <1>1 DEF Tree, Ordered, Filled
<1>4. Towards(T, n, k) = Kid(T, n, Half(T, n, k))
  BY <1>2, DownIs
<1> HIDE DEF k
<1>5. Towards(T, n, k) # Nil
  BY <1>1, <1>2, <1>3, <1>4 DEF Half, k
<1> QED
  BY <1>5 DEF k

LEMMA GetIs ==
  ASSUME NEW N, NEW lo, NEW hi, Tree(node, N, root, lo, hi), NEW k \in Keys
  PROVE  IF \E m \in N : KeyOf(node, m) = k THEN Get(k) \in N /\ KeyOf(node, Get(k)) = k ELSE Get(k) = Nil
<1> DEFINE S == Inside(node, N, lo, hi, k)
           down == [n \in DOMAIN node \cup {Nil} |->
                      IF n = Nil \/ node[n].key = k THEN n ELSE Towards(node, n, k)]
           w == [n \in N \cup {Nil} |-> IF n = Nil THEN 0 ELSE Spread(node, N, lo, hi, n)]
           f == Get(k)
<1>1. DOMAIN node = N
  BY DEF Tree, Arrays
<1>2. k \in Int /\ Floor < k /\ k < Ceiling
  BY KeyBounds
<1>3. S \subseteq N /\ root \in S
  BY <1>2 DEF Inside, Tree, Linked, Ordered
<1>4. Nil \notin N
  BY TreeTypes
<1>5. down[Nil] = Nil /\ w[Nil] = 0
  OBVIOUS
<1>6. ASSUME NEW y \in S
      PROVE  /\ down[y] = IF KeyOf(node, y) = k THEN y ELSE Towards(node, y, k)
             /\ down[y] \in S \cup {Nil} /\ w[y] \in Nat
             /\ KeyOf(node, y) # k => w[down[y]] < w[y]
  <2>1. y \in N /\ y # Nil
    BY <1>3, <1>4
  <2>2. down[y] = IF KeyOf(node, y) = k THEN y ELSE Towards(node, y, k)
    BY <1>1, <2>1 DEF KeyOf
  <2>3. w[y] = Spread(node, N, lo, hi, y) /\ w[y] \in Nat /\ 1 <= w[y]
    BY <2>1, Spreads
  <2>4. KeyOf(node, y) # k /\ Towards(node, y, k) # Nil =>
          Towards(node, y, k) \in S /\ Spread(node, N, lo, hi, Towards(node, y, k)) < Spread(node, N, lo, hi, y)
    BY <1>2, DownIs
  <2> HIDE DEF down, S
  <2>5. CASE KeyOf(node, y) = k
    BY <2>2, <2>3, <2>5
  <2>6. CASE KeyOf(node, y) # k /\ Towards(node, y, k) = Nil
    BY <1>5, <2>2, <2>3, <2>6
  <2>7. CASE KeyOf(node, y) # k /\ Towards(node, y, k) # Nil
    <3>1. down[y] \in S /\ down[y] # Nil /\ down[y] \in N
      BY <1>3, <1>4, <2>2, <2>4, <2>7
    <3>2. w[down[y]] = Spread(node, N, lo, hi, down[y])
      BY <3>1
    <3> HIDE DEF w
    <3>3. Spread(node, N, lo, hi, down[y]) < Spread(node, N, lo, hi, y)
      BY <2>2, <2>4, <2>7
    <3> QED
      BY <2>2, <2>3, <2>7, <3>1, <3>2, <3>3
  <2> QED
    BY <2>5, <2>6, <2>7
<1>7. Size(node) \in Nat /\ w[root] \in Nat /\ w[root] <= Size(node)
  <2>1. root \in N /\ root # Nil
    BY <1>3, <1>4
  <2> QED
    BY <1>1, <2>1, Spreads DEF Size
<1>8. f = Repeated(down, root, Size(node))
  BY DEF Get
<1>9. CASE \E m \in N : KeyOf(node, m) = k
  <2>1. PICK m \in N : KeyOf(node, m) = k
    BY <1>9
  <2>2. \A y \in S : KeyOf(node, y) # k => Towards(node, y, k) # Nil
    BY <2>1, WayDown
  <2> HIDE DEF down, S, w, f
  <2>3. \A y \in S : down[y] # Nil
    BY <1>3, <1>4, <1>6, <2>2
  <2>4. ASSUME NEW y \in S PROVE down[y] \in S /\ w[y] \in Nat /\ (down[y] = y \/ w[down[y]] < w[y])
    BY <1>6, <2>3
  <2>5. f \in S /\ down[f] = f
    BY <1>3, <1>7, <1>8, <2>4, LoopEnds
  <2>6. KeyOf(node, f) = k
    BY <1>6, <2>5
  <2> QED
    BY <1>3, <1>9, <2>5, <2>6 DEF f
<1>10. CASE ~ \E m \in N : KeyOf(node, m) = k
  <2> DEFINE S2 == S \cup {Nil}
  <2> HIDE DEF down, S, w, f
  <2>1. ASSUME NEW y \in S2 PROVE down[y] \in S2 /\ w[y] \in Nat /\ (down[y] = y \/ w[down[y]] < w[y])
    BY <1>3, <1>5, <1>6, <1>10
  <2>2. root \in S2
    BY <1>3
  <2> HIDE DEF S2
  <2>3. f \in S2 /\ down[f] = f
    BY <1>7, <1>8, <2>1, <2>2, LoopEnds
  <2>4. f \notin S
    BY <1>3, <1>6, <1>10, <2>3
  <2>5. f = Nil
    BY <2>3, <2>4 DEF S2
  <2> QED
    BY <1>10, <2>5 DEF f
<1> QED
  BY <1>9, <1>10

-----------------------------------------------------------------------------
(* Copying the tree.                                                       *)

CopyTurn(T, c) ==
  LET n == c.stack[Len(c.stack)]
      Kids(q) == WithNode(WithNode(q, T[n].kid["l"]), T[n].kid["r"])
  IN IF c.stack = <<>> THEN c
     ELSE [stack |-> Kids(SubSeq(c.stack, 1, Len(c.stack) - 1)), out |-> Kids(c.out)]

LEMMA CopyTurns ==
  ASSUME NEW T, NEW r, Size(T) \in Nat
  PROVE  \E g : /\ g[0] = [stack |-> <<r>>, out |-> <<r>>]
                /\ \A k \in Nat : k + 1 <= Size(T) => g[k + 1] = CopyTurn(T, g[k])
                /\ CopyOrder(T, r) = g[Size(T)].out
<1> DEFINE x == [stack |-> <<r>>, out |-> <<r>>]
           Pass(j, g) == g = [k \in 0 .. j |-> IF k = 0 THEN x ELSE CopyTurn(T, g[k - 1])]
           R == {j \in Nat : \E g : Pass(j, g)}
<1>1. 0 \in R
  <2>1. Pass(0, [k \in 0 .. 0 |-> x])
    OBVIOUS
  <2> QED
    BY <2>1
<1>2. ASSUME NEW j \in Nat, j \in R PROVE j + 1 \in R
  <2>1. PICK g : Pass(j, g)
    BY <1>2
  <2>2. Pass(j + 1, [k \in 0 .. j + 1 |-> IF k = j + 1 THEN CopyTurn(T, g[j]) ELSE g[k]])
    BY <2>1
  <2>3. \E h : Pass(j + 1, h)
    BY <2>2
  <2> QED
    BY <2>3
<1>3. Size(T) \in R
  BY <1>1, <1>2, CountingUp
<1> DEFINE G == CHOOSE g : Pass(Size(T), g)
<1>4. CopyOrder(T, r) = G[Size(T)].out
  BY DEF CopyOrder, CopyTurn
<1>5. Pass(Size(T), G)
  BY <1>3
<1> HIDE DEF G
<1>6. /\ G[0] = x
      /\ \A k \in Nat : k + 1 <= Size(T) => G[k + 1] = CopyTurn(T, G[k])
  BY <1>5
<1> QED
  BY <1>4, <1>6

Elems(q) == {q[i] : i \in 1 .. Len(q)}
Distinct(q) == \A i, j \in 1 .. Len(q) : q[i] = q[j] => i = j

LEMMA WithNodeIs ==
  ASSUME NEW N, Nil \notin N, NEW q \in Seq(N), Distinct(q), NEW n \in Links(N), n \notin Elems(q)
  PROVE  /\ WithNode(q, n) \in Seq(N) /\ Distinct(WithNode(q, n))
         /\ Elems(WithNode(q, n)) = Elems(q) \cup ({n} \ {Nil})
         /\ Len(WithNode(q, n)) = IF n = Nil THEN Len(q) ELSE Len(q) + 1
         /\ Len(q) >= 1 => WithNode(q, n)[1] = q[1]
<1>1. CASE n = Nil
  BY <1>1 DEF WithNode
<1>2. CASE n # Nil
  <2> DEFINE p == Append(q, n)
  <2>1. WithNode(q, n) = p /\ n \in N
    BY <1>2 DEF WithNode, Links
  <2>2. Len(q) \in Nat /\ p \in Seq(N) /\ Len(p) = Len(q) + 1 /\ p[Len(q) + 1] = n /\ \A i \in 1 .. Len(q) : p[i] = q[i]
    BY <2>1
  <2> HIDE DEF p
  <2>3. \A i \in 1 .. Len(p) : i \in 1 .. Len(q) \/ i = Len(q) + 1
    BY <2>2
  <2>4. \A i \in 1 .. Len(q) : i \in 1 .. Len(p)
    BY <2>2
  <2>5. Len(q) + 1 \in 1 .. Len(p)
    BY <2>2
  <2>6. \A i \in 1 .. Len(q) : q[i] # n
    BY DEF Elems
  <2>7. Distinct(p)
    BY <2>2, <2>3, <2>6 DEF Distinct
  <2>8. Elems(p) = Elems(q) \cup {n}
    BY <2>2, <2>3, <2>4, <2>5 DEF Elems
  <2>9. Len(q) >= 1 => p[1] = q[1]
    BY <2>2
  <2> QED
    BY <1>2, <2>1, <2>2, <2>7, <2>8, <2>9
<1> QED
  BY <1>1, <1>2

LEMMA PoppedIs ==
  ASSUME NEW N, NEW q \in Seq(N), Distinct(q), q # <<>>
  PROVE  /\ SubSeq(q, 1, Len(q) - 1) \in Seq(N) /\ Distinct(SubSeq(q, 1, Len(q) - 1))
         /\ q[Len(q)] \in N /\ q[Len(q)] \in Elems(q)
         /\ Elems(SubSeq(q, 1, Len(q) - 1)) = Elems(q) \ {q[Len(q)]}
         /\ Len(SubSeq(q, 1, Len(q) - 1)) = Len(q) - 1 /\ Len(q) >= 1
<1> DEFINE p == SubSeq(q, 1, Len(q) - 1)
<1>1. Len(q) \in Nat /\ Len(q) >= 1
  OBVIOUS
<1>2. p \in Seq(N) /\ Len(p) = Len(q) - 1 /\ \A i \in 1 .. Len(p) : p[i] = q[i]
  <2>1. Len(q) - 1 \in Nat /\ Len(q) - 1 <= Len(q)
    BY <1>1
  <2> DEFINE n == Len(q) - 1
  <2>2. n \in Int /\ \A i \in 1 .. n : q[i] \in N
    BY <1>1
  <2> HIDE DEF n
  <2>3. /\ SubSeq(q, 1, n) \in Seq(N) /\ Len(SubSeq(q, 1, n)) = IF 1 <= n THEN n - 1 + 1 ELSE 0
        /\ \A i \in 1 .. n - 1 + 1 : SubSeq(q, 1, n)[i] = q[1 + i - 1]
    BY <2>2, SubSeqProperties
  <2>4. n \in Nat /\ Len(SubSeq(q, 1, n)) = n
    <3>1. n \in Nat
      BY <2>1 DEF n
    <3> QED
      BY <2>3, <3>1
  <2>5. \A i \in 1 .. n : i \in 1 .. n - 1 + 1 /\ 1 + i - 1 = i
    BY <2>2
  <2> QED
    BY <2>3, <2>4, <2>5 DEF n
<1> HIDE DEF p
<1>3. \A i \in 1 .. Len(p) : i \in 1 .. Len(q) /\ i # Len(q)
  BY <1>1, <1>2
<1>4. \A i \in 1 .. Len(q) : i \in 1 .. Len(p) \/ i = Len(q)
  BY <1>1, <1>2
<1>5. Len(q) \in 1 .. Len(q)
  BY <1>1
<1>6. Distinct(p)
  BY <1>2, <1>3 DEF Distinct
<1>7. q[Len(q)] \in N /\ q[Len(q)] \in Elems(q)
  BY <1>5 DEF Elems
<1>8. \A i \in 1 .. Len(p) : q[i] # q[Len(q)]
  BY <1>3, <1>5 DEF Distinct
<1>9. Elems(p) = Elems(q) \ {q[Len(q)]}
  BY <1>2, <1>3, <1>4, <1>8 DEF Elems
<1> QED
  BY <1>1, <1>2, <1>6, <1>7, <1>9 DEF p

LEMMA DistinctCount ==
  ASSUME NEW N, IsFiniteSet(N), NEW q \in Seq(N), Distinct(q)
  PROVE  /\ Cardinality(Elems(q)) = Len(q) /\ Len(q) <= Cardinality(N)
         /\ Elems(q) = N => Len(q) = Cardinality(N)
<1>1. q \in [1 .. Len(q) -> Elems(q)] /\ \A x \in Elems(q) : \E i \in 1 .. Len(q) : q[i] = x
  BY DEF Elems
<1>2. q \in Bijection(1 .. Len(q), Elems(q))
  BY <1>1, Fun_IsBij DEF Distinct
<1>3. ExistsBijection(1 .. Len(q), Elems(q))
  BY <1>2 DEF ExistsBijection
<1>4. Len(q) \in Nat /\ Elems(q) \subseteq N
  BY DEF Elems
<1>5. Cardinality(Elems(q)) = Len(q)
  BY <1>3, <1>4, FS_CountingElements
<1>6. Cardinality(Elems(q)) <= Cardinality(N)
  BY <1>4, FS_Subset
<1> QED
  BY <1>5, <1>6

\* What is reached from the root along children is all of the tree.
LEMMA AllReached ==
  ASSUME NEW T, NEW N, NEW r, NEW lo, NEW hi, Tree(T, N, r, lo, hi), NEW P, P \subseteq N, r \in P,
         \A x \in P, u \in Sides : Kid(T, x, u) # Nil => Kid(T, x, u) \in P
  PROVE  P = N
<1> DEFINE far(x) == Cardinality(N) - Spread(T, N, lo, hi, x)
           D == {n \in Nat : \A x \in N : far(x) <= n => x \in P}
<1>1. \A x \in N : Spread(T, N, lo, hi, x) \in Nat /\ Cardinality(N) \in Nat /\ Spread(T, N, lo, hi, x) <= Cardinality(N)
  BY Spreads
<1>2. ASSUME NEW x \in N
      PROVE  \/ x = r
             \/ Up(T, x) \in N /\ far(Up(T, x)) < far(x) /\ (Up(T, x) \in P => x \in P)
  <2> SUFFICES ASSUME x # r
               PROVE  Up(T, x) \in N /\ far(Up(T, x)) < far(x) /\ (Up(T, x) \in P => x \in P)
    OBVIOUS
  <2>1. Up(T, x) # Nil /\ x # Nil
    BY TreeTypes DEF Tree, Linked
  <2>2. Up(T, x) \in N /\ Spread(T, N, lo, hi, x) < Spread(T, N, lo, hi, Up(T, x)) /\ \E u \in Sides : Kid(T, Up(T, x), u) = x
    BY <2>1, UpIs
  <2>3. far(Up(T, x)) < far(x)
    BY <1>1, <2>2
  <2> QED
    BY <2>1, <2>2, <2>3
<1>3. \A x \in N : far(x) \in Nat
  BY <1>1
<1> HIDE DEF far
<1>4. 0 \in D
  BY <1>2, <1>3
<1>5. ASSUME NEW n \in Nat, n \in D PROVE n + 1 \in D
  <2>1. ASSUME NEW x \in N, far(x) <= n + 1 PROVE x \in P
    <3>1. CASE x = r
      BY <3>1
    <3>2. CASE x # r
      <4>1. Up(T, x) \in N /\ far(Up(T, x)) < far(x) /\ (Up(T, x) \in P => x \in P)
        BY <1>2, <3>2
      <4>2. far(Up(T, x)) <= n
        BY <1>3, <2>1, <4>1
      <4> QED
        BY <1>5, <4>1, <4>2
    <3> QED
      BY <3>1, <3>2
  <2> QED
    BY <2>1
<1>6. \A x \in N : far(x) \in D
  BY <1>3, <1>4, <1>5, CountingUp
<1>7. \A x \in N : x \in P
  BY <1>3, <1>6
<1> QED
  BY <1>7

\* While the tree is copied, after k turns: the stack holds the copied nodes
\* whose children are not copied.
Copying(T, N, r, c, k) ==
  /\ c.stack \in Seq(N) /\ Distinct(c.stack) /\ c.out \in Seq(N) /\ Distinct(c.out)
  /\ Len(c.out) >= 1 /\ c.out[1] = r
  /\ Elems(c.stack) \subseteq Elems(c.out)
  /\ \A x \in Elems(c.out) : x = r \/ Up(T, x) \in Elems(c.out)
  /\ \A x \in Elems(c.out), u \in Sides :
       Kid(T, x, u) # Nil => (Kid(T, x, u) \in Elems(c.out) <=> x \notin Elems(c.stack))
  /\ c.stack = <<>> \/ k + Len(c.stack) <= Len(c.out)

LEMMA CopyTurnIs ==
  ASSUME NEW T, NEW N, NEW r, NEW lo, NEW hi, Tree(T, N, r, lo, hi), NEW c, NEW k \in Nat, Copying(T, N, r, c, k)
  PROVE  Copying(T, N, r, CopyTurn(T, c), k + 1)
<1>1. CASE c.stack = <<>>
  BY <1>1 DEF CopyTurn, Copying
<1>2. CASE c.stack # <<>>
  <2> DEFINE q == c.stack
             o == c.out
             n == q[Len(q)]
             a == Kid(T, n, "l")
             b == Kid(T, n, "r")
             q1 == SubSeq(q, 1, Len(q) - 1)
             q2 == WithNode(q1, a)
             q3 == WithNode(q2, b)
             o2 == WithNode(o, a)
             o3 == WithNode(o2, b)
             A == Elems(o)
             B == Elems(q)
             K == ({a} \ {Nil}) \cup ({b} \ {Nil})
  <2>1. CopyTurn(T, c).stack = q3 /\ CopyTurn(T, c).out = o3
    BY <1>2 DEF CopyTurn, Kid
  <2>2. /\ q \in Seq(N) /\ Distinct(q) /\ o \in Seq(N) /\ Distinct(o) /\ Len(o) >= 1 /\ o[1] = r /\ B \subseteq A
        /\ \A x \in A : x = r \/ Up(T, x) \in A
        /\ \A x \in A, u \in Sides : Kid(T, x, u) # Nil => (Kid(T, x, u) \in A <=> x \notin B)
        /\ k + Len(q) <= Len(o)
    BY <1>2 DEF Copying
  <2>3. q # <<>>
    BY <1>2
  <2>4. A \subseteq N
    BY <2>2 DEF Elems
  <2> HIDE DEF q, o
  <2>5. /\ q1 \in Seq(N) /\ Distinct(q1) /\ Elems(q1) = B \ {n} /\ n \in B /\ n \in N
        /\ Len(q1) = Len(q) - 1 /\ Len(q) >= 1
    BY <2>2, <2>3, PoppedIs
  <2> HIDE DEF q1, n, A, B
  <2>6. /\ \A x \in N, u \in Sides : Kid(T, x, u) # Nil => Kid(T, x, u) \in N /\ Up(T, Kid(T, x, u)) = x
        /\ Up(T, r) = Nil /\ r \in N
    BY KidIs DEF Tree, Linked
  <2>7. Nil \notin N /\ "l" \in Sides /\ "r" \in Sides /\ \A u \in Sides : u = "l" \/ u = "r"
    BY <2>5, TreeTypes DEF Sides
  <2>8. a \in Links(N) /\ b \in Links(N) /\ a \notin A /\ b \notin A
    BY <2>2, <2>4, <2>5, <2>6, <2>7 DEF Links
  <2>9. a = b => a = Nil
    BY <2>5, <2>7, KidsDiffer
  <2>10. a # Nil => Up(T, a) = n
    BY <2>5, <2>6, <2>7
  <2>11. b # Nil => Up(T, b) = n
    BY <2>5, <2>6, <2>7
  <2>12. \A u \in Sides : Kid(T, n, u) = a \/ Kid(T, n, u) = b
    BY <2>7
  <2> HIDE DEF a, b
  <2>13. a \notin Elems(q1)
    BY <2>2, <2>5, <2>8
  <2>14. /\ q2 \in Seq(N) /\ Distinct(q2) /\ Elems(q2) = (B \ {n}) \cup ({a} \ {Nil})
         /\ Len(q2) = IF a = Nil THEN Len(q1) ELSE Len(q1) + 1
    BY <2>5, <2>7, <2>8, <2>13, WithNodeIs
  <2>15. b \notin Elems(q2)
    BY <2>2, <2>8, <2>9, <2>14
  <2> HIDE DEF q2
  <2>16. /\ q3 \in Seq(N) /\ Distinct(q3) /\ Elems(q3) = Elems(q2) \cup ({b} \ {Nil})
         /\ Len(q3) = IF b = Nil THEN Len(q2) ELSE Len(q2) + 1
    BY <2>7, <2>8, <2>14, <2>15, WithNodeIs
  <2>17. a \notin Elems(o)
    BY <2>8 DEF A
  <2>18. /\ o2 \in Seq(N) /\ Distinct(o2) /\ Elems(o2) = A \cup ({a} \ {Nil})
         /\ Len(o2) = (IF a = Nil THEN Len(o) ELSE Len(o) + 1) /\ o2[1] = r
    BY <2>2, <2>7, <2>8, <2>17, WithNodeIs DEF A
  <2>19. b \notin Elems(o2)
    BY <2>8, <2>9, <2>18
  <2>20. Len(o) \in Nat /\ Len(q) \in Nat
    BY <2>2
  <2> HIDE DEF o2
  <2>21. Len(o2) >= 1
    BY <2>2, <2>18, <2>20
  <2>22. /\ o3 \in Seq(N) /\ Distinct(o3) /\ Elems(o3) = Elems(o2) \cup ({b} \ {Nil})
         /\ Len(o3) = (IF b = Nil THEN Len(o2) ELSE Len(o2) + 1) /\ o3[1] = r
    BY <2>7, <2>8, <2>18, <2>19, <2>21, WithNodeIs
  <2> HIDE DEF q3, o3
  <2>23. Elems(o3) = A \cup K /\ Elems(q3) = (B \ {n}) \cup K
    BY <2>14, <2>16, <2>18, <2>22
  <2>24. k + 1 + Len(q3) <= Len(o3) /\ Len(o3) >= 1
    <3>1. Len(q1) \in Nat /\ Len(q1) = Len(q) - 1 /\ k + Len(q) <= Len(o) /\ Len(o) >= 1
      BY <2>2, <2>5, <2>20
    <3>2. /\ Len(q2) = (IF a = Nil THEN Len(q1) ELSE Len(q1) + 1)
          /\ Len(o2) = (IF a = Nil THEN Len(o) ELSE Len(o) + 1)
      BY <2>14, <2>18
    <3>3. /\ Len(q3) = (IF b = Nil THEN Len(q2) ELSE Len(q2) + 1)
          /\ Len(o3) = (IF b = Nil THEN Len(o2) ELSE Len(o2) + 1)
      BY <2>16, <2>22
    <3>4. Len(q2) \in Nat /\ Len(o2) \in Nat /\ k + 1 + Len(q2) <= Len(o2) /\ Len(o2) >= 1
      <4>1. CASE a = Nil
        <5>1. Len(q2) = Len(q1) /\ Len(o2) = Len(o)
          BY <3>2, <4>1
        <5> QED
          BY <2>20, <3>1, <5>1
      <4>2. CASE a # Nil
        <5>1. Len(q2) = Len(q1) + 1 /\ Len(o2) = Len(o) + 1
          BY <3>2, <4>2
        <5> QED
          BY <2>20, <3>1, <5>1
      <4> QED
        BY <4>1, <4>2
    <3>5. CASE b = Nil
      <4>1. Len(q3) = Len(q2) /\ Len(o3) = Len(o2)
        BY <3>3, <3>5
      <4> QED
        BY <3>4, <4>1
    <3>6. CASE b # Nil
      <4>1. Len(q3) = Len(q2) + 1 /\ Len(o3) = Len(o2) + 1
        BY <3>3, <3>6
      <4> QED
        BY <3>4, <4>1
    <3> QED
      BY <3>5, <3>6
  <2>25. K \cap A = {} /\ \A x \in K : Up(T, x) = n
    BY <2>8, <2>10, <2>11
  <2>26. \A x \in Elems(o3) : x = r \/ Up(T, x) \in Elems(o3)
    BY <2>2, <2>5, <2>23, <2>25
  <2>27. \A u \in Sides : Kid(T, n, u) # Nil => Kid(T, n, u) \in K
    BY <2>12
  <2>28. K \subseteq N /\ n \in A
    BY <2>2, <2>5, <2>8 DEF Links
  <2> HIDE DEF K
  <2>29. ASSUME NEW x \in Elems(o3), NEW u \in Sides, Kid(T, x, u) # Nil
         PROVE  Kid(T, x, u) \in Elems(o3) <=> x \notin Elems(q3)
    <3> DEFINE y == Kid(T, x, u)
    <3>1. x \in N /\ x # Nil
      BY <2>4, <2>7, <2>23, <2>28
    <3>2. y \in N /\ Up(T, y) = x
      BY <2>6, <2>29, <3>1
    <3>3. CASE x = n
      BY <2>23, <2>25, <2>27, <2>28, <2>29, <3>3
    <3>4. CASE x \in A /\ x # n
      <4>1. y \notin K /\ (y \in A <=> x \notin B) /\ x \notin K
        BY <2>2, <2>25, <2>29, <3>2, <3>4
      <4> QED
        BY <2>23, <3>4, <4>1
    <3>5. CASE x \in K
      <4>1. x \notin A /\ x # n
        BY <2>25, <2>28, <3>5
      <4>2. y \notin A /\ y \notin K
        BY <2>2, <2>6, <2>25, <3>1, <3>2, <4>1
      <4> QED
        BY <2>23, <3>5, <4>2
    <3> QED
      BY <2>23, <3>3, <3>4, <3>5
  <2>30. Elems(q3) \subseteq Elems(o3)
    BY <2>2, <2>23
  <2> QED
    BY <2>1, <2>16, <2>22, <2>24, <2>26, <2>29, <2>30 DEF Copying
<1> QED
  BY <1>1, <1>2

\* Every node is copied once, the root first.
LEMMA CopyOrderIs ==
  ASSUME NEW T, NEW N, NEW r, NEW lo, NEW hi, Tree(T, N, r, lo, hi)
  PROVE  /\ CopyOrder(T, r) \in Seq(N) /\ Distinct(CopyOrder(T, r)) /\ Elems(CopyOrder(T, r)) = N
         /\ Len(CopyOrder(T, r)) = Size(T) /\ CopyOrder(T, r)[1] = r
<1>1. r \in N /\ IsFiniteSet(N) /\ DOMAIN T = N /\ "l" \in Sides
  BY DEF Tree, Linked, Nodes, Arrays, Sides
<1>2. Size(T) = Cardinality(N) /\ Size(T) \in Nat /\ Nil \notin N
  BY <1>1, Spreads, TreeTypes DEF Size
<1>3. PICK g : /\ g[0] = [stack |-> <<r>>, out |-> <<r>>]
               /\ \A k \in Nat : k + 1 <= Size(T) => g[k + 1] = CopyTurn(T, g[k])
               /\ CopyOrder(T, r) = g[Size(T)].out
  BY <1>2, CopyTurns
<1>4. Copying(T, N, r, g[0], 0)
  <2> DEFINE q == <<r>>
  <2>1. g[0].stack = q /\ g[0].out = q
    BY <1>3
  <2>2. q \in Seq(N) /\ Len(q) = 1 /\ q[1] = r /\ Elems(q) = {r} /\ Distinct(q)
    BY <1>1 DEF Elems, Distinct
  <2> HIDE DEF q
  <2>3. \A u \in Sides : Kid(T, r, u) # Nil => Kid(T, r, u) # r
    BY <1>1, <1>2 DEF Tree, Linked
  <2> QED
    BY <2>1, <2>2, <2>3 DEF Copying
<1> DEFINE D == {k \in Nat : k <= Size(T) => Copying(T, N, r, g[k], k)}
<1>5. 0 \in D
  BY <1>4
<1>6. ASSUME NEW k \in Nat, k \in D PROVE k + 1 \in D
  <2> SUFFICES ASSUME k + 1 <= Size(T) PROVE Copying(T, N, r, g[k + 1], k + 1)
    OBVIOUS
  <2>1. Copying(T, N, r, g[k], k)
    BY <1>2, <1>6
  <2>2. Copying(T, N, r, CopyTurn(T, g[k]), k + 1)
    BY <2>1, CopyTurnIs
  <2> QED
    BY <1>3, <2>2
<1> HIDE DEF D
<1>7. Size(T) \in D
  BY <1>2, <1>5, <1>6, CountingUp
<1> DEFINE c == g[Size(T)]
           o == c.out
<1>8. Copying(T, N, r, c, Size(T))
  BY <1>2, <1>7 DEF D
<1> HIDE DEF c, o
<1>9. /\ o \in Seq(N) /\ Distinct(o) /\ Len(o) >= 1 /\ o[1] = r /\ c.stack \in Seq(N)
      /\ \A x \in Elems(o), u \in Sides : Kid(T, x, u) # Nil => (Kid(T, x, u) \in Elems(o) <=> x \notin Elems(c.stack))
      /\ c.stack = <<>> \/ Size(T) + Len(c.stack) <= Len(o)
  BY <1>8 DEF Copying, o
<1>10. Len(o) <= Size(T)
  BY <1>1, <1>2, <1>9, DistinctCount
<1>11. c.stack = <<>>
  <2>1. Len(c.stack) \in Nat /\ (Len(c.stack) = 0 => c.stack = <<>>) /\ Len(o) \in Nat
    BY <1>9
  <2> QED
    BY <1>2, <1>9, <1>10, <2>1
<1>12. Elems(c.stack) = {}
  BY <1>11 DEF Elems
<1>13. r \in Elems(o) /\ Elems(o) \subseteq N
  <2>1. 1 \in 1 .. Len(o) /\ \A i \in 1 .. Len(o) : o[i] \in N
    BY <1>9
  <2> QED
    BY <1>9, <2>1 DEF Elems
<1>14. Elems(o) = N
  BY <1>9, <1>12, <1>13, AllReached
<1>15. Len(o) = Size(T)
  BY <1>1, <1>2, <1>9, <1>14, DistinctCount
<1>16. CopyOrder(T, r) = o
  BY <1>3 DEF o, c
<1> QED
  BY <1>9, <1>14, <1>15, <1>16

\* V is T with its nodes at other places.
Moved(T, V, N, Old, New) ==
  /\ \A x \in N : Old[x] \in N /\ New[x] \in N
  /\ Old[Nil] = Nil /\ New[Nil] = Nil
  /\ \A x \in Links(N) : Old[New[x]] = x /\ New[Old[x]] = x
  /\ V \in Arrays(N)
  /\ \A x \in N : /\ Up(V, x) = New[Up(T, Old[x])] /\ High(V, x) = High(T, Old[x])
                  /\ KeyOf(V, x) = KeyOf(T, Old[x]) /\ V[x].value = T[Old[x]].value
                  /\ \A u \in Sides : Kid(V, x, u) = New[Kid(T, Old[x], u)]

LEMMA CopiedIs ==
  ASSUME NEW T, NEW N, NEW r, NEW lo, NEW hi, Tree(T, N, r, lo, hi), Size(T) \in Nat, N = 0 .. Size(T) - 1
  PROVE  \E Old, New : Moved(T, Copied(T, r), N, Old, New) /\ New[r] = 0
<1> DEFINE q == CopyOrder(T, r)
           n == Size(T)
           At(x) == CHOOSE i \in DOMAIN q : q[i] = x
           Place(x) == IF x = Nil THEN Nil ELSE At(x) - 1
           Old == [x \in Links(N) |-> IF x = Nil THEN Nil ELSE q[x + 1]]
           New == [x \in Links(N) |-> Place(x)]
           V == Copied(T, r)
<1>1. q \in Seq(N) /\ Distinct(q) /\ Elems(q) = N /\ Len(q) = n /\ q[1] = r
  BY CopyOrderIs
<1>2. T \in Arrays(N) /\ DOMAIN T = N /\ r \in N
  BY DEF Tree, Arrays, Linked
<1>3. V = [i \in N |-> LET o == T[q[i + 1]] IN
             [o EXCEPT !.p = Place(@), !.kid = [s \in Sides |-> Place(o.kid[s])]]]
  BY <1>2 DEF Copied
<1> HIDE DEF q, n, V
<1>4. DOMAIN q = 1 .. n /\ n \in Nat
  BY <1>1 DEF n
<1>5. \A i \in 1 .. n : q[i] \in N
  BY <1>1, <1>4
<1>6. \A x \in N : \E i \in 1 .. n : q[i] = x
  BY <1>1 DEF Elems
<1>7. \A i, j \in 1 .. n : q[i] = q[j] => i = j
  BY <1>1 DEF Distinct
<1>8. \A x \in N : At(x) \in 1 .. n /\ q[At(x)] = x
  BY <1>4, <1>6
<1>9. \A i \in 1 .. n : At(q[i]) = i
  BY <1>5, <1>7, <1>8
<1> HIDE DEF At
<1>10. N = 0 .. n - 1 /\ Nil \notin N /\ \A x \in N : x + 1 \in 1 .. n
  BY <1>4 DEF n, Nil
<1>11. \A x \in N : Old[x] = q[x + 1] /\ New[x] = At(x) - 1
  BY <1>10 DEF Links
<1>12. Old[Nil] = Nil /\ New[Nil] = Nil
  BY DEF Links
<1> HIDE DEF Old, New
<1>13. \A x \in N : Old[x] \in N /\ New[x] \in N
  <2> TAKE x \in N
  <2>1. x + 1 \in 1 .. n /\ At(x) \in 1 .. n
    BY <1>8, <1>10
  <2>2. At(x) - 1 \in 0 .. n - 1
    BY <1>4, <2>1
  <2> QED
    BY <1>5, <1>10, <1>11, <2>1, <2>2
<1>14. \A x \in N : Old[New[x]] = x
  <2> TAKE x \in N
  <2>1. New[x] \in N /\ New[x] + 1 = At(x)
    BY <1>4, <1>8, <1>11, <1>13
  <2> QED
    BY <1>8, <1>11, <2>1
<1>15. \A x \in N : New[Old[x]] = x
  <2> TAKE x \in N
  <2>1. Old[x] = q[x + 1] /\ Old[x] \in N /\ x + 1 \in 1 .. n /\ x \in Int
    <3>1. x \in Int
      BY <1>4, <1>10
    <3> QED
      BY <1>10, <1>11, <1>13, <3>1
  <2>2. New[Old[x]] = At(Old[x]) - 1
    BY <1>11, <2>1
  <2> QED
    BY <1>9, <2>1, <2>2
<1>16. \A x \in Links(N) : Place(x) = New[x] /\ New[x] \in Links(N)
  BY <1>12, <1>13 DEF Links, New
<1> HIDE DEF Place
<1>17. ASSUME NEW x \in N
       PROVE  /\ V[x] \in Records(N)
              /\ Up(V, x) = New[Up(T, Old[x])] /\ High(V, x) = High(T, Old[x])
              /\ KeyOf(V, x) = KeyOf(T, Old[x]) /\ V[x].value = T[Old[x]].value
              /\ \A u \in Sides : Kid(V, x, u) = New[Kid(T, Old[x], u)]
  <2> DEFINE o == T[Old[x]]
             kids == [s \in Sides |-> Place(o.kid[s])]
  <2>1. o \in Records(N)
    BY <1>2, <1>13 DEF Arrays
  <2>2. V[x] = [o EXCEPT !.p = Place(@), !.kid = kids]
    BY <1>3, <1>11
  <2> HIDE DEF o
  <2>3. o.p \in Links(N) /\ o.kid \in [Sides -> Links(N)] /\ o.height \in Nat /\ o.key \in Keys /\ o.value \in Nat
    BY <2>1 DEF Records
  <2>4. kids \in [Sides -> Links(N)] /\ \A s \in Sides : kids[s] = New[o.kid[s]]
    BY <1>16, <2>3
  <2> HIDE DEF kids
  <2>5. /\ V[x] = [p |-> Place(o.p), kid |-> kids, height |-> o.height, key |-> o.key, value |-> o.value]
    BY <2>1, <2>2 DEF Records
  <2>6. Place(o.p) = New[o.p] /\ Place(o.p) \in Links(N)
    BY <1>16, <2>3
  <2>7. V[x] \in Records(N)
    BY <2>3, <2>4, <2>5, <2>6 DEF Records
  <2>8. V[x].p = New[o.p] /\ V[x].kid = kids /\ V[x].height = o.height /\ V[x].key = o.key /\ V[x].value = o.value
    BY <2>5, <2>6
  <2> QED
    BY <2>4, <2>7, <2>8 DEF Up, High, KeyOf, Kid, o
<1>18. V \in Arrays(N)
  <2>1. V = [x \in N |-> V[x]]
    BY <1>3
  <2> QED
    BY <1>17, <2>1 DEF Arrays
<1>19. \A x \in Links(N) : Old[New[x]] = x /\ New[Old[x]] = x
  BY <1>12, <1>14, <1>15 DEF Links
<1>20. Moved(T, V, N, Old, New)
  BY <1>12, <1>13, <1>17, <1>18, <1>19 DEF Moved
<1>21. New[r] = 0
  <2>1. q[1] = r /\ 1 \in 1 .. n
    BY <1>1, <1>2, <1>4, <1>8
  <2>2. At(r) = 1
    BY <1>9, <2>1
  <2> QED
    BY <1>2, <1>11, <2>2
<1> QED
  BY <1>20, <1>21 DEF V

LEMMA MovedIsTree ==
  ASSUME NEW T, NEW N, NEW r, NEW lo, NEW hi, Tree(T, N, r, lo, hi), NEW V, NEW Old, NEW New, Moved(T, V, N, Old, New),
         \A x \in N : Even(T, x)
  PROVE  /\ \E lo2, hi2 : Tree(V, N, New[r], lo2, hi2)
         /\ \A x \in N : Even(V, x)
<1> DEFINE lo2 == [x \in N |-> lo[Old[x]]]
           hi2 == [x \in N |-> hi[Old[x]]]
<1>1. /\ \A x \in N : Old[x] \in N /\ New[x] \in N
      /\ Old[Nil] = Nil /\ New[Nil] = Nil
      /\ \A x \in Links(N) : Old[New[x]] = x /\ New[Old[x]] = x
      /\ V \in Arrays(N)
      /\ \A x \in N : /\ Up(V, x) = New[Up(T, Old[x])] /\ High(V, x) = High(T, Old[x])
                      /\ KeyOf(V, x) = KeyOf(T, Old[x]) /\ V[x].value = T[Old[x]].value
                      /\ \A u \in Sides : Kid(V, x, u) = New[Kid(T, Old[x], u)]
  BY DEF Moved
<1>2. \A x \in N : lo2[x] = lo[Old[x]] /\ hi2[x] = hi[Old[x]]
  OBVIOUS
<1> HIDE DEF lo2, hi2
<1>3. /\ Linked(T, N, r) /\ Ordered(T, N, r, lo, hi) /\ Nodes(N) /\ T \in Arrays(N)
      /\ "l" \in Sides /\ "r" \in Sides /\ r \in N
  BY DEF Tree, Sides, Linked
<1>4. /\ \A x \in N : Up(T, x) = Nil <=> x = r
      /\ \A x \in N, u \in Sides : Kid(T, x, u) # Nil => Up(T, Kid(T, x, u)) = x
      /\ \A x \in N : Up(T, x) # Nil => \E u \in Sides : Kid(T, Up(T, x), u) = x
  BY <1>3 DEF Linked
<1>5. /\ \A x \in N : x # Nil /\ x \in Links(N) /\ Up(T, x) \in Links(N)
      /\ \A x \in N, u \in Sides : Kid(T, x, u) \in Links(N)
      /\ Nil \in Links(N) /\ \A y \in Links(N) : y = Nil \/ y \in N
  BY <1>3, ArrayTypes DEF Links
<1>6. \A y \in Links(N) : (New[y] = Nil <=> y = Nil) /\ (New[y] = New[r] <=> y = r)
  BY <1>1, <1>3, <1>5
<1>7. Linked(V, N, New[r])
  <2>1. New[r] \in N
    BY <1>1, <1>3
  <2>2. ASSUME NEW x \in N PROVE Up(V, x) = Nil <=> x = New[r]
    <3>1. Up(V, x) = Nil <=> Up(T, Old[x]) = Nil
      BY <1>1, <1>5, <1>6
    <3>2. Up(T, Old[x]) = Nil <=> Old[x] = r
      BY <1>1, <1>4
    <3>3. x = New[Old[x]] /\ Old[New[r]] = r
      BY <1>1, <1>3, <1>5
    <3> QED
      BY <3>1, <3>2, <3>3
  <2>3. ASSUME NEW x \in N, NEW u \in Sides, Kid(V, x, u) # Nil PROVE Up(V, Kid(V, x, u)) = x
    <3> DEFINE y == Kid(T, Old[x], u)
    <3>1. Old[x] \in N /\ Kid(V, x, u) = New[y] /\ y \in N
      BY <1>1, <1>5, <1>6, <2>3
    <3>2. Up(T, y) = Old[x]
      BY <1>4, <1>5, <3>1
    <3> HIDE DEF y
    <3>3. New[y] \in N /\ Old[New[y]] = y
      BY <1>1, <1>5, <3>1
    <3>4. Up(V, New[y]) = New[Old[x]]
      BY <1>1, <3>2, <3>3
    <3> QED
      BY <1>1, <1>5, <3>1, <3>4
  <2>4. ASSUME NEW x \in N, Up(V, x) # Nil PROVE \E u \in Sides : Kid(V, Up(V, x), u) = x
    <3> DEFINE z == Up(T, Old[x])
    <3>1. Old[x] \in N /\ Up(V, x) = New[z] /\ z \in N
      BY <1>1, <1>5, <1>6, <2>4
    <3>2. PICK u \in Sides : Kid(T, z, u) = Old[x]
      BY <1>4, <1>5, <3>1
    <3> HIDE DEF z
    <3>3. New[z] \in N /\ Old[New[z]] = z
      BY <1>1, <1>5, <3>1
    <3>4. Kid(V, New[z], u) = New[Old[x]]
      BY <1>1, <3>2, <3>3
    <3> QED
      BY <1>1, <1>5, <3>1, <3>4
  <2> QED
    BY <2>1, <2>2, <2>3, <2>4 DEF Linked
<1>8. lo2[New[r]] = Floor /\ hi2[New[r]] = Ceiling
  BY <1>1, <1>2, <1>3, <1>5 DEF Ordered
<1>9. Around(V, N, lo2, hi2)
  BY <1>1, <1>2, <1>3 DEF Ordered, Around
<1>10. Halved(V, N, lo2, hi2)
  <2>1. \A x \in N, u \in Sides : Kid(T, x, u) # Nil => IsHalf(T, lo, hi, x, u, Kid(T, x, u))
    BY <1>3, HalvedIs DEF Ordered
  <2>2. ASSUME NEW x \in N, NEW u \in Sides, Kid(V, x, u) # Nil PROVE IsHalf(V, lo2, hi2, x, u, Kid(V, x, u))
    <3> DEFINE y == Kid(T, Old[x], u)
    <3>1. Old[x] \in N /\ Kid(V, x, u) = New[y] /\ y \in N
      BY <1>1, <1>5, <1>6, <2>2
    <3>2. IsHalf(T, lo, hi, Old[x], u, y)
      BY <1>5, <2>1, <3>1
    <3> HIDE DEF y
    <3>3. New[y] \in N /\ Old[New[y]] = y
      BY <1>1, <1>5, <3>1
    <3> QED
      BY <1>1, <1>2, <3>1, <3>2, <3>3 DEF IsHalf
  <2> QED
    BY <2>2, HalvedIs
<1>11. Filled(V, N, lo2, hi2)
  <2> SUFFICES ASSUME NEW a \in N, NEW m \in N
               PROVE  /\ lo2[a] < KeyOf(V, m) /\ KeyOf(V, m) < KeyOf(V, a) => Kid(V, a, "l") # Nil
                      /\ KeyOf(V, a) < KeyOf(V, m) /\ KeyOf(V, m) < hi2[a] => Kid(V, a, "r") # Nil
    BY DEF Filled
  <2>1. Old[a] \in N /\ Old[m] \in N
    BY <1>1
  <2>2. /\ lo[Old[a]] < KeyOf(T, Old[m]) /\ KeyOf(T, Old[m]) < KeyOf(T, Old[a]) => Kid(T, Old[a], "l") # Nil
        /\ KeyOf(T, Old[a]) < KeyOf(T, Old[m]) /\ KeyOf(T, Old[m]) < hi[Old[a]] => Kid(T, Old[a], "r") # Nil
    BY <1>3, <2>1 DEF Ordered, Filled
  <2>3. \A u \in Sides : Kid(V, a, u) = Nil <=> Kid(T, Old[a], u) = Nil
    BY <1>1, <1>5, <1>6
  <2>4. /\ KeyOf(V, a) = KeyOf(T, Old[a]) /\ KeyOf(V, m) = KeyOf(T, Old[m])
        /\ lo2[a] = lo[Old[a]] /\ hi2[a] = hi[Old[a]]
    BY <1>1, <1>2
  <2> QED
    BY <1>3, <2>2, <2>3, <2>4
<1>12. Nested(V, N, lo2, hi2)
  <2> SUFFICES ASSUME NEW a \in N, NEW b \in N, a # b
               PROVE  Apart(lo2, hi2, a, b) \/ Under(V, lo2, hi2, a, b) \/ Under(V, lo2, hi2, b, a)
    BY DEF Nested
  <2>1. Old[a] \in N /\ Old[b] \in N /\ Old[a] # Old[b]
    BY <1>1, <1>5
  <2>2. Apart(lo, hi, Old[a], Old[b]) \/ Under(T, lo, hi, Old[a], Old[b]) \/ Under(T, lo, hi, Old[b], Old[a])
    BY <1>3, <2>1 DEF Ordered, Nested
  <2> QED
    BY <1>1, <1>2, <2>2 DEF Apart, Under
<1>13. Tree(V, N, New[r], lo2, hi2)
  BY <1>1, <1>3, <1>7, <1>8, <1>9, <1>10, <1>11, <1>12 DEF Tree, Ordered
<1>14. \A y \in Links(N) : Height(V, New[y]) = Height(T, y)
  <2> TAKE y \in Links(N)
  <2>1. CASE y = Nil
    BY <1>1, <2>1 DEF Height
  <2>2. CASE y \in N
    <3>1. New[y] \in N /\ Old[New[y]] = y /\ y # Nil /\ New[y] # Nil
      BY <1>1, <1>5, <2>2
    <3>2. High(V, New[y]) = High(T, y)
      BY <1>1, <3>1
    <3> QED
      BY <3>1, <3>2 DEF Height, High
  <2> QED
    BY <1>5, <2>1, <2>2
<1>15. ASSUME NEW x \in N PROVE Even(V, x)
  <2>1. Old[x] \in N /\ Even(T, Old[x])
    BY <1>1
  <2>2. \A u \in Sides : Height(V, Kid(V, x, u)) = Height(T, Kid(T, Old[x], u))
    BY <1>1, <1>5, <1>14, <2>1
  <2>3. High(V, x) = High(T, Old[x])
    BY <1>1
  <2>4. /\ Height(V, Kid(V, x, "l")) = Height(T, Kid(T, Old[x], "l"))
        /\ Height(V, Kid(V, x, "r")) = Height(T, Kid(T, Old[x], "r"))
    BY <1>3, <2>2
  <2> QED
    BY <2>1, <2>3, <2>4 DEF Even, Raised
<1> QED
  BY <1>13, <1>15

-----------------------------------------------------------------------------
(* Inserting.                                                              *)

\* The keys of a tree with their numbers.
Entries(T) == {<<T[x].key, T[x].value>> : x \in DOMAIN T}

\* What the tree is between two operations.
Sound(T, r) == \E lo, hi : Tree(T, DOMAIN T, r, lo, hi) /\ \A x \in DOMAIN T : Even(T, x)

LEMMA RootIs ==
  ASSUME NEW T, NEW r, Sound(T, r)
  PROVE  r \in DOMAIN T /\ r # Nil
<1>1. PICK lo, hi : Tree(T, DOMAIN T, r, lo, hi)
  BY DEF Sound
<1>2. r \in DOMAIN T
  BY <1>1 DEF Tree, Linked
<1> QED
  BY <1>1, <1>2, TreeTypes

LEMMA RoomGrows ==
  ASSUME NEW T, NEW r, Size(T) \in Nat, room \in Nat
  PROVE  Grown(T, r).room \in Nat /\ Size(T) + 1 <= Grown(T, r).room
<1> DEFINE n == Size(T)
           m == ((n + 1) * 3) \div 2
<1>1. Grown(T, r).room = IF room > n THEN room ELSE IF m < InitSize THEN InitSize ELSE m
  BY DEF Grown
<1>2. InitSize \in Nat
  BY SymbolTreeAssumption
<1> HIDE DEF n
<1>3. m \in Nat /\ n + 1 <= m
  BY DEF n
<1> HIDE DEF m
<1> QED
  BY <1>1, <1>2, <1>3 DEF n

LEMMA GrownIs ==
  ASSUME NEW T, NEW r, Sound(T, r), Size(T) \in Nat, DOMAIN T = 0 .. Size(T) - 1
  PROVE  /\ Sound(Grown(T, r).tree, Grown(T, r).root)
         /\ DOMAIN Grown(T, r).tree = DOMAIN T /\ Entries(Grown(T, r).tree) = Entries(T)
<1> DEFINE N == DOMAIN T
           V == Copied(T, r)
<1>1. PICK lo, hi : Tree(T, N, r, lo, hi) /\ \A x \in N : Even(T, x)
  BY DEF Sound
<1>2. r # Nil
  BY RootIs
<1>3. CASE room > Size(T)
  BY <1>3 DEF Grown
<1>4. CASE ~(room > Size(T))
  <2>1. Grown(T, r).tree = V /\ Grown(T, r).root = 0
    BY <1>2, <1>4 DEF Grown
  <2>2. PICK Old, New : Moved(T, V, N, Old, New) /\ New[r] = 0
    BY <1>1, CopiedIs
  <2> HIDE DEF V
  <2>3. (\E lo2, hi2 : Tree(V, N, 0, lo2, hi2)) /\ \A x \in N : Even(V, x)
    BY <1>1, <2>2, MovedIsTree
  <2>4. DOMAIN V = N
    BY <2>2 DEF Moved, Arrays
  <2>5. Sound(V, 0)
    BY <2>3, <2>4 DEF Sound
  <2>6. \A x \in N : /\ Old[x] \in N /\ New[x] \in N /\ Old[New[x]] = x
                     /\ V[x].key = T[Old[x]].key /\ V[x].value = T[Old[x]].value
    BY <2>2 DEF Moved, KeyOf, Links
  <2>7. Entries(V) \subseteq Entries(T)
    BY <2>4, <2>6 DEF Entries
  <2>8. ASSUME NEW x \in N PROVE <<T[x].key, T[x].value>> \in Entries(V)
    <3>1. New[x] \in N /\ V[New[x]].key = T[x].key /\ V[New[x]].value = T[x].value
      BY <2>6
    <3> QED
      BY <2>4, <3>1 DEF Entries
  <2>9. Entries(V) = Entries(T)
    BY <2>7, <2>8 DEF Entries
  <2> QED
    BY <2>1, <2>4, <2>5, <2>9
<1> QED
  BY <1>3, <1>4

\* A new key below the root.
LEMMA InsertedBelow ==
  ASSUME NEW T, NEW r, NEW k \in Keys, NEW v \in Nat, Sound(T, r), Size(T) \in Nat, Size(T) \notin DOMAIN T,
         \A x \in DOMAIN T : T[x].key # k, NEW f, f = PlaceFor(T, r, k),
         NEW s, s = Half(T, f, k),
         NEW even, even = Balanced(WithKid(MakeNode(T, k, v, f), f, s, Size(T)), f)
  PROVE  /\ Sound(even.tree, even.top) /\ DOMAIN even.tree = DOMAIN T \cup {Size(T)}
         /\ Entries(even.tree) = Entries(T) \cup {<<k, v>>}
<1> DEFINE N == DOMAIN T
           c == Size(T)
           V == WithKid(MakeNode(T, k, v, f), f, s, c)
           M == N \cup {c}
           U == Balanced(V, f).tree
<1>1. PICK lo, hi : Tree(T, N, r, lo, hi) /\ \A x \in N : Even(T, x)
  BY DEF Sound
<1>2. Nodes(N) /\ T \in Arrays(N)
  BY <1>1 DEF Tree
<1>3. k \in Int /\ Floor < k /\ k < Ceiling
  BY KeyBounds
<1>4. /\ f \in N /\ s \in Sides /\ Kid(T, f, s) = Nil
      /\ (s = "l" /\ lo[f] < k /\ k < KeyOf(T, f)) \/ (s = "r" /\ KeyOf(T, f) < k /\ k < hi[f])
  BY <1>1, <1>3, PlaceIs DEF KeyOf
<1>5. Leafed(T, V, N, k, v, f, s, c)
  BY <1>2, <1>4, LeafedIs
<1> HIDE DEF V
<1>6. \E lo2, hi2 : Tree(V, M, r, lo2, hi2)
  BY <1>1, <1>4, <1>5, LeafOrder
<1>7. /\ \A x \in M : x # f => Even(V, x)
      /\ Uneven(V, f)
  BY <1>1, <1>4, <1>5, LeafHeights
<1>8. f \in M
  BY <1>4
<1> HIDE DEF M, U
<1>9. \E lo2, hi2 : /\ Tree(U, M, Balanced(V, f).top, lo2, hi2)
                    /\ SameData(V, U, M)
                    /\ \A x \in M : Even(U, x)
  BY <1>6, <1>7, <1>8, BalancedIs DEF U
<1>10. U \in Arrays(M) /\ DOMAIN U = M
  BY <1>9 DEF Tree, Arrays
<1>11. Sound(U, Balanced(V, f).top)
  BY <1>9, <1>10 DEF Sound
<1>12. /\ \A x \in N : x \in M /\ U[x].key = T[x].key /\ U[x].value = T[x].value
       /\ U[c].key = k /\ U[c].value = v /\ c \in M /\ \A x \in M : x \in N \/ x = c
  BY <1>5, <1>9 DEF Leafed, SameData, KeyOf, M
<1>13. Entries(U) = Entries(T) \cup {<<k, v>>}
  BY <1>10, <1>12 DEF Entries
<1> QED
  BY <1>10, <1>11, <1>13 DEF U, V, M

LEMMA InsertedIs ==
  ASSUME NEW k \in Keys, NEW v \in Nat, Size(node) \in Nat, DOMAIN node = 0 .. Size(node) - 1,
         \A x \in DOMAIN node : node[x].key # k,
         (node = <<>> /\ root = Nil) \/ Sound(node, root)
  PROVE  LET new == Inserted(k, v)
         IN /\ Sound(new.tree, new.root) /\ new.room = Grown(node, root).room
            /\ DOMAIN new.tree = 0 .. Size(node) /\ Entries(new.tree) = Entries(node) \cup {<<k, v>>}
<1> DEFINE big == Grown(node, root)
           B == big.tree
           n == Size(node)
           new == Inserted(k, v)
<1>1. DOMAIN node \cup {n} = 0 .. n /\ n \notin DOMAIN node
  OBVIOUS
<1>2. CASE node = <<>> /\ root = Nil
  <2>1. B = <<>> /\ big.root = Nil
    BY <1>2 DEF Grown
  <2>2. DOMAIN B = {} /\ n = 0 /\ Size(B) = 0 /\ DOMAIN node = {}
    BY <1>2, <2>1, FS_EmptySet DEF Size
  <2> DEFINE V == MakeNode(B, k, v, Nil)
  <2>3. new.tree = V /\ new.root = 0 /\ new.room = big.room
    BY <2>1, <2>2 DEF Inserted
  <2>4. Nodes({}) /\ B \in Arrays({}) /\ Nil \in Links({})
    <3>1. B = [x \in {} |-> B[x]]
      BY <2>1
    <3> QED
      BY <3>1, FS_EmptySet DEF Nodes, Arrays, Links
  <2> HIDE DEF big, B
  <2>5. /\ V \in Arrays({} \cup {0}) /\ Up(V, 0) = Nil /\ High(V, 0) = 1
        /\ KeyOf(V, 0) = k /\ V[0].value = v /\ \A s \in Sides : Kid(V, 0, s) = Nil
    <3> DEFINE E == {}
    <3>1. Nodes(E) /\ B \in Arrays(E) /\ Nil \in Links(E) /\ 0 = Size(B) /\ 0 \in Nat /\ 0 \notin E
      BY <2>2, <2>4
    <3> HIDE DEF E
    <3>2. /\ V \in Arrays(E \cup {0}) /\ Up(V, 0) = Nil /\ High(V, 0) = 1
          /\ KeyOf(V, 0) = k /\ V[0].value = v /\ \A s \in Sides : Kid(V, 0, s) = Nil
      BY <3>1, MadeNode
    <3> QED
      BY <3>2 DEF E
  <2> HIDE DEF V
  <2>6. {} \cup {0} = {0}
    OBVIOUS
  <2>7. V \in Arrays({0}) /\ DOMAIN V = {0}
    BY <2>5, <2>6 DEF Arrays
  <2>8. Sound(V, 0)
    <3>1. (\E lo, hi : Tree(V, {0}, 0, lo, hi)) /\ Even(V, 0)
      BY <2>5, <2>7, FirstLeaf
    <3> QED
      BY <2>7, <3>1 DEF Sound
  <2>9. Entries(V) = {<<k, v>>} /\ Entries(node) = {}
    BY <2>2, <2>5, <2>7 DEF Entries, KeyOf
  <2>10. 0 .. n = {0}
    BY <2>2
  <2> QED
    BY <2>3, <2>7, <2>8, <2>9, <2>10 DEF big
<1>3. CASE Sound(node, root)
  <2>1. Sound(B, big.root) /\ DOMAIN B = DOMAIN node /\ Entries(B) = Entries(node)
    BY <1>3, GrownIs
  <2>2. big.root # Nil
    BY <2>1, RootIs
  <2> DEFINE f == PlaceFor(B, big.root, k)
             s == Half(B, f, k)
             even == Balanced(WithKid(MakeNode(B, k, v, f), f, s, Size(B)), f)
  <2>3. new.tree = even.tree /\ new.root = even.top /\ new.room = big.room
    BY <2>2 DEF Inserted, Half, KeyOf
  <2>4. Size(B) = n
    BY <2>1 DEF Size
  <2> HIDE DEF big, B, new, even
  <2>5. \A x \in DOMAIN B : B[x].key # k
    <3> SUFFICES ASSUME NEW x \in DOMAIN B, B[x].key = k PROVE FALSE
      OBVIOUS
    <3>1. <<k, B[x].value>> \in Entries(node)
      BY <2>1 DEF Entries
    <3> QED
      BY <3>1 DEF Entries
  <2>6. /\ Sound(even.tree, even.top) /\ DOMAIN even.tree = DOMAIN B \cup {Size(B)}
        /\ Entries(even.tree) = Entries(B) \cup {<<k, v>>}
    BY <1>1, <2>1, <2>4, <2>5, InsertedBelow DEF even
  <2> QED
    BY <1>1, <2>1, <2>3, <2>4, <2>6 DEF new, big
<1> QED
  BY <1>2, <1>3

-----------------------------------------------------------------------------
(* The invariant.                                                          *)

Numbered(T, q) == Entries(T) = {<<q[i], i - 1>> : i \in 1 .. Len(q)}

TreeInv ==
  /\ TreeTypeOK
  /\ interned \in Seq(Keys) /\ room \in Nat
  /\ Numbered(node, interned)
  /\ (node = <<>> /\ root = Nil) \/ Sound(node, root)

LEMMA SizeIs ==
  ASSUME TreeInv
  PROVE  /\ Len(interned) \in Nat /\ Size(node) = Len(interned) /\ DOMAIN node = 0 .. Size(node) - 1
         /\ Len(interned) <= room /\ room \in Nat
<1>1. Len(interned) \in Nat /\ DOMAIN node = 0 .. Len(interned) - 1 /\ Len(interned) <= room /\ room \in Nat
  BY DEF TreeInv, TreeTypeOK
<1>2. Cardinality(0 .. Len(interned) - 1) = Len(interned)
  <2> DEFINE b == Len(interned) - 1
  <2>1. b \in Int /\ b - 0 + 1 = Len(interned) /\ (0 > b => Len(interned) = 0)
    BY <1>1
  <2> HIDE DEF b
  <2>2. Cardinality(0 .. b) = IF 0 > b THEN 0 ELSE b - 0 + 1
    BY <2>1, FS_Interval
  <2> QED
    BY <2>1, <2>2 DEF b
<1> QED
  BY <1>1, <1>2 DEF Size

\* Looking up finds what is there, and nothing else.
LEMMA Lookup ==
  ASSUME TreeInv, NEW k \in Keys
  PROVE  IF \E m \in DOMAIN node : node[m].key = k
         THEN Get(k) \in DOMAIN node /\ node[Get(k)].key = k ELSE Get(k) = Nil
<1>1. CASE node = <<>> /\ root = Nil
  <2>1. Size(node) = 0 /\ DOMAIN node = {}
    BY <1>1, FS_EmptySet DEF Size
  <2>2. Get(k) = Nil
    BY <1>1, <2>1, OneMoreTurn DEF Get
  <2> QED
    BY <2>1, <2>2
<1>2. CASE Sound(node, root)
  <2>1. PICK lo, hi : Tree(node, DOMAIN node, root, lo, hi)
    BY <1>2 DEF Sound
  <2> QED
    BY <2>1, GetIs DEF KeyOf
<1> QED
  BY <1>1, <1>2 DEF TreeInv

LEMMA SoundTypes ==
  ASSUME NEW T, NEW r, Sound(T, r), NEW x \in DOMAIN T
  PROVE  LET Ends == DOMAIN T \cup {Nil}
         IN /\ T[x].p \in Ends /\ T[x].kid \in [Sides -> Ends]
            /\ T[x].height \in Nat /\ T[x].key \in Keys /\ T[x].value \in Nat
            /\ r \in Ends
<1>1. T \in Arrays(DOMAIN T)
  BY DEF Sound, Tree
<1>2. T[x] \in Records(DOMAIN T)
  BY <1>1 DEF Arrays
<1> QED
  BY <1>2, RootIs DEF Records, Links

LEMMA InternKeeps ==
  ASSUME TreeInv, NEW k \in Keys, Intern(k)
  PROVE  TreeInv'
<1> DEFINE n == Len(interned)
           q == Append(interned, k)
           new == Inserted(k, n)
<1>1. /\ n \in Nat /\ Size(node) = n /\ DOMAIN node = 0 .. Size(node) - 1 /\ n <= room /\ room \in Nat
  BY SizeIs
<1>2. node' = new.tree /\ root' = new.root /\ room' = new.room /\ interned' = q
  BY DEF Intern
<1>3. \A x \in DOMAIN node : node[x].key # k
  <2>1. Get(k) = Nil /\ Nil \notin DOMAIN node
    BY <1>1 DEF Intern, Nil
  <2> QED
    BY <2>1, Lookup
<1>4. (node = <<>> /\ root = Nil) \/ Sound(node, root)
  BY DEF TreeInv
<1> HIDE DEF new
<1>5. /\ Sound(new.tree, new.root) /\ new.room = Grown(node, root).room
      /\ DOMAIN new.tree = 0 .. n /\ Entries(new.tree) = Entries(node) \cup {<<k, n>>}
  BY <1>1, <1>3, <1>4, InsertedIs DEF new
<1>6. new.room \in Nat /\ n + 1 <= new.room
  BY <1>1, <1>5, RoomGrows
<1>7. q \in Seq(Keys) /\ Len(q) = n + 1 /\ q[n + 1] = k /\ \A i \in 1 .. n : q[i] = interned[i]
  BY DEF TreeInv
<1> HIDE DEF q
<1>8. \A i \in 1 .. n + 1 : i \in 1 .. n \/ i = n + 1
  BY <1>1
<1>9. n + 1 - 1 = n /\ n + 1 \in 1 .. n + 1 /\ \A i \in 1 .. n : i \in 1 .. n + 1
  BY <1>1
<1>10. Numbered(new.tree, q)
  <2>1. Entries(node) = {<<interned[i], i - 1>> : i \in 1 .. n}
    BY DEF TreeInv, Numbered
  <2> HIDE DEF n
  <2>2. {<<interned[i], i - 1>> : i \in 1 .. n} = {<<q[i], i - 1>> : i \in 1 .. n}
    BY <1>7
  <2>4. Entries(new.tree) = {<<q[i], i - 1>> : i \in 1 .. n} \cup {<<k, n>>}
    BY <1>5, <2>1, <2>2
  <2>3. {<<q[i], i - 1>> : i \in 1 .. n} \cup {<<k, n>>} = {<<q[i], i - 1>> : i \in 1 .. n + 1}
    <3> DEFINE e(i) == <<q[i], i - 1>>
    <3>1. e(n + 1) = <<k, n>>
      BY <1>1, <1>7, <1>9
    <3> HIDE DEF e
    <3>2. {e(i) : i \in 1 .. n} \cup {e(n + 1)} = {e(i) : i \in 1 .. n + 1}
      BY <1>8, <1>9
    <3> QED
      BY <3>1, <3>2 DEF e
  <2> QED
    BY <1>7, <2>3, <2>4 DEF Numbered
<1>11. TreeTypeOK'
  <2>1. \A x \in DOMAIN new.tree :
          LET Ends == DOMAIN new.tree \cup {Nil}
          IN /\ new.tree[x].p \in Ends /\ new.tree[x].kid \in [Sides -> Ends]
             /\ new.tree[x].height \in Nat /\ new.tree[x].key \in Keys /\ new.tree[x].value \in Nat
    BY <1>5, SoundTypes
  <2>2. new.root \in DOMAIN new.tree
    BY <1>5, RootIs
  <2>3. 0 .. Len(q) - 1 = 0 .. n /\ Len(q) <= new.room
    BY <1>6, <1>7, <1>9
  <2> QED
    BY <1>2, <1>5, <2>1, <2>2, <2>3 DEF TreeTypeOK
<1>12. /\ interned' \in Seq(Keys) /\ room' \in Nat
       /\ Numbered(node', interned') /\ Sound(node', root')
  BY <1>2, <1>5, <1>6, <1>7, <1>10
<1> QED
  BY <1>11, <1>12 DEF TreeInv

EmptyTree == node = <<>> /\ root = Nil /\ room = InitSize /\ interned = <<>>

LEMMA EmptyIsRight == EmptyTree => TreeInv
<1> SUFFICES ASSUME node = <<>>, root = Nil, room = InitSize, interned = <<>>
             PROVE  TreeInv
  BY DEF EmptyTree
<1>1. DOMAIN node = {} /\ Len(interned) = 0 /\ InitSize \in Nat /\ interned \in Seq(Keys)
  BY SymbolTreeAssumption
<1>2. 0 .. Len(interned) - 1 = {} /\ 1 .. Len(interned) = {}
  BY <1>1
<1>3. TreeTypeOK
  BY <1>1, <1>2 DEF TreeTypeOK
<1>4. Numbered(node, interned)
  BY <1>1, <1>2 DEF Numbered, Entries
<1> QED
  BY <1>1, <1>3, <1>4 DEF TreeInv

LEMMA ClearKeeps ==
  ASSUME ClearTree
  PROVE  TreeInv'
<1>1. EmptyTree'
  BY DEF ClearTree, EmptyTree
<1> QED
  BY <1>1, EmptyIsRight, PTL

\* Whatever is interned, in any order, the array is a search tree in order and
\* balanced, whose nodes are the keys with their numbers.
THEOREM TreeIsSound == TreeSpec => []TreeInv
<1>1. TreeInit => TreeInv
  BY EmptyIsRight DEF TreeInit, EmptyTree
<1>2. TreeInv /\ [TreeNext]_treeVars => TreeInv'
  <2> SUFFICES ASSUME TreeInv, [TreeNext]_treeVars PROVE TreeInv'
    OBVIOUS
  <2>1. ASSUME NEW k \in Keys, Intern(k) PROVE TreeInv'
    BY <2>1, InternKeeps
  <2>2. CASE ClearTree
    BY <2>2, ClearKeeps
  <2>3. CASE UNCHANGED treeVars
    BY <2>3 DEF treeVars, TreeInv, TreeTypeOK, Numbered, Entries, Sound
  <2> QED
    BY <2>1, <2>2, <2>3 DEF TreeNext
<1> QED
  BY <1>1, <1>2, PTL DEF TreeSpec

\* The entries of the array are well formed and there is room for them.
THEOREM TreeTypesHold == TreeSpec => []TreeTypeOK
<1>1. TreeInv => TreeTypeOK
  BY DEF TreeInv
<1> QED
  BY <1>1, TreeIsSound, PTL

-----------------------------------------------------------------------------
(* Walking through the tree in order.                                      *)

\* f has the least key above x.
Above(T, N, x, f) == f \in N /\ x < KeyOf(T, f) /\ \A m \in N : ~(x < KeyOf(T, m) /\ KeyOf(T, m) < KeyOf(T, f))

LEMMA LeftmostIs ==
  ASSUME NEW N, NEW lo, NEW hi, Tree(node, N, root, lo, hi), NEW n \in N
  PROVE  Above(node, N, lo[n], Leftmost(n))
<1> DEFINE S == {m \in N : lo[m] = lo[n]}
           left == [m \in DOMAIN node \cup {Nil} |->
                      IF m = Nil \/ node[m].kid["l"] = Nil THEN m ELSE node[m].kid["l"]]
           w == [m \in N |-> Spread(node, N, lo, hi, m)]
           f == Leftmost(n)
<1>1. DOMAIN node = N /\ "l" \in Sides
  BY DEF Tree, Arrays, Sides
<1>2. ASSUME NEW y \in S
      PROVE  /\ left[y] = (IF Kid(node, y, "l") = Nil THEN y ELSE Kid(node, y, "l"))
             /\ left[y] \in S /\ w[y] \in Nat /\ (Kid(node, y, "l") = Nil \/ w[left[y]] < w[y])
  <2>1. y \in N /\ y # Nil /\ lo[y] = lo[n]
    BY TreeTypes
  <2>2. left[y] = (IF Kid(node, y, "l") = Nil THEN y ELSE Kid(node, y, "l"))
    BY <1>1, <2>1 DEF Kid
  <2>3. w[y] = Spread(node, N, lo, hi, y) /\ w[y] \in Nat
    BY <2>1, Spreads
  <2> HIDE DEF left
  <2>4. CASE Kid(node, y, "l") = Nil
    BY <2>2, <2>3, <2>4
  <2>5. CASE Kid(node, y, "l") # Nil
    <3> DEFINE c == Kid(node, y, "l")
    <3>1. c \in N /\ Spread(node, N, lo, hi, c) < Spread(node, N, lo, hi, y)
      BY <1>1, <2>1, <2>5, KidIs, SpreadGrows
    <3>2. lo[c] = lo[y]
      BY <2>1, <2>5 DEF Tree, Ordered, Halved
    <3>3. left[y] = c
      BY <2>2, <2>5
    <3> HIDE DEF c
    <3> QED
      BY <2>1, <2>2, <2>3, <3>1, <3>2, <3>3
  <2> QED
    BY <2>4, <2>5
<1>3. n \in S /\ Size(node) \in Nat /\ w[n] <= Size(node)
  BY <1>1, Spreads DEF Size
<1>4. f = Repeated(left, n, Size(node))
  BY DEF Leftmost
<1> HIDE DEF left, w, S, f
<1>5. ASSUME NEW y \in S PROVE left[y] \in S /\ w[y] \in Nat /\ (left[y] = y \/ w[left[y]] < w[y])
  BY <1>2
<1>6. f \in S /\ left[f] = f
  BY <1>3, <1>4, <1>5, LoopEnds
<1>7. Kid(node, f, "l") = Nil
  BY <1>2, <1>6
<1>8. f \in N /\ lo[f] = lo[n]
  BY <1>6 DEF S
<1>9. lo[f] < KeyOf(node, f)
  BY <1>8, TreeTypes
<1>10. \A m \in N : ~(lo[f] < KeyOf(node, m) /\ KeyOf(node, m) < KeyOf(node, f))
  BY <1>7, <1>8 DEF Tree, Ordered, Filled
<1> QED
  BY <1>8, <1>9, <1>10 DEF Above, f

LEMMA ClimbIs ==
  ASSUME NEW N, NEW lo, NEW hi, Tree(node, N, root, lo, hi), NEW n \in N, Kid(node, n, "r") = Nil
  PROVE  \/ Above(node, N, KeyOf(node, n), Climb(n))
         \/ Climb(n) = Nil /\ \A m \in N : KeyOf(node, m) <= KeyOf(node, n)
<1> DEFINE x == KeyOf(node, n)
           A == {m \in N : hi[m] = hi[n] /\ lo[m] <= lo[n] /\ KeyOf(node, m) <= x}
           B == {m \in N : KeyOf(node, m) = hi[n]}
           Z == {m \in {Nil} : hi[n] = Ceiling}
           S == A \cup B \cup Z
           up == [m \in DOMAIN node \cup {Nil} |-> IF m = Nil \/ node[n].key < node[m].key THEN m ELSE node[m].p]
           w == [m \in N \cup {Nil} |-> IF m = Nil THEN 0 ELSE Cardinality(N) + 1 - Spread(node, N, lo, hi, m)]
           f == Climb(n)
<1>1. DOMAIN node = N /\ "l" \in Sides /\ "r" \in Sides /\ \A u \in Sides : u = "l" \/ u = "r"
  BY DEF Tree, Arrays, Sides
<1>2. \A m \in N : /\ lo[m] \in Int /\ hi[m] \in Int /\ KeyOf(node, m) \in Int /\ m # Nil
                   /\ lo[m] < KeyOf(node, m) /\ KeyOf(node, m) < hi[m]
  BY TreeTypes
<1>3. \A m \in N : Spread(node, N, lo, hi, m) \in Nat /\ Cardinality(N) \in Nat
                   /\ 1 <= Spread(node, N, lo, hi, m) /\ Spread(node, N, lo, hi, m) <= Cardinality(N)
  BY Spreads
<1>4. \A m \in N : w[m] = Cardinality(N) + 1 - Spread(node, N, lo, hi, m) /\ w[m] \in Nat /\ 1 <= w[m] /\ w[m] <= Cardinality(N)
  BY <1>2, <1>3
<1>5. w[Nil] = 0 /\ up[Nil] = Nil
  OBVIOUS
<1>6. \A m \in N : up[m] = IF x < KeyOf(node, m) THEN m ELSE Up(node, m)
  BY <1>1, <1>2 DEF KeyOf, Up
<1>7. Size(node) = Cardinality(N)
  BY <1>1 DEF Size
<1>8. f = Repeated(up, n, Size(node))
  BY DEF Climb
<1> HIDE DEF w, up, f
<1>9. ASSUME NEW y \in A PROVE up[y] \in S /\ w[up[y]] < w[y]
  <2>1. y \in N /\ hi[y] = hi[n] /\ lo[y] <= lo[n] /\ KeyOf(node, y) <= x
    OBVIOUS
  <2>2. up[y] = Up(node, y)
    BY <1>2, <1>6, <2>1
  <2>3. CASE Up(node, y) = Nil
    <3>1. y = root
      BY <2>1, <2>3 DEF Tree, Linked
    <3>2. hi[n] = Ceiling
      BY <2>1, <3>1 DEF Tree, Ordered
    <3>3. Up(node, y) \in S
      BY <2>3, <3>2
    <3> HIDE DEF S
    <3> QED
      BY <1>4, <1>5, <2>1, <2>2, <2>3, <3>3
  <2>4. CASE Up(node, y) # Nil
    <3> DEFINE p == Up(node, y)
    <3>1. p \in N /\ Spread(node, N, lo, hi, y) < Spread(node, N, lo, hi, p) /\ \E u \in Sides : Kid(node, p, u) = y
      BY <2>1, <2>4, UpIs
    <3>2. w[p] < w[y]
      BY <1>3, <1>4, <2>1, <3>1
    <3>3. PICK u \in Sides : Kid(node, p, u) = y
      BY <3>1
    <3>4. IsHalf(node, lo, hi, p, u, y)
      BY <1>2, <2>1, <3>1, <3>3, HalvedIs DEF Tree, Ordered
    <3>5. p \in A \cup B
      <4>1. CASE u = "l"
        BY <2>1, <3>1, <3>4, <4>1 DEF IsHalf
      <4>2. CASE u = "r"
        <5>1. lo[y] = KeyOf(node, p) /\ hi[y] = hi[p]
          BY <3>4, <4>2 DEF IsHalf
        <5>2. /\ lo[p] \in Int /\ KeyOf(node, p) \in Int /\ lo[p] < KeyOf(node, p)
              /\ lo[n] \in Int /\ x \in Int /\ lo[n] < x /\ lo[y] \in Int
          BY <1>2, <2>1, <3>1
        <5>3. lo[p] <= lo[n] /\ KeyOf(node, p) <= x
          BY <2>1, <5>1, <5>2
        <5> QED
          BY <2>1, <3>1, <5>1, <5>3
      <4> QED
        BY <1>1, <4>1, <4>2
    <3> HIDE DEF A, B, p
    <3> QED
      BY <2>2, <3>2, <3>5 DEF p
  <2> QED
    BY <2>3, <2>4
<1>10. \A y \in B : up[y] = y /\ y \in N
  BY <1>2, <1>6
<1>11. \A y \in Z : up[y] = y /\ y = Nil
  BY <1>5
<1>12. A \subseteq N /\ n \in A
  BY <1>2
<1>13. \A y \in Z : hi[n] = Ceiling
  OBVIOUS
<1> HIDE DEF A, B, Z
<1>14. ASSUME NEW y \in S PROVE up[y] \in S /\ w[y] \in Nat /\ (up[y] = y \/ w[up[y]] < w[y])
  BY <1>4, <1>5, <1>9, <1>10, <1>11, <1>12
<1>15. n \in S /\ w[n] <= Size(node) /\ Size(node) \in Nat
  BY <1>3, <1>4, <1>7, <1>12
<1> HIDE DEF S
<1>16. f \in S /\ up[f] = f
  BY <1>8, <1>14, <1>15, LoopEnds
<1>17. f \notin A
  <2> SUFFICES ASSUME f \in A PROVE FALSE
    OBVIOUS
  <2>1. w[f] < w[f] /\ w[f] \in Nat
    BY <1>4, <1>9, <1>12, <1>16
  <2> QED
    BY <2>1
<1>18. f \in B \/ f \in Z
  BY <1>16, <1>17 DEF S
<1>19. \A m \in N : ~(x < KeyOf(node, m) /\ KeyOf(node, m) < hi[n])
  BY DEF Tree, Ordered, Filled
<1>20. CASE f \in B
  <2>1. f \in N /\ KeyOf(node, f) = hi[n] /\ x < hi[n]
    BY <1>2, <1>20 DEF B
  <2> QED
    BY <1>19, <2>1 DEF Above, f
<1>21. CASE f \in Z
  <2>1. f = Nil /\ hi[n] = Ceiling
    BY <1>11, <1>13, <1>21
  <2>2. \A m \in N : KeyOf(node, m) \in Keys
    BY ArrayTypes DEF Tree
  <2>3. ASSUME NEW m \in N PROVE KeyOf(node, m) <= x
    BY <1>2, <1>19, <2>1, <2>2, KeyBounds
  <2> QED
    BY <2>1, <2>3 DEF f
<1> QED
  BY <1>18, <1>20, <1>21

\* _next is the node with the next key, or there is none.
LEMMA NextIs ==
  ASSUME NEW N, NEW lo, NEW hi, Tree(node, N, root, lo, hi), NEW n \in N
  PROVE  \/ Above(node, N, KeyOf(node, n), NextNode(n))
         \/ NextNode(n) = Nil /\ \A m \in N : KeyOf(node, m) <= KeyOf(node, n)
<1>1. CASE Kid(node, n, "r") = Nil
  BY <1>1, ClimbIs DEF NextNode, Kid
<1>2. CASE Kid(node, n, "r") # Nil
  <2> DEFINE c == Kid(node, n, "r")
  <2>1. c \in N
    BY <1>2, KidIs DEF Sides
  <2>2. lo[c] = KeyOf(node, n)
    BY <1>2 DEF Tree, Ordered, Halved
  <2>3. NextNode(n) = Leftmost(c)
    BY <1>2 DEF NextNode, Kid
  <2> HIDE DEF c
  <2> QED
    BY <2>1, <2>2, <2>3, LeftmostIs
<1> QED
  BY <1>1, <1>2

NextMap == [n \in DOMAIN node \cup {Nil} |-> IF n = Nil THEN Nil ELSE NextNode(n)]
Nth(i) == Repeated(NextMap, Leftmost(root), i - 1)

\* The walk is in order and misses no node.
LEMMA WalkIs ==
  ASSUME NEW N, NEW lo, NEW hi, Tree(node, N, root, lo, hi)
  PROVE  /\ \A i \in 1 .. Size(node) : Nth(i) \in N
         /\ \A i \in 1 .. Size(node) - 1 : KeyOf(node, Nth(i)) < KeyOf(node, Nth(i + 1))
         /\ Nth(Size(node) + 1) = Nil /\ Size(node) \in Nat \ {0}
<1> DEFINE n == Size(node)
           K(x) == KeyOf(node, x)
           Below(x) == {m \in N : K(m) <= K(x)}
           D == {j \in Nat : j + 1 <= n => Nth(j + 1) \in N /\ Cardinality(Below(Nth(j + 1))) = j + 1}
<1>1. DOMAIN node = N /\ root \in N /\ IsFiniteSet(N) /\ lo[root] = Floor
  BY DEF Tree, Arrays, Linked, Nodes, Ordered
<1>2. n = Cardinality(N) /\ n \in Nat /\ n # 0
  BY <1>1, FS_CardinalityType, FS_EmptySet DEF Size
<1>3. \A m \in N : K(m) \in Int /\ Floor < K(m) /\ m # Nil
  BY TreeTypes, ArrayTypes, KeyBounds DEF Tree
<1>4. \A a, b \in N : K(a) = K(b) => a = b
  BY KeysDiffer
<1>5. Nth(1) = Leftmost(root)
  BY OneMoreTurn DEF Nth
<1>6. \A j \in Nat : Nth(j + 2) = NextMap[Nth(j + 1)]
  <2> TAKE j \in Nat
  <2>1. Repeated(NextMap, Leftmost(root), j + 1) = NextMap[Repeated(NextMap, Leftmost(root), j)]
    BY OneMoreTurn
  <2>2. j + 2 - 1 = j + 1 /\ j + 1 - 1 = j
    OBVIOUS
  <2> QED
    BY <2>1, <2>2 DEF Nth
<1>7. \A x \in N : NextMap[x] = NextNode(x)
  BY <1>1, <1>3 DEF NextMap
<1>8. \A x \in N : \/ Above(node, N, K(x), NextNode(x))
                   \/ NextNode(x) = Nil /\ \A m \in N : K(m) <= K(x)
  BY NextIs
<1> HIDE DEF n, K
<1>9. 0 \in D
  <2> DEFINE f == Leftmost(root)
  <2>1. Above(node, N, Floor, f)
    BY <1>1, LeftmostIs
  <2> HIDE DEF f
  <2>2. f \in N /\ \A m \in N : ~(Floor < K(m) /\ K(m) < K(f))
    BY <2>1 DEF Above, K
  <2>3. \A m \in N : K(m) <= K(f) <=> m = f
    BY <1>3, <1>4, <2>2
  <2>4. Below(f) = {f}
    BY <2>2, <2>3
  <2>5. Cardinality(Below(f)) = 1
    BY <2>4, FS_Singleton
  <2> QED
    BY <1>5, <2>2, <2>5 DEF f
<1>10. ASSUME NEW j \in Nat, j \in D PROVE j + 1 \in D
  <2> SUFFICES ASSUME j + 2 <= n PROVE Nth(j + 2) \in N /\ Cardinality(Below(Nth(j + 2))) = j + 2
    OBVIOUS
  <2> DEFINE x == Nth(j + 1)
             f == Nth(j + 2)
  <2>1. x \in N /\ Cardinality(Below(x)) = j + 1
    BY <1>2, <1>10
  <2>2. f = NextNode(x)
    BY <1>6, <1>7, <2>1
  <2> HIDE DEF x, f
  <2>3. ~ \A m \in N : K(m) <= K(x)
    <3> SUFFICES ASSUME \A m \in N : K(m) <= K(x) PROVE FALSE
      OBVIOUS
    <3>1. Below(x) = N
      OBVIOUS
    <3> QED
      BY <1>2, <2>1, <3>1
  <2>4. Above(node, N, K(x), f)
    BY <1>8, <2>1, <2>2, <2>3
  <2>5. f \in N /\ K(x) < K(f) /\ \A m \in N : ~(K(x) < K(m) /\ K(m) < K(f))
    BY <2>4 DEF Above, K
  <2>6. \A m \in N : K(m) <= K(f) <=> K(m) <= K(x) \/ m = f
    BY <1>3, <1>4, <2>1, <2>5
  <2>7. Below(f) = Below(x) \cup {f} /\ f \notin Below(x) /\ Below(x) \subseteq N
    BY <1>3, <2>1, <2>5, <2>6
  <2> HIDE DEF Below
  <2>8. IsFiniteSet(Below(x))
    BY <1>1, <2>7, FS_Subset
  <2>9. Cardinality(Below(f)) = j + 2
    BY <2>1, <2>7, <2>8, FS_AddElement
  <2> QED
    BY <2>5, <2>9 DEF f
<1> HIDE DEF D
<1>11. \A j \in Nat : j \in D
  BY <1>9, <1>10, CountingUp
<1>12. ASSUME NEW i \in 1 .. n PROVE Nth(i) \in N /\ Cardinality(Below(Nth(i))) = i
  <2>1. i - 1 \in Nat /\ i - 1 + 1 = i /\ i <= n
    BY <1>2
  <2>2. i - 1 \in D
    BY <1>11, <2>1
  <2> QED
    BY <2>1, <2>2 DEF D
<1>13. ASSUME NEW i \in 1 .. n - 1 PROVE K(Nth(i)) < K(Nth(i + 1))
  <2>1. i \in 1 .. n /\ i + 1 \in 1 .. n /\ i - 1 \in Nat /\ i - 1 + 1 = i /\ i - 1 + 2 = i + 1
    BY <1>2
  <2> DEFINE x == Nth(i)
             f == Nth(i + 1)
  <2>2. x \in N /\ f \in N
    BY <1>12, <2>1
  <2>3. f = NextNode(x)
    BY <1>6, <1>7, <2>1, <2>2
  <2> HIDE DEF x, f
  <2>4. Above(node, N, K(x), f)
    BY <1>3, <1>8, <2>2, <2>3
  <2> QED
    BY <2>4 DEF Above, K, x, f
<1>14. Nth(n + 1) = Nil
  <2> DEFINE x == Nth(n)
  <2>1. n \in 1 .. n /\ n - 1 \in Nat /\ n - 1 + 1 = n /\ n - 1 + 2 = n + 1
    BY <1>2
  <2>2. x \in N /\ Cardinality(Below(x)) = n
    BY <1>12, <2>1
  <2>3. Nth(n + 1) = NextNode(x)
    BY <1>6, <1>7, <2>1, <2>2
  <2> HIDE DEF x
  <2>4. Below(x) = N
    <3>1. Below(x) \subseteq N
      OBVIOUS
    <3> HIDE DEF Below
    <3> QED
      BY <1>1, <1>2, <2>2, <3>1, FS_Subset
  <2>5. \A m \in N : K(m) <= K(x)
    BY <2>4
  <2>6. ~ Above(node, N, K(x), NextNode(x))
    <3> SUFFICES ASSUME Above(node, N, K(x), NextNode(x)) PROVE FALSE
      OBVIOUS
    <3>1. NextNode(x) \in N /\ K(x) < K(NextNode(x))
      BY DEF Above, K
    <3> QED
      BY <1>3, <2>2, <2>5, <3>1
  <2> QED
    BY <1>8, <2>2, <2>3, <2>6
<1> QED
  BY <1>2, <1>12, <1>13, <1>14 DEF n, K

\* All keys, in ascending order.
LEMMA KeysInOrderIs ==
  ASSUME (node = <<>> /\ root = Nil) \/ Sound(node, root)
  PROVE  /\ Len(KeysInOrder) = Size(node)
         /\ \A i \in 1 .. Len(KeysInOrder) - 1 : KeysInOrder[i] < KeysInOrder[i + 1]
<1> DEFINE n == Size(node)
           W == KeysInOrder
<1>1. W = [i \in {i \in 1 .. n + 1 : Nth(i) # Nil} |-> node[Nth(i)].key]
  BY DEF KeysInOrder, Nth, NextMap
<1> HIDE DEF W
<1>2. CASE node = <<>> /\ root = Nil
  <2>1. n = 0 /\ DOMAIN node = {}
    BY <1>2, FS_EmptySet DEF Size
  <2>2. Leftmost(root) = Nil
    BY <1>2, <2>1, OneMoreTurn DEF Leftmost
  <2>3. Nth(1) = Nil
    BY <2>2, OneMoreTurn DEF Nth
  <2>4. {i \in 1 .. n + 1 : Nth(i) # Nil} = {}
    BY <2>1, <2>3
  <2>5. W = <<>>
    BY <1>1, <2>4
  <2>6. Len(W) = 0
    BY <2>5
  <2> QED
    BY <2>1, <2>6 DEF W
<1>3. CASE Sound(node, root)
  <2>1. PICK lo, hi : Tree(node, DOMAIN node, root, lo, hi)
    BY <1>3 DEF Sound
  <2>2. /\ \A i \in 1 .. n : Nth(i) \in DOMAIN node
        /\ \A i \in 1 .. n - 1 : KeyOf(node, Nth(i)) < KeyOf(node, Nth(i + 1))
        /\ Nth(n + 1) = Nil /\ n \in Nat \ {0}
    BY <2>1, WalkIs
  <2>3. \A m \in DOMAIN node : m # Nil
    BY <2>1, TreeTypes
  <2> HIDE DEF n
  <2>4. {i \in 1 .. n + 1 : Nth(i) # Nil} = 1 .. n
    <3>1. \A i \in 1 .. n + 1 : i \in 1 .. n \/ i = n + 1
      BY <2>2
    <3>2. \A i \in 1 .. n : i \in 1 .. n + 1
      BY <2>2
    <3> QED
      BY <2>2, <2>3, <3>1, <3>2
  <2>5. W = [i \in 1 .. n |-> KeyOf(node, Nth(i))]
    BY <1>1, <2>4 DEF KeyOf
  <2>6. Len(W) = n
    BY <2>2, <2>5
  <2>7. ASSUME NEW i \in 1 .. n - 1 PROVE W[i] < W[i + 1]
    <3>1. i \in 1 .. n /\ i + 1 \in 1 .. n
      BY <2>2
    <3>2. W[i] = KeyOf(node, Nth(i)) /\ W[i + 1] = KeyOf(node, Nth(i + 1))
      BY <2>5, <3>1
    <3> QED
      BY <2>2, <3>2
  <2> QED
    BY <2>6, <2>7 DEF W, n
<1> QED
  BY <1>2, <1>3

-----------------------------------------------------------------------------
(* Symbols.                                                                *)

LEMMA SymbolsFollow ==
  ASSUME TreeInv
  PROVE  SymbolsRight
<1> DEFINE found == {k \in Keys : Get(k) # Nil}
           D == DOMAIN node
<1>1. /\ Len(interned) \in Nat /\ Size(node) = Len(interned) /\ D = 0 .. Size(node) - 1 /\ Nil \notin D
      /\ interned \in Seq(Keys) /\ DOMAIN interned = 1 .. Len(interned)
  <2>1. Len(interned) \in Nat /\ Size(node) = Len(interned) /\ D = 0 .. Size(node) - 1 /\ interned \in Seq(Keys)
    BY SizeIs DEF TreeInv
  <2> QED
    BY <2>1 DEF Nil
<1>2. {<<node[x].key, node[x].value>> : x \in D} = {<<interned[i], i - 1>> : i \in 1 .. Len(interned)}
  BY DEF TreeInv, Numbered, Entries
<1>3. \A i \in DOMAIN interned : interned[i] \in Keys
  BY <1>1
<1>4. \A i \in DOMAIN interned : \E m \in D : node[m].key = interned[i] /\ node[m].value = i - 1
  <2> TAKE i \in DOMAIN interned
  <2>1. <<interned[i], i - 1>> \in {<<node[x].key, node[x].value>> : x \in D}
    BY <1>1, <1>2
  <2>2. PICK m \in D : <<interned[i], i - 1>> = <<node[m].key, node[m].value>>
    BY <2>1
  <2> QED
    BY <2>2
<1>5. \A m \in D : \E i \in DOMAIN interned : node[m].key = interned[i]
  <2> TAKE m \in D
  <2>1. <<node[m].key, node[m].value>> \in {<<interned[i], i - 1>> : i \in 1 .. Len(interned)}
    BY <1>2
  <2>2. PICK i \in 1 .. Len(interned) : <<interned[i], i - 1>> = <<node[m].key, node[m].value>>
    BY <2>1
  <2> QED
    BY <1>1, <2>2
<1>6. (node = <<>> /\ root = Nil) \/ Sound(node, root)
  BY DEF TreeInv
<1>7. \A k \in Keys : IF \E m \in D : node[m].key = k THEN Get(k) \in D /\ node[Get(k)].key = k ELSE Get(k) = Nil
  BY Lookup
<1>8. \A a, b \in D : node[a].key = node[b].key => a = b
  <2>1. CASE node = <<>> /\ root = Nil
    BY <2>1
  <2>2. CASE Sound(node, root)
    <3>1. PICK lo, hi : Tree(node, D, root, lo, hi)
      BY <2>2 DEF Sound
    <3> QED
      BY <3>1, KeysDiffer DEF KeyOf
  <2> QED
    BY <1>6, <2>1, <2>2
<1> HIDE DEF D
<1>9. found = {interned[i] : i \in DOMAIN interned}
  <2>1. ASSUME NEW k \in found PROVE \E i \in DOMAIN interned : interned[i] = k
    <3>1. \E m \in D : node[m].key = k
      BY <1>7
    <3> QED
      BY <1>5, <3>1
  <2>2. ASSUME NEW i \in DOMAIN interned PROVE interned[i] \in found
    BY <1>1, <1>3, <1>4, <1>7
  <2> QED
    BY <2>1, <2>2
<1>10. ASSUME NEW i \in DOMAIN interned PROVE node[Get(interned[i])].value = i - 1
  <2>1. PICK m \in D : node[m].key = interned[i] /\ node[m].value = i - 1
    BY <1>4
  <2>2. Get(interned[i]) \in D /\ node[Get(interned[i])].key = interned[i]
    BY <1>3, <1>7, <2>1
  <2>3. Get(interned[i]) = m
    BY <1>8, <2>1, <2>2
  <2> QED
    BY <2>1, <2>3
<1>11. /\ Len(KeysInOrder) = Len(interned)
       /\ \A i \in 1 .. Len(KeysInOrder) - 1 : KeysInOrder[i] < KeysInOrder[i + 1]
  BY <1>1, <1>6, KeysInOrderIs
<1>12. ASSUME NEW n \in D PROVE Height(node, node[n].kid["l"]) - Height(node, node[n].kid["r"]) \in -1 .. 1
  <2>1. CASE node = <<>> /\ root = Nil
    BY <2>1 DEF D
  <2>2. CASE Sound(node, root)
    <3> DEFINE a == Height(node, node[n].kid["l"])
               b == Height(node, node[n].kid["r"])
    <3>1. Nodes(D) /\ node \in Arrays(D) /\ Even(node, n)
      BY <2>2 DEF Sound, Tree, D
    <3>2. a \in Nat /\ b \in Nat
      BY <3>1, ArrayTypes DEF Kid
    <3>3. a <= b + 1 /\ b <= a + 1
      BY <3>1 DEF Even, Level, Kid
    <3> HIDE DEF a, b
    <3>4. a - b \in -1 .. 1
      BY <3>2, <3>3
    <3> QED
      BY <3>4 DEF a, b
  <2> QED
    BY <1>6, <2>1, <2>2
<1> HIDE DEF found
<1> QED
  BY <1>9, <1>10, <1>11, <1>12 DEF SymbolsRight, found, D

\* Whatever is interned, in any order: every key is found with the number that
\* it was given first, no other key is found, a walk meets all of them in
\* ascending order, and no node leans by more than one.
THEOREM SymbolsAreRight == TreeSpec => []SymbolsRight
<1>1. TreeInv => SymbolsRight
  BY SymbolsFollow
<1> QED
  BY <1>1, TreeIsSound, PTL

=============================================================================

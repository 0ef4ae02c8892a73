------------------------- MODULE ThreadStackProofs -------------------------
(* The memory of a green thread holds two stacks that stay apart, for any   *)
(* functions, operands and sizes and whatever the program does, until an    *)
(* access is outside the memory; and the only two ways to such an access.   *)
EXTENDS ThreadStack, SequenceTheorems, TLAPS

\* The bases of the activations that wait rise towards the running one.
Bases ==
  \A i, j \in rsp .. Top - 1 :
    (i - rsp) % 3 = 2 /\ (j - rsp) % 3 = 2 /\ i <= j =>
      mem[i][2] <= bp /\ mem[j][2] <= mem[i][2]

\* Memory that must grow is within the bounds, and a native was called.
Room ==
  /\ bp <= sp /\ sp <= MaxSp /\ size - rsp <= 3 * MaxDepth + 1
  /\ pc = INT => rsp + 3 <= size
  /\ mode = "grow" => size <= MaxSp + 3 * MaxDepth + 1

StackInv == StackTypeOK /\ mode # "wild" /\ StacksApart /\ WholeFrames /\ Bases /\ Room

\* The strengthening: nothing but types is known after an access outside the memory.
Inv == StackTypeOK /\ (mode # "wild" => StackInv)

Limit == 2 ^ Width

LEMMA LimitFacts ==
  /\ Limit \in Nat /\ UInt = 0 .. Limit - 1 /\ InitSize \in UInt \ {0}
  /\ 2 * (MaxSp + 3 * MaxDepth + 1) < Limit
  /\ \A n \in UInt : Wrap(n) = n
<1>1. Limit \in Int /\ InitSize < Limit
  BY StackAssumption, SizeAssumption DEF Limit
<1>2. Limit \in Nat
  BY <1>1, StackAssumption
<1>3. \A n \in 0 .. Limit - 1 : n % Limit = n
  BY <1>2
<1> QED
  BY <1>1, <1>2, <1>3, StackAssumption, SizeAssumption DEF UInt, Limit, Wrap

LEMMA WrapRange ==
  ASSUME NEW n \in Int
  PROVE  Wrap(n) \in UInt
<1>1. Limit \in Nat \ {0}
  BY LimitFacts, StackAssumption, SizeAssumption DEF Limit
<1>2. n % Limit \in 0 .. Limit - 1
  BY <1>1
<1> QED
  BY <1>2, LimitFacts DEF Wrap, Limit

\* What the words of each kind hold.
LEMMA WordFacts ==
  /\ Junk \in Words /\ (\A v \in Operands : Val(v) \in Words)
  /\ \A f \in Functions : <<"fun", f>> \in Words
  /\ \A p \in 0 .. Sites - 1 : <<"pc", p>> \in Words
  /\ \A n \in UInt : <<"bp", n>> \in Words
  /\ \A w \in Words : /\ w[1] = "fun" => w[2] \in Functions
                      /\ w[1] = "pc" => w[2] \in 0 .. Sites - 1
                      /\ w[1] = "bp" => w[2] \in UInt
BY DEF Words, Junk, Val

LEMMA ShortSequence ==
  ASSUME NEW n \in Nat, NEW S, NEW vs \in [1 .. n -> S]
  PROVE  vs \in Seq(S) /\ Len(vs) = n
OBVIOUS

\* The environments lie between rsp and the one word, at most, above them.
LEMMA DepthFacts ==
  ASSUME StackInv
  PROVE  /\ Depth \in Nat /\ Top \in Nat /\ Top - rsp = 3 * Depth /\ rsp <= Top /\ Top <= size
         /\ Stray \in {0, 1} /\ (Top = size \/ Top = size - 1) /\ Top = size - Stray
         /\ Depth = 0 <=> rsp = Top
         /\ rsp + 2 < size <=> rsp < Top
<1>1. size \in Nat /\ rsp \in Nat /\ rsp <= size /\ (size - rsp) % 3 \in {0, 1}
  BY LimitFacts DEF StackInv, StackTypeOK, StacksApart, WholeFrames, Stray
<1> PICK n \in Nat : n = size - rsp
  BY <1>1
<1> PICK s \in {0, 1} : s = n % 3
  BY <1>1
<1>2. n - s = 3 * (n \div 3) /\ n \div 3 \in Nat
  OBVIOUS
<1>3. Depth = n \div 3 /\ Stray = s /\ Top = size - s
  BY DEF Depth, Stray, Top
<1> QED
  BY <1>1, <1>2, <1>3

\* A saved environment has three words, and the next one ends where it does.
LEMMA TopFrame ==
  ASSUME StackInv, rsp + 2 < size
  PROVE  /\ rsp + 3 <= Top
         /\ mem[rsp][2] \in Functions /\ mem[rsp + 1][2] \in 0 .. Sites - 1
         /\ mem[rsp + 2][2] \in 0 .. bp
<1>1. size \in Nat /\ rsp \in Nat /\ bp \in Nat
  BY LimitFacts DEF StackInv, StackTypeOK
<1>2. rsp + 3 <= Top /\ Top <= size /\ Top \in Nat
  BY <1>1, DepthFacts
<1>3. /\ rsp \in rsp .. Top - 1 /\ rsp + 1 \in rsp .. Top - 1 /\ rsp + 2 \in rsp .. Top - 1
      /\ (rsp - rsp) % 3 = 0 /\ (rsp + 1 - rsp) % 3 = 1 /\ (rsp + 2 - rsp) % 3 = 2
  BY <1>1, <1>2
<1>4. mem[rsp][1] = "fun" /\ mem[rsp + 1][1] = "pc" /\ mem[rsp + 2][1] = "bp"
  BY <1>3 DEF StackInv, WholeFrames
<1>5. mem[rsp] \in Words /\ mem[rsp + 1] \in Words /\ mem[rsp + 2] \in Words
  BY <1>1, <1>2 DEF StackInv, StackTypeOK
<1>6. mem[rsp + 2][2] <= bp
  BY <1>3 DEF StackInv, Bases
<1>7. mem[rsp][2] \in Functions /\ mem[rsp + 1][2] \in 0 .. Sites - 1 /\ mem[rsp + 2][2] \in UInt
  BY <1>4, <1>5, WordFacts
<1> QED
  BY <1>1, <1>2, <1>6, <1>7, LimitFacts

\* Nothing happened to the saved environments, and the running one did not go down.
LEMMA FramesKept ==
  ASSUME StackInv, UNCHANGED <<size, rsp, bp>>,
         \A i \in rsp .. size - 1 : mem'[i] = mem[i]
  PROVE  WholeFrames' /\ Bases'
<1>1. Top' = Top /\ Stray' = Stray
  BY DEF Top, Stray
<1>2. \A i \in rsp .. Top - 1 : mem'[i] = mem[i]
  <2>1. Top \in Nat /\ Top <= size /\ size \in Nat /\ rsp \in Nat
    <3>1. size \in Nat /\ rsp \in Nat
      BY LimitFacts DEF StackInv, StackTypeOK
    <3> QED
      BY <3>1, DepthFacts
  <2> QED
    BY <2>1
<1> QED
  BY <1>1, <1>2 DEF StackInv, WholeFrames, Bases

\* An overflow happens only within the bounds.
LEMMA Overflows ==
  ASSUME StackInv, Overflow, size <= MaxSp + 3 * MaxDepth + 1
  PROVE  StackInv'
BY DEF Overflow, StackInv, StackTypeOK, regs, StacksApart, WholeFrames, Stray, Top, Bases, Room

LEMMA AfterSite ==
  ASSUME NEW p \in 0 .. Sites - 1
  PROVE  After(p) \in 0 .. Sites - 1 /\ After(p) = (p + 1) % Sites /\ p # INT
BY StackAssumption DEF After, INT

-----------------------------------------------------------------------------
(* The instructions that leave the saved environments alone.               *)

LEMMA InvInit == StackInit => StackInv
<1> SUFFICES ASSUME StackInit PROVE StackInv
  OBVIOUS
<1>1. /\ Arity[Main] \in Nat /\ Arity[Main] <= InitSize /\ Arity[Main] <= MaxSp
      /\ 0 \in 0 .. Sites - 1 /\ Main \in Functions /\ MaxDepth \in Nat
  BY StackAssumption, SizeAssumption
<1>2. mem \in [0 .. size - 1 -> Words]
  BY <1>1, WordFacts DEF StackInit
<1>3. StackTypeOK
  BY <1>1, <1>2, LimitFacts DEF StackInit, StackTypeOK
<1> QED
  BY <1>1, <1>3, LimitFacts DEF StackInit, StackInv, StacksApart, WholeFrames, Stray, Top, Bases, Room, INT

LEMMA StoreFacts ==
  ASSUME StackInv, NEW n \in Nat, NEW vs \in [1 .. n -> Operands], sp + n <= rsp
  PROVE  /\ Store(vs) \in [0 .. size - 1 -> Words] /\ Len(vs) = n
         /\ \A i \in 1 .. n : Store(vs)[sp + i - 1] = Val(vs[i])
         /\ \A i \in 0 .. size - 1 : i \notin sp .. sp + n - 1 => Store(vs)[i] = mem[i]
<1>1. Len(vs) = n /\ vs \in Seq(Operands)
  BY ShortSequence
<1>2. /\ mem \in [0 .. size - 1 -> Words] /\ size \in Nat /\ sp \in Nat /\ rsp \in Nat
      /\ sp + n <= size
  BY LimitFacts DEF StackInv, StackTypeOK, StacksApart
<1>3. ASSUME NEW i \in sp .. sp + n - 1 PROVE Val(vs[i - sp + 1]) \in Words
  <2>1. i - sp + 1 \in 1 .. n
    BY <1>2, <1>3
  <2> QED
    BY <2>1, WordFacts
<1> QED
  BY <1>1, <1>2, <1>3 DEF Store

LEMMA InvPush ==
  ASSUME StackInv, NEW n \in Nat, NEW vs \in [1 .. n -> Operands], Push(vs)
  PROVE  StackInv'
<1>1. /\ size \in Nat /\ sp \in Nat /\ rsp \in Nat /\ bp \in Nat /\ rsp <= size
      /\ MaxSp \in Nat /\ MaxDepth \in Nat
  BY LimitFacts, StackAssumption DEF StackInv, StackTypeOK, StacksApart
<1>2. Len(vs) = n
  BY ShortSequence
<1>3. CASE sp + n <= rsp
  <2>1. /\ mem' = Store(vs) /\ sp' = sp + n /\ pc' = After(pc)
        /\ UNCHANGED <<size, rsp, bp, fun, mode>> /\ mode = "run" /\ pc # INT /\ sp + n <= MaxSp
    BY <1>1, <1>2, <1>3 DEF Push, Overflow, Running
  <2>2. /\ mem' \in [0 .. size - 1 -> Words]
        /\ \A i \in rsp .. size - 1 : mem'[i] = mem[i]
    BY <1>1, <1>3, <2>1, StoreFacts
  <2>3. WholeFrames' /\ Bases'
    BY <2>1, <2>2, FramesKept
  <2>4. pc' \in 0 .. Sites - 1 /\ pc' # INT
    BY <2>1, AfterSite DEF StackInv, StackTypeOK, INT
  <2>5. StackTypeOK'
    BY <1>1, <1>3, <2>1, <2>2, <2>4, LimitFacts DEF StackInv, StackTypeOK
  <2> QED
    BY <1>1, <1>3, <2>1, <2>3, <2>4, <2>5 DEF StackInv, StacksApart, Room
<1>4. CASE sp + n > rsp
  <2>1. Overflow /\ sp + n <= MaxSp
    BY <1>1, <1>2, <1>4 DEF Push
  <2>2. size <= MaxSp + 3 * MaxDepth + 1
    BY <1>1, <1>4, <2>1 DEF StackInv, Room
  <2> QED
    BY <2>1, <2>2, Overflows
<1> QED
  BY <1>1, <1>3, <1>4

LEMMA InvPop ==
  ASSUME StackInv, NEW n \in Nat, Pop(n)
  PROVE  StackInv'
<1>1. /\ size \in Nat /\ sp \in Nat /\ rsp \in Nat /\ bp \in Nat /\ rsp <= size /\ sp <= rsp
      /\ mem \in [0 .. size - 1 -> Words]
  BY LimitFacts DEF StackInv, StackTypeOK, StacksApart
<1>2. /\ sp' = sp - n /\ n <= sp - bp /\ mem' = Forget(mem, sp - n, rsp) /\ pc' = After(pc)
      /\ UNCHANGED <<size, rsp, bp, fun, mode>> /\ mode = "run" /\ pc # INT
  BY DEF Pop, Running
<1>3. mem' \in [0 .. size - 1 -> Words] /\ \A i \in rsp .. size - 1 : mem'[i] = mem[i]
  BY <1>1, <1>2, WordFacts DEF Forget
<1>4. WholeFrames' /\ Bases'
  BY <1>2, <1>3, FramesKept
<1>5. pc' \in 0 .. Sites - 1 /\ pc' # INT
  BY <1>2, AfterSite DEF StackInv, StackTypeOK, INT
<1>6. StackTypeOK'
  BY <1>1, <1>2, <1>3, <1>5, LimitFacts DEF StackInv, StackTypeOK
<1> QED
  BY <1>1, <1>2, <1>4, <1>5, <1>6, StackAssumption DEF StackInv, StacksApart, Room

LEMMA InvMove ==
  ASSUME StackInv, NEW k \in Nat, NEW v \in Operands, Move(k, v)
  PROVE  StackInv'
<1>1. /\ size \in Nat /\ sp \in Nat /\ rsp \in Nat /\ bp \in Nat /\ rsp <= size /\ sp <= rsp
      /\ mem \in [0 .. size - 1 -> Words]
  BY LimitFacts DEF StackInv, StackTypeOK, StacksApart
<1>2. /\ bp + k < sp /\ mem' = [mem EXCEPT ![bp + k] = Val(v)] /\ pc' = After(pc)
      /\ UNCHANGED <<size, sp, rsp, bp, fun, mode>> /\ mode = "run" /\ pc # INT
  BY DEF Move, Running
<1>3. mem' \in [0 .. size - 1 -> Words] /\ \A i \in rsp .. size - 1 : mem'[i] = mem[i]
  BY <1>1, <1>2, WordFacts
<1>4. WholeFrames' /\ Bases'
  BY <1>2, <1>3, FramesKept
<1>5. pc' \in 0 .. Sites - 1 /\ pc' # INT
  BY <1>2, AfterSite DEF StackInv, StackTypeOK, INT
<1>6. StackTypeOK'
  BY <1>1, <1>2, <1>3, <1>5, LimitFacts DEF StackInv, StackTypeOK
<1> QED
  BY <1>1, <1>2, <1>4, <1>5, <1>6 DEF StackInv, StacksApart, Room

LEMMA InvJump ==
  ASSUME StackInv, NEW p \in 0 .. Sites - 1, Jump(p)
  PROVE  StackInv'
<1>1. /\ UNCHANGED <<mem, size, sp, rsp, bp, fun, mode>> /\ pc' = p /\ mode = "run" /\ p # INT
  BY AfterSite DEF Jump, Running
<1>2. WholeFrames' /\ Bases'
  BY <1>1, FramesKept
<1> QED
  BY <1>1, <1>2 DEF StackInv, StackTypeOK, StacksApart, Room

\* Words are moved down onto the base of the running activation...
LEMMA CopyFacts ==
  ASSUME StackInv, NEW m \in [0 .. size - 1 -> Words], NEW n \in Nat, NEW from \in Nat,
         bp <= from, from + n <= rsp
  PROVE  /\ Copy(m, from, n, bp) \in [0 .. size - 1 -> Words]
         /\ \A i \in 0 .. bp - 1 : Copy(m, from, n, bp)[i] = m[i]
         /\ \A i \in bp .. bp + n - 1 : Copy(m, from, n, bp)[i] = m[from + (i - bp)]
         /\ \A i \in bp + n .. size - 1 : Copy(m, from, n, bp)[i] = m[i]
<1>1. size \in Nat /\ rsp \in Nat /\ bp \in Nat /\ rsp <= size
  BY LimitFacts DEF StackInv, StackTypeOK, StacksApart
<1> QED
  BY <1>1 DEF Copy

\* ... then what is above them is forgotten.
LEMMA ForgetFacts ==
  ASSUME size \in Nat, NEW m \in [0 .. size - 1 -> Words], NEW s \in Nat, NEW r \in Nat
  PROVE  /\ Forget(m, s, r) \in [0 .. size - 1 -> Words]
         /\ \A i \in 0 .. size - 1 : i < s \/ i >= r => Forget(m, s, r)[i] = m[i]
BY WordFacts DEF Forget

LEMMA InvRCall ==
  ASSUME StackInv, NEW f \in Functions, RCall(f)
  PROVE  StackInv'
<1>1. /\ size \in Nat /\ sp \in Nat /\ rsp \in Nat /\ bp \in Nat /\ rsp <= size /\ sp <= rsp
      /\ mem \in [0 .. size - 1 -> Words] /\ Arity[f] \in Nat /\ MaxSp \in Nat
  BY LimitFacts, StackAssumption DEF StackInv, StackTypeOK, StacksApart
<1>2. /\ Arity[f] <= sp - bp /\ sp' = bp + Arity[f] /\ fun' = f /\ pc' = 0
      /\ mem' = Forget(Copy(mem, sp - Arity[f], Arity[f], bp), bp + Arity[f], rsp)
      /\ UNCHANGED <<size, rsp, bp, mode>> /\ mode = "run" /\ 0 \in 0 .. Sites - 1
  BY StackAssumption DEF RCall, Running
<1>3. mem' \in [0 .. size - 1 -> Words] /\ \A i \in rsp .. size - 1 : mem'[i] = mem[i]
  <2> DEFINE n == Arity[f]
             from == sp - n
  <2>1. n \in Nat /\ from \in Nat /\ bp <= from /\ from + n <= rsp /\ bp + n <= rsp
    BY <1>1, <1>2
  <2>2. mem' = Forget(Copy(mem, from, n, bp), bp + n, rsp)
    BY <1>2
  <2> DEFINE c == Copy(mem, from, n, bp)
  <2> HIDE DEF n, from
  <2>3. c \in [0 .. size - 1 -> Words] /\ \A i \in bp + n .. size - 1 : c[i] = mem[i]
    BY <1>1, <2>1, CopyFacts
  <2>4. mem' = Forget(c, bp + n, rsp) /\ bp + n \in Nat
    BY <1>1, <2>1, <2>2
  <2> HIDE DEF c
  <2>5. mem' \in [0 .. size - 1 -> Words] /\ \A i \in rsp .. size - 1 : mem'[i] = c[i]
    BY <1>1, <2>3, <2>4, ForgetFacts
  <2> QED
    BY <1>1, <2>1, <2>3, <2>5
<1>4. WholeFrames' /\ Bases'
  BY <1>2, <1>3, FramesKept
<1>5. StackTypeOK'
  BY <1>1, <1>2, <1>3, LimitFacts DEF StackInv, StackTypeOK
<1> QED
  BY <1>1, <1>2, <1>4, <1>5 DEF StackInv, StacksApart, Room, INT

-----------------------------------------------------------------------------
(* The instructions that save or restore an environment, and the growth.    *)

\* Environments are counted by their words.
LEMMA Thirds ==
  ASSUME NEW t \in Int, NEW r \in Int, NEW d \in Nat, t - r = 3 * d,
         NEW k \in Int, t - r = 3 * k
  PROVE  d = k
OBVIOUS

LEMMA ModThree ==
  ASSUME NEW a \in Int
  PROVE  (a + 3) % 3 = a % 3 /\ (a - 3) % 3 = a % 3
OBVIOUS

LEMMA SavedFacts ==
  ASSUME StackTypeOK, mode = "run", pc # INT
  PROVE  Saved(mem) \in [0 .. size - 1 -> Words]
<1>1. <<"bp", bp>> \in Words /\ <<"pc", pc>> \in Words /\ <<"fun", fun>> \in Words
  BY WordFacts, LimitFacts DEF StackTypeOK
<1>2. \A i \in 0 .. size - 1 : Saved(mem)[i] =
        IF i = rsp - 1 THEN <<"bp", bp>> ELSE IF i = rsp - 2 THEN <<"pc", pc>>
        ELSE IF i = rsp - 3 THEN <<"fun", fun>> ELSE mem[i]
  BY LimitFacts DEF Saved, StackTypeOK
<1>3. Saved(mem) = [i \in 0 .. size - 1 |-> Saved(mem)[i]]
  BY DEF Saved, StackTypeOK
<1>4. \A i \in 0 .. size - 1 : Saved(mem)[i] \in Words
  BY <1>1, <1>2 DEF StackTypeOK
<1> QED
  BY <1>3, <1>4

LEMMA InvCall ==
  ASSUME StackInv, NEW f \in Functions, Call(f)
  PROVE  Inv'
<1>1. /\ size \in Nat /\ sp \in Nat /\ rsp \in Nat /\ bp \in Nat /\ rsp <= size /\ sp <= rsp
      /\ mem \in [0 .. size - 1 -> Words] /\ Arity[f] \in Nat /\ MaxSp \in Nat /\ MaxDepth \in Nat
      /\ bp <= sp /\ sp <= MaxSp
  BY LimitFacts, StackAssumption DEF StackInv, StackTypeOK, StacksApart, Room
<1>2. /\ Arity[f] <= sp - bp /\ Depth < MaxDepth /\ mode = "run" /\ pc # INT
  BY <1>1 DEF Call, Running
<1>3. size - rsp <= 3 * MaxDepth - 2
  BY <1>1, <1>2, DepthFacts
<1>4. CASE SaveOverflows
  <2>1. Overflow
    BY <1>4 DEF Call
  <2>2. rsp - 3 < sp
    <3>1. CASE rsp >= 3
      BY <1>1, <1>4, <3>1, LimitFacts DEF SaveOverflows, StackInv, StackTypeOK
    <3> QED
      BY <1>1, <3>1
  <2>3. size <= MaxSp + 3 * MaxDepth + 1
    BY <1>1, <1>3, <2>2
  <2> QED
    BY <2>1, <2>3, Overflows DEF Inv, StackInv
<1>5. CASE ~SaveOverflows /\ rsp < 3
  <2>1. /\ mem' = Saved(mem) /\ rsp' = Wrap(rsp - 3) /\ mode' = "wild" /\ bp' = sp - Arity[f]
        /\ fun' = f /\ pc' = Entry(f) /\ UNCHANGED <<size, sp>>
    BY <1>5 DEF Call
  <2>2. rsp' \in UInt
    BY <1>1, <2>1, WrapRange
  <2>3. pc' \in {INT} \cup 0 .. Sites - 1 /\ bp' \in 0 .. size
    BY <1>1, <1>2, <2>1, StackAssumption DEF Entry
  <2>4. StackTypeOK'
    BY <1>2, <2>1, <2>2, <2>3, SavedFacts DEF StackInv, StackTypeOK
  <2> QED
    BY <2>1, <2>4 DEF Inv
<1>6. CASE ~SaveOverflows /\ rsp >= 3
  <2>1. Wrap(rsp - 3) = rsp - 3 /\ rsp - 3 \in UInt /\ rsp - 3 >= sp
    BY <1>1, <1>6, LimitFacts DEF StackInv, StackTypeOK, SaveOverflows
  <2>2. /\ mem' = Saved(mem) /\ rsp' = rsp - 3 /\ mode' = mode /\ bp' = sp - Arity[f] /\ fun' = f
        /\ pc' = Entry(f) /\ UNCHANGED <<size, sp>>
    BY <1>1, <1>6, <2>1 DEF Call
  <2>3. /\ mem' \in [0 .. size - 1 -> Words]
        /\ mem'[rsp - 1] = <<"bp", bp>> /\ mem'[rsp - 2] = <<"pc", pc>> /\ mem'[rsp - 3] = <<"fun", fun>>
        /\ \A i \in rsp .. size - 1 : mem'[i] = mem[i]
    <3>1. \A i \in 0 .. size - 1 : Saved(mem)[i] =
            IF i = rsp - 1 THEN <<"bp", bp>> ELSE IF i = rsp - 2 THEN <<"pc", pc>>
            ELSE IF i = rsp - 3 THEN <<"fun", fun>> ELSE mem[i]
      BY <1>1 DEF Saved
    <3>2. rsp - 1 \in 0 .. size - 1 /\ rsp - 2 \in 0 .. size - 1 /\ rsp - 3 \in 0 .. size - 1
          /\ rsp - 1 # rsp - 2 /\ rsp - 1 # rsp - 3 /\ rsp - 2 # rsp - 3
      BY <1>1, <1>6
    <3>3. Saved(mem) \in [0 .. size - 1 -> Words]
      BY <1>2, SavedFacts DEF StackInv
    <3>4. \A i \in rsp .. size - 1 : Saved(mem)[i] = mem[i]
      BY <1>1, <3>1
    <3>5. /\ Saved(mem)[rsp - 1] = <<"bp", bp>> /\ Saved(mem)[rsp - 2] = <<"pc", pc>>
          /\ Saved(mem)[rsp - 3] = <<"fun", fun>>
      BY <3>1, <3>2
    <3> QED
      BY <2>2, <3>3, <3>4, <3>5
  <2>4. Stray' = Stray /\ Top' = Top /\ Top <= size /\ Top \in Nat /\ rsp <= Top
    <3>1. (size - (rsp - 3)) % 3 = (size - rsp) % 3
      <4>1. size - (rsp - 3) = (size - rsp) + 3 /\ size - rsp \in Int
        BY <1>1
      <4> QED
        BY <4>1, ModThree
    <3> QED
      BY <1>1, <2>2, <3>1, DepthFacts DEF Stray, Top
  <2>5. WholeFrames'
    <3>1. Stray' \in {0, 1}
      BY <2>4, DepthFacts
    <3>2. ASSUME NEW i \in rsp' .. Top' - 1
          PROVE  mem'[i][1] = CASE (i - rsp') % 3 = 0 -> "fun" [] (i - rsp') % 3 = 1 -> "pc" [] OTHER -> "bp"
      <4>1. CASE i >= rsp
        <5>1. i \in rsp .. Top - 1 /\ i \in rsp .. size - 1 /\ (i - rsp') % 3 = (i - rsp) % 3
          BY <1>1, <2>2, <2>4, <3>2, <4>1
        <5> QED
          BY <2>3, <5>1 DEF StackInv, WholeFrames
      <4>2. CASE i < rsp
        <5>1. i = rsp - 3 \/ i = rsp - 2 \/ i = rsp - 1
          BY <1>1, <2>2, <2>4, <3>2, <4>2
        <5> QED
          <6>1. rsp' \in Int /\ rsp - 3 - rsp' = 0 /\ rsp - 2 - rsp' = 1 /\ rsp - 1 - rsp' = 2
            BY <1>1, <2>2
          <6>2. CASE i = rsp - 3
            BY <2>3, <6>1, <6>2
          <6>3. CASE i = rsp - 2
            BY <2>3, <6>1, <6>3
          <6>4. CASE i = rsp - 1
            BY <2>3, <6>1, <6>4
          <6> QED
            BY <5>1, <6>2, <6>3, <6>4
      <4> QED
        BY <1>1, <2>2, <2>4, <3>2, <4>1, <4>2
    <3> QED
      BY <3>1, <3>2 DEF WholeFrames
  <2>6. Bases'
    <3> SUFFICES ASSUME NEW i \in rsp' .. Top' - 1, NEW j \in rsp' .. Top' - 1,
                        (i - rsp') % 3 = 2, (j - rsp') % 3 = 2, i <= j
                 PROVE  mem'[i][2] <= bp' /\ mem'[j][2] <= mem'[i][2]
      BY DEF Bases
    <3>1. \A k \in rsp' .. Top' - 1 : (k - rsp') % 3 = 2 =>
             k = rsp - 1 \/ (k \in rsp .. Top - 1 /\ (k - rsp) % 3 = 2)
      BY <1>1, <2>2, <2>4
    <3>2. bp <= bp'
      BY <1>1, <1>2, <2>2
    <3>3. \A k \in rsp .. Top - 1 : (k - rsp) % 3 = 2 => mem[k][2] \in Nat /\ mem[k][2] <= bp
      <4> SUFFICES ASSUME NEW k \in rsp .. Top - 1, (k - rsp) % 3 = 2
                   PROVE  mem[k][2] \in Nat /\ mem[k][2] <= bp
        OBVIOUS
      <4>1. mem[k] \in Words
        BY <1>1, <2>4
      <4>2. (k - rsp) % 3 # 0 /\ (k - rsp) % 3 # 1
        BY ONLY (k - rsp) % 3 = 2
      <4>3. mem[k][1] = "bp"
        BY <4>2 DEF StackInv, WholeFrames
      <4>4. mem[k][2] \in UInt
        BY <4>1, <4>3, WordFacts
      <4> QED
        BY <1>1, <4>4, LimitFacts DEF StackInv, Bases
    <3>4. CASE i = rsp - 1
      <4>1. mem'[i][2] = bp
        BY <2>3, <3>4
      <4>2. CASE j = rsp - 1
        BY <1>1, <1>2, <2>2, <3>2, <3>4, <4>1, <4>2
      <4>3. CASE j \in rsp .. Top - 1 /\ (j - rsp) % 3 = 2
        <5>1. mem'[j] = mem[j] /\ mem[j][2] \in Nat /\ mem[j][2] <= bp
          BY <1>1, <2>3, <2>4, <3>3, <4>3
        <5> QED
          BY <1>1, <1>2, <2>2, <3>2, <4>1, <5>1
      <4> QED
        BY <3>1, <4>2, <4>3
    <3>5. CASE i \in rsp .. Top - 1 /\ (i - rsp) % 3 = 2
      <4>1. j \in rsp .. Top - 1 /\ (j - rsp) % 3 = 2
        BY <1>1, <2>4, <3>1, <3>5
      <4> QED
        <5>1. mem'[i] = mem[i] /\ mem'[j] = mem[j] /\ mem[i][2] \in Nat /\ mem[i][2] <= bp
          BY <1>1, <2>3, <2>4, <3>3, <3>5, <4>1
        <5>2. mem[j][2] <= mem[i][2]
          BY <3>5, <4>1 DEF StackInv, Bases
        <5>3. bp' \in Int
          BY <1>1, <2>2
        <5> QED
          BY <1>1, <3>2, <5>1, <5>2, <5>3
    <3> QED
      BY <3>1, <3>4, <3>5
  <2>7. StackTypeOK'
    <3>1. pc' \in {INT} \cup 0 .. Sites - 1
      BY <2>2, StackAssumption DEF Entry
    <3>2. size \in UInt \ {0} /\ sp \in UInt /\ bp' \in 0 .. size
      BY <1>1, <1>2, <2>2 DEF StackInv, StackTypeOK
    <3> QED
      BY <1>2, <2>1, <2>2, <2>3, <3>1, <3>2 DEF StackTypeOK
  <2>8. Room'
    BY <1>1, <1>2, <1>3, <2>1, <2>2 DEF Room
  <2> QED
    BY <1>1, <1>2, <2>1, <2>2, <2>5, <2>6, <2>7, <2>8 DEF Inv, StackInv, StacksApart
<1> QED
  BY <1>1, <1>4, <1>5, <1>6

LEMMA InvRestore ==
  ASSUME StackInv, mode = "run", NEW m \in [0 .. size - 1 -> Words], NEW n \in Nat, Restore(m, n),
         bp + n <= rsp, bp + n <= MaxSp, \A i \in rsp .. size - 1 : m[i] = mem[i]
  PROVE  Inv'
<1>1. /\ size \in Nat /\ rsp \in Nat /\ bp \in Nat /\ rsp <= size /\ MaxSp \in Nat /\ MaxDepth \in Nat
  BY LimitFacts, StackAssumption DEF StackInv, StackTypeOK, StacksApart
<1>2. CASE rsp = size
  <2>1. /\ sp' = bp + n /\ mem' = Forget(m, bp + n, rsp) /\ mode' = "exit"
        /\ UNCHANGED <<size, rsp, bp, fun, pc>>
    BY <1>1, <1>2 DEF Restore
  <2>2. mem' \in [0 .. size - 1 -> Words] /\ \A i \in rsp .. size - 1 : mem'[i] = mem[i]
    BY <1>1, <1>2, <2>1, WordFacts DEF Forget
  <2>3. WholeFrames' /\ Bases'
    BY <2>1, <2>2, FramesKept
  <2>4. StackTypeOK'
    BY <1>1, <2>1, <2>2, LimitFacts DEF StackInv, StackTypeOK
  <2> QED
    BY <1>1, <1>2, <2>1, <2>3, <2>4 DEF Inv, StackInv, StacksApart, Room
<1>3. CASE rsp # size /\ rsp + 2 >= size
  <2>1. /\ sp' = bp + n /\ mem' = Forget(m, bp + n, rsp) /\ mode' = "wild"
        /\ UNCHANGED <<size, rsp, bp, fun, pc>>
    BY <1>1, <1>3 DEF Restore
  <2>2. mem' \in [0 .. size - 1 -> Words] /\ bp + n <= size
    BY <1>1, <1>3, <2>1, WordFacts DEF Forget
  <2> QED
    BY <1>1, <2>1, <2>2, LimitFacts DEF Inv, StackInv, StackTypeOK
<1>4. CASE rsp + 2 < size
  <2>1. /\ rsp + 3 <= Top /\ Top <= size /\ Top \in Nat
        /\ mem[rsp][2] \in Functions /\ mem[rsp + 1][2] \in 0 .. Sites - 1 /\ mem[rsp + 2][2] \in 0 .. bp
    BY <1>1, <1>4, TopFrame, DepthFacts
  <2>2. m[rsp] = mem[rsp] /\ m[rsp + 1] = mem[rsp + 1] /\ m[rsp + 2] = mem[rsp + 2]
    BY <1>1, <1>4
  <2>3. /\ sp' = bp + n /\ UNCHANGED size /\ fun' = mem[rsp][2] /\ pc' = After(mem[rsp + 1][2])
        /\ bp' = mem[rsp + 2][2] /\ rsp' = rsp + 3 /\ mode' = "run"
        /\ mem' = Forget(m, bp + n, rsp + 3)
    BY <1>1, <1>4, <2>2 DEF Restore
  <2>4. pc' \in 0 .. Sites - 1 /\ pc' # INT
    BY <2>1, <2>3, AfterSite
  <2>5. mem' \in [0 .. size - 1 -> Words] /\ \A i \in rsp + 3 .. size - 1 : mem'[i] = mem[i]
    BY <1>1, <2>1, <2>3, WordFacts DEF Forget
  <2>6. StackTypeOK'
    BY <1>1, <2>1, <2>3, <2>4, <2>5, LimitFacts DEF StackInv, StackTypeOK
  <2>7. Stray' = Stray /\ Top' = Top
    <3>1. (size - (rsp + 3)) % 3 = (size - rsp) % 3
      <4>1. size - (rsp + 3) = (size - rsp) - 3 /\ size - rsp \in Int
        BY <1>1
      <4> QED
        BY <4>1, ModThree
    <3> QED
      BY <1>1, <2>3, <3>1 DEF Stray, Top
  <2>8. \A i \in rsp' .. Top' - 1 : i \in rsp .. Top - 1 /\ (i - rsp') % 3 = (i - rsp) % 3 /\ mem'[i] = mem[i]
    <3> SUFFICES ASSUME NEW i \in rsp' .. Top' - 1
                 PROVE  i \in rsp .. Top - 1 /\ (i - rsp') % 3 = (i - rsp) % 3 /\ mem'[i] = mem[i]
      OBVIOUS
    <3>1. i \in rsp + 3 .. size - 1 /\ i < Top /\ i - rsp' = (i - rsp) - 3 /\ i - rsp \in Int
      BY <1>1, <2>1, <2>3, <2>7
    <3>2. (i - rsp') % 3 = (i - rsp) % 3
      BY <3>1, ModThree
    <3> QED
      BY <1>1, <2>1, <2>5, <3>1, <3>2
  <2>9. WholeFrames'
    BY <2>3, <2>8, <2>7 DEF StackInv, WholeFrames
  <2>10. Bases'
    <3>1. rsp + 2 \in rsp .. Top - 1 /\ (rsp + 2 - rsp) % 3 = 2
      BY <1>1, <2>1
    <3>2. \A i \in rsp' .. Top' - 1 : (i - rsp) % 3 = 2 => mem[i][2] <= mem[rsp + 2][2]
      <4> SUFFICES ASSUME NEW i \in rsp' .. Top' - 1, (i - rsp) % 3 = 2
                   PROVE  mem[i][2] <= mem[rsp + 2][2]
        OBVIOUS
      <4>1. i \in rsp .. Top - 1 /\ rsp + 2 <= i
        BY <1>1, <2>1, <2>3, <2>7
      <4> QED
        <5> DEFINE k == rsp + 2
        <5>1. k \in rsp .. Top - 1 /\ (k - rsp) % 3 = 2 /\ k <= i
          BY <1>1, <2>1, <3>1, <4>1
        <5> HIDE DEF k
        <5>2. mem[i][2] <= mem[k][2]
          BY <4>1, <5>1 DEF StackInv, Bases
        <5> QED
          BY <5>2 DEF k
    <3> QED
      BY <2>3, <2>8, <3>2 DEF StackInv, Bases
  <2> QED
    <3>1. bp' <= sp' /\ sp' <= MaxSp /\ size' - rsp' <= 3 * MaxDepth + 1
      <4>1. size - rsp <= 3 * MaxDepth + 1 /\ bp \in Nat
        BY <1>1 DEF StackInv, StackTypeOK, Room
      <4>2. bp' \in 0 .. bp /\ sp' = bp + n /\ size' = size /\ rsp' = rsp + 3
        BY <2>1, <2>3
      <4>3. size' - rsp' <= 3 * MaxDepth + 1
        BY <1>1, <4>1, <4>2
      <4> QED
        BY <4>1, <4>2, <4>3
    <3>2. Room'
      BY <2>3, <2>4, <3>1 DEF Room
    <3>3. StacksApart'
      BY <1>1, <2>1, <2>3 DEF StacksApart
    <3> QED
      BY <2>3, <2>6, <2>9, <2>10, <3>2, <3>3 DEF Inv, StackInv
<1> QED
  BY <1>1, <1>2, <1>3, <1>4

LEMMA InvReturn ==
  ASSUME StackInv, NEW n \in Nat, Return(n)
  PROVE  Inv'
<1>1. /\ size \in Nat /\ sp \in Nat /\ rsp \in Nat /\ bp \in Nat /\ rsp <= size /\ sp <= rsp
      /\ mem \in [0 .. size - 1 -> Words] /\ sp <= MaxSp /\ MaxSp \in Nat
  BY LimitFacts, StackAssumption DEF StackInv, StackTypeOK, StacksApart, Room
<1>2. n <= sp - bp /\ mode = "run"
  BY DEF Return, Running
<1> DEFINE m == Copy(mem, sp - n, n, bp)
           from == sp - n
<1>3. from \in Nat /\ bp <= from /\ from + n <= rsp /\ bp + n <= rsp /\ bp + n <= MaxSp /\ m = Copy(mem, from, n, bp)
  BY <1>1, <1>2
<1>4. Restore(m, n)
  BY DEF Return
<1> HIDE DEF m, from
<1>5. m \in [0 .. size - 1 -> Words] /\ \A i \in rsp .. size - 1 : m[i] = mem[i]
  BY <1>1, <1>3, CopyFacts
<1> QED
  BY <1>2, <1>3, <1>4, <1>5, InvRestore

LEMMA InvNative ==
  ASSUME StackInv, NEW n \in 0 .. 1, NEW vs \in [1 .. n -> Operands], RunNative(vs)
  PROVE  Inv'
<1>1. /\ size \in Nat /\ sp \in Nat /\ rsp \in Nat /\ bp \in Nat /\ rsp <= size /\ sp <= rsp
      /\ mem \in [0 .. size - 1 -> Words] /\ bp <= sp /\ sp <= MaxSp /\ MaxSp \in Nat /\ MaxDepth \in Nat
  BY LimitFacts, StackAssumption DEF StackInv, StackTypeOK, StacksApart, Room
<1>2. Len(vs) = n /\ n \in Nat
  BY ShortSequence
<1>3. mode = "run" /\ pc = INT /\ rsp + 2 < size /\ bp + n <= MaxSp
  BY <1>1, <1>2 DEF RunNative, StackInv, Room
<1>4. CASE sp + n <= rsp
  <2> DEFINE m == Copy(Store(vs), sp, n, bp)
  <2>1. Restore(m, n)
    BY <1>1, <1>2, <1>4 DEF RunNative
  <2>2. Store(vs) \in [0 .. size - 1 -> Words] /\ \A i \in rsp .. size - 1 : Store(vs)[i] = mem[i]
    BY <1>1, <1>2, <1>4, StoreFacts
  <2>3. m \in [0 .. size - 1 -> Words] /\ \A i \in rsp .. size - 1 : m[i] = mem[i]
    <3> DEFINE st == Store(vs)
    <3>1. st \in [0 .. size - 1 -> Words]
      BY <2>2
    <3> HIDE DEF st
    <3>2. /\ Copy(st, sp, n, bp) \in [0 .. size - 1 -> Words]
          /\ \A i \in bp + n .. size - 1 : Copy(st, sp, n, bp)[i] = st[i]
      BY <1>1, <1>2, <1>4, <3>1, CopyFacts
    <3> QED
      BY <1>1, <1>2, <1>4, <2>2, <3>2 DEF st
  <2> HIDE DEF m
  <2> QED
    BY <1>1, <1>2, <1>3, <1>4, <2>1, <2>3, InvRestore
<1>5. CASE sp + n > rsp
  <2>1. Overflow
    BY <1>1, <1>2, <1>5 DEF RunNative
  <2>2. size <= MaxSp + 3 * MaxDepth + 1
    BY <1>1, <1>5 DEF StackInv, Room
  <2> QED
    BY <2>1, <2>2, Overflows DEF Inv, StackInv
<1> QED
  BY <1>1, <1>2, <1>4, <1>5

\* The environments, or the one word, move to the new top with what they hold.
LEMMA GrowFacts ==
  ASSUME StackInv, Grow
  PROVE  /\ size' = 2 * size /\ rsp' = (IF rsp < size THEN size + rsp ELSE 2 * size - 1)
         /\ UNCHANGED <<sp, bp, fun, pc>>
         /\ mode = "grow" /\ mode' = "run" /\ size' \in UInt
         /\ mem' \in [0 .. size' - 1 -> Words]
         /\ \A i \in 0 .. sp - 1 : mem'[i] = mem[i]
         /\ \A i \in rsp' .. size' - 1 : i - size \in 0 .. size - 1 /\ mem'[i] = mem[i - size]
         /\ Stray' = (IF rsp < size THEN Stray ELSE 1)
         /\ Top' = (IF rsp < size THEN size + Top ELSE rsp')
<1>1. /\ size \in Nat \ {0} /\ sp \in Nat /\ rsp \in Nat /\ rsp <= size /\ sp <= rsp
      /\ mem \in [0 .. size - 1 -> Words] /\ MaxSp \in Nat /\ MaxDepth \in Nat
  BY LimitFacts, StackAssumption DEF StackInv, StackTypeOK, StacksApart
<1>2. mode = "grow" /\ size <= MaxSp + 3 * MaxDepth + 1
  BY DEF Grow, StackInv, Room
<1> PICK top : top = (IF rsp < size THEN size + rsp ELSE 2 * size - 1)
  OBVIOUS
<1> PICK from : from = (IF rsp < size THEN rsp ELSE size - 1)
  OBVIOUS
<1>3. /\ size' = 2 * size /\ rsp' = top /\ UNCHANGED <<sp, bp, fun, pc>> /\ mode' = "run"
      /\ mem' = [i \in 0 .. 2 * size - 1 |->
                   CASE i < sp -> mem[i] [] i >= top -> mem[from + (i - top)] [] OTHER -> Junk]
  BY DEF Grow
<1>4. size' \in UInt
  BY <1>1, <1>2, <1>3, LimitFacts
<1>5. top \in Nat /\ top - from = size /\ from \in 0 .. size - 1 /\ sp <= top
  BY <1>1
<1>6. ASSUME NEW i \in 0 .. 2 * size - 1
      PROVE  /\ i < sp => mem'[i] = mem[i] /\ i \in 0 .. size - 1
             /\ i >= top => mem'[i] = mem[i - size] /\ i - size \in 0 .. size - 1
             /\ i >= sp /\ i < top => mem'[i] = Junk
  <2>1. CASE i < sp
    <3>1. i \in 0 .. size - 1 /\ ~(i >= top) /\ ~(i >= sp)
      BY <1>1, <1>5, <2>1
    <3>2. mem'[i] = mem[i]
      BY <1>3, <2>1, <3>1
    <3> QED
      BY <3>1, <3>2
  <2>2. CASE i >= top
    <3>1. from + (i - top) = i - size /\ ~(i < sp) /\ i - size \in 0 .. size - 1
      BY <1>1, <1>5, <2>2
    <3> QED
      BY <1>1, <1>3, <2>2, <3>1
  <2>3. CASE i >= sp /\ i < top
    BY <1>1, <1>3, <1>5, <2>3
  <2> QED
    BY <1>1, <1>5, <2>1, <2>2, <2>3
<1>7. mem' \in [0 .. size' - 1 -> Words]
  <2>1. \A i \in 0 .. size' - 1 : mem'[i] \in Words
    BY <1>1, <1>3, <1>5, <1>6, WordFacts
  <2>2. mem' = [i \in 0 .. size' - 1 |-> mem'[i]]
    BY <1>3
  <2> QED
    BY <2>1, <2>2
<1>8. /\ \A i \in 0 .. sp - 1 : mem'[i] = mem[i]
      /\ \A i \in rsp' .. size' - 1 : i - size \in 0 .. size - 1 /\ mem'[i] = mem[i - size]
  <2>1. \A i \in 0 .. sp - 1 : i \in 0 .. 2 * size - 1 /\ i < sp
    BY <1>1
  <2>2. \A i \in rsp' .. size' - 1 : i \in 0 .. 2 * size - 1 /\ i >= top
    BY <1>1, <1>3, <1>5
  <2> QED
    BY <1>6, <2>1, <2>2
<1>9. /\ Stray' = (IF rsp < size THEN Stray ELSE 1)
      /\ Top' = (IF rsp < size THEN size + Top ELSE rsp')
  <2>1. CASE rsp < size
    <3>1. size' - rsp' = size - rsp
      BY <1>1, <1>3, <2>1
    <3>2. Stray' = Stray
      BY <3>1 DEF Stray
    <3>3. Top' = 2 * size - Stray /\ Top = size - Stray /\ Stray \in Int
      BY <1>1, <1>3, <3>2, DepthFacts DEF Top
    <3> QED
      BY <1>1, <2>1, <3>2, <3>3
  <2>2. CASE rsp = size
    <3>1. size' - rsp' = 1 /\ rsp' = size' - 1
      BY <1>1, <1>3, <2>2
    <3> QED
      BY <1>1, <2>2, <3>1 DEF Stray, Top
  <2> QED
    BY <1>1, <2>1, <2>2
<1> QED
  BY <1>2, <1>3, <1>4, <1>7, <1>8, <1>9

LEMMA InvGrow ==
  ASSUME StackInv, Grow
  PROVE  StackInv'
<1>1. /\ size \in Nat \ {0} /\ sp \in Nat /\ rsp \in Nat /\ rsp <= size /\ sp <= rsp
      /\ bp \in Nat /\ bp <= sp /\ MaxDepth \in Nat /\ Stray \in {0, 1} /\ Top \in Nat /\ Top <= size
  <2>1. /\ size \in Nat \ {0} /\ sp \in Nat /\ rsp \in Nat /\ rsp <= size /\ sp <= rsp
        /\ bp \in Nat /\ bp <= sp /\ MaxDepth \in Nat
    BY LimitFacts, StackAssumption DEF StackInv, StackTypeOK, StacksApart, Room
  <2> QED
    BY <2>1, DepthFacts
<1>2. ASSUME NEW i \in rsp' .. Top' - 1
      PROVE  /\ i - size \in rsp .. Top - 1 /\ mem'[i] = mem[i - size]
             /\ (i - rsp') % 3 = ((i - size) - rsp) % 3
  <2>1. rsp < size /\ rsp' = size + rsp /\ Top' = size + Top /\ size' = 2 * size
    BY <1>1, <1>2, GrowFacts
  <2>2. i \in rsp' .. size' - 1 /\ i - size \in rsp .. Top - 1 /\ i - rsp' = (i - size) - rsp
    BY <1>1, <1>2, <2>1
  <2> QED
    BY <2>2, GrowFacts
<1>3. WholeFrames'
  <2>1. Stray' \in {0, 1}
    BY <1>1, GrowFacts
  <2> QED
    BY <1>2, <2>1 DEF StackInv, WholeFrames
<1>4. Bases'
  <2> SUFFICES ASSUME NEW i \in rsp' .. Top' - 1, NEW j \in rsp' .. Top' - 1,
                      (i - rsp') % 3 = 2, (j - rsp') % 3 = 2, i <= j
               PROVE  mem'[i][2] <= bp' /\ mem'[j][2] <= mem'[i][2]
    BY DEF Bases
  <2>1. /\ i - size \in rsp .. Top - 1 /\ mem'[i] = mem[i - size] /\ ((i - size) - rsp) % 3 = 2
        /\ j - size \in rsp .. Top - 1 /\ mem'[j] = mem[j - size] /\ ((j - size) - rsp) % 3 = 2
    BY <1>2
  <2>2. i \in Int /\ j \in Int /\ i - size <= j - size /\ bp' = bp
    BY <1>1, GrowFacts
  <2> QED
    BY <2>1, <2>2 DEF StackInv, Bases
<1>5. StackTypeOK'
  BY <1>1, GrowFacts, LimitFacts DEF StackInv, StackTypeOK
<1>6. Room' /\ StacksApart'
  BY <1>1, GrowFacts DEF StackInv, Room, StacksApart
<1> QED
  BY <1>3, <1>4, <1>5, <1>6, GrowFacts DEF StackInv

LEMMA StackStep ==
  ASSUME Inv, [StackNext]_stackVars
  PROVE  Inv'
<1>1. CASE UNCHANGED stackVars
  BY <1>1 DEF stackVars, regs, Inv, StackInv, StackTypeOK, StacksApart, WholeFrames, Stray, Top, Bases, Room
<1>2. ASSUME StackNext, mode = "wild" PROVE UNCHANGED stackVars
  BY <1>2 DEF StackNext, Push, RunNative, Pop, Return, Move, Jump, Call, RCall, Grow, Running, Exited
<1> SUFFICES ASSUME StackInv, StackNext PROVE Inv'
  BY <1>1, <1>2 DEF Inv
<1>3. StackInv' => Inv'
  BY DEF Inv, StackInv
<1>4. ASSUME NEW n \in 0 .. 2, NEW vs \in [1 .. n -> Operands], Push(vs) PROVE Inv'
  BY <1>3, <1>4, InvPush
<1>5. ASSUME NEW n \in 0 .. 1, NEW vs \in [1 .. n -> Operands], RunNative(vs) PROVE Inv'
  BY <1>5, InvNative
<1>6. ASSUME NEW n \in 0 .. 2, Pop(n) \/ Return(n) PROVE Inv'
  BY <1>3, <1>6, InvPop, InvReturn
<1>7. ASSUME NEW k \in 0 .. 1, NEW v \in Operands, Move(k, v) PROVE Inv'
  BY <1>3, <1>7, InvMove
<1>8. ASSUME NEW q \in 0 .. Sites - 1, Jump(q) PROVE Inv'
  BY <1>3, <1>8, InvJump
<1>9. ASSUME NEW f \in Functions, Call(f) \/ RCall(f) PROVE Inv'
  BY <1>3, <1>9, InvCall, InvRCall
<1>10. CASE Grow
  BY <1>3, <1>10, InvGrow
<1> QED
  BY <1>1, <1>4, <1>5, <1>6, <1>7, <1>8, <1>9, <1>10 DEF StackNext, Exited

LEMMA StackInvariant == StackSpec => []Inv
<1>1. StackInit => Inv
  BY InvInit DEF Inv, StackInv
<1>2. Inv /\ [StackNext]_stackVars => Inv'
  BY StackStep
<1> QED
  BY <1>1, <1>2, PTL DEF StackSpec

(* Every register and every word of the memory keeps its type, whatever is   *)
(* pushed, called, returned and grown: for any functions, any program and    *)
(* any sizes, also after the first access outside the memory.                *)
THEOREM TypeCorrect == StackSpec => []StackTypeOK
<1>1. Inv => StackTypeOK
  BY DEF Inv
<1> QED
  BY <1>1, StackInvariant, PTL

(* The two stacks never overlap (StacksApart) before an access is outside    *)
(* the memory: no push and no saved environment writes over the other stack. *)
THEOREM NeverOverlap == StackSpec => []StacksApart
<1>1. Inv => StacksApart
  BY DEF Inv, StackInv, StacksApart
<1> QED
  BY <1>1, StackInvariant, PTL

(* From rsp up there are whole environments, each of the words that          *)
(* vm_restore_environment takes for its own, then at most one stray word.    *)
THEOREM FramesWhole == StackSpec => []WholeFrames
<1>1. Inv => WholeFrames
  BY DEF Inv, StackInv, WholeFrames
<1> QED
  BY <1>1, StackInvariant, PTL

LEMMA EdgeStep ==
  ASSUME Inv, [StackNext]_stackVars
  PROVE  /\ mode # "wild" /\ mode' = "wild" => pc # INT /\ (rsp < 3 \/ (Stray = 1 /\ rsp = size - 1))
         /\ mode' # "wild" /\ Stray' # Stray => mode = "grow" /\ rsp = size
<1>1. CASE UNCHANGED stackVars
  BY <1>1 DEF stackVars, regs, Stray
<1> SUFFICES ASSUME StackInv, StackNext
             PROVE  \/ mode' # "wild" /\ (Stray' = Stray \/ (mode = "grow" /\ rsp = size))
                    \/ mode' = "wild" /\ pc # INT /\ (rsp < 3 \/ (Stray = 1 /\ rsp = size - 1))
  <2>1. mode = "wild" /\ StackNext => UNCHANGED stackVars
    BY DEF StackNext, Push, RunNative, Pop, Return, Move, Jump, Call, RCall, Grow, Running, Exited
  <2>2. [StackNext]_stackVars => StackNext \/ UNCHANGED stackVars
    OBVIOUS
  <2> QED
    BY <1>1, <2>1, <2>2 DEF Inv
<1>2. mode # "wild" /\ rsp \in Nat /\ size \in Nat /\ rsp <= size
  BY LimitFacts DEF StackInv, StackTypeOK, StacksApart
\* An environment is restored, from inside the memory unless rsp is at its last word.
<1>3. ASSUME mode = "run", NEW m, NEW n, Restore(m, n)
      PROVE  \/ mode' # "wild" /\ Stray' = Stray
             \/ mode' = "wild" /\ Stray = 1 /\ rsp = size - 1 /\ ~(rsp + 2 < size)
  <2>1. CASE rsp = size
    BY <1>2, <1>3, <2>1 DEF Restore, Stray
  <2>2. CASE rsp # size /\ rsp + 2 >= size
    <3>1. mode' = "wild"
      BY <1>2, <1>3, <2>2 DEF Restore
    <3>2. rsp = Top /\ Top = size - Stray /\ Stray \in {0, 1}
      BY <1>2, <2>2, DepthFacts
    <3> QED
      BY <1>2, <2>2, <3>1, <3>2
  <2>3. CASE rsp + 2 < size
    <3>1. mode' = "run" /\ rsp' = rsp + 3 /\ size' = size
      BY <1>2, <1>3, <2>3 DEF Restore
    <3>2. size - (rsp + 3) = (size - rsp) - 3 /\ size - rsp \in Int
      BY <1>2
    <3>3. Stray' = Stray
      BY <3>1, <3>2, ModThree DEF Stray
    <3> QED
      BY <3>1, <3>3
  <2> QED
    BY <1>2, <2>1, <2>2, <2>3
<1>4. Overflow => mode' # "wild" /\ Stray' = Stray
  BY DEF Overflow, regs, Stray
<1>5. ASSUME NEW n \in 0 .. 2, NEW vs \in [1 .. n -> Operands], Push(vs)
      PROVE  mode' # "wild" /\ Stray' = Stray
  BY <1>2, <1>4, <1>5 DEF Push, Stray
<1>6. ASSUME NEW n \in 0 .. 1, NEW vs \in [1 .. n -> Operands], RunNative(vs)
      PROVE  mode' # "wild" /\ Stray' = Stray
  <2>1. mode = "run" /\ rsp + 2 < size
    BY <1>2, <1>6 DEF RunNative, StackInv, Room
  <2> QED
    BY <1>3, <1>4, <1>6, <2>1 DEF RunNative
<1>7. ASSUME NEW n \in 0 .. 2, Pop(n) \/ Return(n)
      PROVE  \/ mode' # "wild" /\ Stray' = Stray
             \/ mode' = "wild" /\ pc # INT /\ Stray = 1 /\ rsp = size - 1
  <2>1. CASE Pop(n)
    BY <1>2, <2>1 DEF Pop, Stray
  <2>2. CASE Return(n)
    BY <1>3, <2>2 DEF Return, Running
  <2> QED
    BY <1>7, <2>1, <2>2
<1>8. ASSUME NEW k \in 0 .. 1, NEW v \in Operands, Move(k, v) PROVE mode' # "wild" /\ Stray' = Stray
  BY <1>2, <1>8 DEF Move, Stray
<1>9. ASSUME NEW q \in 0 .. Sites - 1, Jump(q) PROVE mode' # "wild" /\ Stray' = Stray
  BY <1>2, <1>9 DEF Jump, Stray
<1>10. ASSUME NEW f \in Functions, Call(f)
       PROVE  \/ mode' # "wild" /\ Stray' = Stray
              \/ mode' = "wild" /\ pc # INT /\ rsp < 3
  <2>1. CASE SaveOverflows
    BY <1>4, <1>10, <2>1 DEF Call
  <2>2. CASE ~SaveOverflows /\ rsp < 3
    BY <1>10, <2>2 DEF Call, Running
  <2>3. CASE ~SaveOverflows /\ rsp >= 3
    <3>1. mode' = "run" /\ rsp' = Wrap(rsp - 3) /\ size' = size
      BY <1>2, <1>10, <2>3 DEF Call, Running
    <3>2. Wrap(rsp - 3) = rsp - 3
      BY <1>2, <2>3, LimitFacts DEF StackInv, StackTypeOK
    <3>3. size - (rsp - 3) = (size - rsp) + 3 /\ size - rsp \in Int
      BY <1>2
    <3>4. Stray' = Stray
      BY <3>1, <3>2, <3>3, ModThree DEF Stray
    <3> QED
      BY <3>1, <3>4
  <2> QED
    BY <1>2, <2>1, <2>2, <2>3
<1>11. ASSUME NEW f \in Functions, RCall(f) PROVE mode' # "wild" /\ Stray' = Stray
  BY <1>2, <1>11 DEF RCall, Stray
<1>12. CASE Grow
  BY <1>2, <1>12, GrowFacts
<1>13. CASE Exited
  BY <1>2, <1>13 DEF Exited, stackVars, regs, Stray
<1> QED
  BY <1>5, <1>6, <1>7, <1>8, <1>9, <1>10, <1>11, <1>12, <1>13 DEF StackNext

(* The two edges are the only ones: memory is left only by a call with rsp   *)
(* below three (vm_exec.h:12) or by the return of the first activation past  *)
(* a stray word (vm_exec.h:26), which only a growth without environments     *)
(* leaves (vm_thread.h:71-75).  A program that meets neither, whatever else  *)
(* it does, never leaves its memory.                                         *)
THEOREM EdgesOnly == StackSpec => OnlyTwoEdges
<1>1. Inv /\ [StackNext]_stackVars =>
        [/\ mode # "wild" /\ mode' = "wild" => pc # INT /\ (rsp < 3 \/ (Stray = 1 /\ rsp = size - 1))
         /\ mode' # "wild" /\ Stray' # Stray => mode = "grow" /\ rsp = size]_stackVars
  BY EdgeStep
<1> QED
  BY <1>1, StackInvariant, PTL DEF StackSpec, OnlyTwoEdges

-----------------------------------------------------------------------------
(* The two stacks that the memory stands for.                               *)

V == {w[2] : w \in Words}
F == [fun : V, pc : V, bp : V]

IsOperand(o) == o \in Seq(V) /\ Len(o) = sp /\ \A i \in 1 .. sp : o[i] = mem[i - 1][2]
IsFrames(q) == q \in Seq(F) /\ Len(q) = Depth /\ \A d \in 1 .. Depth : q[d] = Frame(Top - 3 * d)

LEMMA ValueFacts ==
  /\ \A w \in Words : w[2] \in V
  /\ Operands \subseteq V /\ Functions \subseteq V /\ 0 .. Sites - 1 \subseteq V /\ UInt \subseteq V
<1>1. \A w \in Words : w[2] \in V
  BY DEF V
<1>2. ASSUME NEW v \in Operands PROVE v \in V
  <2>1. Val(v) \in Words /\ Val(v)[2] = v
    BY WordFacts DEF Val
  <2> QED
    BY <1>1, <2>1
<1>3. ASSUME NEW t, NEW v, <<t, v>> \in Words PROVE v \in V
  <2>1. <<t, v>>[2] = v
    OBVIOUS
  <2> QED
    BY <1>1, <1>3, <2>1
<1>4. Functions \subseteq V /\ 0 .. Sites - 1 \subseteq V /\ UInt \subseteq V
  BY <1>3, WordFacts
<1> QED
  BY <1>1, <1>2, <1>4

LEMMA OperandFacts == StackInv => IsOperand(Operand)
<1> SUFFICES ASSUME StackInv PROVE IsOperand(Operand)
  OBVIOUS
<1>1. /\ sp \in Nat /\ size \in Nat /\ sp <= size /\ mem \in [0 .. size - 1 -> Words]
  BY LimitFacts DEF StackInv, StackTypeOK, StacksApart
<1>2. \A i \in 1 .. sp : mem[i - 1][2] \in V
  BY <1>1, ValueFacts
<1>3. Operand \in [1 .. sp -> V] /\ \A i \in 1 .. sp : Operand[i] = mem[i - 1][2]
  BY <1>2 DEF Operand
<1> QED
  BY <1>1, <1>3, ShortSequence DEF IsOperand

LEMMA OperandFactsNext == (StackInv => IsOperand(Operand))'
BY OperandFacts, PTL

LEMMA DepthNow == StackInv => Top - rsp = 3 * Depth /\ Depth \in Nat
BY DepthFacts

LEMMA DepthNext == (StackInv => Top - rsp = 3 * Depth /\ Depth \in Nat)'
BY DepthNow, PTL

LEMMA FrameFacts == StackInv => IsFrames(Frames)
<1> SUFFICES ASSUME StackInv PROVE IsFrames(Frames)
  OBVIOUS
<1>1. /\ rsp \in Nat /\ size \in Nat /\ mem \in [0 .. size - 1 -> Words]
      /\ Depth \in Nat /\ Top - rsp = 3 * Depth /\ Top \in Nat /\ Top <= size
  BY LimitFacts, DepthFacts DEF StackInv, StackTypeOK, StacksApart
<1>2. ASSUME NEW d \in 1 .. Depth PROVE Frame(Top - 3 * d) \in F
  <2> DEFINE i == Top - 3 * d
  <2>1. i \in 0 .. size - 1 /\ i + 1 \in 0 .. size - 1 /\ i + 2 \in 0 .. size - 1
    BY <1>1
  <2> HIDE DEF i
  <2>2. mem[i][2] \in V /\ mem[i + 1][2] \in V /\ mem[i + 2][2] \in V
    BY <1>1, <2>1, ValueFacts
  <2>3. Frame(i) \in F
    BY <2>2 DEF Frame, F
  <2> QED
    BY <2>3 DEF i
<1>3. Frames \in [1 .. Depth -> F] /\ \A d \in 1 .. Depth : Frames[d] = Frame(Top - 3 * d)
  BY <1>2 DEF Frames
<1> QED
  BY <1>1, <1>3, ShortSequence DEF IsFrames

LEMMA FrameFactsNext == (StackInv => IsFrames(Frames))'
BY FrameFacts, PTL

LEMMA FramesSame ==
  ASSUME StackInv, StackInv', UNCHANGED <<size, rsp>>, \A i \in rsp .. size - 1 : mem'[i] = mem[i]
  PROVE  Frames' = Frames
<1>1. /\ size \in Nat /\ rsp \in Nat /\ Depth \in Nat /\ Top - rsp = 3 * Depth
      /\ Top \in Nat /\ Top <= size /\ Depth' = Depth /\ Top' = Top
  BY LimitFacts, DepthFacts DEF StackInv, StackTypeOK, StacksApart, Depth, Top, Stray
<1>2. ASSUME NEW d \in 1 .. Depth PROVE Frame(Top - 3 * d)' = Frame(Top - 3 * d)
  <2> DEFINE i == Top - 3 * d
  <2>1. i \in rsp .. size - 1 /\ i + 1 \in rsp .. size - 1 /\ i + 2 \in rsp .. size - 1 /\ Top' - 3 * d = i
    BY <1>1
  <2> HIDE DEF i
  <2>2. mem'[i] = mem[i] /\ mem'[i + 1] = mem[i + 1] /\ mem'[i + 2] = mem[i + 2]
    BY <2>1
  <2>3. Frame(Top - 3 * d)' = [fun |-> mem'[i][2], pc |-> mem'[i + 1][2], bp |-> mem'[i + 2][2]]
    BY <2>1 DEF Frame
  <2> QED
    BY <2>2, <2>3 DEF Frame, i
<1> QED
  BY <1>1, <1>2 DEF Frames

LEMMA ConcatFacts ==
  ASSUME NEW S, NEW a \in Seq(S), NEW b \in Seq(S)
  PROVE  /\ a \o b \in Seq(S) /\ Len(a \o b) = Len(a) + Len(b)
         /\ \A i \in 1 .. Len(a) : (a \o b)[i] = a[i]
         /\ \A i \in 1 .. Len(b) : (a \o b)[Len(a) + i] = b[i]
<1>1. Len(a) \in Nat /\ Len(b) \in Nat
  OBVIOUS
<1>2. ASSUME NEW i \in 1 .. Len(b) PROVE (a \o b)[Len(a) + i] = b[i]
  <2> DEFINE j == Len(a) + i
  <2>1. j \in 1 .. Len(a) + Len(b) /\ ~(j <= Len(a)) /\ j - Len(a) = i
    BY <1>1
  <2> HIDE DEF j
  <2>2. (a \o b)[j] = b[i]
    BY <2>1, ConcatProperties
  <2> QED
    BY <2>2 DEF j
<1> QED
  BY <1>1, <1>2, ConcatProperties

\* The last n of a sequence, above its first k.
Kept(o, k, n) == SubSeq(o, 1, k) \o SubSeq(o, Len(o) - n + 1, Len(o))

LEMMA KeepFacts ==
  ASSUME NEW S, NEW o \in Seq(S), NEW k \in Nat, NEW n \in Nat, k + n <= Len(o)
  PROVE  /\ Kept(o, k, n) \in Seq(S) /\ Len(Kept(o, k, n)) = k + n
         /\ \A i \in 1 .. k : Kept(o, k, n)[i] = o[i]
         /\ \A i \in k + 1 .. k + n : Kept(o, k, n)[i] = o[Len(o) - n + (i - k)]
<1> DEFINE a == SubSeq(o, 1, k)
           b == SubSeq(o, Len(o) - n + 1, Len(o))
<1>1. Len(o) \in Nat /\ \A i \in 1 .. Len(o) : o[i] \in S
  OBVIOUS
<1>2. a \in Seq(S) /\ Len(a) = k /\ \A i \in 1 .. k : a[i] = o[i]
  <2>1. \A i \in 1 .. k : o[i] \in S
    BY <1>1
  <2> QED
    BY <2>1, SubSeqProperties
<1>3. b \in Seq(S) /\ Len(b) = n /\ \A i \in 1 .. n : b[i] = o[Len(o) - n + i]
  <2> DEFINE m == Len(o) - n + 1
  <2>1. m \in Int /\ Len(o) \in Int /\ (\A i \in m .. Len(o) : o[i] \in S) /\ Len(o) - m + 1 = n
        /\ \A i \in 1 .. n : m + i - 1 = Len(o) - n + i
    BY <1>1
  <2> HIDE DEF m
  <2>2. /\ SubSeq(o, m, Len(o)) \in Seq(S)
        /\ Len(SubSeq(o, m, Len(o))) = IF m <= Len(o) THEN Len(o) - m + 1 ELSE 0
        /\ \A i \in 1 .. Len(o) - m + 1 : SubSeq(o, m, Len(o))[i] = o[m + i - 1]
    BY <2>1, SubSeqProperties
  <2>3. b = SubSeq(o, m, Len(o))
    BY DEF m
  <2> HIDE DEF b
  <2>4. b \in Seq(S) /\ Len(b) = n
    BY <1>1, <2>1, <2>2, <2>3
  <2>5. ASSUME NEW i \in 1 .. n PROVE b[i] = o[Len(o) - n + i]
    <3>1. m + i - 1 = Len(o) - n + i /\ i \in 1 .. Len(o) - m + 1
      BY <2>1
    <3>2. SubSeq(o, m, Len(o))[i] = o[m + i - 1]
      BY <2>2, <3>1
    <3> QED
      BY <2>3, <3>1, <3>2
  <2> QED
    BY <2>4, <2>5
<1> PICK r : r = Kept(o, k, n)
  OBVIOUS
<1>4. r = a \o b
  BY DEF Kept
<1> HIDE DEF a, b
<1>5. r \in Seq(S) /\ Len(r) = k + n
  <2>1. a \o b \in Seq(S) /\ Len(a \o b) = Len(a) + Len(b)
    BY <1>2, <1>3, ConcatFacts
  <2> QED
    BY <1>2, <1>3, <1>4, <2>1
<1>6. ASSUME NEW i \in 1 .. k PROVE r[i] = o[i]
  <2>1. i \in 1 .. Len(a)
    BY <1>2
  <2>2. (a \o b)[i] = a[i]
    BY <1>2, <1>3, <2>1, ConcatFacts
  <2> QED
    BY <1>2, <1>4, <2>2
<1>7. ASSUME NEW i \in k + 1 .. k + n PROVE r[i] = o[Len(o) - n + (i - k)]
  <2> PICK j : j = i - k
    OBVIOUS
  <2>1. j \in 1 .. Len(b) /\ Len(a) + j = i
    BY <1>2, <1>3
  <2>2. (a \o b)[Len(a) + j] = b[j]
    <3>1. a \in Seq(S) /\ b \in Seq(S)
      BY <1>2, <1>3
    <3>2. \A h \in 1 .. Len(b) : (a \o b)[Len(a) + h] = b[h]
      BY <3>1, ConcatFacts
    <3> QED
      BY <2>1, <3>2
  <2>3. r[i] = b[j]
    BY <1>4, <2>1, <2>2
  <2>4. b[j] = o[Len(o) - n + j]
    BY <1>3, <2>1
  <2> QED
    BY <2>3, <2>4
<1> QED
  BY <1>5, <1>6, <1>7

\* A sequence that agrees with the next memory is the next stack of operands.
LEMMA OperandIs ==
  ASSUME StackInv', NEW S, NEW o \in Seq(S), Len(o) = sp',
         \A i \in 1 .. sp' : o[i] = mem'[i - 1][2]
  PROVE  Operand' = o
<1>1. Operand' = [i \in 1 .. sp' |-> mem'[i - 1][2]]
  BY DEF Operand
<1>2. o = [i \in 1 .. sp' |-> o[i]]
  OBVIOUS
<1> HIDE DEF Operand
<1> QED
  BY <1>1, <1>2

\* The environment at i of a memory.
FrameOf(m, i) == [fun |-> m[i][2], pc |-> m[i + 1][2], bp |-> m[i + 2][2]]

LEMMA FramesHeld ==
  ASSUME StackInv, NEW u, u = Frames, NEW k, k = Depth
  PROVE  /\ u \in Seq(F) /\ Len(u) = k /\ k \in Nat
         /\ Top - rsp = 3 * k /\ Top \in Nat /\ Top <= size
         /\ \A d \in 1 .. k : u[d] = FrameOf(mem, Top - 3 * d)
<1>1. k \in Nat /\ Top - rsp = 3 * k /\ Top \in Nat /\ Top <= size
  BY DepthFacts
<1>2. u \in Seq(F) /\ Len(u) = k /\ \A d \in 1 .. k : u[d] = FrameOf(mem, Top - 3 * d)
  BY FrameFacts DEF IsFrames, Frame, FrameOf
<1> QED
  BY <1>1, <1>2

LEMMA FramesAre ==
  ASSUME StackInv', NEW S, NEW q \in Seq(S), Len(q) = Depth',
         \A d \in 1 .. Depth' : q[d] = FrameOf(mem', Top' - 3 * d)
  PROVE  Frames' = q
<1>1. Frames' = [d \in 1 .. Depth' |-> FrameOf(mem', Top' - 3 * d)]
  BY DEF Frames, Frame, FrameOf
<1>2. q = [d \in 1 .. Depth' |-> q[d]]
  OBVIOUS
<1> QED
  BY <1>1, <1>2

LEMMA OverflowStutters ==
  ASSUME mode = "run", Overflow
  PROVE  UNCHANGED Abstract!vars
BY DEF Overflow, regs, Abstract!vars, Operand, Frames, Frame, Depth, Top, Stray

\* An instruction that only changes the operands goes on to the next one.
LEMMA StepMaps ==
  ASSUME StackInv, StackInv', mode = "run", pc # INT, pc' = After(pc),
         UNCHANGED <<size, rsp, bp, fun, mode>>, \A i \in rsp .. size - 1 : mem'[i] = mem[i],
         NEW o, Operand' = o
  PROVE  Abstract!Step(o)
<1>1. Frames' = Frames
  BY FramesSame
<1>2. After(pc) = (pc + 1) % Sites
  BY AfterSite DEF StackInv, StackTypeOK
<1> QED
  BY <1>1, <1>2 DEF Abstract!Step, Abstract!After

LEMMA MapJump ==
  ASSUME StackInv, StackInv', NEW p \in 0 .. Sites - 1, Jump(p)
  PROVE  Abstract!Jump(p)
<1>1. /\ UNCHANGED <<mem, size, sp, rsp, bp, fun, mode>> /\ pc' = p /\ mode = "run"
  BY DEF Jump, Running
<1>2. Operand' = Operand
  BY <1>1 DEF Operand
<1>3. Frames' = Frames
  BY <1>1, FramesSame
<1> QED
  BY <1>1, <1>2, <1>3 DEF Abstract!Jump

LEMMA MapPush ==
  ASSUME StackInv, StackInv', NEW n \in Nat, NEW vs \in [1 .. n -> Operands], Push(vs)
  PROVE  Abstract!Extend(vs) \/ UNCHANGED Abstract!vars
<1>1. /\ size \in Nat /\ sp \in Nat /\ rsp \in Nat /\ rsp <= size /\ sp <= rsp
  BY LimitFacts DEF StackInv, StackTypeOK, StacksApart
<1>2. Len(vs) = n /\ vs \in Seq(V) /\ \A i \in 1 .. n : vs[i] \in V
  <2>1. \A i \in 1 .. n : vs[i] \in V
    BY ValueFacts
  <2>2. vs \in [1 .. n -> V]
    BY <2>1
  <2> QED
    BY <2>1, <2>2, ShortSequence
<1>3. CASE sp + n <= rsp
  <2>1. /\ mem' = Store(vs) /\ sp' = sp + n /\ pc' = After(pc)
        /\ UNCHANGED <<size, rsp, bp, fun, mode>> /\ mode = "run" /\ pc # INT
    BY <1>1, <1>2, <1>3 DEF Push, Overflow, Running
  <2>2. /\ \A i \in 0 .. sp - 1 : mem'[i] = mem[i]
        /\ \A i \in rsp .. size - 1 : mem'[i] = mem[i]
        /\ \A i \in 1 .. n : mem'[sp + i - 1] = Val(vs[i])
    BY <1>1, <1>3, <2>1, StoreFacts
  <2> PICK o : o = Operand \o vs
    OBVIOUS
  <2> PICK u : u = Operand
    OBVIOUS
  <2>3. u \in Seq(V) /\ Len(u) = sp /\ \A i \in 1 .. sp : u[i] = mem[i - 1][2]
    BY OperandFacts DEF IsOperand
  <2>4. /\ o \in Seq(V) /\ Len(o) = sp + n
        /\ \A i \in 1 .. sp : o[i] = u[i]
        /\ \A i \in 1 .. n : o[sp + i] = vs[i]
    <3>1. u \in Seq(V) /\ vs \in Seq(V) /\ o = u \o vs
      BY <1>2, <2>3
    <3>2. /\ o \in Seq(V) /\ Len(o) = Len(u) + Len(vs)
          /\ \A i \in 1 .. Len(u) : o[i] = u[i]
          /\ \A i \in 1 .. Len(vs) : o[Len(u) + i] = vs[i]
      BY <3>1, ConcatFacts
    <3> QED
      BY <1>2, <2>3, <3>2
  <2>5. \A i \in 1 .. sp' : o[i] = mem'[i - 1][2]
    <3> SUFFICES ASSUME NEW i \in 1 .. sp + n PROVE o[i] = mem'[i - 1][2]
      BY <2>1
    <3>1. CASE i <= sp
      <4>1. i \in 1 .. sp /\ i - 1 \in 0 .. sp - 1
        BY <1>1, <3>1
      <4> QED
        BY <2>2, <2>3, <2>4, <4>1
    <3>2. CASE i > sp
      <4> DEFINE k == i - sp
      <4>1. k \in 1 .. n /\ sp + k = i /\ sp + k - 1 = i - 1
        BY <1>1, <3>2
      <4> HIDE DEF k
      <4>2. o[sp + k] = vs[k] /\ mem'[sp + k - 1] = Val(vs[k])
        BY <2>2, <2>4, <4>1
      <4>3. o[i] = vs[k] /\ mem'[i - 1] = Val(vs[k])
        BY ONLY <4>1, <4>2
      <4> QED
        BY ONLY <4>3 DEF Val
    <3>3. i <= sp \/ i > sp
      BY <1>1
    <3> QED
      BY ONLY <3>1, <3>2, <3>3
  <2>6. Operand' = o
    BY <2>1, <2>4, <2>5, OperandIs
  <2>7. Abstract!Step(o)
    BY <2>1, <2>2, <2>6, StepMaps
  <2> QED
    BY <2>7 DEF Abstract!Extend
<1>4. CASE sp + n > rsp
  <2>1. Overflow
    BY <1>1, <1>2, <1>4 DEF Push
  <2> QED
    BY <2>1, OverflowStutters DEF Push, Running
<1> QED
  BY <1>1, <1>3, <1>4
LEMMA MapPop ==
  ASSUME StackInv, StackInv', NEW n \in Nat, Pop(n)
  PROVE  n \in 0 .. Len(Operand) /\ Abstract!Drop(n)
<1>1. /\ size \in Nat /\ sp \in Nat /\ rsp \in Nat /\ bp \in Nat /\ rsp <= size /\ sp <= rsp
      /\ mem \in [0 .. size - 1 -> Words]
  BY LimitFacts DEF StackInv, StackTypeOK, StacksApart
<1>2. /\ sp' = sp - n /\ n <= sp - bp /\ mem' = Forget(mem, sp - n, rsp) /\ pc' = After(pc)
      /\ UNCHANGED <<size, rsp, bp, fun, mode>> /\ mode = "run" /\ pc # INT
  BY DEF Pop, Running
<1>3. /\ \A i \in 0 .. sp - n - 1 : mem'[i] = mem[i]
      /\ \A i \in rsp .. size - 1 : mem'[i] = mem[i]
  BY <1>1, <1>2 DEF Forget
<1> PICK u : u = Operand
  OBVIOUS
<1> PICK o : o = SubSeq(u, 1, sp - n)
  OBVIOUS
<1>4. u \in Seq(V) /\ Len(u) = sp /\ \A i \in 1 .. sp : u[i] = mem[i - 1][2] /\ u[i] \in V
  <2>1. u \in Seq(V) /\ Len(u) = sp /\ \A i \in 1 .. sp : u[i] = mem[i - 1][2]
    BY OperandFacts DEF IsOperand
  <2> QED
    BY <2>1
<1>5. o \in Seq(V) /\ Len(o) = sp - n /\ \A i \in 1 .. sp - n : o[i] = u[i]
  BY <1>1, <1>2, <1>4, SubSeqProperties
<1>6. \A i \in 1 .. sp' : o[i] = mem'[i - 1][2]
  <2> SUFFICES ASSUME NEW i \in 1 .. sp - n PROVE o[i] = mem'[i - 1][2]
    BY <1>2
  <2>1. i \in 1 .. sp /\ i - 1 \in 0 .. sp - n - 1
    BY <1>1, <1>2
  <2> QED
    BY <1>3, <1>4, <1>5, <2>1
<1>7. Operand' = o
  BY <1>2, <1>5, <1>6, OperandIs
<1>8. Abstract!Step(o)
  BY <1>2, <1>3, <1>7, StepMaps
<1> QED
  BY <1>1, <1>2, <1>4, <1>8 DEF Abstract!Drop

LEMMA MapMove ==
  ASSUME StackInv, StackInv', NEW k \in Nat, NEW v \in Operands, Move(k, v)
  PROVE  \E i \in DOMAIN Operand : Abstract!Assign(i, v)
<1>1. /\ size \in Nat /\ sp \in Nat /\ rsp \in Nat /\ bp \in Nat /\ rsp <= size /\ sp <= rsp
      /\ mem \in [0 .. size - 1 -> Words]
  BY LimitFacts DEF StackInv, StackTypeOK, StacksApart
<1>2. /\ bp + k < sp /\ mem' = [mem EXCEPT ![bp + k] = Val(v)] /\ pc' = After(pc)
      /\ UNCHANGED <<size, sp, rsp, bp, fun, mode>> /\ mode = "run" /\ pc # INT
  BY DEF Move, Running
<1> PICK c : c = bp + k
  OBVIOUS
<1>3. c \in 0 .. sp - 1 /\ mem' = [mem EXCEPT ![c] = Val(v)]
  BY <1>1, <1>2
<1> PICK u : u = Operand
  OBVIOUS
<1> PICK o : o = [u EXCEPT ![c + 1] = v]
  OBVIOUS
<1>4. u \in Seq(V) /\ Len(u) = sp /\ \A i \in 1 .. sp : u[i] = mem[i - 1][2]
  BY OperandFacts DEF IsOperand
<1>5. v \in V /\ Val(v)[2] = v
  BY ValueFacts DEF Val
<1>6. /\ o \in Seq(V) /\ Len(o) = sp
      /\ \A i \in 1 .. sp : o[i] = IF i = c + 1 THEN v ELSE u[i]
  BY <1>1, <1>3, <1>4, <1>5
<1>7. \A i \in 1 .. sp' : o[i] = mem'[i - 1][2]
  <2> SUFFICES ASSUME NEW i \in 1 .. sp PROVE o[i] = mem'[i - 1][2]
    BY <1>2
  <2> DEFINE j == i - 1
  <2>1. j \in 0 .. size - 1 /\ (i = c + 1 <=> j = c)
    BY <1>1, <1>3
  <2>2. u[i] = mem[j][2]
    BY <1>4
  <2> HIDE DEF j
  <2>3. mem'[j] = IF j = c THEN Val(v) ELSE mem[j]
    BY <1>1, <1>3, <2>1
  <2>4. o[i] = mem'[j][2]
    BY <1>5, <1>6, <2>1, <2>2, <2>3
  <2> QED
    BY <2>4 DEF j
<1>8. Operand' = o
  BY <1>2, <1>6, <1>7, OperandIs
<1>9. \A i \in rsp .. size - 1 : mem'[i] = mem[i]
  BY <1>1, <1>3
<1>10. Abstract!Step(o)
  BY <1>2, <1>8, <1>9, StepMaps
<1>11. c + 1 \in DOMAIN Operand
  BY <1>1, <1>3, <1>4
<1> QED
  BY <1>10, <1>11 DEF Abstract!Assign

LEMMA MapCall ==
  ASSUME StackInv, StackInv', NEW f \in Functions, Call(f)
  PROVE  Abstract!Call(f) \/ UNCHANGED Abstract!vars
<1>1. /\ size \in Nat /\ sp \in Nat /\ rsp \in Nat /\ bp \in Nat /\ rsp <= size /\ sp <= rsp
      /\ mem \in [0 .. size - 1 -> Words] /\ Arity[f] \in Nat /\ MaxSp \in Nat /\ MaxDepth \in Nat
      /\ bp <= sp
  BY LimitFacts, StackAssumption DEF StackInv, StackTypeOK, StacksApart, Room
<1>2. Arity[f] <= sp - bp /\ mode = "run" /\ pc # INT
  BY <1>1 DEF Call, Running
<1>3. CASE SaveOverflows
  <2>1. Overflow
    BY <1>3 DEF Call
  <2> QED
    BY <1>2, <2>1, OverflowStutters
<1>4. CASE ~SaveOverflows
  <2>1. rsp >= 3
    BY <1>1, <1>4 DEF Call, StackInv
  <2>2. Wrap(rsp - 3) = rsp - 3 /\ rsp - 3 >= sp
    BY <1>1, <1>4, <2>1, LimitFacts DEF StackInv, StackTypeOK, SaveOverflows
  <2>3. /\ mem' = Saved(mem) /\ rsp' = rsp - 3 /\ mode' = mode /\ bp' = sp - Arity[f] /\ fun' = f
        /\ pc' = Entry(f) /\ UNCHANGED <<size, sp>>
    BY <1>1, <1>4, <2>1, <2>2 DEF Call
  <2>4. \A i \in 0 .. size - 1 : mem'[i] =
            IF i = rsp - 1 THEN <<"bp", bp>> ELSE IF i = rsp - 2 THEN <<"pc", pc>>
            ELSE IF i = rsp - 3 THEN <<"fun", fun>> ELSE mem[i]
    BY <1>1, <2>1, <2>3 DEF Saved
  <2>5. /\ \A i \in 0 .. sp - 1 : mem'[i] = mem[i]
        /\ \A i \in rsp .. size - 1 : mem'[i] = mem[i]
    <3>1. ASSUME NEW i \in 0 .. size - 1, i # rsp - 1, i # rsp - 2, i # rsp - 3 PROVE mem'[i] = mem[i]
      BY ONLY <3>1, <2>4
    <3>2. /\ \A i \in 0 .. sp - 1 : i \in 0 .. size - 1 /\ i # rsp - 1 /\ i # rsp - 2 /\ i # rsp - 3
          /\ \A i \in rsp .. size - 1 : i \in 0 .. size - 1 /\ i # rsp - 1 /\ i # rsp - 2 /\ i # rsp - 3
      BY <1>1, <2>1, <2>2
    <3> QED
      BY ONLY <3>1, <3>2
  <2>6. Operand' = Operand
    BY <1>1, <2>3, <2>5 DEF Operand
  <2> PICK w : w = [fun |-> fun, pc |-> pc, bp |-> bp]
    OBVIOUS
  <2>7. FrameOf(mem', rsp - 3) = w
    <3> DEFINE r == rsp - 3
    <3>1. /\ r \in 0 .. size - 1 /\ r + 1 \in 0 .. size - 1 /\ r + 2 \in 0 .. size - 1
          /\ r + 2 = rsp - 1 /\ r + 1 = rsp - 2 /\ rsp - 1 # rsp - 2 /\ rsp - 1 # rsp - 3 /\ rsp - 2 # rsp - 3
      BY <1>1, <2>1, <2>2, <2>3
    <3>2. mem'[r + 2] = <<"bp", bp>> /\ mem'[r + 1] = <<"pc", pc>> /\ mem'[r] = <<"fun", fun>>
      BY <2>4, <3>1
    <3>3. mem'[r][2] = fun /\ mem'[r + 1][2] = pc /\ mem'[r + 2][2] = bp
      BY ONLY <3>2
    <3> HIDE DEF r
    <3>4. FrameOf(mem', r) = w
      BY <3>3 DEF FrameOf
    <3> QED
      BY <3>4 DEF r
  <2>8. w \in F
    BY <1>1, <1>2, ValueFacts, LimitFacts DEF StackInv, StackTypeOK, F
  <2> PICK u : u = Frames
    OBVIOUS
  <2> PICK k : k = Depth
    OBVIOUS
  <2>9. /\ u \in Seq(F) /\ Len(u) = k /\ k \in Nat /\ Top - rsp = 3 * k /\ Top \in Nat /\ Top <= size
        /\ \A d \in 1 .. k : u[d] = FrameOf(mem, Top - 3 * d)
    BY FramesHeld
  <2>10. Depth' = k + 1 /\ Top' = Top
    <3>1. (size - (rsp - 3)) % 3 = (size - rsp) % 3
      <4>1. size - (rsp - 3) = (size - rsp) + 3 /\ size - rsp \in Int
        BY <1>1
      <4> QED
        BY <4>1, ModThree
    <3>2. Top' = Top
      BY <1>1, <2>3, <3>1 DEF Top, Stray
    <3>3. Top' - rsp' = 3 * Depth' /\ Depth' \in Nat
      BY DepthNext
    <3>4. Top - rsp = 3 * k /\ k \in Nat /\ rsp' = rsp - 3 /\ rsp \in Nat /\ Top \in Nat
      BY <1>1, <2>3, <2>9
    <3>5. Top' - rsp' = 3 * (k + 1) /\ Top' \in Int /\ rsp' \in Int /\ k + 1 \in Int
      BY ONLY <3>2, <3>4
    <3> QED
      BY ONLY <3>2, <3>3, <3>5, Thirds
  <2> PICK q : q = Append(u, w)
    OBVIOUS
  <2>11. q \in Seq(F) /\ Len(q) = k + 1 /\ (\A d \in 1 .. k : q[d] = u[d]) /\ q[k + 1] = w
    BY <2>8, <2>9, AppendProperties
  <2>12. ASSUME NEW d \in 1 .. k + 1 PROVE q[d] = FrameOf(mem', Top' - 3 * d)
    <3> DEFINE i == Top - 3 * d
    <3>1. CASE d = k + 1
      <4>1. i = rsp - 3 /\ Top' - 3 * d = i
        BY <1>1, <2>9, <2>10, <3>1
      <4> HIDE DEF i
      <4> QED
        BY <2>7, <2>11, <3>1, <4>1
    <3>2. CASE d \in 1 .. k
      <4>1. /\ i \in rsp .. size - 1 /\ i + 1 \in rsp .. size - 1 /\ i + 2 \in rsp .. size - 1
            /\ Top' - 3 * d = i
        BY <1>1, <2>9, <2>10, <3>2
      <4>2. q[d] = FrameOf(mem, i)
        BY <2>9, <2>11, <3>2
      <4> HIDE DEF i
      <4>3. FrameOf(mem', i) = FrameOf(mem, i)
        BY <2>5, <4>1 DEF FrameOf
      <4> QED
        BY <4>1, <4>2, <4>3
    <3>3. d = k + 1 \/ d \in 1 .. k
      BY <2>9
    <3> QED
      BY ONLY <3>1, <3>2, <3>3
  <2>13. Frames' = q
    BY <2>10, <2>11, <2>12, FramesAre
  <2>14. Entry(f) = Abstract!Entry(f)
    BY DEF Entry, Abstract!Entry, INT, Abstract!INT
  <2>15. Len(Operand) = sp
    BY OperandFacts DEF IsOperand
  <2> QED
    BY <1>1, <1>2, <2>3, <2>6, <2>13, <2>14, <2>15 DEF Abstract!Call
<1> QED
  BY <1>3, <1>4

\* The words that vm_rcall and vm_restore_environment leave, as operands.
\* The words of a tail call move down, and nothing else does.
LEMMA MovedFacts ==
  ASSUME StackInv, NEW n \in Nat, NEW from \in Nat, bp <= from, from + n <= rsp,
         mem' = Forget(Copy(mem, from, n, bp), bp + n, rsp)
  PROVE  /\ \A i \in 0 .. bp - 1 : mem'[i] = mem[i]
         /\ \A i \in bp .. bp + n - 1 : mem'[i] = mem[from + (i - bp)]
         /\ \A i \in rsp .. size - 1 : mem'[i] = mem[i]
<1>1. size \in Nat /\ rsp \in Nat /\ bp \in Nat /\ rsp <= size /\ mem \in [0 .. size - 1 -> Words]
      /\ bp + n \in Nat /\ bp + n <= rsp
  BY LimitFacts DEF StackInv, StackTypeOK, StacksApart
<1> DEFINE c == Copy(mem, from, n, bp)
<1>2. /\ c \in [0 .. size - 1 -> Words]
      /\ \A i \in 0 .. bp - 1 : c[i] = mem[i]
      /\ \A i \in bp .. bp + n - 1 : c[i] = mem[from + (i - bp)]
      /\ \A i \in bp + n .. size - 1 : c[i] = mem[i]
  BY <1>1, CopyFacts
<1>3. mem' = Forget(c, bp + n, rsp)
  OBVIOUS
<1> HIDE DEF c
<1>4. \A i \in 0 .. size - 1 : i < bp + n \/ i >= rsp => mem'[i] = c[i]
  BY <1>1, <1>2, <1>3, ForgetFacts
<1> QED
  BY ONLY <1>1, <1>2, <1>4, n \in Nat

LEMMA KeptOperands ==
  ASSUME StackInv, StackInv', NEW n \in Nat, n <= sp - bp, sp' = bp + n,
         NEW from \in Nat, from = sp - n,
         \A i \in 0 .. bp - 1 : mem'[i] = mem[i],
         \A i \in bp .. bp + n - 1 : mem'[i] = mem[from + (i - bp)]
  PROVE  Operand' = Abstract!Keep(bp, n)
<1>1. /\ sp \in Nat /\ bp \in Nat /\ from \in Nat
  BY LimitFacts DEF StackInv, StackTypeOK, StacksApart
<1> PICK u : u = Operand
  OBVIOUS
<1>2. u \in Seq(V) /\ Len(u) = sp /\ \A i \in 1 .. sp : u[i] = mem[i - 1][2]
  BY OperandFacts DEF IsOperand
<1> PICK o : o = Kept(u, bp, n)
  OBVIOUS
<1>3. /\ o \in Seq(V) /\ Len(o) = bp + n
      /\ \A i \in 1 .. bp : o[i] = u[i]
      /\ \A i \in bp + 1 .. bp + n : o[i] = u[from + (i - bp)]
  <2>1. bp + n <= Len(u) /\ Len(u) - n = from /\ u \in Seq(V)
    BY <1>1, <1>2
  <2>2. /\ o \in Seq(V) /\ Len(o) = bp + n
        /\ \A i \in 1 .. bp : o[i] = u[i]
        /\ \A i \in bp + 1 .. bp + n : o[i] = u[Len(u) - n + (i - bp)]
    BY <1>1, <2>1, KeepFacts
  <2> QED
    BY <2>1, <2>2
<1>4. ASSUME NEW i \in 1 .. bp + n PROVE o[i] = mem'[i - 1][2]
  <2>1. CASE i <= bp
    <3>1. i \in 1 .. bp /\ i \in 1 .. sp /\ i - 1 \in 0 .. bp - 1
      BY <1>1, <2>1
    <3> QED
      BY <1>2, <1>3, <3>1
  <2>2. CASE i > bp
    <3> PICK g : g = from + (i - bp)
      OBVIOUS
    <3> PICK j : j = i - 1
      OBVIOUS
    <3>1. i \in bp + 1 .. bp + n /\ j \in bp .. bp + n - 1 /\ g \in 1 .. sp /\ from + (j - bp) = g - 1
      BY <1>1, <2>2
    <3>2. o[i] = u[g]
      BY <1>3, <3>1
    <3>3. u[g] = mem[g - 1][2]
      BY <1>2, <3>1
    <3>4. mem'[j] = mem[from + (j - bp)]
      BY <3>1
    <3>5. mem'[j] = mem[g - 1]
      BY <3>1, <3>4
    <3> QED
      BY <3>2, <3>3, <3>5
  <2>3. i <= bp \/ i > bp
    BY <1>1
  <2> QED
    BY ONLY <2>1, <2>2, <2>3
<1>5. Operand' = o
  BY <1>3, <1>4, OperandIs
<1> QED
  BY <1>5 DEF Abstract!Keep, Kept

LEMMA MapRCall ==
  ASSUME StackInv, StackInv', NEW f \in Functions, RCall(f)
  PROVE  Abstract!Replace(f)
<1> DEFINE n == Arity[f]
           from == sp - n
           w == [fun |-> fun, pc |-> pc, bp |-> bp]
<1>1. /\ size \in Nat /\ sp \in Nat /\ rsp \in Nat /\ bp \in Nat /\ rsp <= size /\ sp <= rsp
      /\ n \in Nat
  BY LimitFacts, StackAssumption DEF StackInv, StackTypeOK, StacksApart
<1>2. /\ n \in Nat /\ n <= sp - bp /\ sp' = bp + n /\ fun' = f /\ pc' = 0
      /\ mem' = Forget(Copy(mem, from, n, bp), bp + n, rsp)
      /\ UNCHANGED <<size, rsp, bp, mode>> /\ mode = "run"
  BY <1>1 DEF RCall, Running
<1>3. from \in Nat /\ bp <= from /\ from + n <= rsp /\ from = sp - n
  BY <1>1, <1>2
<1>4. w' = [w EXCEPT !.fun = f, !.pc = 0] /\ w.bp = bp
  <2>1. [w EXCEPT !.fun = f, !.pc = 0] = [fun |-> f, pc |-> 0, bp |-> bp]
    <3> DEFINE x == [fun |-> f, pc |-> pc, bp |-> bp]
    <3>1. [w EXCEPT !.fun = f] = x
      OBVIOUS
    <3>2. [x EXCEPT !.pc = 0] = [fun |-> f, pc |-> 0, bp |-> bp]
      OBVIOUS
    <3> QED
      BY <3>1, <3>2
  <2>2. w' = [fun |-> f, pc |-> 0, bp |-> bp]
    BY <1>2
  <2> QED
    BY <2>1, <2>2
<1> HIDE DEF n, from
<1>5. /\ \A i \in 0 .. bp - 1 : mem'[i] = mem[i]
      /\ \A i \in bp .. bp + n - 1 : mem'[i] = mem[from + (i - bp)]
      /\ \A i \in rsp .. size - 1 : mem'[i] = mem[i]
  BY <1>1, <1>2, <1>3, MovedFacts
<1>6. Operand' = Abstract!Keep(bp, n)
  BY <1>2, <1>3, <1>5, KeptOperands
<1>7. Frames' = Frames
  BY <1>2, <1>5, FramesSame
<1>8. Len(Operand) = sp
  BY OperandFacts DEF IsOperand
<1>9. ~(mode = "exit") /\ UNCHANGED <<Frames, mode = "exit">>
  BY <1>2, <1>7
<1> HIDE DEF w
<1>10. n <= Len(Operand) - w.bp /\ Operand' = Abstract!Keep(w.bp, n)
  BY <1>2, <1>4, <1>6, <1>8
<1> QED
  BY <1>4, <1>9, <1>10 DEF Abstract!Replace, n, w

\* What vm_restore_environment does to the saved environments.
LEMMA MapRestore ==
  ASSUME StackInv, StackInv', mode = "run", NEW m \in [0 .. size - 1 -> Words], NEW n \in Nat,
         Restore(m, n), bp + n <= rsp, \A i \in rsp .. size - 1 : m[i] = mem[i]
  PROVE  IF rsp = size
         THEN mode' = "exit" /\ Frames = <<>> /\ UNCHANGED <<Frames, bp, fun, pc>>
         ELSE /\ mode' = "run" /\ Frames # <<>> /\ Frames' = Abstract!Front(Frames)
              /\ [fun |-> fun, pc |-> pc, bp |-> bp]' =
                   [Abstract!Last(Frames) EXCEPT !.pc = Abstract!After(@)]
<1>1. /\ size \in Nat /\ rsp \in Nat /\ bp \in Nat /\ rsp <= size
  BY LimitFacts DEF StackInv, StackTypeOK, StacksApart
<1> PICK u : u = Frames
  OBVIOUS
<1> PICK k : k = Depth
  OBVIOUS
<1>2. /\ u \in Seq(F) /\ Len(u) = k /\ k \in Nat /\ Top - rsp = 3 * k /\ Top \in Nat /\ Top <= size
      /\ \A d \in 1 .. k : u[d] = FrameOf(mem, Top - 3 * d)
  BY FramesHeld
<1>3. CASE rsp = size
  <2>1. /\ mem' = Forget(m, bp + n, rsp) /\ mode' = "exit" /\ UNCHANGED <<size, rsp, bp, fun, pc>>
    BY <1>1, <1>3 DEF Restore
  <2>2. Frames' = Frames
    BY <1>1, <1>3, <2>1, FramesSame
  <2>3. u = <<>>
    <3>1. k = 0
      BY <1>1, <1>2, <1>3, DepthFacts
    <3> QED
      BY <1>2, <3>1, EmptySeq
  <2> QED
    BY <1>3, <2>1, <2>2, <2>3
<1>4. CASE rsp # size
  <2>1. rsp + 2 < size /\ rsp + 3 <= Top /\ mem[rsp + 1][2] \in 0 .. Sites - 1
    <3>1. rsp + 2 < size
      BY <1>1, <1>4 DEF Restore, StackInv
    <3> QED
      BY <3>1, TopFrame
  <2>2. m[rsp] = mem[rsp] /\ m[rsp + 1] = mem[rsp + 1] /\ m[rsp + 2] = mem[rsp + 2]
    BY <1>1, <2>1
  <2>3. /\ UNCHANGED size /\ fun' = mem[rsp][2] /\ pc' = After(mem[rsp + 1][2])
        /\ bp' = mem[rsp + 2][2] /\ rsp' = rsp + 3 /\ mode' = "run"
        /\ mem' = Forget(m, bp + n, rsp + 3)
    BY <1>1, <1>4, <2>1, <2>2 DEF Restore
  <2>4. \A i \in rsp + 3 .. size - 1 : mem'[i] = mem[i]
    BY <1>1, <2>1, <2>3 DEF Forget
  <2>5. k >= 1 /\ Depth' = k - 1 /\ Top - 3 * k = rsp /\ Top' = Top
    <3>1. (size - (rsp + 3)) % 3 = (size - rsp) % 3
      <4>1. size - (rsp + 3) = (size - rsp) - 3 /\ size - rsp \in Int
        BY <1>1
      <4> QED
        BY <4>1, ModThree
    <3>2. Top' = Top
      BY <1>1, <2>3, <3>1 DEF Top, Stray
    <3>3. Top' - rsp' = 3 * Depth' /\ Depth' \in Nat
      BY DepthNext
    <3>4. /\ Top - rsp = 3 * k /\ k \in Nat /\ rsp' = rsp + 3 /\ rsp \in Nat /\ Top \in Nat
          /\ rsp + 3 <= Top
      BY <1>1, <1>2, <2>1, <2>3
    <3>5. /\ Top' - rsp' = 3 * (k - 1) /\ Top' \in Int /\ rsp' \in Int /\ k - 1 \in Int
          /\ k >= 1 /\ Top - 3 * k = rsp
      BY ONLY <3>2, <3>4
    <3> QED
      BY ONLY <3>2, <3>3, <3>5, Thirds
  <2> PICK q : q = SubSeq(u, 1, k - 1)
    OBVIOUS
  <2>6. q \in Seq(F) /\ Len(q) = k - 1 /\ \A d \in 1 .. k - 1 : q[d] = u[d]
    <3>1. \A d \in 1 .. k - 1 : u[d] \in F
      BY <1>2
    <3> QED
      BY <1>2, <2>5, <3>1, SubSeqProperties
  <2>7. ASSUME NEW d \in 1 .. k - 1 PROVE q[d] = FrameOf(mem', Top' - 3 * d)
    <3> DEFINE i == Top - 3 * d
    <3>1. /\ i \in rsp + 3 .. size - 1 /\ i + 1 \in rsp + 3 .. size - 1 /\ i + 2 \in rsp + 3 .. size - 1
          /\ Top' - 3 * d = i
      <4>1. Top - rsp = 3 * k /\ k \in Nat /\ Top \in Nat /\ Top <= size /\ Top' = Top
        BY <1>2, <2>5
      <4> QED
        BY ONLY <1>1, <4>1, d \in 1 .. k - 1
    <3>2. q[d] = FrameOf(mem, i)
      BY <1>2, <2>6
    <3> HIDE DEF i
    <3>3. FrameOf(mem', i) = FrameOf(mem, i)
      BY <2>4, <3>1 DEF FrameOf
    <3> QED
      BY <3>1, <3>2, <3>3
  <2>8. Frames' = q
    BY <2>5, <2>6, <2>7, FramesAre
  <2>9. q = Abstract!Front(u) /\ u # <<>>
    BY <1>2, <2>5 DEF Abstract!Front
  <2>10. Abstract!Last(u) = FrameOf(mem, rsp)
    <3>1. u[k] = FrameOf(mem, Top - 3 * k)
      BY <1>2, <2>5
    <3> QED
      BY <1>2, <2>5, <3>1 DEF Abstract!Last
  <2>11. After(mem[rsp + 1][2]) = Abstract!After(mem[rsp + 1][2])
    BY <2>1, AfterSite DEF Abstract!After
  <2> QED
    BY <1>4, <2>3, <2>8, <2>9, <2>10, <2>11 DEF FrameOf
<1> QED
  BY <1>3, <1>4

\* The results, which vm_restore_environment leaves below sp.
LEMMA RestoreKeeps ==
  ASSUME StackInv, NEW m \in [0 .. size - 1 -> Words], NEW n \in Nat, Restore(m, n), bp + n <= rsp
  PROVE  sp' = bp + n /\ \A i \in 0 .. bp + n - 1 : mem'[i] = m[i]
<1>1. size \in Nat /\ rsp \in Nat /\ bp \in Nat /\ rsp <= size /\ bp + n \in Nat
  BY LimitFacts DEF StackInv, StackTypeOK, StacksApart
<1>2. sp' = bp + n /\ (mem' = Forget(m, bp + n, rsp) \/ mem' = Forget(m, bp + n, rsp + 3))
  BY DEF Restore
<1>3. ASSUME NEW r \in Nat, mem' = Forget(m, bp + n, r)
      PROVE  \A i \in 0 .. bp + n - 1 : mem'[i] = m[i]
  BY <1>1, <1>3, ForgetFacts
<1> QED
  BY <1>1, <1>2, <1>3

LEMMA MapReturn ==
  ASSUME StackInv, StackInv', NEW n \in Nat, Return(n)
  PROVE  n \in 0 .. Len(Operand) /\ Abstract!Return(n)
<1>1. /\ size \in Nat /\ sp \in Nat /\ rsp \in Nat /\ bp \in Nat /\ rsp <= size /\ sp <= rsp
      /\ mem \in [0 .. size - 1 -> Words]
  BY LimitFacts DEF StackInv, StackTypeOK, StacksApart
<1>2. n <= sp - bp /\ mode = "run"
  BY DEF Return, Running
<1> DEFINE from == sp - n
           m == Copy(mem, from, n, bp)
           w == [fun |-> fun, pc |-> pc, bp |-> bp]
<1>3. from \in Nat /\ bp <= from /\ from + n <= rsp /\ bp + n <= rsp /\ from = sp - n
  BY <1>1, <1>2
<1>4. Restore(m, n) /\ w.bp = bp
  BY DEF Return
<1> HIDE DEF from
<1>5. /\ m \in [0 .. size - 1 -> Words]
      /\ \A i \in 0 .. bp - 1 : m[i] = mem[i]
      /\ \A i \in bp .. bp + n - 1 : m[i] = mem[from + (i - bp)]
      /\ \A i \in bp + n .. size - 1 : m[i] = mem[i]
  BY <1>1, <1>3, CopyFacts
<1> HIDE DEF m
<1>6. /\ sp' = bp + n /\ \A i \in 0 .. bp + n - 1 : mem'[i] = m[i]
      /\ \A i \in rsp .. size - 1 : m[i] = mem[i]
  BY <1>1, <1>3, <1>4, <1>5, RestoreKeeps
<1>7. Operand' = Abstract!Keep(bp, n)
  <2>1. \A i \in 0 .. bp - 1 : mem'[i] = mem[i]
    BY <1>1, <1>5, <1>6
  <2>2. \A i \in bp .. bp + n - 1 : mem'[i] = mem[from + (i - bp)]
    BY <1>1, <1>5, <1>6
  <2> QED
    BY <1>2, <1>3, <1>6, <2>1, <2>2, KeptOperands
<1>8. IF rsp = size
      THEN mode' = "exit" /\ Frames = <<>> /\ UNCHANGED <<Frames, bp, fun, pc>>
      ELSE /\ mode' = "run" /\ Frames # <<>> /\ Frames' = Abstract!Front(Frames)
           /\ w' = [Abstract!Last(Frames) EXCEPT !.pc = Abstract!After(@)]
  BY <1>2, <1>3, <1>4, <1>5, <1>6, MapRestore
<1>9. Len(Operand) = sp
  BY OperandFacts DEF IsOperand
<1>10. /\ ~(mode = "exit") /\ n <= Len(Operand) - w.bp /\ Operand' = Abstract!Keep(w.bp, n)
  BY <1>1, <1>2, <1>4, <1>7, <1>9
<1>11. IF Frames = <<>>
       THEN (mode = "exit")' = TRUE /\ UNCHANGED <<Frames, w>>
       ELSE /\ w' = [Abstract!Last(Frames) EXCEPT !.pc = Abstract!After(@)]
            /\ Frames' = Abstract!Front(Frames)
            /\ UNCHANGED (mode = "exit")
  BY <1>2, <1>8
<1> HIDE DEF w
<1>12. Abstract!Return(n)
  BY <1>10, <1>11 DEF Abstract!Return, w
<1> QED
  BY <1>1, <1>2, <1>9, <1>12

LEMMA MapNative ==
  ASSUME StackInv, StackInv', NEW n \in 0 .. 1, NEW vs \in [1 .. n -> Operands], RunNative(vs)
  PROVE  Abstract!Yield(vs) \/ UNCHANGED Abstract!vars
<1>1. /\ size \in Nat /\ sp \in Nat /\ rsp \in Nat /\ bp \in Nat /\ rsp <= size /\ sp <= rsp
      /\ mem \in [0 .. size - 1 -> Words] /\ bp \in Nat /\ bp <= sp /\ n \in Nat
  BY LimitFacts DEF StackInv, StackTypeOK, StacksApart, Room
<1>2. Len(vs) = n /\ vs \in Seq(V) /\ \A i \in 1 .. n : vs[i] \in V
  <2>1. \A i \in 1 .. n : vs[i] \in V
    BY ValueFacts
  <2>2. vs \in [1 .. n -> V]
    BY <2>1
  <2> QED
    BY <1>1, <2>1, <2>2, ShortSequence
<1>3. mode = "run" /\ pc = INT /\ rsp < size
  BY <1>1 DEF RunNative, StackInv, Room
<1>4. CASE sp + n > rsp
  <2>1. Overflow
    BY <1>1, <1>2, <1>4 DEF RunNative
  <2> QED
    BY <1>3, <2>1, OverflowStutters
<1>5. CASE sp + n <= rsp
  <2> DEFINE st == Store(vs)
             m == Copy(st, sp, n, bp)
             w == [fun |-> fun, pc |-> pc, bp |-> bp]
  <2>1. Restore(m, n) /\ w.bp = bp /\ w.pc = INT
    BY <1>1, <1>2, <1>3, <1>5 DEF RunNative
  <2>2. /\ st \in [0 .. size - 1 -> Words]
        /\ \A i \in 1 .. n : st[sp + i - 1] = Val(vs[i])
        /\ \A i \in 0 .. size - 1 : i \notin sp .. sp + n - 1 => st[i] = mem[i]
    BY <1>1, <1>5, StoreFacts
  <2> HIDE DEF st
  <2>3. /\ m \in [0 .. size - 1 -> Words]
        /\ \A i \in 0 .. bp - 1 : m[i] = st[i]
        /\ \A i \in bp .. bp + n - 1 : m[i] = st[sp + (i - bp)]
        /\ \A i \in bp + n .. size - 1 : m[i] = st[i]
    BY <1>1, <1>5, <2>2, CopyFacts
  <2> HIDE DEF m
  <2>4. \A i \in rsp .. size - 1 : m[i] = mem[i]
    BY <1>1, <1>5, <2>2, <2>3
  <2>5. sp' = bp + n /\ \A i \in 0 .. bp + n - 1 : mem'[i] = m[i]
    BY <1>1, <1>3, <1>5, <2>1, <2>3, RestoreKeeps
  <2> PICK u : u = Operand
    OBVIOUS
  <2>6. u \in Seq(V) /\ Len(u) = sp /\ (\A i \in 1 .. sp : u[i] = mem[i - 1][2]) /\ \A i \in 1 .. sp : u[i] \in V
    <3>1. u \in Seq(V) /\ Len(u) = sp /\ \A i \in 1 .. sp : u[i] = mem[i - 1][2]
      BY OperandFacts DEF IsOperand
    <3> QED
      BY <3>1
  <2> PICK a : a = SubSeq(u, 1, bp)
    OBVIOUS
  <2>7. a \in Seq(V) /\ Len(a) = bp /\ \A i \in 1 .. bp : a[i] = u[i]
    BY <1>1, <2>6, SubSeqProperties
  <2> PICK o : o = a \o vs
    OBVIOUS
  <2>8. /\ o \in Seq(V) /\ Len(o) = Len(a) + Len(vs)
        /\ \A i \in 1 .. Len(a) : o[i] = a[i]
        /\ \A i \in 1 .. Len(vs) : o[Len(a) + i] = vs[i]
    BY <1>2, <2>7, ConcatFacts
  <2>9. ASSUME NEW i \in 1 .. bp + n PROVE o[i] = mem'[i - 1][2]
    <3> PICK j : j = i - 1
      OBVIOUS
    <3>1. j \in 0 .. bp + n - 1
      BY <1>1
    <3>2. mem'[j] = m[j]
      BY <2>5, <3>1
    <3>3. CASE i <= bp
      <4>1. bp \in Nat /\ i \in 1 .. bp
        BY <1>1, <3>3 DEF StackInv, StackTypeOK
      <4>2. i \in 1 .. sp /\ j \in 0 .. bp - 1 /\ j \in 0 .. size - 1 /\ j \notin sp .. sp + n - 1
        BY <1>1, <4>1
      <4>3. o[i] = mem[j][2]
        BY <2>6, <2>7, <2>8, <4>1, <4>2
      <4>4. m[j] = mem[j]
        BY <2>2, <2>3, <4>2
      <4> QED
        BY <3>1, <3>2, <4>3, <4>4
    <3>4. CASE i > bp
      <4> PICK k : k = i - bp
        OBVIOUS
      <4>1. k \in 1 .. n /\ bp + k = i /\ j \in bp .. bp + n - 1 /\ sp + (j - bp) = sp + k - 1
        BY <1>1, <3>4
      <4>2. o[bp + k] = vs[k] /\ m[j] = st[sp + (j - bp)] /\ st[sp + k - 1] = Val(vs[k])
        BY <1>2, <2>2, <2>3, <2>7, <2>8, <4>1
      <4>3. o[i] = vs[k] /\ m[j] = Val(vs[k])
        BY ONLY <4>1, <4>2
      <4>4. Val(vs[k])[2] = vs[k]
        BY ONLY DEF Val
      <4> QED
        BY <3>1, <3>2, <4>3, <4>4
    <3>5. i <= bp \/ i > bp
      BY <1>1
    <3> QED
      BY ONLY <3>3, <3>4, <3>5
  <2>10. Operand' = o
    BY <1>2, <2>5, <2>7, <2>8, <2>9, OperandIs
  <2>11. /\ mode' = "run" /\ Frames # <<>> /\ Frames' = Abstract!Front(Frames)
         /\ w' = [Abstract!Last(Frames) EXCEPT !.pc = Abstract!After(@)]
    <3>1. IF rsp = size
          THEN mode' = "exit" /\ Frames = <<>> /\ UNCHANGED <<Frames, bp, fun, pc>>
          ELSE /\ mode' = "run" /\ Frames # <<>> /\ Frames' = Abstract!Front(Frames)
               /\ w' = [Abstract!Last(Frames) EXCEPT !.pc = Abstract!After(@)]
      <4>1. bp + n <= rsp /\ m \in [0 .. size - 1 -> Words] /\ n \in Nat /\ Restore(m, n)
        BY <1>1, <1>5, <2>1, <2>3
      <4> QED
        BY <1>3, <2>4, <4>1, MapRestore
    <3>2. rsp # size
      BY <1>1, <1>3
    <3> QED
      BY ONLY <3>1, <3>2
  <2>12. /\ ~(mode = "exit") /\ w.pc = Abstract!INT /\ Operand' = SubSeq(Operand, 1, w.bp) \o vs
    BY <1>3, <2>1, <2>10 DEF INT, Abstract!INT
  <2>13. UNCHANGED (mode = "exit")
    BY <1>3, <2>11
  <2> HIDE DEF w
  <2> QED
    BY <2>11, <2>12, <2>13 DEF Abstract!Yield, w
<1> QED
  BY <1>1, <1>4, <1>5

LEMMA MapGrow ==
  ASSUME StackInv, StackInv', Grow
  PROVE  UNCHANGED Abstract!vars
<1>1. /\ size \in Nat /\ sp \in Nat /\ rsp \in Nat /\ rsp <= size /\ sp <= rsp
  BY LimitFacts DEF StackInv, StackTypeOK, StacksApart
<1>2. /\ size' = 2 * size /\ UNCHANGED <<sp, bp, fun, pc>> /\ mode = "grow" /\ mode' = "run"
      /\ \A i \in 0 .. sp - 1 : mem'[i] = mem[i]
      /\ \A i \in rsp' .. size' - 1 : mem'[i] = mem[i - size]
      /\ rsp < size => rsp' = size + rsp /\ Top' = size + Top
      /\ rsp = size => Top' = rsp'
  BY <1>1, GrowFacts
<1>3. Operand' = Operand
  BY <1>1, <1>2 DEF Operand
<1> PICK u : u = Frames
  OBVIOUS
<1> PICK k : k = Depth
  OBVIOUS
<1>4. /\ u \in Seq(F) /\ Len(u) = k /\ k \in Nat /\ Top - rsp = 3 * k /\ Top \in Nat /\ Top <= size
      /\ \A d \in 1 .. k : u[d] = FrameOf(mem, Top - 3 * d)
  BY FramesHeld
<1>5. Depth' = k
  <2>1. Top' - rsp' = 3 * Depth' /\ Depth' \in Nat
    BY DepthNext
  <2>2. CASE rsp < size
    <3>1. Top - rsp = 3 * k /\ k \in Nat /\ Top' = size + Top /\ rsp' = size + rsp
      BY <1>2, <1>4, <2>2
    <3>2. Top' - rsp' = 3 * k /\ Top' \in Int /\ rsp' \in Int /\ k \in Int
      BY <1>1, <1>4, <3>1
    <3> QED
      BY ONLY <2>1, <3>2, Thirds
  <2>3. CASE rsp = size
    <3>1. k = 0 /\ Top' = rsp'
      BY <1>1, <1>2, <1>4, <2>3, DepthFacts
    <3>2. rsp' = 2 * size - 1
      BY <1>1, <2>3, GrowFacts
    <3>3. Top' - rsp' = 3 * k /\ Top' \in Int /\ rsp' \in Int /\ k \in Int
      BY <1>1, <3>1, <3>2
    <3> QED
      BY ONLY <2>1, <3>3, Thirds
  <2> QED
    BY <1>1, <2>2, <2>3
<1>6. ASSUME NEW d \in 1 .. k PROVE u[d] = FrameOf(mem', Top' - 3 * d)
  <2>0. rsp < size /\ rsp' = size + rsp /\ Top' = size + Top
    BY <1>1, <1>2, <1>4
  <2> PICK i : i = Top' - 3 * d
    OBVIOUS
  <2> PICK j : j = Top - 3 * d
    OBVIOUS
  <2>1. /\ i \in rsp' .. size' - 1 /\ i + 1 \in rsp' .. size' - 1 /\ i + 2 \in rsp' .. size' - 1
        /\ i - size = j /\ i + 1 - size = j + 1 /\ i + 2 - size = j + 2
    <3>1. Top \in Nat /\ Top <= size /\ Top - rsp = 3 * k /\ k \in Nat /\ size' = 2 * size
      BY <1>2, <1>4
    <3> QED
      BY ONLY <1>1, <2>0, <3>1, d \in 1 .. k, i = Top' - 3 * d, j = Top - 3 * d
  <2>2. \A h \in rsp' .. size' - 1 : mem'[h] = mem[h - size]
    BY <1>2
  <2>3. mem'[i] = mem[j] /\ mem'[i + 1] = mem[j + 1] /\ mem'[i + 2] = mem[j + 2]
    <3>1. ASSUME NEW h \in rsp' .. size' - 1, NEW g, g = h - size PROVE mem'[h] = mem[g]
      BY <2>2, <3>1
    <3>2. ASSUME NEW e \in {0, 1, 2} PROVE mem'[i + e] = mem[j + e]
      <4> PICK h : h = i + e
        OBVIOUS
      <4> PICK g : g = j + e
        OBVIOUS
      <4>1. h \in rsp' .. size' - 1 /\ g = h - size
        BY <1>1, <1>2, <1>4, <2>0
      <4> QED
        BY <3>1, <4>1
    <3>3. i + 0 = i /\ j + 0 = j
      BY <1>1, <1>2, <1>4, <2>0
    <3> QED
      BY <3>2, <3>3
  <2>4. FrameOf(mem', i) = FrameOf(mem, j)
    BY <2>3 DEF FrameOf
  <2> QED
    BY <1>4, <2>4
<1>7. Frames' = u
  BY <1>4, <1>5, <1>6, FramesAre
<1> QED
  BY <1>2, <1>3, <1>7 DEF Abstract!vars

LEMMA MapInit == StackInit => Abstract!Init
<1> SUFFICES ASSUME StackInit PROVE Abstract!Init
  OBVIOUS
<1>1. Arity[Main] \in Nat /\ Arity[Main] <= InitSize
  BY StackAssumption
<1> PICK args \in [0 .. Arity[Main] - 1 -> Operands] :
           mem = [i \in 0 .. size - 1 |-> IF i < Arity[Main] THEN Val(args[i]) ELSE Junk]
  BY DEF StackInit
<1>2. sp = Arity[Main] /\ rsp = size /\ size = InitSize /\ bp = 0 /\ fun = Main /\ pc = 0 /\ mode = "run"
  BY DEF StackInit
<1>3. \A i \in 1 .. sp : mem[i - 1][2] = args[i - 1]
  <2> SUFFICES ASSUME NEW i \in 1 .. sp PROVE mem[i - 1][2] = args[i - 1]
    OBVIOUS
  <2> PICK j : j = i - 1
    OBVIOUS
  <2>1. j \in 0 .. size - 1 /\ j < Arity[Main]
    <3>1. sp \in Nat /\ i \in 1 .. sp /\ sp <= size /\ size \in Nat
      BY <1>1, <1>2, StackAssumption
    <3> QED
      BY ONLY <1>2, <3>1, j = i - 1
  <2>2. mem[j] = Val(args[j])
    BY <2>1
  <2>3. Val(args[j])[2] = args[j]
    BY ONLY DEF Val
  <2> QED
    BY <2>2, <2>3
<1>4. Operand \in [1 .. Arity[Main] -> Operands]
  <2>1. \A i \in 1 .. sp : args[i - 1] \in Operands
    BY <1>1, <1>2
  <2> QED
    BY <1>2, <1>3, <2>1 DEF Operand
<1>5. Frames = <<>>
  <2> PICK u : u = Frames
    OBVIOUS
  <2>1. Depth = 0 /\ u \in Seq(F) /\ Len(u) = Depth
    <3>1. StackInv /\ rsp \in Nat /\ size = rsp
      BY <1>2, InvInit, StackAssumption
    <3>2. Depth = 0
      BY <3>1, DepthFacts
    <3> QED
      BY <3>1, <3>2, FrameFacts DEF IsFrames
  <2> QED
    BY <2>1, EmptySeq
<1> QED
  BY <1>2, <1>4, <1>5 DEF Abstract!Init

LEMMA MapStep ==
  ASSUME Inv, Inv', mode' # "wild", [StackNext]_stackVars
  PROVE  Abstract!Next \/ UNCHANGED Abstract!vars
<1> DEFINE Mapped == Abstract!Next \/ UNCHANGED Abstract!vars
<1>1. CASE UNCHANGED stackVars
  BY <1>1 DEF stackVars, regs, Abstract!vars, Operand, Frames, Frame, Depth, Top, Stray
<1>2. ASSUME StackNext, mode = "wild" PROVE UNCHANGED stackVars
  BY <1>2 DEF StackNext, Push, RunNative, Pop, Return, Move, Jump, Call, RCall, Grow, Running, Exited
<1> SUFFICES ASSUME StackInv, StackInv', StackNext PROVE Mapped
  BY <1>1, <1>2 DEF Inv
<1>3. ASSUME NEW n \in 0 .. 2, NEW vs \in [1 .. n -> Operands], Push(vs) PROVE Mapped
  <2>1. Abstract!Extend(vs) \/ UNCHANGED Abstract!vars
    BY <1>3, MapPush
  <2> QED
    BY ONLY <2>1, n \in 0 .. 2, vs \in [1 .. n -> Operands] DEF Abstract!Next
<1>4. ASSUME NEW n \in 0 .. 1, NEW vs \in [1 .. n -> Operands], RunNative(vs) PROVE Mapped
  <2>1. Abstract!Yield(vs) \/ UNCHANGED Abstract!vars
    BY <1>4, MapNative
  <2>2. n \in 0 .. 2
    OBVIOUS
  <2> QED
    BY ONLY <2>1, <2>2, vs \in [1 .. n -> Operands] DEF Abstract!Next
<1>5. ASSUME NEW n \in 0 .. 2, Pop(n) PROVE Mapped
  BY <1>5, MapPop DEF Abstract!Next
<1>6. ASSUME NEW n \in 0 .. 2, Return(n) PROVE Mapped
  BY <1>6, MapReturn DEF Abstract!Next
<1>7. ASSUME NEW k \in 0 .. 1, NEW v \in Operands, Move(k, v) PROVE Mapped
  BY <1>7, MapMove DEF Abstract!Next
<1>8. ASSUME NEW q \in 0 .. Sites - 1, Jump(q) PROVE Mapped
  BY <1>8, MapJump DEF Abstract!Next
<1>9. ASSUME NEW f \in Functions, Call(f) PROVE Mapped
  BY <1>9, MapCall DEF Abstract!Next
<1>10. ASSUME NEW f \in Functions, RCall(f) PROVE Mapped
  BY <1>10, MapRCall DEF Abstract!Next
<1>11. CASE Grow
  BY <1>11, MapGrow
<1> QED
  BY <1>1, <1>3, <1>4, <1>5, <1>6, <1>7, <1>8, <1>9, <1>10, <1>11 DEF StackNext, Exited

(* Whatever is pushed, called, returned and grown, the memory is a stack of  *)
(* operands and a stack of environments without a bound, up to the first     *)
(* access outside it: what was put in comes back (ImplementsTwoStacks).  An  *)
(* overflow and the growth after it are not seen at all, so the instruction  *)
(* that overflowed is executed once, also with a stray word at the top.      *)
THEOREM StackRefined == StackSpec => ImplementsTwoStacks
<1>1. Inv /\ Inv' /\ [StackNext]_stackVars =>
        [mode' = "wild" \/ Abstract!Next \/ UNCHANGED Abstract!vars]_stackVars
  BY MapStep DEF Inv
<1> QED
  BY <1>1, MapInit, StackInvariant, PTL DEF StackSpec, ImplementsTwoStacks

(* A program that never leaves its memory, which is all that the first test  *)
(* of vm_save_environment is there for, runs on two unbounded stacks for     *)
(* ever, whatever it calls with however few operands.                        *)
THEOREM InMemoryRefines == StackSpec /\ []InMemory => Abstract!Spec
<1>1. /\ InMemory'
      /\ [mode' = "wild" \/ Abstract!Next \/ UNCHANGED Abstract!vars]_stackVars
      => [Abstract!Next]_(Abstract!vars)
  BY DEF InMemory, stackVars, regs, Abstract!vars, Operand, Frames, Frame, Depth, Top, Stray
<1> QED
  BY <1>1, StackRefined, PTL DEF ImplementsTwoStacks, Abstract!Spec
=============================================================================

----------------------------- MODULE SymbolTree -----------------------------
(***************************************************************************)
(* The search tree behind the assembler's symbols, labels, functions and   *)
(* constants (avl_templete.h): an AVL tree whose nodes are entries of one  *)
(* array, and which is copied, in another order, when the array is full.   *)
(* A caller looks a key up and, if it is new, inserts it with the next     *)
(* number (asm_struct.c:57-62, 84-95, 129-135).  Labels are cleared when   *)
(* the next function begins (parser.y:80).                                 *)
(*                                                                         *)
(* The program never removes a node, so that no tree ever gets smaller     *)
(* but by being cleared, and removal is left out.                          *)
(***************************************************************************)
EXTENDS Integers, Sequences, FiniteSets

CONSTANTS
  Keys,       \* finitely many integers, as those of C are
  InitSize    \* entries of the array at first

ASSUME SymbolTreeAssumption == Keys \subseteq Int /\ IsFiniteSet(Keys) /\ InitSize \in Nat

Nil == -1                  \* AVL_NULLNODE, of height 0
Sides == {"l", "r"}
Opposite(s) == IF s = "l" THEN "r" ELSE "l"

VARIABLES
  node,      \* data[0 .. size - 1]: parent, children, height, key, value
  root,
  room,      \* allocated_memory
  interned   \* the keys in the order of their first insertion

treeVars == <<node, root, room, interned>>

Size(T) == Cardinality(DOMAIN T)

\* A loop from x on: no loop goes through more entries than there are.
Repeated(f, x, n) ==
  LET after[k \in 0 .. n] == IF k = 0 THEN x ELSE f[after[k - 1]] IN after[n]

TreeTypeOK ==
  LET Links == DOMAIN node \cup {Nil} IN
  /\ DOMAIN node = 0 .. Len(interned) - 1
  /\ \A n \in DOMAIN node :
       /\ node[n].p \in Links /\ node[n].kid \in [Sides -> Links]
       /\ node[n].height \in Nat /\ node[n].key \in Keys /\ node[n].value \in Nat
  /\ root \in Links
  /\ Len(interned) <= room

TreeInit == node = <<>> /\ root = Nil /\ room = InitSize /\ interned = <<>>

-----------------------------------------------------------------------------
(* Rotations.  T is the array.                                             *)

Height(T, n) == IF n = Nil THEN 0 ELSE T[n].height
Measured(T, n) ==
  LET l == Height(T, T[n].kid["l"])
      r == Height(T, T[n].kid["r"])
  IN [T EXCEPT ![n].height = 1 + (IF l < r THEN r ELSE l)]

\* Assignments to n->l or n->r, and to n->p.
WithKid(T, n, s, m) == [T EXCEPT ![n].kid[s] = m]
WithParent(T, n, p) == [T EXCEPT ![n].p = p]

\* __rot_left (s = "l") and __rot_right: n goes down to side s, and its child
\* of the other side takes its place.
Rotated(T, n, s) ==
  LET t == T[n].kid[Opposite(s)]
      p == T[n].p
      m == T[t].kid[s]
      linked == IF p = Nil THEN T ELSE WithKid(T, p, IF T[p].kid["l"] = n THEN "l" ELSE "r", t)
      placed == WithParent(WithParent(linked, t, p), n, t)
      taken == WithKid(placed, n, Opposite(s), m)
      adopted == IF m = Nil THEN taken ELSE WithParent(taken, m, n)
  IN Measured(Measured(WithKid(adopted, t, s, n), n), t)

\* Seeded fault: only single rotations.
Balance_Single(T, n) ==
  LET b == Height(T, T[n].kid["l"]) - Height(T, T[n].kid["r"])
      s == IF b > 0 THEN "l" ELSE "r"
  IN IF b \in -1 .. 1 THEN [tree |-> Measured(T, n), top |-> n]
     ELSE [tree |-> Rotated(T, n, Opposite(s)), top |-> T[n].kid[s]]

\* A turn of __balance, at n: the array, and the node that is now above n's
\* subtrees.
Balance(T, n) ==
  LET b == Height(T, T[n].kid["l"]) - Height(T, T[n].kid["r"])
      s == IF b > 0 THEN "l" ELSE "r"
      t == T[n].kid[s]
      bent == Height(T, T[t].kid[s]) < Height(T, T[t].kid[Opposite(s)])
      U == IF bent THEN Rotated(T, t, s) ELSE T
  IN IF b \in -1 .. 1 THEN [tree |-> Measured(T, n), top |-> n]
     ELSE [tree |-> Rotated(U, n, Opposite(s)), top |-> U[n].kid[s]]

\* __balance: from n up to the root, which it returns.
Balanced(T, n) ==
  LET after[k \in 0 .. Size(T)] ==
        IF k = 0 THEN [tree |-> T, top |-> Nil, at |-> n]
        ELSE LET l == after[k - 1]
                 b == Balance(l.tree, l.at)
             IN IF l.at = Nil THEN l
                ELSE [tree |-> b.tree, top |-> b.top, at |-> b.tree[b.top].p]
  IN after[Size(T)]

-----------------------------------------------------------------------------
(* Growing the array.                                                      *)

\* __treecopy: the nodes in the order in which they are copied; a stack holds
\* those whose children are not copied yet.
WithNode(q, n) == IF n = Nil THEN q ELSE Append(q, n)
CopyOrder(T, r) ==
  LET after[k \in 0 .. Size(T)] ==
        IF k = 0 THEN [stack |-> <<r>>, out |-> <<r>>]
        ELSE LET c == after[k - 1]
                 n == c.stack[Len(c.stack)]
                 Kids(q) == WithNode(WithNode(q, T[n].kid["l"]), T[n].kid["r"])
             IN IF c.stack = <<>> THEN c
                ELSE [stack |-> Kids(SubSeq(c.stack, 1, Len(c.stack) - 1)), out |-> Kids(c.out)]
  IN after[Size(T)].out

Copied(T, r) ==
  LET order == CopyOrder(T, r)
      New(n) == IF n = Nil THEN Nil ELSE (CHOOSE i \in DOMAIN order : order[i] = n) - 1
  IN [i \in DOMAIN T |-> LET o == T[order[i + 1]] IN
        [o EXCEPT !.p = New(@), !.kid = [s \in Sides |-> New(o.kid[s])]]]

\* __tryresize: the array that the next node is put into, its root and size.
Grown(T, r) ==
  LET n == ((Size(T) + 1) * 3) \div 2 IN
  IF room > Size(T) THEN [tree |-> T, root |-> r, room |-> room]
  ELSE [tree |-> IF r = Nil THEN T ELSE Copied(T, r),
        root |-> IF r = Nil THEN Nil ELSE 0,
        room |-> IF n < InitSize THEN InitSize ELSE n]

-----------------------------------------------------------------------------
(* Operations.                                                             *)

Towards(T, n, k) == T[n].kid[IF T[n].key < k THEN "r" ELSE "l"]

\* _get: the node with a key, or Nil.
Get(k) ==
  LET down == [n \in DOMAIN node \cup {Nil} |->
                 IF n = Nil \/ node[n].key = k THEN n ELSE Towards(node, n, k)]
  IN Repeated(down, root, Size(node))

\* The loop of _insert: the node below which there is place for a key.
PlaceFor(T, r, k) ==
  LET down == [n \in DOMAIN T |-> IF Towards(T, n, k) = Nil THEN n ELSE Towards(T, n, k)]
  IN Repeated(down, r, Size(T))

MakeNode(T, k, v, p) ==
  [n \in DOMAIN T \cup {Size(T)} |->
     IF n # Size(T) THEN T[n]
     ELSE [p |-> p, kid |-> [s \in Sides |-> Nil], height |-> 1, key |-> k, value |-> v]]

\* _insert: tree, root and size of the array afterwards.
Inserted(k, v) ==
  LET big == Grown(node, root) IN
  IF big.root = Nil
  THEN [tree |-> MakeNode(big.tree, k, v, Nil), root |-> Size(big.tree), room |-> big.room]
  ELSE LET f == PlaceFor(big.tree, big.root, k)
           s == IF big.tree[f].key < k THEN "r" ELSE "l"
           T == WithKid(MakeNode(big.tree, k, v, f), f, s, Size(big.tree))
           even == Balanced(T, f)
       IN [tree |-> even.tree, root |-> even.top, room |-> big.room]

Intern(k) ==
  LET new == Inserted(k, Len(interned)) IN
  /\ Get(k) = Nil
  /\ node' = new.tree /\ root' = new.root /\ room' = new.room
  /\ interned' = Append(interned, k)

\* _clear.
ClearTree ==
  /\ node # <<>>
  /\ node' = <<>> /\ root' = Nil
  /\ room' = InitSize
  /\ interned' = <<>>

TreeNext == (\E k \in Keys : Intern(k)) \/ ClearTree

TreeSpec == TreeInit /\ [][TreeNext]_treeVars

\* _first and _next.
Leftmost(n) ==
  LET left == [m \in DOMAIN node \cup {Nil} |->
                 IF m = Nil \/ node[m].kid["l"] = Nil THEN m ELSE node[m].kid["l"]]
  IN Repeated(left, n, Size(node))
Climb(n) ==
  LET up == [m \in DOMAIN node \cup {Nil} |->
               IF m = Nil \/ node[n].key < node[m].key THEN m ELSE node[m].p]
  IN Repeated(up, n, Size(node))
NextNode(n) == IF node[n].kid["r"] # Nil THEN Leftmost(node[n].kid["r"]) ELSE Climb(n)

\* The keys that a walk meets, up to one more than there should be.
KeysInOrder ==
  LET next == [n \in DOMAIN node \cup {Nil} |-> IF n = Nil THEN Nil ELSE NextNode(n)]
      Nth(i) == Repeated(next, Leftmost(root), i - 1)
  IN [i \in {i \in 1 .. Size(node) + 1 : Nth(i) # Nil} |-> node[Nth(i)].key]

-----------------------------------------------------------------------------
(* Properties.                                                             *)

\* Every key that was interned is found, with the number that it was given
\* first, also after the array was copied; no other key is found; and a walk
\* with _first and _next meets all of them once, in ascending order.  The two
\* subtrees of a node differ in height by one at most, which is what the array
\* of 64 entries in __treecopy relies on.
SymbolsRight ==
  LET found == {k \in Keys : Get(k) # Nil}
      walk == KeysInOrder
  IN /\ found = {interned[i] : i \in DOMAIN interned}
     /\ \A i \in DOMAIN interned : node[Get(interned[i])].value = i - 1
     /\ Len(walk) = Len(interned)
     /\ \A i \in 1 .. Len(walk) - 1 : walk[i] < walk[i + 1]
     /\ \A n \in DOMAIN node :
          Height(node, node[n].kid["l"]) - Height(node, node[n].kid["r"]) \in -1 .. 1
=============================================================================

------------------------------ MODULE PageHeap ------------------------------
(***************************************************************************)
(* Allocation (vm_allocate.h) and the size of the heap (vm_gc.c:267-289,   *)
(* vm_base.c:124-140).  A worker hands out blocks from pages of its own,   *)
(* which it keeps in a binary heap with the emptiest page first; pages and *)
(* large blocks come from the shared half-space.  When that is full there  *)
(* is a collection, which packs what lives, drops every page and may       *)
(* resize the half-space.                                                  *)
(*                                                                         *)
(* Addresses and sizes are in units of a size_t, the header of a page.     *)
(***************************************************************************)
EXTENDS Integers, Sequences, FiniteSets

CONSTANTS
  Workers,
  Page,              \* VM_PAGE_SIZE
  Sizes,             \* that are asked for
  MinPage, MaxPage,  \* of the half-space
  High, Low, Grow    \* VM_HEAP_TRESHOLD_HIGH and LOW, VM_HEAP_RESIZE_HIGH

ASSUME PageHeapAssumption ==
  /\ Page \in Nat \ {0, 1} /\ Sizes \subseteq Nat \ {0}
  /\ MinPage \in Nat \ {0} /\ MaxPage \in Nat /\ MinPage <= MaxPage
  /\ High \in Nat /\ Low \in Nat /\ Grow \in Nat \ {0} /\ Low >= 4

NoPage == -1
Pages == 0 .. MaxPage * Page       \* where a page may start

VARIABLES
  page,      \* heap.page of each worker: the starts of its pages
  weight,    \* VM_PAGE_WEIGHT, in the header of a page
  data,      \* heap.data
  fill,      \* heap.offset
  dsize, doffset,   \* dmem.size and dmem.offset
  first,     \* whether dmem.data is dmem.block
  full,      \* an allocation has failed since the last collection
  fatal,     \* VM_FATAL("out of memory")
  used,      \* units that belong to live blocks
  handed     \* sum of the sizes of those blocks

dmemVars == <<dsize, first, fatal>>
heapVars == <<page, weight, data, fill, doffset, full, used, handed, dmemVars>>

HeapTypeOK ==
  /\ page \in [Workers -> Seq(Pages)]
  /\ DOMAIN weight \subseteq Pages /\ \A p \in DOMAIN weight : weight[p] \in 1 .. Page
  /\ data \in [Workers -> Pages \cup {NoPage}]
  /\ fill \in [Workers -> 0 .. Page]
  /\ \E n \in MinPage .. MaxPage : dsize = n * Page
  /\ doffset \in 0 .. dsize
  /\ first \in BOOLEAN /\ full \in BOOLEAN /\ fatal \in BOOLEAN
  /\ used \subseteq 0 .. dsize - 1 /\ handed \in Nat

EmptyHeaps ==
  /\ page' = [w \in Workers |-> <<>>]
  /\ weight' = <<>>
  /\ data' = [w \in Workers |-> NoPage]
  /\ fill' = [w \in Workers |-> Page]

HeapInit ==
  /\ page = [w \in Workers |-> <<>>]
  /\ weight = <<>>
  /\ data = [w \in Workers |-> NoPage]
  /\ fill = [w \in Workers |-> Page]
  /\ dsize = MinPage * Page /\ doffset = 0
  /\ first = TRUE /\ full = FALSE /\ fatal = FALSE
  /\ used = {} /\ handed = 0

-----------------------------------------------------------------------------
(* The binary heap.  Its first entry is T[1].                              *)

Swapped(T, a, b) == [T EXCEPT ![a] = T[b], ![b] = T[a]]

\* An exchange of vm_heap_repup: the entry h.at is not heavier than the one above.
Lifted(h, wt) ==
  LET a == h.at  S == h.tree IN
  IF a = 1 \/ wt[S[a]] > wt[S[a \div 2]] THEN h
  ELSE [at |-> a \div 2, tree |-> Swapped(S, a, a \div 2)]

\* vm_heap_repup, for an entry that was added at the end.
RepUp(T, wt) ==
  LET up[k \in 0 .. Len(T)] ==
        IF k = 0 THEN [at |-> Len(T), tree |-> T] ELSE Lifted(up[k - 1], wt)
  IN up[Len(T)].tree

\* An exchange of vm_heap_repdown: the lighter entry below h.at is not heavier.
Child(a, S, wt) ==
  IF 2 * a + 1 > Len(S) \/ wt[S[2 * a]] <= wt[S[2 * a + 1]] THEN 2 * a ELSE 2 * a + 1
Sunk(h, wt) ==
  LET a == h.at  S == h.tree  b == Child(a, S, wt) IN
  IF 2 * a > Len(S) \/ wt[S[b]] > wt[S[a]] THEN h
  ELSE [at |-> b, tree |-> Swapped(S, a, b)]

\* vm_heap_repdown, for a first entry that got heavier.
RepDown(T, wt) ==
  LET down[k \in 0 .. Len(T)] ==
        IF k = 0 THEN [at |-> 1, tree |-> T] ELSE Sunk(down[k - 1], wt)
  IN down[Len(T)].tree

-----------------------------------------------------------------------------
(* vm_heap_alloc.                                                          *)

\* The block of n units at a is the caller's.
Hand(a, n) == used' = used \cup (a .. a + n - 1) /\ handed' = handed + n

\* Seeded fault: the page stays where it is.
Retired_First(w) ==
  IF data[w] = NoPage
  THEN [page |-> page[w], weight |-> weight, data |-> NoPage, fill |-> fill[w]]
  ELSE [page |-> page[w], weight |-> [weight EXCEPT ![data[w]] = fill[w]], data |-> page[w][1], fill |-> fill[w]]

\* The worker's heap when its current page cannot hold n more units: the page
\* goes back to its place among the others, and the emptiest is current.
Retired(w) ==
  IF data[w] = NoPage
  THEN [page |-> page[w], weight |-> weight, data |-> NoPage, fill |-> fill[w]]
  ELSE LET wt == [weight EXCEPT ![data[w]] = fill[w]]
           T == RepDown(page[w], wt)
       IN [page |-> T, weight |-> wt, data |-> T[1], fill |-> wt[T[1]]]

Put(w, h) ==
  /\ page' = [page EXCEPT ![w] = h.page]
  /\ weight' = h.weight
  /\ data' = [data EXCEPT ![w] = h.data]
  /\ fill' = [fill EXCEPT ![w] = h.fill]

AllocHere(w, n) ==
  /\ fill[w] + n <= Page
  /\ fill' = [fill EXCEPT ![w] = @ + n]
  /\ Hand(data[w] + fill[w], n)
  /\ UNCHANGED <<page, weight, data, doffset, full, dmemVars>>

AllocThere(w, n) ==
  LET h == Retired(w) IN
  /\ fill[w] + n > Page /\ h.fill + n <= Page
  /\ Put(w, [h EXCEPT !.fill = @ + n])
  /\ Hand(h.data + h.fill, n)
  /\ UNCHANGED <<doffset, full, dmemVars>>

\* Neither page has room: n + 1 units are needed, or a page.
NoRoom(w, n) == fill[w] + n > Page /\ Retired(w).fill + n > Page

\* Seeded fault: the header of the page is forgotten.
Large_NoHeader(n) == n > Page

Large(n) == n > Page - 1

AllocLarge(w, n) ==
  /\ NoRoom(w, n) /\ Large(n) /\ dsize >= doffset + n
  /\ Put(w, Retired(w))
  /\ Hand(doffset, n)
  /\ doffset' = doffset + n
  /\ UNCHANGED <<full, dmemVars>>

AllocPage(w, n) ==
  LET h == Retired(w)
      wt == [p \in DOMAIN h.weight \cup {doffset} |-> IF p = doffset THEN n + 1 ELSE h.weight[p]]
      T == RepUp(Append(h.page, doffset), wt)
  IN
  /\ NoRoom(w, n) /\ ~Large(n) /\ dsize >= doffset + Page
  /\ Put(w, [page |-> T, weight |-> wt, data |-> T[1], fill |-> wt[T[1]]])
  /\ Hand(doffset + 1, n)
  /\ doffset' = doffset + Page
  /\ UNCHANGED <<full, dmemVars>>

\* VM_EXCEPTION_OOM: the page that was put back stays where it is.
AllocFails(w, n) ==
  /\ NoRoom(w, n) /\ dsize < doffset + (IF Large(n) THEN n ELSE Page)
  /\ Put(w, Retired(w))
  /\ full' = TRUE
  /\ UNCHANGED <<doffset, used, handed, dmemVars>>

-----------------------------------------------------------------------------
(* The collection, when all workers have halted.                           *)

\* vm_gc: the sizes that the half-space may have when live units of it are in
\* use.  It keeps its size in the second half, and when realloc fails.
Resized(live) ==
  LET n == dsize \div Page IN
  {dsize} \cup
    (IF first THEN {}          \* this collection copies into the second half
     ELSE IF live * High > dsize
          THEN {Page * (IF n = MaxPage THEN n ELSE IF n * Grow < MaxPage THEN n * Grow ELSE MaxPage)}
     ELSE IF live * Low < dsize
          THEN {Page * (IF n = MinPage THEN n ELSE IF n \div 2 > MinPage THEN n \div 2 ELSE MinPage)}
     ELSE {})

\* Seeded fault: the workers keep their pages.
Collect_KeepsPages(live) ==
  /\ full /\ live <= handed
  /\ UNCHANGED <<page, weight, data, fill, dsize>>
  /\ doffset' = live /\ used' = 0 .. live - 1 /\ handed' = live
  /\ first' = ~first /\ full' = FALSE /\ UNCHANGED fatal

Collect(live) ==
  /\ full /\ live <= handed
  /\ EmptyHeaps
  /\ dsize' \in Resized(live)
  /\ doffset' = live
  /\ used' = 0 .. live - 1 /\ handed' = live
  /\ first' = ~first
  /\ full' = FALSE
  /\ fatal' = (doffset = live /\ first' /\ dsize' = dsize)

HeapNext ==
  /\ ~fatal
  /\ \/ \E w \in Workers, n \in Sizes :
          \/ AllocHere(w, n) \/ AllocThere(w, n)
          \/ AllocLarge(w, n) \/ AllocPage(w, n) \/ AllocFails(w, n)
     \/ \E live \in 0 .. MaxPage * Page : Collect(live)

HeapSpec == HeapInit /\ [][HeapNext]_heapVars

-----------------------------------------------------------------------------
(* Properties.                                                             *)

\* Live blocks do not overlap each other or a page's header, and all of them
\* are inside the part of the half-space that was given out, also after the
\* half-space was resized.
BlocksDisjoint ==
  /\ Cardinality(used) = handed
  /\ used \cap DOMAIN weight = {}
  /\ used \subseteq 0 .. doffset - 1
  /\ doffset <= dsize

\* A worker takes a page from the half-space only for a block that none of its
\* own pages can hold, and it never has more pages than the array for them has
\* entries (vm_gc.c:6).
Room(w, p) == Page - (IF p = data[w] THEN fill[w] ELSE weight[p])
NoWaste ==
  [][\A w \in Workers :
       /\ Len(page'[w]) > Len(page[w]) =>
            \A i \in DOMAIN page[w] : Room(w, page[w][i]) < handed' - handed
       /\ Len(page'[w]) <= dsize' \div Page]_heapVars
=============================================================================

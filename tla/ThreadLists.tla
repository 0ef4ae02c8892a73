---------------------------- MODULE ThreadLists -----------------------------
(***************************************************************************)
(* The lists of green threads as they are in memory: a thread has one next *)
(* field, for the run queue (vm_thread.h) and for the list behind an       *)
(* unbound variable (vm_bind.c:117-132).  The queue is changed under the   *)
(* queue mutex and a variable's list under the variable's; a worker that   *)
(* has put a variable's waiting threads into the queue still holds that    *)
(* mutex, and the variable still points to them, until it is bound.        *)
(***************************************************************************)
EXTENDS Naturals, Sequences, FiniteSets

CONSTANTS
  ListWorkers,   \* worker pthreads
  ListThreads,   \* green threads that a run may create
  FirstThread,   \* the one that runs Main
  Undefs,        \* variables that are unbound at first
  NoLink         \* the null pointer

ASSUME ListsAssumption ==
  /\ NoLink \notin ListThreads \cup Undefs /\ FirstThread \in ListThreads
  /\ IsFiniteSet(ListThreads)

VARIABLES
  head, tail,    \* root->queue
  next,          \* v_thread.next of each thread
  held,          \* context->thread of each worker
  behind,        \* v_varible of each variable: the first thread that waits for it
  undefs,        \* the variables that are VM_VARIBLE_UNDEF
  binding,       \* the variable that each worker has to bind next, locked
  begun          \* threads that exist

listVars == <<head, tail, next, held, behind, undefs, binding, begun>>

Links == ListThreads \cup {NoLink}
ListTypeOK ==
  /\ head \in Links /\ tail \in Links
  /\ next \in [ListThreads -> Links] /\ behind \in [Undefs -> Links]
  /\ held \in [ListWorkers -> Links] /\ binding \in [ListWorkers -> Undefs \cup {NoLink}]

ListInit ==
  /\ head = FirstThread /\ tail = FirstThread
  /\ next = [t \in ListThreads |-> NoLink]
  /\ held = [w \in ListWorkers |-> NoLink]
  /\ behind = [x \in Undefs |-> NoLink]
  /\ undefs = Undefs
  /\ binding = [w \in ListWorkers |-> NoLink]
  /\ begun = {FirstThread}

\* The last thread of the list that begins with t, by the links n.
Further(n) == [t \in ListThreads |-> IF n[t] = NoLink THEN t ELSE n[t]]
EndOf(n, t) ==
  LET end[k \in 0 .. Cardinality(ListThreads)] == IF k = 0 THEN t ELSE Further(n)[end[k - 1]]
  IN end[Cardinality(ListThreads)]

\* vm_thread_queue; tail means nothing while head is null.
Enqueue(t) ==
  /\ head' = IF head = NoLink THEN t ELSE head
  /\ next' = IF head = NoLink THEN next ELSE [next EXCEPT ![tail] = t]
  /\ tail' = EndOf(next', t)

\* Seeded fault: next is left as it was, which looks harmless.
GetThread_KeepsNext(w) ==
  /\ held[w] = NoLink /\ head # NoLink
  /\ held' = [held EXCEPT ![w] = head]
  /\ head' = next[head]
  /\ UNCHANGED <<tail, next, behind, undefs, binding, begun>>

\* vm_thread_get.
GetThread(w) ==
  /\ held[w] = NoLink /\ head # NoLink
  /\ held' = [held EXCEPT ![w] = head]
  /\ head' = next[head]
  /\ next' = [next EXCEPT ![head] = NoLink]
  /\ UNCHANGED <<tail, behind, undefs, binding, begun>>

Runs(w) == held[w] # NoLink /\ binding[w] = NoLink
LetsGo(w) == held' = [held EXCEPT ![w] = NoLink]
Unlocked(x) == \A w \in ListWorkers : binding[w] # x

\* vm_thread_halt, a yield, and an allocation that fails.
QueueOwn(w) ==
  /\ Runs(w)
  /\ Enqueue(held[w])
  /\ LetsGo(w)
  /\ UNCHANGED <<behind, undefs, binding, begun>>

ThreadExit(w) == Runs(w) /\ LetsGo(w) /\ UNCHANGED <<head, tail, next, behind, undefs, binding, begun>>

\* vm_tcall: next is null in a new thread.
StartThread(w, t) ==
  /\ Runs(w) /\ t \in ListThreads \ begun
  /\ Enqueue(t)
  /\ begun' = begun \cup {t}
  /\ UNCHANGED <<held, behind, undefs, binding>>

\* vm_thread_wait of the list from t on, for x.
Attach(t, x) ==
  IF behind[x] = NoLink THEN behind' = [behind EXCEPT ![x] = t] /\ UNCHANGED next
  ELSE next' = [next EXCEPT ![EndOf(next, behind[x])] = t] /\ UNCHANGED behind

WaitFor(w, x) ==
  /\ Runs(w) /\ x \in undefs /\ Unlocked(x)
  /\ Attach(held[w], x)
  /\ LetsGo(w)
  /\ UNCHANGED <<head, tail, undefs, binding, begun>>

\* vm_bind of x to a value: the waiting threads first, then the variable.
ResumeWaiting(w, x) ==
  /\ Runs(w) /\ x \in undefs /\ Unlocked(x)
  /\ binding' = [binding EXCEPT ![w] = x]
  /\ IF behind[x] # NoLink THEN Enqueue(behind[x]) ELSE UNCHANGED <<head, tail, next>>
  /\ UNCHANGED <<held, behind, undefs, begun>>

SetReference(w) ==
  /\ binding[w] # NoLink
  /\ undefs' = undefs \ {binding[w]}
  /\ binding' = [binding EXCEPT ![w] = NoLink]
  /\ UNCHANGED <<head, tail, next, held, behind, begun>>

\* vm_bind of x to y, which is unbound, with both mutexes.
Unite(w, x, y) ==
  /\ Runs(w) /\ {x, y} \subseteq undefs /\ x # y /\ Unlocked(x) /\ Unlocked(y)
  /\ IF behind[x] # NoLink THEN Attach(behind[x], y) ELSE UNCHANGED <<next, behind>>
  /\ undefs' = undefs \ {x}
  /\ UNCHANGED <<head, tail, held, binding, begun>>

ListNext ==
  \E w \in ListWorkers :
    \/ GetThread(w) \/ QueueOwn(w) \/ ThreadExit(w) \/ SetReference(w)
    \/ \E t \in ListThreads : StartThread(w, t)
    \/ \E x \in Undefs : WaitFor(w, x) \/ ResumeWaiting(w, x)
    \/ \E x, y \in Undefs : Unite(w, x, y)

ListSpec == ListInit /\ [][ListNext]_listVars

-----------------------------------------------------------------------------
\* The threads from t on by the links n; one more than there are, if these form a cycle.
Longer(n) ==
  [s \in Seq(ListThreads) |->
     IF s = <<>> \/ n[s[Len(s)]] = NoLink THEN s ELSE Append(s, n[s[Len(s)]])]
ListFrom(n, t) ==
  LET list[k \in 0 .. Cardinality(ListThreads)] ==
        IF k = 0 THEN IF t = NoLink THEN <<>> ELSE <<t>> ELSE Longer(n)[list[k - 1]]
  IN list[Cardinality(ListThreads)]

Q == INSTANCE ThreadQueues WITH
  Threads <- ListThreads, Main <- FirstThread, Variables <- Undefs,
  ready <- ListFrom(next, head), born <- begun,
  waiting <- [x \in Undefs |-> IF x \in undefs /\ Unlocked(x) THEN ListFrom(next, behind[x]) ELSE <<>>],
  running <- {held[w] : w \in ListWorkers} \ {NoLink}

\* With one next field per thread, a tail that is stale whenever the queue is empty,
\* and a variable that points to its waiting threads after these are in the queue,
\* the lists are queues all the same: no thread is lost, taken twice or overtaken.
ImplementsQueues == Q!Spec
=============================================================================

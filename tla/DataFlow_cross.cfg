SPECIFICATION FairSpec
CONSTANTS
  Threads = {t1, t2, t3}
  Cells = {x, y}
  Values = {a, b}
  Label <- FlatLabel
  Items <- FlatItems
  Mutexes = {m1}
  BindOps <- CrossBinds
  ReadOps <- Reads
  MaxOps = 1
  MayRestart = FALSE
  MayOverflow = FALSE
  x = x
  y = y
  a = a
  b = b
  p = p
  q = q
  Hole = hole
  NoMutex = nomutex
  Nobody = nobody
  Undef = undef
INVARIANTS TypeOK Acyclic BlockedAtRoot NoLateWaiter
PROPERTIES NoSecondWait InstructionEnds

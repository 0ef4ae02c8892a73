SPECIFICATION Spec
CONSTANTS
  Threads = {t1, t2}
  Cells = {x, y}
  Values = {a, b, p, q}
  Label <- PairLabel
  Items <- PairItems
  Mutexes = {m1, m2}
  BindOps <- TermBinds
  ReadOps <- OneRead
  MaxOps = 1
  MayRestart = FALSE
  MayOverflow = TRUE
  x = x
  y = y
  a = a
  b = b
  p = p
  q = q
  Hole = hole
  NoMutex = nomutex
  Nobody = nobody
  Undef = undef
INVARIANTS NoLeakedMutex
CHECK_DEADLOCK FALSE

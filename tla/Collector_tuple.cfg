SPECIFICATION Spec
CONSTANTS
  th1 = th1
  th2 = th2
  x = x
  y = y
  z = z
  static = static
  Null = null
  Ids <- MCIds
  Statics <- MCStatics
  Heaps <- TupleHeaps
  First = th1
  Bases = {0, 20}
INVARIANTS CursorOnObject

SPECIFICATION MemorySpec
CONSTANTS
  main = main
  two = two
  native = native
  Functions <- MCFunctions
  Natives <- MCNatives
  Arity <- MCArity
  Main = main
  Operands = {1, 2}
  Sites = 2
  InitSize = 5
  Width = 8
  MaxDepth = 3
  MaxSp = 4
  th1 = th1
  th2 = th2
  x = x
  y = y
  z = z
  static = static
  Null = null
  Ids <- MCIds
  Statics <- MCStatics
  Heaps <- PlainHeaps
  First = th1
  Bases = {0, 20}
INVARIANTS MemoryTypeOK StacksApart WholeFrames MarkStackApart CopyIsFaithful
PROPERTIES OnlyTwoEdges ImplementsTwoStacks

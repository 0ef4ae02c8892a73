SPECIFICATION StackSpec
CONSTANTS
  main = main
  two = two
  native = native
  Functions <- MCFunctions
  Natives <- MCNatives
  Arity <- MCArity
  Main = main
  Operands = {1, 2}
  Sites = 2
  InitSize = 4
  Width = 8
  MaxDepth = 2
  MaxSp = 5
INVARIANT FramesToTop

SPECIFICATION Spec
CONSTANTS
  w1 = w1
  w2 = w2
  Workers <- MCWorkers
  Page = 5
  Sizes = {1, 2, 4, 5}
  MinPage = 2
  MaxPage = 4
  High = 2
  Low = 8
  Grow = 2
  Width = 4
  Names <- MCWaits
  Programs <- MCPrograms
  Float <- MCFloat
  Cells <- MCWaits
  Contents <- MCContents
  Locals <- MCLocals
  Structures <- MCStructures
  Questions <- MCQuestions
  Keys = {1, 2, 3, 4, 5, 6, 7}
  InitSize = 2
  ListWorkers <- MCWorkers
  ListThreads = {t0, t1, t2, t3}
  FirstThread = t0
  Undefs <- MCWaits
  NoLink = nolink
  Sources <- MCSources
  Lib <- MCLib
  Executed <- MCExecuted
  TypedInts = {5}
INVARIANTS
  PartsTypeOK BlocksDisjoint ResultRight MatchRight  SymbolsRight ImageRight LinksRight
PROPERTIES NoWaste ImplementsQueues ImplementsSource
CHECK_DEADLOCK FALSE

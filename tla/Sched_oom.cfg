SPECIFICATION FairSpec
CONSTANTS
  Workers = {w1, w2, w3}
  Threads = {main, t1, t2}
  Cells = {x}
  Main = main
  Supervisor = supervisor
  Nobody = nobody
  NoThread = nothread
  Faults <- OomFailStop
PROPERTIES GCServed ReadyRuns ShutdownCompletes ImplementsGreenThreads
INVARIANTS NoBadCmd

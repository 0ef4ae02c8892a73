SPECIFICATION Spec
CONSTANTS
  Workers = {w1, w2}
  Threads = {main, t1}
  Cells = {x}
  Main = main
  Supervisor = supervisor
  Nobody = nobody
  NoThread = nothread
  Faults <- OomSpurious
INVARIANTS NoBadCmd

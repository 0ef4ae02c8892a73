SPECIFICATION Spec
CONSTANTS
  Workers = {w1, w2, w3}
  Threads = {main, t1, t2}
  Cells = {x, y}
  Main = main
  Supervisor = supervisor
  Nobody = nobody
  NoThread = nothread
  Faults <- OomFailSpurious
SYMMETRY Symmetry
INVARIANTS TypeOK ActiveCount MutexOwner GCExclusive GCHasRoot ThreadConservation NoForgottenWaiter HaltStable

CONSTANTS
  Threads = {t1, t2, t3}
  Cap = 2
  Val = {a, b}
  None = None
  MaxPush = 4
SPECIFICATION Spec
INVARIANTS RefusedRightly
PROPERTIES ImplementsSharedFifo
SYMMETRY Symmetry

SPECIFICATION Spec
CONSTANTS
  Threads = {t1, t2, t3}
  Ids = {k1, k2, k3}
INVARIANTS
  SettledIsFinal
PROPERTIES
  ImplementsLifecycle
SYMMETRY Symmetry
CHECK_DEADLOCK FALSE

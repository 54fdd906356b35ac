SPECIFICATION Spec
CONSTANTS
  Tasks = {t1}
  NoTask = NoTask
  Blockers = {t1}
  Workers = {w1, w2}
  MaxId = 4
  Blocking = {"read", "recv", "write"}
  Capacity = 1
  Peer = TRUE
  Signals = TRUE
CHECK_DEADLOCK FALSE
INVARIANTS Handled
PROPERTIES StaleFreed

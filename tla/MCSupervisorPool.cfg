SPECIFICATION Spec
CONSTANTS
  Tasks = {t1, t2, t3}
  NoTask = NoTask
  Blockers = {t1}
  Workers = {w1, w2}
  MaxId = 6
  Blocking = {"read"}
  Capacity = 1
  Peer = TRUE
  Signals = FALSE
PROPERTIES Served Teardown
CHECK_DEADLOCK FALSE

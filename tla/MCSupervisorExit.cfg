SPECIFICATION Spec
CONSTANTS
  Tasks = {t1, t2}
  NoTask = NoTask
  Blockers = {t1}
  Workers = {w1, w2}
  MaxId = 5
  Blocking = {"recv"}
  Capacity = 1
  Peer = FALSE
  Signals = TRUE
INVARIANTS RunsUntilExit
CHECK_DEADLOCK FALSE

SPECIFICATION Spec
CONSTANTS
  Tids = {1, 2, 3}
  Outsiders = {9}
  InitTid = 1
  Fds = {}
  Cwds = {"/"}
  RootCwd = "/"
  CloneKinds = {"process", "thread"}
  Signals = TRUE
  TidReuse = FALSE
  DupMayFail = FALSE
  Workers = 2
  QueueBound = 1
  MaxTables = 6
  MaxClones = 2
CHECK_DEADLOCK FALSE
INVARIANTS IInv RefsExact NoOutsiders NotifierServed

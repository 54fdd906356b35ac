SPECIFICATION FairSpec
CONSTANTS
  Tids = {1, 2, 3}
  Outsiders = {}
  InitTid = 1
  Fds = {}
  Cwds = {"/"}
  RootCwd = "/"
  CloneKinds = {"process", "files"}
  Signals = TRUE
  TidReuse = FALSE
  DupMayFail = FALSE
  Workers = 1
  QueueBound = 1
  MaxTables = 6
  MaxClones = 2
CHECK_DEADLOCK FALSE
 
PROPERTIES LiveKeepsEntry HandlerReturns

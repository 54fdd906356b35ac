SPECIFICATION Spec
CONSTANTS
  Tasks = {L, a, b}
  Leader = L
  Host = host
  HostTables <- Hosts
  MaxFd = 5
  Attempts = 2
  Sweeps = 3
  MaxOut = 1
  Codes = {3}
  Waiters = {w1, w2}
  Runs <- SomeRuns
  Careless = {"configure", "install_fails", "host_reaps"}
CHECK_DEADLOCK FALSE
INVARIANTS  ExitKnown OutputComplete
 

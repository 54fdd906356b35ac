SPECIFICATION Spec
CONSTANTS
  Threads = {t1, t2}
  Real = {r1, r2}
  Virtual = {v1}
  Own = {k1}
  Placeholder = devnull
  NoFile = NoFile
  NoCall = NoCall
  NoThread = NoThread
  Std = 1
  Limit = 2
  MaxVfd = 3
  Calls = {"openat", "pipe2", "close", "exec"}
  Stress = {"dup2_virtual", "setfd_virtual", "stdio_fcntl", "addfd_fails", "refused", "racing"}
SYMMETRY Symmetric
INVARIANTS NumbersFresh
CHECK_DEADLOCK FALSE

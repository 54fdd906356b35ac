SPECIFICATION Spec
CONSTANTS
  Threads = {t1, t2}
  Real = {r1, r2}
  Virtual = {v1}
  Own = {k1}
  Placeholder = devnull
  NoFile = NoFile
  NoCall = NoCall
  NoThread = NoThread
  Std = 1
  Limit = 3
  MaxVfd = 3
  Calls = {"openat", "pipe2", "socketpair", "create", "dup", "dupfd", "dup2", "dup3", "close", "close_range", "setfd", "cloexec_range", "exec"}
  Stress = {}
SYMMETRY Symmetric
CHECK_DEADLOCK FALSE
INVARIANTS TablesAgree
 

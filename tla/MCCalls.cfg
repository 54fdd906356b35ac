SPECIFICATION Spec
CHECK_DEADLOCK FALSE
CONSTANTS
  Guestkinds = {"net", "bytes", "exec", "proc"}
  Socks = {s1}
  Callers = {c1}
  Pushers = {p1}
  Policies <- Policy
  MaxPushes = 2
  Torn = FALSE
  Readers = {r1, r2}
  Workers = {w1, w2}
  Kinds = {"pipe", "stream", "dgram", "proc", "log"}
  IO_CHUNK = 2
  MAX_IOV = 2
  Room = 3
  Content = 3
  MaxBytes = 3
  MaxSeeks = 1
  Reckless = {}
  Boxes = {a, b}
  Guests <- MCGuests
  Programs = {"lower", "cow", "tmp", "short", "proc"}
  Base = 2
  CODE_LEN = 2
  Probes = 3
  MaxExecs = 3
  MaxDrops = 1
  Habits = {}
  Pids = {1, 2, 3, 4}
  Init0 = 1
  Daemon = 4
  Askers = {a1}
  MaxTasks = 4
  Lifted = {}
SYMMETRY Symmetric
INVARIANTS PolicyHolds NothingLost DeliveredRight WorkersFree   

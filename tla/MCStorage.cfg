SPECIFICATION Spec
CONSTANTS
  a = a
  b = b
  u = u
  v = v
  i = i
  k = k
  k1 = k1
  k2 = k2
  Clients = {c1, c2}
  Uids = {u, v}
  Ids = {i}
  Keys = {k, k1, k2}
  Names = {a, b}
  Ignored = {b}
  MaxVersion = 2
  MaxOps = 2
  MaxWrites = 2
  Extends <- Longer
  Starts <- Beginnings
  Careless = {}
SYMMETRY Symmetric
CHECK_DEADLOCK FALSE
INVARIANTS  ArchivesRight  

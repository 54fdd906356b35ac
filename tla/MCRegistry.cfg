SPECIFICATION Spec
CONSTANTS
  Clients = {c1, c2}
  Names = {n}
  p0 = p0
  p1 = p1
  Confs = {p0, p1}
  Default = p0
  MaxUid = 2
  MaxSid = 2
  Calls = {"create", "prepare", "fork", "free", "configure", "run", "session", "end", "write", "rollback"}
  Deployments <- TwoDeployments
SYMMETRY Symmetric
CHECK_DEADLOCK FALSE
INVARIANTS SandboxesWhole  NamesUnique NoneForgotten
PROPERTIES OverlaysGoLast Survives

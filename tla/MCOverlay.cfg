SPECIFICATION Spec
CONSTANTS
  Paths <- Few
  Order <- FewOrder
  HostTree <- FewHost
  Raw <- FewRaw
  OpenFlags <- Flags
  Handles = {h1}
  MaxOpen = 1
  Page = 1
  Careless = {}
INVARIANTS RepliesAgree HandlesTrue  ListedOnce
PROPERTIES ImplementsTree

\* The clock runs past one TTL and several refreshes.
SPECIFICATION Spec
CONSTANTS
  Local = {"h"}
  Remote = {"r"}
  Cpus = {c1, c2}
  TTL = 6
  REFRESH = 2
  MaxSkew = 2
  MaxTime = 9
  Eviction = TRUE
SYMMETRY Symmetry
INVARIANTS
  TypeOK
  RepliesAreBacked
  SilentFlowsAreAnswered

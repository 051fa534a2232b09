\* The map loses nothing: only the switch from "allow" to "deny incoming".
SPECIFICATION Spec
CONSTANTS
  Local = {"h"}
  Remote = {"r"}
  Cpus = {c1, c2}
  TTL = 6
  REFRESH = 2
  MaxSkew = 2
  MaxTime = 9
  Eviction = FALSE
INVARIANTS
  ExistingFlowsSurvive

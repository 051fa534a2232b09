SPECIFICATION Spec
CONSTANTS
  Daemons = {"service", "byhand"}
  Service = "service"
  Commands <- MCCommands
  Faults = {"load", "save", "sync", "maps"}
  MaxFaults = 2
INVARIANTS TypeOK AnswersAreTrue FileIsWhole NoLeftoverError OneDaemonServes
PROPERTIES NobodyBlocksARequest ServiceComesBack
CHECK_DEADLOCK FALSE

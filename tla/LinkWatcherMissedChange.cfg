\* An interface that changes twice between two polls, and back.
SPECIFICATION Spec
CONSTANTS
  Names = {"wg0"}
  FileRules = {"wg0"}
  L2Max = 4
  Faults = {}
  MaxEvents = 3
PROPERTIES
  AsIfSubscribed

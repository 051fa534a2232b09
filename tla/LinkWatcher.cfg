\* Two interfaces that change at any time, also in the middle of an attach.
SPECIFICATION Spec
CONSTANTS
  Names = {"eth0", "wg0"}
  FileRules = {"wg0"}
  L2Max = 2
  Faults = {"xdp", "tc"}
  MaxEvents = 3
INVARIANTS
  TypeOK
  AttachedMeansFiltered
  L2KnownWhileRoom
PROPERTIES
  RulesFollowLinks
  EveryInterfaceFiltered

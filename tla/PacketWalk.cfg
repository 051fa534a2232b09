\* One CPU is enough: walks do not interact with each other.
SPECIFICATION WSpec
CONSTANTS
  RULES_MAX = 2
  UserRules <- MCRules
  Classes <- MCClasses
  Ifaces <- MCIfaces
  InvalidNames <- MCInvalidNames
  IfIndexes <- MCIfIndexes
  Packets <- MCInbound
  InitFiles <- MCLongFile
  Faults = {"policy", "slot"}
  MaxOps = 2
  MaxExits = 1
  Cpus = {c1}
INVARIANTS
  WTypeOK
  VerdictOfOneInstant
  OneSyncIsSafe

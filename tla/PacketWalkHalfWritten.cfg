\* Two operations during one walk, no faults.
SPECIFICATION WSpec
CONSTANTS
  RULES_MAX = 2
  UserRules <- MCRules
  Classes <- MCClasses
  Ifaces <- MCIfaces
  InvalidNames <- MCInvalidNames
  IfIndexes <- MCIfIndexes
  Packets <- MCInbound
  InitFiles <- MCLongFile
  Faults = {}
  MaxOps = 2
  MaxExits = 0
  Cpus = {c1}
INVARIANTS
  NeverHalfWritten

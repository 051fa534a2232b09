\* Every fault, every kind of request, crashes at every step.
SPECIFICATION Spec
CONSTANTS
  RULES_MAX = 2
  UserRules <- MCAllRules
  Classes <- MCClasses
  Ifaces <- MCIfaces
  InvalidNames <- MCInvalidNames
  IfIndexes <- MCIfIndexes
  Packets <- MCPackets
  InitFiles <- MCLongFile
  Faults = {"load", "save", "policy", "slot", "config"}
  MaxOps = 3
  MaxExits = 1
INVARIANTS
  TypeOK
  AckedMeansEnforced
PROPERTIES
  AtomicSwitch
  ResetNeverTightens

\* No faults, rules that build: requests cut short by crashes.
SPECIFICATION Spec
CONSTANTS
  RULES_MAX = 2
  UserRules <- MCGoodRules
  Classes <- MCClasses
  Ifaces <- MCIfaces
  InvalidNames <- MCInvalidNames
  IfIndexes <- MCIfIndexes
  Packets <- MCPackets
  InitFiles <- MCLongFile
  Faults = {}
  MaxOps = 2
  MaxExits = 2
PROPERTIES
  Converges
  ImplementsEnforcement

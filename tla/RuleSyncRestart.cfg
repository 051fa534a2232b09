\* No faults at all: one request the daemon accepts too early.
SPECIFICATION Spec
CONSTANTS
  RULES_MAX = 2
  UserRules <- MCAllRules
  Classes <- MCClasses
  Ifaces <- MCIfaces
  InvalidNames <- MCInvalidNames
  IfIndexes <- MCIfIndexes
  Packets <- MCPackets
  InitFiles <- MCNoFile
  Faults = {}
  MaxOps = 2
  MaxExits = 1
INVARIANTS
  InitialSyncSucceeds

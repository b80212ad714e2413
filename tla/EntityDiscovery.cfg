SPECIFICATION Spec
CONSTANTS
  Devices <- MCDevices
  Orders <- MCOrders
  MaxSessions = 2
  nullopt = nullopt
INVARIANTS
  KeysAreRight
  VerifiedIffComplete
CHECK_DEADLOCK FALSE

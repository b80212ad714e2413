SPECIFICATION FairSpec
CONSTANTS
  Callers = {c1}
  Callbacks = {}
  NoCallback = NoCallback
  NoReading = NoReading
  Garbled = Garbled
  Readings <- CapsReadings
  Requests <- CapsRequests
  Offers <- OldAndNew
  MaxCalls = 2
INVARIANTS
  TypeOK
  UnreportedIsLegacy
  SentWasValidated
  WireOrder
PROPERTY PostedGetsRun

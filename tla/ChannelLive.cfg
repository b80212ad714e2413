SPECIFICATION Spec
CONSTANTS
  Callers = {c1}
  Callbacks = {l1, l2}
  NoCallback = NoCallback
  NoReading = NoReading
  Garbled = Garbled
  Readings <- LiveReadings
  Requests <- LiveRequests
  Offers <- OldAndNew
  MaxCalls = 0
SYMMETRY Symmetry
INVARIANTS
  SnapshotTracksStore
  CallbackSeesCurrent
  LateCallOnce

SPECIFICATION FairSpec
CONSTANTS
  Channels = {1, 2}
  Target = 1
  MaxUpdates = 2
INVARIANTS
  TypeOK
  CallbackTargetsAlive
  ExitTellsDelivery
  WatchMissesNothing
PROPERTY Finishes

SPECIFICATION FairSpec
CONSTANTS
  Callers = {a}
  Caps = {k1, k2}
  MaxAttempts = 2
INVARIANTS
  TypeOK
  FirstConnectIsReady
  DiscoverFrameAlive
  NoMissedSettle
  DisconnectedIsQuiet
  NeverTerminates
PROPERTIES
  ConnectReturns
  ShutdownReturns
  ImplementsContract

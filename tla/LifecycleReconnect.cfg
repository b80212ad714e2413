SPECIFICATION Spec
CONSTANTS
  Callers = {a}
  Caps = {k1}
  MaxAttempts = 2
INVARIANT ConnectIsReady

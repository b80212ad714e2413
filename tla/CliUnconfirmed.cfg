SPECIFICATION Spec
CONSTANTS
  Channels = {1, 2}
  Target = 1
  MaxUpdates = 2
INVARIANT PrintedIsConfirmed

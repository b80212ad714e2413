SPECIFICATION Spec
CONSTANTS
  Channels = {1, 2}
  MaxUpdates = 2
  MaxLines = 2
INVARIANT PanelIsCurrent

SPECIFICATION FairSpec
CONSTANTS
  Channels = {1, 2}
  MaxUpdates = 2
  MaxLines = 2
INVARIANTS
  TypeOK
  SessionFollowsChannel
  PromptIsLast
  SessionOutlivesLoop
PROPERTIES
  PromptReturns
  UpdatesGetThrough

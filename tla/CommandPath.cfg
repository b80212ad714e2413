SPECIFICATION Spec
CONSTANTS
  Nibbles = 16
  Channels <- MCChannels
  Boards <- MCBoards
  CliLines <- MCCliLines
  ReplLines <- MCReplLines
  Wishes <- MCWishes
INVARIANTS
  TypeOK
  RequestIsWish
  TextTellsRequest
  ServedExactly
  WordSurvives

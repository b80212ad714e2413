SPECIFICATION Spec
CONSTANTS
  Runs = {p, q}
  Hosts = {1, 2, 3}
  NoKey = NoKey
  OldKey = OldKey
  Edited <- EditedFiles
INVARIANTS
  TypeOK
  ConnectionIsFound
  NoKeyLeaks
  NoticeOnce
  SerialRunsRemember

\* Two requests and two archive runs on two connections, one failure.
SPECIFICATION FairSpec
CONSTANTS
  w1 = w1
  w2 = w2
  r1 = r1
  r2 = r2
  nobody = nobody
  Writers = {w1, w2}
  Runs = {r1, r2}
  LastDay = 3
  LastWrite = 1
  HotDays = 1
  RetentionDays = 2
  MaxEntries = 2
  Connections = 2
  Chunk = 1
  MaxWindows = 1
  MaxFailures = 1
  None = nobody
INVARIANTS
  TypeOK
  NothingLost
  ArchiveIsShown
PROPERTIES
  ImplementsTrail
  OldEntriesLeave
  WritersReturn

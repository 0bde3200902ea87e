SPECIFICATION FairSpec
CONSTANTS
  Numbers = {1, 2, 3}
  SeqLimit = 8
  MaxPages = 4
  MaxLogs = 3
  HiveSizes = {2}
  MaxEntries = 2
  Bodies <- MCBodies
INVARIANTS
  TypeOK
  NewestImageWins
  HeaderIsHighest
  NeverBehindPrimary
  GapsOnlyAtBases
PROPERTY
  Terminates
CHECK_DEADLOCK FALSE

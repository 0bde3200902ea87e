SPECIFICATION Spec
CONSTANTS
  Numbers = {1, 2, 3}
  SeqLimit = 8
  MaxPages = 4
  MaxLogs = 3
  HiveSizes = {2}
  MaxEntries = 2
  Bodies <- MCBodies
INVARIANT
  BinsCoverPages
CHECK_DEADLOCK FALSE

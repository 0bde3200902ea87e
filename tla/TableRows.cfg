SPECIFICATION TableSpec
CONSTANTS
  Kind <- MCKind
  MaxValues = 6
  MaxValueBytes = 16
  filetimeEpoch = 100
  filetimeMax = 200
  TicksPerSecond = 10
  Columns = {"path", "sha1", "class"}
  Pushed = {"path", "sha1"}
  Texts <- MCTexts
  Empty <- Blank
  TooLong <- MCTooLong
  Fold <- MCFold
  CheckEvery = 2
  MaxRecords = 3
  MaxConstraints = 2
  Snapshots <- MCSnapshots
  Queries <- MCQueries
  Clocks <- MCClocks
INVARIANTS
  RowsTypeOK
  NoRowLost
  Narrow
  NoSubkeyLost
  SeenIsFound
  CellsMean
PROPERTIES
  ImplementsPushdown
CHECK_DEADLOCK FALSE

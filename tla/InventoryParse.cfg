SPECIFICATION Spec
CONSTANTS
  Keys <- MCKeys
  LegacyKeys = {"File"}
  OtherNames = {"InventoryMiscellaneous"}
  Ranks = {1, 2}
  Payloads = {"v", "w"}
  NoValues = "none"
  CheckEvery = 2
  Hives <- MCHives
INVARIANTS
  TypeOK
  WholeSnapshot
  Deterministic
  DamageIsContained
  StopsSoon
CHECK_DEADLOCK FALSE

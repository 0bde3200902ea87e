SPECIFICATION QueueSpec
CONSTANTS
  Queries = {q1, q2}
  Expirers = {e1}
  TTL = 2
  Timeout = 1
  MaxGeneration = 2
PROPERTIES
  QueuedCallLeaves
  IdleSnapshotDropped

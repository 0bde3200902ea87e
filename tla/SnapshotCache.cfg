SPECIFICATION HSpec
CONSTANTS
  Queries = {q1, q2}
  Expirers = {e1, e2}
  TTL = 2
  Timeout = 1
  MaxGeneration = 3
INVARIANTS
  TypeOK
  Exclusive
  StatFresh
  HeldIsTimed
PROPERTIES
  ImplementsService
  SharedWithinWindow
SYMMETRY Symmetry

CONSTANTS
  Items = 2
  Limit = 3
  PageSize = 2
  BatchSize = 2
  MaxAttempts = 2
SPECIFICATION Spec
CHECK_DEADLOCK FALSE
INVARIANTS SuccessStored ClosesUp
PROPERTIES RunEnds StoredInOrder

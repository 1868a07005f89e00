CONSTANTS
  Items = 2
  Limit = 2
  PageSize = 2
  BatchSize = 2
  MaxAttempts = 2
SPECIFICATION Spec
CHECK_DEADLOCK FALSE
INVARIANT OneRowPerPost

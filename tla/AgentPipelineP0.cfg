SPECIFICATION Spec
CONSTANTS
  MaxPool = 4
  WithSnapshot = TRUE
INVARIANTS
  NeverActOnBlock
CHECK_DEADLOCK FALSE

SPECIFICATION Spec
CONSTANTS
  MaxPool = 4
  WithSnapshot = TRUE
INVARIANTS
  TypeOK
  JoinBeforeHistorian
  GatesInOrder
  BreakoutReviewed
  HaltAgreesWithVerdict
PROPERTIES
  RunEnds
  TriageSpec
CHECK_DEADLOCK FALSE

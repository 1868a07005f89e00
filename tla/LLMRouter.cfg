SPECIFICATION Spec
CONSTANTS
  Callers = {"a", "b", "c"}
  NumProviders = 2
  FailThreshold = 2
  Cooldown = 2
INVARIANTS
  TypeOK
  OpenAtThreshold
PROPERTIES
  LeftAlone
  CompletionEnds
  Recovers

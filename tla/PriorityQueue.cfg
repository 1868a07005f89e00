SPECIFICATION Spec
CONSTANTS
  Members = {1, 2}
  Workers = {"w1", "w2"}
  Tiers = 2
  Width = 2
  MaxItems = 2
  MaxPushes = 3
INVARIANTS
  OnePlace
  NoOvertaking
  LimitKept
PROPERTY GoesOneWay

SPECIFICATION Spec
CONSTANTS
  Tasks = {"t1", "t2", "t3"}
  Closers = {"t1"}
  Tenants = {"v1", "acme", "zeta"}
  Default = "v1"
  MaxSize = 2
  MaxPools = 2
  MaxGauge = 4
INVARIANTS TenantIsolation NoPoolLeaked
PROPERTIES ClosesWhatItLeaves AcloseEnds
CHECK_DEADLOCK FALSE

SPECIFICATION Spec
CONSTANTS
  p1 = p1
  p2 = p2
  t1 = t1
  t2 = t2
  Proxies <- MCProxies
  Tasks <- MCTasks
  Hosts = {"shop", "forum"}
  Sessions = {"login"}
  Quarantine = 2
  MaxTime = 4
  NoProxy = "none"
  NoSession = "no session"
  Direct = "direct"
  Cost = 2
  Capacity = 4
  ClearanceTTL = 1
SYMMETRY Symmetry
INVARIANT RateKept
PROPERTIES QuarantineKept SessionKept
CHECK_DEADLOCK FALSE

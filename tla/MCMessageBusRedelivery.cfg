SPECIFICATION Spec
CONSTANTS
  Agents = {"scout"}
  Broadcast = "broadcast"
  Consumers = {"k1", "k2"}
  AgentOf <- MCAgentOf
  Batch = 2
  MaxLen = 1
  MaxEntries = 2
  MaxRestarts = 1
PROPERTIES
  PendingRedelivered
CHECK_DEADLOCK FALSE

SPECIFICATION Spec
CONSTANTS
  Connectors = {c1, c2}
  Sockets = {s1, s2}
  None = None
  Faults = {}
  QueueBound = 1
INVARIANT ConnectorDeletedOnceConnected
CHECK_DEADLOCK FALSE

\* Unexpected errors, and a peer that leaves before remote_endpoint().
SPECIFICATION Spec
CONSTANTS
  Connectors = {c1, c2}
  Sockets = {s1, s2}
  None = None
  Faults = {"error", "throw"}
  QueueBound = 2
INVARIANTS SingleDriver NeverForgotten IInv
PROPERTY ImplementsReconnector
\* The process may end, and a client that is stuck stays stuck.
CHECK_DEADLOCK FALSE

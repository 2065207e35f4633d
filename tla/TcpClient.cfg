\* A well behaved network: nothing but refusals and lost connections.
SPECIFICATION FairSpec
CONSTANTS
  Connectors = {c1, c2}
  Sockets = {s1, s2}
  None = None
  Faults = {}
  QueueBound = 1
INVARIANT NoCancelOfMovedSocket
PROPERTY Reconnects
\* A client replaced while the configuration was parsed is at its end.
CHECK_DEADLOCK FALSE

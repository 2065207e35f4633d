SPECIFICATION Spec
CONSTANTS
  Clients = {c1, c2}
  NoClient = NoClient
  MaxSent = 2
  MaxConns = 3
  MaxCuts = 1
INVARIANTS Framed IInv
PROPERTY ImplementsLossyFifo DeliveredOrLost NoGhost
\* All connections are closed, and there is nothing left to send.
CHECK_DEADLOCK FALSE

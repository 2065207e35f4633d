SPECIFICATION Spec
CONSTANTS
  HdrSize = 2
  Base = 2
  MaxSize = 2
  MaxSent = 3
INVARIANTS NothingHeldBack IInv
PROPERTY ImplementsMessageFifo
\* Everything has been sent and received.
CHECK_DEADLOCK FALSE

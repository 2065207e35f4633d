SPECIFICATION Spec
CONSTANTS
  Units = 3
  DropOn = {"drop"}
  MaxMsgs = 4
INVARIANTS
  TypeOK
  NoStrandedMessage
  OneWriteAtATime
  OneLossReported
  SilencedByFailure
  IInv
PROPERTIES
  ImplementsFifoLink
  SilentOnceReleased
  AcceptedIsSent
  ReleasedIsClosed
\* A transport given up and closed is at its end.
CHECK_DEADLOCK FALSE

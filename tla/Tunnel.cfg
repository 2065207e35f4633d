SPECIFICATION Spec
CONSTANTS
  Base = 2
  AddrBytes = 1
  PortBytes = 2
  Locals <- MCLocals
  Points <- MCPoints
  Routes <- MCRoutes
  Payloads <- MCPayloads
  MaxLines = 4
INVARIANTS RunsAsWritten StartsUnlessRefused RelayedToConfigured IInv
\* The program has failed, or runs without a receiver.
CHECK_DEADLOCK FALSE

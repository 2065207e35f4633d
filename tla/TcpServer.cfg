SPECIFICATION Spec
CONSTANTS
  a1 = a1
  a2 = a2
  s1 = s1
  s2 = s2
  s3 = s3
  Addrs <- MCAddrs
  Sockets <- MCSockets
  None = None
  Errs = {"other"}
  QueueBound = 0
SYMMETRY MCSymmetry
INVARIANTS OwnedIsRegistered NeverDeaf IInv
PROPERTY LostByOwnFailure
\* A server replaced while the configuration was parsed is at its end.
CHECK_DEADLOCK FALSE

SPECIFICATION Spec
CONSTANTS
  Pids = {65535, 70000}
  Times = {65535, 129024, 1000000}
  Options = {0, 4, 40}
INVARIANT RequestIsSent
CHECK_DEADLOCK FALSE

SPECIFICATION FairSpec
CONSTANTS
  b1 = b1
  b2 = b2
  b3 = b3
  Procs = {b1, b2, b3}
  ListenMayFail = TRUE
  Crashes = TRUE
  NoProc = NoProc
CHECK_DEADLOCK FALSE
INVARIANTS OneBackend GatedWhileReplaced Reachable
PROPERTIES CancelExits

SPECIFICATION Spec
CONSTANTS
  Ips = {"far", "friend", "loop"}
  Ports = {1, 2}
  Pids = {7, 8}
  Local = {"loop"}
  NeverBlock = {"friend"}
  SuspiciousPorts = {1}
  Shells = {7}
  Threshold = 2
  WindowSecs = 2
  AlertNewListener = TRUE
  FirewalldBlock = TRUE
  MaxReported = 1
  Tables <- MCTables
  MaxTime = 3
  MaxPolls = 3
INVARIANTS ScanJustified ScanFound BlocksTold NoRepeats ListenersTold
CHECK_DEADLOCK FALSE

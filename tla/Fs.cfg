CONSTANTS
  Paths = {shadow, script, log}
  Sensitive = {shadow}
  Scripts = {script}
  Logs = {log}
  Ignored = {}
  DebounceSecs = 2
  RawCapacity = 1
  KernelCapacity = 1
  PruneAt = 1
  MaxTime = 3
  MaxChanges = 3
SPECIFICATION Spec
INVARIANT OnePerWindow
PROPERTY EventuallyAlerted
CHECK_DEADLOCK FALSE

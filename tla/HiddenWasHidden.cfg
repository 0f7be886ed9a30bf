SPECIFICATION Spec
CONSTANTS
  Pids = {3, 4}
  MarkSets = {{}}
  MaxEvents = 3
INVARIANT HiddenWasHidden

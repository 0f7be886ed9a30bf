SPECIFICATION FairSpec
CONSTANTS
  Pids = {3, 4}
  MarkSets <- MCMarkSets
  MaxEvents = 3
INVARIANT OncePerProcess
PROPERTY MarkedReported

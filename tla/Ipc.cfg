CONSTANTS
  Monitors = {fs}
  Severities = {"high"}
  Categories = {"filesystem"}
  NoAlert = NoAlert
  RecentBuffer = 2
  MaxHourBuckets = 2
  HourLength = 1
  MpscCapacity = 1
  DayLength = 1
  MaxRaised = 2
  MaxTime = 0
  MaxBoots = 2
  MaxFaults = 0
  Clients = {reader}
  Limits = {5}
  MaxLimit = 1
  BroadcastCapacity = 1
  SocketCapacity = 1
  MaxAsked = 2
SPECIFICATION FairSpec
INVARIANTS
  StreamAccounted
  SnapshotsKeepUp
  SnapshotJoinsStream
  Conversation
PROPERTIES
  SessionsReclaimed
  ReadersServed
CHECK_DEADLOCK FALSE

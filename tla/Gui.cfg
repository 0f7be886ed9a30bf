CONSTANTS
  Monitors = {fs}
  Severities = {"high"}
  Urgent = {"high"}
  Categories = {"filesystem"}
  NoAlert = NoAlert
  RecentBuffer = 2
  MaxHourBuckets = 2
  HourLength = 1
  MpscCapacity = 1
  DayLength = 1
  MaxRaised = 3
  MaxTime = 0
  MaxBoots = 2
  MaxFaults = 0
  Clients = {gui}
  TheGui = gui
  Limits = {2}
  GuiLimit = 2
  MaxLimit = 5
  MaxAlerts = 3
  MaxEvents = 1
  BroadcastCapacity = 1
  SocketCapacity = 1
SPECIFICATION FairSpec
INVARIANTS
  LightAgrees
  ListComplete
  NotifiedOnce
  TwiceOnlyAfterSnapshot
  DetailsAgree
PROPERTIES
  LightSettles
  EventuallyShown
CHECK_DEADLOCK FALSE

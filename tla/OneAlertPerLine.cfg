CONSTANTS
  Monitors = {fs, net}
  Severities = {"high"}
  Categories = {"filesystem"}
  NoAlert = NoAlert
  RecentBuffer = 2
  MaxHourBuckets = 2
  HourLength = 1
  MpscCapacity = 1
  DayLength = 1
  MaxRaised = 3
  MaxTime = 0
  MaxBoots = 2
  MaxFaults = 1
SPECIFICATION PipeSpec
INVARIANT OneAlertPerLine
CHECK_DEADLOCK FALSE

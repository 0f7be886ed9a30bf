CONSTANTS
  Monitors = {fs, net}
  Severities = {"high"}
  Categories = {"filesystem"}
  NoAlert = NoAlert
  RecentBuffer = 1
  MaxHourBuckets = 3
  HourLength = 1
  MpscCapacity = 1
  DayLength = 2
  MaxRaised = 3
  MaxTime = 1
  MaxBoots = 1
  MaxFaults = 0
SPECIFICATION PipeSpec
INVARIANT HourlyAsTold
CHECK_DEADLOCK FALSE

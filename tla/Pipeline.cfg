CONSTANTS
  Monitors = {fs, net}
  Severities = {"high", "low"}
  Categories = {"filesystem"}
  NoAlert = NoAlert
  RecentBuffer = 2
  MaxHourBuckets = 2
  HourLength = 1
  MpscCapacity = 1
  DayLength = 1
  MaxRaised = 3
  MaxTime = 1
  MaxBoots = 2
  MaxFaults = 1
SPECIFICATION FairPipeSpec
INVARIANTS
  TypeOK
  NothingLostSilently
  JournalInOrder
  DamageExplained
  SourceOrder
  StateMatchesRecorded
PROPERTY ImplementsLog
CHECK_DEADLOCK FALSE

CONSTANTS
  Unit = unit
  Hands = {hand}
  ConfigFiles <- MCConfigFiles
  RulesFiles <- MCRulesFiles
  Absent = Absent
  Broken = Broken
SPECIFICATION FairSpec
INVARIANTS
  DaemonTypeOK
  NoMonitorPanics
  StaleExplained
  ReachableAlone
PROPERTY ComesBack
CHECK_DEADLOCK FALSE

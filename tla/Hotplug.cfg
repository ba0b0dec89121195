CONSTANTS
  Names = {n1, n2}
  Ids = {j1, j2}
  Uuids = {u1}
  Schedules <- MCSchedules
  NoSchedule = "none"
  SlotsOf <- MCSlotsOf
  Settings <- HotplugSettings
  Grace = 2
  Period = 2
  Late = 1
  MaxQueue = 2
  MaxTime = 3
SPECIFICATION FairSpec
PROPERTY HotplugServed

CONSTANTS
  Names = {n1, n2}
  Ids = {j1, j2}
  Uuids = {}
  Schedules <- MCSchedules
  NoSchedule = "none"
  SlotsOf <- MCSlotsOf
  Settings <- DailyOnly
  Grace = 2
  Period = 2
  Late = 1
  MaxQueue = 0
  MaxTime = 5
SPECIFICATION Spec
INVARIANTS TypeOK SlotServed
PROPERTY ImplementsSlotFiring
SYMMETRY NameSymmetry

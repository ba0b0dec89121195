\* A build with Qt >= 6.5; three generations let two be cut off and one repair it.
SPECIFICATION Spec
CONSTANTS
  Absent = Absent
  Cut = Cut
  Own = Own
  Dirs = {d1, d2}
  NoDir = NoDir
  NewQt = TRUE
  MaxGen = 3
INVARIANTS TypeOK ServesMatchingPair HttpsStays LogAsStarted

CONSTANTS
  Files = {f1, f2}
  NoFile = noFile
  OpenSlots = {o1}
  Preview = 2
  Idle = idle
  Failures = TRUE
  MaxLines = 3
SPECIFICATION Spec
INVARIANTS TypeOK MissingHeadIsFlagged NoGap
SYMMETRY Perms

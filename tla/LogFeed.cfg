\* Rotations, writes and loads at any time.
SPECIFICATION Spec
CONSTANTS
  Lines = 2
  Shown = 3
  MaxLine = 5
INVARIANTS TypeOK PushedOnceInOrder NoLostWakeup EveryLinePushed PageShowsLatest
PROPERTIES ImplementsTailFeed

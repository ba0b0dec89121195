\* A user who clicks at any time, partitions that others mount elsewhere.
SPECIFICATION PanelSpec
CONSTANTS
  Parts = {p1}
  NoPart = NoPart
  Dirs = {d1, d2}
  NoDir = NoDir
  Host = Host
  Generic = Generic
  NoPath = NoPath
  NoName = NoName
  Names = {a}
  MaxDepth = 1
  MaxFolders = 1
  MaxCalls = 2
  MaxBefore = 0
INVARIANTS PanelTypeOK  DestIsGeneric
PROPERTY NewFolderIsPicked
SYMMETRY PanelSymmetry

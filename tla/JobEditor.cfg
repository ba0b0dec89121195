\* A user who clicks at any time: "New" or another "Edit" also while a job loads.
SPECIFICATION Spec
CONSTANTS
  Names = {a, b}
  NoName = NoName
  Parts = {p}
  NoPart = NoPart
  Sources = {s1, s2}
  NoSource = NoSource
  MaxDirs = 2
  MaxCalls = 1
INVARIANTS TypeOK FolderFormTarget EditorIdentity
PROPERTY SaveSparesOthers
SYMMETRY EditorSymmetry

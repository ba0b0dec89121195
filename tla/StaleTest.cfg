\* A test saves a copy taken before another request changed the servers.
SPECIFICATION Spec
CONSTANTS
  Uuids = {u1, u2}
  New = New
  MainConf = MainConf
  Hosts = {h1, h2}
  Secrets = {k1}
  None = None
PROPERTY TestOnlyPins
SYMMETRY FormSymmetry

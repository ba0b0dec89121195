\* Servers of both kinds and the SMTP settings; tests overlap with everything.
SPECIFICATION Spec
CONSTANTS
  Uuids = {u1, u2}
  New = New
  MainConf = MainConf
  Hosts = {h1, h2}
  Secrets = {k1}
  None = None
INVARIANT TypeOK
PROPERTIES SecretsSurvive TestPinsTested SavedAsTested
SYMMETRY FormSymmetry

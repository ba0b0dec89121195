CONSTANTS
  Tokens = {t1, t2}
  NoToken = noToken
  Clients = {c1, c2}
  FirstClient = c1
  Pages = {tab1, tab2, page2}
  Tabs = {tab1, tab2}
  Browser <- MCBrowser
  MaxFails = 2
  LockSeconds = 2
  Ttl = 1
  MaxTime = 3
  Passwords = {p1, short}
  ShortPasswords = {short}
  NoPass = noPass
  Idle = idle
SPECIFICATION AuthSpec
INVARIANTS AuthTypeOK ThrottleWindow AppViewCanWrite
PROPERTIES LockHolds DeadTokensStayDead
SYMMETRY TabSymmetry

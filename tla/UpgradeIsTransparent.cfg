CONSTANTS
  Tokens = {t1, t2}
  NoToken = noToken
  Clients = {c1}
  FirstClient = c1
  Pages = {tab1}
  Tabs = {tab1}
  Browser <- MCBrowser
  MaxFails = 2
  LockSeconds = 2
  Ttl = 2
  MaxTime = 6
  Passwords = {p1, p2, short}
  ShortPasswords = {short}
  NoPass = noPass
  Idle = idle
SPECIFICATION AuthSpec
PROPERTY UpgradeIsTransparent

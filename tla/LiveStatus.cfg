\* One job that runs and ends, push and polling, lost sockets and sessions.
SPECIFICATION FairSpec
CONSTANTS
  Jobs = {j1}
  Slots <- MCSlots
  MaxWire = 1
INVARIANTS TypeOK OneChannel
PROPERTY PollingConverges

\* Two servers, one of them under two addresses; a clock that may step back.
SPECIFICATION LogSpec
CONSTANTS
  be = be  db = db  loop = loop  prom = prom  dbIp = dbIp
  Addresses <- ThreeAddresses
  Rank <- Order
  Servers = {be, db}
  Hosts <- BothHosts
  Metrics = 2
  Shown = {1, 2}
  MaxCycles = 3
  Times = {1, 2}
  Limits = {1}
INVARIANTS LatestRight HistoryRight
\* The cycles are used up.
CHECK_DEADLOCK FALSE

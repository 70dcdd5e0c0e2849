\* Two cycles of one metric, two edits of server_info.
SPECIFICATION FairSpec
CONSTANTS
  be = be  db = db  loop = loop  prom = prom  dbIp = dbIp
  Servers <- TwoServers
  Addresses <- ThreeAddresses
  Loopback = loop
  PrometheusAddr = prom
  Metrics = 1
  Layouts <- ThreeLayouts
  Times = {1, 2}
  MaxCycles = 2
  MaxEdits = 2
INVARIANTS TypeOK WholeCycles
PROPERTIES RightServer KeepsLog KeepsCollecting ShutdownEnds

\* Two requests of two queries and one log writer over one connection and one thread.
SPECIFICATION FairSpec
CONSTANTS
  r1 = r1  r2 = r2  w1 = w1
  Requests <- Two
  Writers <- OneWriter
  Conns = 1
  Threads = 1
  MaxQueries = 2
  MaxJobs = 1
INVARIANTS TypeOK Accounted WaitNeedsFullHouse
PROPERTY Served

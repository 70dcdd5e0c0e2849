\* The reading of security.py:150-151 that the code does not meet.
SPECIFICATION Spec
CONSTANTS
  access = access  auth = auth
  Chunks <- AuthLog
  Nginx = {}
  NginxBatches <- NginxTriples
  SecurityBatches <- SecurityTriples
  MaxPosts = 1
INVARIANT EveryEventStored
\* The system stops when the chunk is acknowledged or has been posted MaxPosts times.
CHECK_DEADLOCK FALSE

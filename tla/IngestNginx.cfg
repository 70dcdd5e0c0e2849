\* A chunk of three nginx records and one of three auth.log lines, posted up to twice.
SPECIFICATION Spec
CONSTANTS
  access = access  auth = auth
  Chunks <- BothLogs
  Nginx <- AccessLog
  NginxBatches <- NginxTriples
  SecurityBatches <- OneSecurityTriple
  MaxPosts = 2
INVARIANTS TypeOK NginxAckMeansStored
\* The system stops when each chunk is acknowledged or has been posted MaxPosts times.
CHECK_DEADLOCK FALSE

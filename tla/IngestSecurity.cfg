\* A chunk of auth.log lines about one or two things that happened, posted up to twice.
SPECIFICATION IngestSpec
CONSTANTS
  auth = auth  root = root  postgres = postgres
  password = password  interactive = interactive
  Chunks = {auth}
  Nginx = {}
  NginxBatches = {}
  SecurityBatches <- Batches
  MaxPosts = 2
  Users = {root, postgres}
  Root = root
  Width <- Lengths
  Methods = {password, interactive}
  Words = {password}
  MaxThings = 2
INVARIANTS SecurityLossFollowsFailure OneRowEach
\* The system stops when the chunk is acknowledged or has been posted MaxPosts times.
CHECK_DEADLOCK FALSE

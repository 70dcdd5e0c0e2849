\* Two requests, one thread, one socket.
SPECIFICATION ProcessSpec
CONSTANTS
  Requests = {r1, r2}
  Writers = {w1}
  Free = Free
  Clients = {c1}
INVARIANTS ProcessTypeOK AtMostOneRow NoneForgotten ErrorIsTold
PROPERTIES NoAnswerWaits GoneIsNoticed StopEnds
\* The process ends.
CHECK_DEADLOCK FALSE

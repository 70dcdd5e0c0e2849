\* Three requests for two names and two addresses.
SPECIFICATION Spec
CONSTANTS
  Requests = {r1, r2, r3}
  Usernames = {ann, bob}
  Emails = {a, b}
INVARIANTS TypeOK IndexNeverHit AnswerTells
SYMMETRY Interchangeable
\* Every request is answered.
CHECK_DEADLOCK FALSE

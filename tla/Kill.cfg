\* Three scripts at once, two processes.
SPECIFICATION Spec
CONSTANTS
  Requests = {r1, r2, r3}
  Stress = {s1, s2}
INVARIANTS NoneMissed
SYMMETRY Interchangeable
\* Every request is answered and every process has run.
CHECK_DEADLOCK FALSE

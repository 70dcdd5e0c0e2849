\* The claim of auth_service.py:151, which fails within one second.
SPECIFICATION Spec
CONSTANTS
  w1 = w1  w2 = w2  alice = alice  ghost = ghost
  None = None
  Slots <- BothSlots
  Names = {alice, ghost}
  Accounts <- OneAccount
  Inactive = {}
  MaxFailures = 1
  LockTime = 1
  AccessLife = 1
  RefreshLife = 2
  MaxClock = 2
INVARIANT RotationCanIssue

\* Two requests at a time for an account and a name without one; two failures lock it
\* for a second, over three values of the clock.
SPECIFICATION RetrySpec
CONSTANTS
  w1 = w1  w2 = w2  alice = alice  ghost = ghost
  None = None
  Slots <- BothSlots
  Names = {alice, ghost}
  Accounts <- OneAccount
  Inactive = {}
  MaxFailures = 2
  LockTime = 1
  AccessLife = 1
  RefreshLife = 2
  MaxClock = 2
INVARIANTS TypeOK LockMatchesCount NoLostFailure AuditTellsRow OneLivePerSession LogoutEndsSession
PROPERTIES Answered AutoUnlock LockHolds NoLoginWhileLocked Rotation

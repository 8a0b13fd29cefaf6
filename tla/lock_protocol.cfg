\* Owners may die, fail to write their file and outlive stale_after_s.
SPECIFICATION FairLockFileSpec
CONSTANTS
  Procs = {p1, p2, p3}
  StaleAfter = 1
  Timeout = 1
  MaxHold = 2
  Failures = {"death", "error"}
  NoOne = NoOne
INVARIANT HoldersKeepOut
PROPERTIES ImplementsWriterLock WaitIsBounded

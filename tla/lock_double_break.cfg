\* One holder dies; two contenders both judge its file stale.
SPECIFICATION LockFileSpec
CONSTANTS
  Procs = {p1, p2, p3}
  StaleAfter = 1
  Timeout = 3
  MaxHold = 1
  Failures = {"death"}
  NoOne = NoOne
SYMMETRY Symm
INVARIANT MutualExclusion

\* Five seconds a tick: a deadline of 25 s, the margin of 5 s, 10 s for an
\* append, 5 s to start or to kill the adapter.  A call that ended stays ended,
\* so the system stops.
SPECIFICATION FairSpec
CONSTANTS
  c1 = c1
  c2 = c2
  Calls = {c1, c2}
  Long = {c2}
  Kinds = {"read", "content", "quiet"}
  Limit = 5
  Margin = 1
  MaxLease = 7
  AppendTime = 2
  Overhead = 1
  MaxTears = 1
  MaxCrashes = 1
INVARIANTS RunsAreRecorded RecordsAreTrue StartsUnderLease
PROPERTY CallsEnd
CHECK_DEADLOCK FALSE

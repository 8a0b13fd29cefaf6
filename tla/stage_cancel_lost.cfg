SPECIFICATION Spec
CONSTANTS
  Calls = {1, 2}
  NoRun = NoRun
  MaxMishaps = 0
  MaxCancels = 1
PROPERTY CancelPersists
CHECK_DEADLOCK FALSE

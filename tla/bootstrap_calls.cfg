SPECIFICATION Spec
CONSTANTS
  Calls = {c1, c2}
  Packages = {good, bad}
  Broken = {bad}
  Absent = Absent
  Torn = Torn
  None = None
INVARIANTS RollbackRestores SuccessIsTrue
PROPERTIES NotRepeated JobsEnd
CHECK_DEADLOCK FALSE

SPECIFICATION HandoffSpec
CONSTANTS
  Diagnoses = {d1, d2}
  Verifies = {v1, v2}
  PlanNamed = {d1, d2, v1}
  Adapters = {1, 2}
  None = None
INVARIANTS ConfirmsOwn
PROPERTIES AcceptedStays NeverOlder
CHECK_DEADLOCK FALSE

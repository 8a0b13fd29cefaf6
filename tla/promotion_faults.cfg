SPECIFICATION Spec
CONSTANTS
  Runs = {r1, r2, r3}
  Prints = {f1, f2}
  NoRun = NoRun
  MaxDiscoveries = 1
  MaxFaults = 2
SYMMETRY Symm
INVARIANTS IndexesAgree IndexesNameReleases RejectedNeverServed OutcomeIsWhole
CHECK_DEADLOCK FALSE

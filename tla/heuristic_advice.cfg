SPECIFICATION FairSpec
CONSTANTS
  Operations = {o1, o2}
  Probes = {p1, p2}
  MaxRounds = 1
  MaxFailures = 2
  MaxParallelism = 2
INVARIANTS NoStrayWorker AdviceIsWhole
PROPERTIES RunEnds ImplementsAdvice
CHECK_DEADLOCK FALSE

SPECIFICATION FairSpec
CONSTANTS
  Tools = {host, snapshot}
  Network = {snapshot}
  Host = host
  Clients = {c1}
  NoClient = none
  MaxCalls = 2
  Requests = 2
  MaxFaults = 1
INVARIANTS SummaryIsWhole SummaryIsBacked GateIsTrue
PROPERTY RunEnds
CHECK_DEADLOCK FALSE

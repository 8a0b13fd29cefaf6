\* A plan of two cases and an agent with one call, on a session that pays for
\* two invocations.  The plan has as many cases as its evidence may hold results.
SPECIFICATION FairSpec
CONSTANTS
  Planner = planner
  Agents = {agent}
  Cases = 2
  MaxResults = 2
  MaxCalls = 2
  MaxBytes = 3
  MaxElapsed = 1
  Lifetime = 2
  Sizes = {1, 2}
  Requests = 1
  MaxReleases = 1
  MaxAuditErrors = 1
INVARIANTS TypeOK OneInvocation WithinBudget DeliveredIsAudited DenialIsTrue PassIsEarned
PROPERTY PlanEnds
CHECK_DEADLOCK FALSE

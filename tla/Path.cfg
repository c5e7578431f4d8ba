\* Two slots, one queue place, one worker: a queued request meets its deadline
\* in its LP, and the next one finds the worker taken.  The requests are
\* one-shot and the clock ends: the system may stop.
CONSTANTS
  r1 = r1
  r2 = r2
  r3 = r3
  Requests = {r1, r2, r3}
  MaxActive = 2
  MaxQueued = 1
  Workers = 1
  Total = 5
  ModelBudget = 2
  SolveLimit = 2
  Reserve = 3
  MaxTime = 7
SPECIFICATION FairSpec
INVARIANTS TypeOK WorkBounded LateOnlyByWaiting
PROPERTIES EveryRequestAnswered
CHECK_DEADLOCK FALSE

\* One slot, two queue places, two workers: a queued request meets its deadline
\* in its LP, and the next one starts beside the thread it leaves.  The requests are
\* one-shot and the clock ends: the system may stop.
CONSTANTS
  r1 = r1
  r2 = r2
  r3 = r3
  Requests = {r1, r2, r3}
  MaxActive = 1
  MaxQueued = 2
  Workers = 2
  Total = 5
  ModelBudget = 2
  SolveLimit = 2
  Reserve = 3
  MaxTime = 7
SPECIFICATION Spec
SYMMETRY RequestSymmetry
INVARIANT ActiveWorkBounded
CHECK_DEADLOCK FALSE

\* One slot and two queue places are enough to lose a wake-up.
CONSTANTS
  r1 = r1
  r2 = r2
  r3 = r3
  Requests = {r1, r2, r3}
  MaxActive = 1
  MaxQueued = 2
SPECIFICATION Spec
SYMMETRY CallerSymmetry
INVARIANT NoStrandedCaller

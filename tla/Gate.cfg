\* Two slots, two queue places and a fifth caller to reject.  Callers call
\* again; no symmetry, because liveness is checked.
CONSTANTS
  r1 = r1
  r2 = r2
  r3 = r3
  r4 = r4
  r5 = r5
  Requests = {r1, r2, r3, r4, r5}
  MaxActive = 2
  MaxQueued = 2
SPECIFICATION FairSpec
INVARIANTS TypeOK CountersMatch
PROPERTIES
  RejectedOnlyWhenFull
  WakeupLostOnlyByExpiry
  ImplementsBoundedGate
  EveryCallerAnswered

\* Two requests over one key in each pool: a rejection met by one empties a
\* pool under the other, between its answer and its second attempt.  The
\* requests are one-shot and the clock ends: the system may stop.
CONSTANTS
  r1 = r1
  r2 = r2
  Requests = {r1, r2}
  PrimaryKeys = 1
  BackupKeys = 1
  HasBackup = TRUE
  Cooldown = 2
  Silence = 2
  Budget = 3
  MinSecond = 1
  MaxTime = 5
SPECIFICATION Spec
SYMMETRY RequestSymmetry
INVARIANT AttemptTimeoutHolds
CHECK_DEADLOCK FALSE

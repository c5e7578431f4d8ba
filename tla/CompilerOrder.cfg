\* Every execution ends: Return and RaiseConflict leave nothing to do.
CONSTANTS
  H = 3
  One = 6
  Slack = 1
  Solar <- MCSolar
  BaseMinimum = 2
  Requests <- MCRequests
SPECIFICATION Spec
INVARIANTS
  TypeOK
  EveryDirectiveBinds
  OnlyDirectivesBind
  ConflictHasCause
CHECK_DEADLOCK FALSE

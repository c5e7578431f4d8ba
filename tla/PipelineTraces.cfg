\* Every answer is processed once and for all.
CONSTANTS
  H = 3
  One = 100
  Tolerance = 1
  Capacity = 2
  Slack = 0
  BaseMinimum = 10
  Solar <- MCSolar
  Answers <- MCAnswers
SPECIFICATION Spec
INVARIANTS
  TypeOK
  GuardrailsExact
  ArraysFollowTraces
  WireSchemaParses
  
CHECK_DEADLOCK FALSE

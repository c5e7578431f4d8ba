\* Every plan is accepted, rejected or not written, and that is the end of it.
CONSTANTS
  H = 3
  Quantum = 3
  Tolerance = 18
  Capacity = 40
  MaxCharge = 40
  MaxDischarge = 24
  SolverSlack = 0
  Cases <- MCCases
SPECIFICATION Spec
INVARIANT SolutionsSerializable
CHECK_DEADLOCK FALSE

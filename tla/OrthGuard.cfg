\* Is every absorb guarded, and told of once?
SPECIFICATION Spec
CONSTANTS
  Arms <- MCArms
  Worst = 1
  MaxBatch = 2
  MaxAbsorbs = 3
  MaxStreams = 2
INVARIANTS
  WindowTruthful
  AbsorbsToldOnce
PROPERTIES
  FailsIffBeyondRepair
CHECK_DEADLOCK FALSE

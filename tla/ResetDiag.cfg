\* Do the measurements of a finished stream survive its reset?
SPECIFICATION Spec
CONSTANTS
  Arms <- MCArms
  Worst = 1
  MaxBatch = 2
  MaxAbsorbs = 3
  MaxStreams = 2
INVARIANTS
  ResetKeepsMeasurements
CHECK_DEADLOCK FALSE

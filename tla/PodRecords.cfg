\* Harvests of two launches into one directory, whole and cut short.
SPECIFICATION RecordsSpec
CONSTANTS
  Tape <- OnePointPerAxis
  NParts = 2
  Polls = {6}
  MaxLaunches = 2
  MaxHarvests = 2
  MaxCuts = 1
  MaxFailures = 1
INVARIANTS HarvestWhole RecordOnce CheckTruthful ReplayIsEnough
CHECK_DEADLOCK FALSE

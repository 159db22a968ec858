\* The pod scripts under kills, lost fetches and failing destroy calls.
SPECIFICATION Spec
CONSTANTS
  Instances = {a, b}
  Keyrings = {{a}}
  Outages = {{a}}
  GpuBudget = 1
  MaxHours = {2}
  Grace = 1
  MinIters = 2
  RowKinds = {record}
  Replayed = {record}
  MaxBoot = 1
  MaxKills = 1
PROPERTIES HarvestComplete ExpiryAfterBar AllDoneIsTrue
CHECK_DEADLOCK FALSE

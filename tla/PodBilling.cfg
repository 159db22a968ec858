\* Does every rented instance stop billing?
SPECIFICATION FairSpec
CONSTANTS
  Instances = {a}
  Keyrings = {{}, {a}}
  Outages = {{}, {a}}
  GpuBudget = 1
  MaxHours = {2}
  Grace = 2
  MinIters = 1
  RowKinds = {record, diag}
  Replayed = {record}
  MaxBoot = 1
  MaxKills = 2
PROPERTIES BillingStops
CHECK_DEADLOCK FALSE

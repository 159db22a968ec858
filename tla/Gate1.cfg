CONSTANTS
    Families <- MCFamilies
    Stage1 <- MCStage1
    Tasks <- MCTasks
    Excluded <- MCExcluded
    Pairs = 10
    MaxPods = 2
    MaxOdd <- MCMaxOdd
SPECIFICATION GateSpec
INVARIANTS Exclusive OutsidersLeaveNoTrace Bf16OnBoth HolmIsClosed
CHECK_DEADLOCK FALSE

CONSTANTS
    Arms <- MCArms
    Axes <- MCAxes
    MaxArms = 2
    Contexts <- MCContexts
    Chunks <- MCChunks
    Window = 3
    Query = 2
    MaxNew = 3
    NumSamples = 2
    Residual = 3
    Group = 3
    Keep = 3
    MaxCrashes = 1
SPECIFICATION SweepSpec
INVARIANTS BilledState EachTokenHeldOnce EveryArmAnswers DrainedOnce

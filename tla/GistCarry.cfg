SPECIFICATION Spec
CONSTANTS
    Arms <- MCArms
    Features = 3
    NumLayers = 2
    Ring = 1
    Word = 8
    Generations = 3
    MaxBlock = 2
    MaxGraduated = 4
INVARIANTS
    OneBasis
    BilledIsStored
PROPERTY FrozenStill

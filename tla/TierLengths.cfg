\* Mask prediction against the real absorb loop, all five arms.
SPECIFICATION FairSpec
CONSTANTS
  Arms <- MCArms
  MaxTokens = 11
INVARIANTS
  TypeOK
  MaskAgrees
  OffsetInPast
  NothingLostEarly
PROPERTIES
  ConstantMemory
  CallsReturn

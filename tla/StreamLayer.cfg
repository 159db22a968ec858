\* Which token every column holds and where it is rotated to.
SPECIFICATION Spec
CONSTANTS
  Arms <- MCArms
  MaxTokens = 8
  MaxLevel = 2
INVARIANTS
  PositionsTrue
  MidCacheFresh
  EachTokenOnce
  RetainsBest
PROPERTIES
  Lengths

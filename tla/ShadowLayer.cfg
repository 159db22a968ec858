\* Keys, values, masks and selections of a ShadowKV layer.
SPECIFICATION Spec
CONSTANTS
  Arms <- MCArms
  MaxTokens = 8
INVARIANTS
  MaskAgrees
  KeysMatchValues
  WholeStreamHeld
  HookedForwardsFresh

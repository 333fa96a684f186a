\* A plain token, and one that withholds and calls back, one call deep; fair scheduling.
CONSTANTS
  Asset = {plain, weird}
  FeeAsset = {weird}
  HookAsset = {weird}
  GiftAsset = {weird}
  Account = {a1}
  Vault = vault
  Supply = 3
  MaxAmount = 2
  MaxTime = 3
  MaxPositions = 2
  MaxDepth = 2
SPECIFICATION FairSpec
INVARIANTS Solvent ClaimsWithinVested NothingStranded
PROPERTIES RefinesLinearVesting FullyReleased
CHECK_DEADLOCK FALSE

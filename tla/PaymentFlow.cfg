\* Two tabs, one payment, two failures or closed pages anywhere, the owner trying again.
SPECIFICATION FairSpec
CONSTANTS
  Tabs = {"t1", "t2"}
  Events = {"e1"}
  Triggers = {"e1"}
  Amount <- Amounts
  Validity = 2
  Lag = 1
  MaxFaults = 2
  MayExpire = TRUE
  MayReceive = TRUE
CHECK_DEADLOCK FALSE
INVARIANTS DecisionsUsable CompleteIsOwn
PROPERTIES EventuallyConcluded

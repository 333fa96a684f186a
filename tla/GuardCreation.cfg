SPECIFICATION CreationFairSpec
CONSTANTS
  MaxRuns = 4
  MaxFailures = 3
CHECK_DEADLOCK FALSE
INVARIANTS GuardHasPolicy
PROPERTY EventuallyGuarded

\* Every mode, either store; machines join, those of another owner too, at any time.
SPECIFICATION FairSpec
CONSTANTS
  Modes = {"restore", "retire", "resume", "evaluate", "default", "create"}
  Durable = {TRUE, FALSE}
  Others = {0}
  Prepared = {"big"}
  Big = {"big"}
  MaxNodes = 2
  MaxFaults = 2
  MaxSent = 8
  MaxExtra = 1
CHECK_DEADLOCK FALSE
INVARIANTS NeverToObsolete
PROPERTIES NotWhileUnresolved NothingWhileBanned ReportedIsServed EventuallyRestored

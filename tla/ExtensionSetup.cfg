SPECIFICATION FairSpec
CONSTANTS
  MaxSenders = 4
  MaxExtensions = 4
  MaxNodes = 3
  MaxFaults = 2
  MaxExtra = 1
  Governances = {"signers", "owner", "neither", "invalid"}
  ByHand = {TRUE, FALSE}
CHECK_DEADLOCK FALSE
INVARIANTS CompleteWhenWritten SentToOwn CleanReportBinds
PROPERTY EventuallyServed

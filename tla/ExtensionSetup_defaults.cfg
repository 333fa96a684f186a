\* Nothing is configured, nothing fails.
SPECIFICATION FairSpec
CONSTANTS
  MaxSenders = 1
  MaxExtensions = 1
  MaxNodes = 1
  MaxFaults = 0
  MaxExtra = 0
  Governances = {"neither"}
  ByHand = {FALSE}
CHECK_DEADLOCK FALSE
PROPERTY DefaultsSuffice

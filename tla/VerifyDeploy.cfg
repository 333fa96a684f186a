SPECIFICATION VerifySpec
CONSTANTS
  Settings <- OneOff
  Files <- AllFiles
  Chains <- Chains0
  Outages <- OneOutage
  Filters <- AllOrR3
INVARIANTS AllClear NoFalseAlarm OneVerdict

\* A token that charges fees and calls other code in the middle of executeGuard;
\* two guards that may watch one receiver; results that share ids or nonces, at
\* every time and at two prices.
CONSTANTS
  o1 = o1  o2 = o2
  r1 = r1  r2 = r2  n1 = n1  n2 = n2  a1 = a1  a2 = a2  t1 = t1
  rcA = rcA  m1 = m1  m2 = m2
  Owner = {o1, o2}
  Manager = manager
  Vault = vault
  Rule = {r1, r2}
  Receiver = {rcA}
  Nonce = {n1, n2}
  None = None
  Tee = {t1}
  Proof <- MCTwoPayments
  Feed <- MCPrices
  ActionResult <- MCResults
  FeeToken = TRUE
  HookToken = TRUE
  Supply = 3
  Approval = {2}
  MaxPriceAge = 1
  MaxResultValidity = 1
  Duration = 2
  Unit = 2
  DropsPerXrp = 2
  UsdDecimals = 0
  MaxShift = 2
  MaxTime = 2
  MaxDepth = 2
  MaxGifts = 1
SPECIFICATION Spec
SYMMETRY MCOwners
INVARIANTS FundedByOwner Backed ExactlyOnce SnapshotPriced Timely
PROPERTIES RefinesLifecycle
CHECK_DEADLOCK FALSE

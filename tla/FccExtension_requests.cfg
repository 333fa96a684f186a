\* Valid and invalid policies, refreshes of one event, fair scheduling.
CONSTANTS
  r1 = r1
  Rule = {r1}
  Event = {e1}
  Nonce = {n1, n2}
  Handler = {h1, h2}
  Policies <- MCMixed
  Values = {2}
  Durable = TRUE
  Validity = 1
  BpsWhole = 10
  Word = 64
  MaxTime = 3
  None = None
SPECIFICATION FairSpec
INVARIANTS NoOverlap SignedIsDurable
PROPERTY EveryRequestEnds

\* A cooldown near 2^64: the uint64 sum wraps.
CONSTANTS
  r1 = r1
  Rule = {r1}
  Event = {e1, e2}
  Nonce = {n1, n2}
  Handler = {h1, h2}
  Policies <- MCEndlessCooldown
  Values = {2}
  Durable = TRUE
  Validity = 1
  BpsWhole = 10
  Word = 8
  MaxTime = 4
  None = None
SPECIFICATION Spec
SYMMETRY Symmetry
INVARIANT CooldownRespected

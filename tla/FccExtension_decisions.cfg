\* Rival policies, two events of one rule, a cooldown of three.
CONSTANTS
  r1 = r1
  Rule = {r1}
  Event = {e1, e2}
  Nonce = {n1, n2}
  Handler = {h1, h2}
  Policies <- MCRivals
  Values = {2}
  Durable = TRUE
  Validity = 1
  BpsWhole = 10
  Word = 64
  MaxTime = 4
  None = None
SPECIFICATION Spec
SYMMETRY Symmetry
INVARIANTS FrozenOutcome AcceptedPolicyStands NonceOnce CooldownRespected

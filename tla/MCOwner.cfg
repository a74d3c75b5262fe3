SPECIFICATION Spec
CONSTANTS
  Workers = {w1, w2}
  Origins = {a, b}
  Overrides = {env}
  Cookies = {k1, k2, k3}
  None = None
  CLAIM_SECONDS = 2  SESSION_SECONDS = 2  SESSION_LIMIT = 2  MaxAttempts = 2
  MaxGeneration = 4
  Horizon = 4
SYMMETRY Sym
INVARIANTS SessionsBoundToBirth OneTokenPerGeneration RecoverNeverRefused
PROPERTIES ImplementsOwnerAuthority

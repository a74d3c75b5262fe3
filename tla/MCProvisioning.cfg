SPECIFICATION Spec
CONSTANTS
  c1 = c1  c2 = c2  c3 = c3  c4 = c4
  d1 = d1  d2 = d2  i1 = i1  kp = kp  kb = kb
  Credentials = {c1, c2, c3}
  NoCred = NoCred  OwnerCred = OwnerCred
  Devices = {d1, d2}  Integrations = {i1}
  OpIds = {o1, o2, o3, o4}
  RequestIds = {r1, r2}
  Keys = {kp, kb}  BrowserKeys = {kb}
  Origins = {org}  Lengths = {1, 2}
  DeviceIdOf <- Truncated
  InitialRecords <- NoRecords
  LIMIT = 2  TOMBSTONE_LIMIT = 2  MAX_REQUESTS = 2  MaxAttempts = 1
  QUEUE_SECONDS = 1  OVERLAP_SECONDS = 1  TTL = 2
  Horizon = 1  MaxGeneration = 1
SYMMETRY Sym
INVARIANTS SweepNeverRefused RevokeNeverRefused IdentityStable OneActiveOperation PredecessorsRetired
PROPERTIES FinishedForever AccessNeverReturns

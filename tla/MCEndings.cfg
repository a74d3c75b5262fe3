SPECIFICATION FairSpec
CONSTANTS
  c1 = c1  c2 = c2  c3 = c3  c4 = c4
  d1 = d1  d2 = d2  i1 = i1  kp = kp  kb = kb
  Credentials = {c1, c2}
  NoCred = NoCred  OwnerCred = OwnerCred
  Devices = {d1}  Integrations = {i1}
  OpIds = {o1}
  RequestIds = {r1}
  Keys = {kp}  BrowserKeys = {}
  Origins = {org, alt}  Lengths = {1}
  DeviceIdOf <- Collide
  InitialRecords <- AgentOnly
  LIMIT = 3  TOMBSTONE_LIMIT = 3  MAX_REQUESTS = 1  MaxAttempts = 1
  QUEUE_SECONDS = 1  OVERLAP_SECONDS = 1  TTL = 1
  Horizon = 1  MaxGeneration = 2
PROPERTIES AuthorityChangeEndsWork OperationsFinish RevokeIsTotal

SPECIFICATION Spec
CONSTANTS
  SEQ = 3  MAX = 13  COST = 2  Drift = 1  MaxRtp = 8
INVARIANTS HeardInOrder BufferBounded DrainOnCue
PROPERTIES ClosedIsSilent

SPECIFICATION FairSpec
CONSTANTS
    Agents = {a1, a2}
    BargeIn = TRUE
    MaxTurns = 2
    MaxSegments = 1
    MaxEvents = 1
INVARIANT OnlyInterruptedReopens
CHECK_DEADLOCK FALSE

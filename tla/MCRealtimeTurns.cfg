SPECIFICATION FairSpec
CONSTANTS
    Agents = {a1, a2}
    BargeIn = TRUE
    MaxTurns = 2
    MaxSegments = 2
    MaxEvents = 1
INVARIANTS MediaIsOwned EndsFollowMedia
PROPERTY RoutedTurnsRelease QuietIsCurrent
CHECK_DEADLOCK FALSE

SPECIFICATION FairSpec
CONSTANTS
    Setups = {"standard", "live", "browser"}
    MaxSockets = 2
    MaxWakes = 2
    MaxPeers = 3
    MaxOffers = 3
    Budget <- Plan
INVARIANTS OnePeer WaitingIsArmed
PROPERTY OffersEnd
CHECK_DEADLOCK FALSE

SPECIFICATION FairSpec
CONSTANTS
    Chats = {c1, c2}
    MaxEvents = 3
PROPERTY Reconnects
CHECK_DEADLOCK FALSE

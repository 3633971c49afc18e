CONSTANTS
    g1 = g1
    g2 = g2
    NoGame = NoGame
    Games = {g1, g2}
    Unsteam = {g2}
    EarlyExit = 1
    Quick = 2
    Checkpoint = 3
    Scan = 4
    MaxAge = 3
    MaxClicks = 2
    MaxEvents = 2
SPECIFICATION FairSpec
INVARIANTS ShimOwned
PROPERTIES PlaytimeKept Settles
CHECK_DEADLOCK FALSE

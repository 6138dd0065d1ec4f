\* One game, two sessions, two commands of which the second restarts, one failure.
SPECIFICATION FairSpec
CONSTANTS
    g1 = g1
    g2 = g2
    w1 = w1
    w2 = w2
    NoGame = NoGame
    Game = {g1}
    Worker = {w1, w2}
    GameOf <- OneGame
    Restarts = {2}
    OutboundCap = 2
    InboundCap = 1
    MaxRequest = 2
    MaxFaults = 1
    LastStays = TRUE
CHECK_DEADLOCK FALSE
INVARIANTS
    TypeOK
    CommandsKept
PROPERTIES
    LinkRecovers

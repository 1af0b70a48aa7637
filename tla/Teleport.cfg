SPECIFICATION FairTeleportSpec
CONSTANTS
    c1 = c1
    c2 = c2
    g1 = g1
    g2 = g2
    u1 = u1
    mid = mid
    Client <- TwoClients
    Square <- Squares
    LevelOf <- Levels
    Floors <- TwoFloors
    Landing <- Landings
CHECK_DEADLOCK FALSE
INVARIANTS
    TransitionsConsistent
    ScreenReleased
PROPERTIES
    MovesOnlyToDestination
    TransitionEnds

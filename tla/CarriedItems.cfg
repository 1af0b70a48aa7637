SPECIFICATION Spec
CONSTANTS
    c1 = c1
    c2 = c2
    i1 = i1
    i2 = i2
    g1 = g1
    g2 = g2
    mid = mid
    Client <- TwoClients
    Item <- TwoItems
    Square <- Squares
    LevelOf <- Levels
    Floors <- OneFloor
    Landing <- Landings
    Near <- AllNear
    NoOne = NoOne
    MaxCarried = 1
SYMMETRY Symmetry
CHECK_DEADLOCK FALSE
INVARIANTS
    HandsConsistent
    Capacity

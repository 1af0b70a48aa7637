SPECIFICATION FairSpec
CONSTANTS
    Flows = {1, 2, 3}
    MaxTries = 3
    StaleAfter = 2
CHECK_DEADLOCK FALSE
INVARIANTS
    SessionConsistent
    ConnectIsNeverStuck
    NobodyIsBroughtBack
PROPERTIES
    OutcomeIsFinal
    SessionSettles

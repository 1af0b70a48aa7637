SPECIFICATION MCSpec
CONSTANTS
    Radios = {1, 2}
    Emitters = {3}
    Cabins = {4}
    Urls = {1, 2}
    Elements = {1, 2, 3, 4, 5, 6}
    Attempts = {1, 2, 3, 4}
    MaxRetries = 2
    MaxTasks = 2
    MaxPlays = 0
CHECK_DEADLOCK FALSE
INVARIANTS
    SourcesConsistent
    OnlyOwnedElementsPlay
    NothingIsLeftWaiting
PROPERTIES
    StaleAnswersAreIgnored
    PendingStartsEnd

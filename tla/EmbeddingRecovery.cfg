SPECIFICATION FairSpec
CONSTANTS
    Item = {a, b}
    Poller = {p1}
    Sweeper = {w1, w2}
    NoSweeper = NoSweeper
    MaxRetries = 3
    MaxDeaths = 1
    MaxSkips = 1
INVARIANTS
    RetriesAreBounded
    GivenUpHasNoVector
    UnnotedGapMeansDeath
PROPERTIES
    EveryItemResolves

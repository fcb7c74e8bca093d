SPECIFICATION FairSpec
CONSTANTS
    Reader = {rss, sweep}
    Cycle = {rss}
    Nothing = nothing
    MaxUpdates = 2
    RetryAfter = {0, 3}
    MaxItems = 2
    MaxRestarts = 1
INVARIANTS
    StaleOnlyAfterARace
    FetchIsPatient
PROPERTIES
    UpdatesTakeEffect
    EveryCycleEnds

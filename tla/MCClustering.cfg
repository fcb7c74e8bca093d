SPECIFICATION FairSpec
CONSTANTS
    a = a
    b = b
    manual = manual
    NoWorker = NoWorker
    Item = {a, b}
    Topic = {manual}
    Worker = {w1, w2}
    Dist <- MCDist
    MaxDist <- MCMaxDist
    Overlap <- MCOverlap
    MinTokens <- MCMinTokens
    MaxDeaths = 2
INVARIANTS
    TypeOK
    OneStoryPerItem
    NoEmptyStory
    JoinedForAReason
PROPERTIES
    EveryItemSettles
    ImplementsStoryLinking

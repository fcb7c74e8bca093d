SPECIFICATION FairSpec
CONSTANTS
    Source = {nse, edgar}
    Silent = {edgar}
    Nse = {nse}
    Placeholder = {}
    Loop = {loop}
    Trigger = {trigger}
    MaxTriggers = 2
INVARIANTS
    StalePollBounded
PROPERTIES
    CleanStreakDisables
    GoneIsDisabled

SPECIFICATION FairSpec
CONSTANTS
    Source = {nse, edgar}
    Silent = {edgar}
    Nse = {nse}
    Placeholder = {nse}
    Loop = {loop}
    Trigger = {trigger}
    MaxTriggers = 1
PROPERTIES
    OneBadSourceDoesNotKillTheLoop

SPECIFICATION PollSpec
CONSTANTS
    Run = {a}
    Nobody = nobody
    Tracked = {a}
    Film = {a}
    MaxFrames = 1
    Mute = {}
    Title = {t}
    MinScript = 1
    MaxSilent = 20
    MaxPlaceholder = 25
    MinVerified = 1
    MaxFaults = 2
    Poll = {p, q}
    NoAnswer = noAnswer
    MaxReloads = 1
INVARIANTS
    EndsOnTheOutcome
PROPERTIES
    OutcomeIsShown
CHECK_DEADLOCK FALSE

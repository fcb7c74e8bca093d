SPECIFICATION FairSpec
CONSTANTS
    None = none
    MaxLines = 4
    Declared = {0, 55550}
    PacingName = {"news", "unheard"}
    MinScript = 2
    SpokenLength = {12345, 90000}
    TtsLimit = 1
    TtsGate = 1
    MaxOthers = 1
    MaxSilent = 50
INVARIANTS
    ParsedAsWritten
    TimelineIsSeamless
    VoicesFitTheirFrames
    EnoughIsSpoken
    NoLineLostToHaste
PROPERTIES
    EveryFilmIsTimed
CHECK_DEADLOCK FALSE

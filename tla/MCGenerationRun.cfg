SPECIFICATION Spec
CONSTANTS
    Run = {a, b}
    Nobody = nobody
    Tracked = {b}
    Film = {a}
    MaxFrames = 2
    Mute = {2}
    Title = {t, u}
    MinScript = 1
    MaxSilent = 50
    MaxPlaceholder = 50
    MinVerified = 1
    MaxFaults = 1
INVARIANTS
    TypeOK
    FilmIsItsRunsOwn
    DraftKeepsItsFilm
    RowTellsTheOutcome
SYMMETRY TitleSymmetry
CHECK_DEADLOCK FALSE

SPECIFICATION Spec
CONSTANTS
    MaxFrames = 3
    Picture = {hill, ridge, barn, lake, blank}
    Distinct = {{hill, barn}, {barn, lake}}
    Defect = {"dark"}
    NoReason = noReason
    ShotRetries = 2
    Shape = {card, chart}
    NoPicture = noPicture
    NoPlan = noPlan
    Story = {s, t}
    NoStory = noStory
    MaxDrafts = 2
    Backend = {"three", "gemini", "local"}
    MinScript = 2
    MinVerified = 2
    MaxPlaceholder = 34
    MaxFirings = 2
INVARIANT
    FrameAlwaysShaped
CHECK_DEADLOCK FALSE

SPECIFICATION LoopSpec
CONSTANTS
    Control = Control
    Measure = Measure
    Readers = {Control, Measure}
    MaxSample = 1
    Switch = Switch
    SwitchLevels = {101, 12345}
    TimeSteps = {0, 4000}
    NaN = NaN
    MayFail = TRUE
INVARIANTS
    DesiredOrMaximum
    CacheMatchesDevice
    ErrorsAreOfLastTurns
    PreviousOutputIsApplied
    NoExcessWhileControlling
    StopTurnsOff
PROPERTIES
    ReadingIsRecent
    CacheIsRecent

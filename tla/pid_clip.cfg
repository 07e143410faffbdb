SPECIFICATION LoopSpec
CONSTANTS
    Control = Control
    Measure = Measure
    Readers = {Control, Measure}
    MaxSample = 0
    Switch = Switch
    SwitchLevels = {101, 12345}
    TimeSteps = {0, 4000}
    NaN = NaN
    MayFail = FALSE
INVARIANT
    OutputIsClipped

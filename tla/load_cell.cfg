SPECIFICATION Spec
CONSTANTS
    Undefined = Undefined
    MaxSample = 4
PROPERTIES
    UndisturbedIsCalibrated
    DisturbedIsDefined

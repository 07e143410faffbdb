SPECIFICATION Spec
CONSTANTS
    SwitchElement = SwitchElement
    ControlTemperature = ControlTemperature
    ShareElement = ShareElement
    SharePump = SharePump
    element = element
    pump = pump
    Switches = {SwitchElement}
    Controls = {ControlTemperature}
    Sharers = {}
    Main = Main
    None = None
    Equipment = {element, pump}
    Uses <- TankUses
    SwitchLevels = {0, 100}
    ControlLevels = {60}
    GarbagePositions = {7}
    Paced = FALSE
INVARIANTS
    PreemptedIsStopping

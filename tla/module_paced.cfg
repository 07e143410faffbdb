SPECIFICATION FairSpec
CONSTANTS
    SwitchElement = SwitchElement
    ControlTemperature = ControlTemperature
    ShareElement = ShareElement
    SharePump = SharePump
    element = element
    pump = pump
    Switches = {SwitchElement}
    Controls = {ControlTemperature}
    Sharers = {ShareElement, SharePump}
    Main = Main
    None = None
    Equipment = {element, pump}
    Uses <- TankUses
    SwitchLevels = {101}
    ControlLevels = {60}
    GarbagePositions = {7}
    Paced = TRUE
INVARIANTS
    NoListRace
    ListIsExact
    PowerAccounted
    StopsNeverCollide
    PositionStaysInRange
PROPERTIES
    ImplementsLock
    StartedGetsEquipment

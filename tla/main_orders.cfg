SPECIFICATION FairSpec
CONSTANTS
    p1 = p1
    p2 = p2
    temp = temp
    mass = mass
    bad = bad
    Procs = {p1, p2}
    Main = Main
    None = None
    Readable = {temp, mass}
    Invalid = {bad}
    Sent <- ThreeCommands
INVARIANTS
    CommandsInOrder
    TakesWhatIsThere
    LastOrderStands
    ExitJoinsAll
    DiesOfKnownCauses
    AnswersInOrder
PROPERTY
    ExitReturns

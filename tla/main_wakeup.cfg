SPECIFICATION FairSpec
CONSTANTS
    p1 = p1
    p2 = p2
    temp = temp
    mass = mass
    bad = bad
    Procs = {p1}
    Main = Main
    None = None
    Readable = {temp}
    Invalid = {bad}
    Sent <- OneCommand
PROPERTY
    CommandWakesMain

SPECIFICATION FairSpec
CONSTANTS
    p1 = p1
    p2 = p2
    p3 = p3
    Procs = {p1, p2, p3}
    Main = Main
    None = None
    MayStop <- ChainMayStop
INVARIANTS
    NeverTerminated
PROPERTIES
    StopReturns
    StopEndsRun

SPECIFICATION MCSpec
CONSTANTS
    Names = {"a", "b"}
    MaxNodes = 7
    MaxMissing = 2
INVARIANTS
    ChainIsComplete
    CodesIdentifyUrls
    AccessesWhatItNames
    RunsWhatItNames
    ProcessesFindTheirNodes
    IndicesFindTheirFiles
    DevicesAreNotShared
    OnlyProbesStopStartUp

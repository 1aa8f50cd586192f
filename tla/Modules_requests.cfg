SPECIFICATION MCSpec
CONSTANTS
    Module = {"sqs", "secretsmanager"}
    Client = {c1, c2}
    RequestLists <- MCBoth
    MaxRequests = 3
SYMMETRY Symmetry
INVARIANTS
    TypeOK
    OneThreadWhileUp
    StoppedModuleIsQuiet
    HaltStopsEveryTimer
PROPERTIES
    BootBringsModulesUp
CHECK_DEADLOCK FALSE

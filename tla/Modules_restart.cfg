SPECIFICATION Spec
CONSTANTS
    Module = {"sqs"}
    Client = {c1}
    RequestLists <- MCEach
    MaxRequests = 1
INVARIANTS
    RunningModuleWorks
CHECK_DEADLOCK FALSE

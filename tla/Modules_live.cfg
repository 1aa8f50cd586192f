SPECIFICATION FairSpec
CONSTANTS
    Module = {"kms"}
    Client = {c1}
    RequestLists <- MCEach
    MaxRequests = 2
PROPERTIES
    StoppedTimersEnd
CHECK_DEADLOCK FALSE

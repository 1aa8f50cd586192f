SPECIFICATION Spec
CONSTANTS
    b1 = b1
    b2 = b2
    k1 = k1
    k2 = k2
    NoFile = NoFile
    NoSum = NoSum
    Empty = Empty
    Bucket = {b1}
    Key = {k1}
    Client = {x}
    Content = {d1}
    File = {f1}
    Oid = {1}
    Versioned = {}
    Ops = {"put"}
    KeySets <- MCOneKey
    Checksum = FALSE
    HasWorker = TRUE
    MaxRequests = 1
PROPERTIES
    WorkerSparesObjects
CHECK_DEADLOCK FALSE

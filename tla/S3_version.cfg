SPECIFICATION Spec
CONSTANTS
    b1 = b1
    b2 = b2
    k1 = k1
    k2 = k2
    NoFile = NoFile
    NoSum = NoSum
    Empty = Empty
    Bucket = {b1}
    Key = {k1}
    Client = {x}
    Content = {d1, d2}
    File = {f1,f2}
    Oid = {1,2}
    Versioned = {b1}
    Ops = {"put"}
    KeySets <- MCOneKey
    Checksum = TRUE
    HasWorker = FALSE
    MaxRequests = 2
PROPERTIES
    VersionsStay
CHECK_DEADLOCK FALSE

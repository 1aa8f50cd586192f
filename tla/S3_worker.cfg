SPECIFICATION MCSpec
CONSTANTS
    b1 = b1
    b2 = b2
    k1 = k1
    k2 = k2
    NoFile = NoFile
    NoSum = NoSum
    Empty = Empty
    Bucket = {b1, b2}
    Key = {k1}
    Client = {x, y}
    Content = {d1}
    File = {1, 2, 3}
    Oid = {1, 2, 3}
    Versioned = {}
    Ops = {"put", "copy", "delete", "upload", "deleteObjects", "deleteBucket"}
    KeySets <- MCOneKey
    Checksum = TRUE
    HasWorker = TRUE
    MaxRequests = 3
PROPERTIES
    QuietPassCleans
    QuietPassHarmsNothing
    OrphansGo
CHECK_DEADLOCK FALSE

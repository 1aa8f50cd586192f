SPECIFICATION MCSpec
CONSTANTS
    b1 = b1
    b2 = b2
    k1 = k1
    k2 = k2
    NoFile = NoFile
    NoSum = NoSum
    Empty = Empty
    Bucket = {b1, b2}
    Key = {k1, k2}
    Client = {x, y}
    Content = {d1, d2}
    File = {f1, f2, f3, f4}
    Oid = {1, 2, 3, 4}
    Versioned = {b2}
    Ops = {"put", "copy", "move", "delete", "upload", "complete", "createBucket", "deleteBucket"}
    KeySets <- MCOneKey
    Checksum = FALSE
    HasWorker = FALSE
    MaxRequests = 4
INVARIANTS
    TypeOK
    RowHasFile
    FilesNotShared
    Md5Matches
PROPERTIES
    AloneMeansSequential
SYMMETRY Symmetric
CHECK_DEADLOCK FALSE

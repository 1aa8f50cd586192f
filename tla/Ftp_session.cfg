SPECIFICATION FairSpec
CONSTANTS
    User = {u}
    Permissions <- AllPermissions
    File = {f, g}
    Stored = {f}
    StoredBlocks = 4
    Commands = {"USER", "PASS", "QUIT", "PASV", "RETR", "LIST", "STOR", "APPE", "RNFR", "RNTO", "DELE", "NOOP"}
    NoUser = NoUser
    NoFile = NoFile
    NoObject = NoObject
    MaxTransfers = 2
    MaxCommands = 5
    MaxBlocks = 2
INVARIANTS
    TypeOK
    OneReply
    OneWriter
    DownloadIntact
    UploadIntact
PROPERTIES
    TransfersEnd
    SessionEnds
CHECK_DEADLOCK FALSE

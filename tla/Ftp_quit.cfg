SPECIFICATION FairSpec
CONSTANTS
    User = {u}
    Permissions <- AllPermissions
    File = {f, g}
    Stored = {f}
    StoredBlocks = 1
    Commands = {"USER", "PASS", "QUIT", "PASV", "STOR"}
    NoUser = NoUser
    NoFile = NoFile
    NoObject = NoObject
    MaxTransfers = 1
    MaxCommands = 5
    MaxBlocks = 2
PROPERTIES
    UploadsReachS3
CHECK_DEADLOCK FALSE

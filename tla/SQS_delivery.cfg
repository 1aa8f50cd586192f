SPECIFICATION MCSpec
CONSTANTS
    main = main
    dlq = dlq
    Queue <- MCQueue
    NoQueue = NoQueue
    Msg = {m1, m2}
    Client = {c1, c2}
    Existing = {main}
    Api = {"CreateQueue", "DeleteQueue", "PurgeQueue", "SendMessage", "ReceiveMessages", "DeleteMessage"}
    VisibilityTimeouts = {0}
    WaitTimes = {1}
    BatchSizes = {2}
    Batches <- MCBatches
    DelaySeconds <- MCNoDelay
    RetentionPeriod <- MCRetentionPeriod
    DeadLetter <- MCDeadLetter
    MaxReceiveCount <- MCMaxReceiveCount
    MaxTime = 2
    MaxHandles = 0
SYMMETRY Symmetry
INVARIANTS
    TypeOK
    ExclusiveLease
    DeadLetterOnlyAfterMaxReceives
PROPERTIES
    OnlyTheHolderDeletes
    LeasedStaysInQueue
    ImplementsMessageQueue

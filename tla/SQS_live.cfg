SPECIFICATION MCFairSpec
CONSTANTS
    sender = sender
    poller = poller
    main = main
    dlq = dlq
    Queue <- MCQueue
    NoQueue = NoQueue
    Msg = {m1}
    Client = {sender, poller}
    Existing = {main}
    Api = {"CreateQueue", "DeleteQueue", "PurgeQueue", "SendMessage", "ReceiveMessages", "DeleteMessage", "SetVisibilityTimeout", "DeleteMessage without handle"}
    VisibilityTimeouts = {0, 1}
    WaitTimes = {0, 1}
    BatchSizes = {1}
    Batches <- MCSingles
    DelaySeconds <- MCDelaySeconds
    RetentionPeriod <- MCRetentionPeriod
    DeadLetter <- MCDeadLetter
    MaxReceiveCount <- MCMaxReceiveCount
    MaxTime = 2
    MaxHandles = 3
INVARIANTS
    HolderKeepsMessage
PROPERTIES
    ExpiredMessageReturns
    OverdueMessageLeaves
    EveryRequestReturns

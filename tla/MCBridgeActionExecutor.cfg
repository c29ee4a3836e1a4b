CONSTANTS
    a1 = a1
    a2 = a2
    Actions <- MCActions
    MaxSigningAttempts = 1
    MaxExecutionAttempts = 1
    ChannelSize = 1
    MaxRestarts = 1
    WalWriteFailures = FALSE
SPECIFICATION FairSpec
INVARIANTS
    TypeOK
PROPERTIES
    ProcessedQueuedEventuallyRemoved

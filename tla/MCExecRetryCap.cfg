CONSTANTS
    a1 = a1
    a2 = a2
    Actions <- MCActions
    MaxSigningAttempts = 1
    MaxExecutionAttempts = 1
    ChannelSize = 1
    MaxRestarts = 0
    WalWriteFailures = FALSE
SPECIFICATION Spec
INVARIANT ExecutionAttemptsWithinCap

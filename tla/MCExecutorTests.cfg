CONSTANTS
    x1 = x1
    x2 = x2
    x3 = x3
    m0 = m0
    m1 = m1
    m2 = m2
    m3 = m3
    Actions <- MCActions
    Act1 = x1
    Act2 = x2
    Act3 = x3
    Mock0 = m0
    Mock1 = m1
    Mock2 = m2
    Mock3 = m3
    Stake <- MCStake
    ValidityThreshold = 3334
    PollTimeoutSecs = 10
    MaxSigningAttempts = 16
    MaxExecutionAttempts = 16
    ChannelSize = 1000
    MaxRestarts = 0
    WalWriteFailures = FALSE
SPECIFICATION TestSpec
INVARIANT TestAssertionsHold
PROPERTY TestCompletes

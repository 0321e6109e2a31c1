CONSTANTS
    Second = 4
    RetryTicks = 1
    InitialRate = 3
    Bucket = 4
    Rates = {0, 1, 6}
    Sizes = {1, 3}
    MaxPending = 2
    MaxIdle = 16
    MaxPackets = 5
    MaxChanges = 2
SPECIFICATION Spec
INVARIANT TypeOK
INVARIANT TimerRunsWhilePending
INVARIANT OrderKept
INVARIANT BackpressureHolds
INVARIANT NeverAheadOfExactBucket
PROPERTY QueuedIsSent

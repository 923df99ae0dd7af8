SPECIFICATION FairSpec
CONSTANTS
    Writes = {"w1", "big"}
    Asks = {"ask"}
    Barriers = {"bar"}
    CountOf <- MCCountOf
    MaxQueued = 2
    NoCommand = NoCommand
CHECK_DEADLOCK FALSE
INVARIANTS
    QueuedIsCounted
    QueueBounded
    BarrierBehindAckedWrites
    EmptyQueueIsPublished
PROPERTIES
    NoWriteRefusedForever
    EveryAskAnswered
    AckedIsIngested
    StoppedIsReported

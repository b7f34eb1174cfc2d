CONSTANTS
    a = a
    b = b
    c = c
    Thread <- MCThread
    Programs <- MCPrograms
    DrainLimit = 2
    CallsPerTurn = 1
    TimeMax = 2
    IntMax = 2
    PulseMax = 2
    TokenMax = 3
    Delays = {1, 2}
    NoThread = NoThread
SPECIFICATION ThreadsSpec
INVARIANTS
    LocksExclude
    SleeperMissesNoSignal
    JoinerKeepsRecord
PROPERTIES
    CondWaitContract
    WaitEnds
    ReadyThreadRuns

CONSTANTS
    f = f
    g = g
    Fd <- MCFd
    Images <- MCImages
    WordBytes = 2
    HeaderBytes = 1
    GapWords = 1
    SurvivorsSize = 7
    AddressMax = 50
    BssMax = 7
    GenerationMax = 3
    Budget = 3
    CommandMax = 2
    StatAttempts = 2
    EventCount = 2
    EventsAtOnce = {0, 1, 3}
    PublishMax = 4
    DownMax = 1
    NoFd = NoFd
    NoPage = NoPage
SPECIFICATION Spec
INVARIANTS
    MainStartsPristine
    ControlOwned
    StatusIsOneMoment
CHECK_DEADLOCK FALSE

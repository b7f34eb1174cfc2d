CONSTANTS
    p = p
    r = r
    s = s
    Thread <- MCThread
    Programs <- MCPrograms
    Fd <- MCFd
    PipeSlot = {1}
    EpollSlot = {1}
    TableMax = 2
    MaxReports = 2
    PipeCapacity = 2
    WatchedKinds = {"pipe_r", "sock"}
    SockHandle = {h1}
    SockRevents <- MCRevents
    NoHandle = NoHandle
    NoFd = NoFd
SPECIFICATION PollSpec
INVARIANTS
    NoPulseStranded
    PipeEndsOwned
    SleeperMissesNoByte
    RegistrationIsCurrent
PROPERTIES
    PulseReachesEveryWaiter
    PipeByteIsReported

\* Production: the lifetime selector decides.
CONSTANTS
    Child <- MCChild
    Driver = {"blk"}
    Beam = "beam"
    Compiled <- MCCompiled
    HardMax = 3
    HasEntry <- MCHasEntry
    GoneWired = {"blk"}
    Timed = FALSE
    Capacity = 1
    LifetimeLimit = 1
    LeakInterval = 1
    Policies <- MCPolicies
    MaxGeneration = 2
    MaxTicks = 0
SPECIFICATION FairSupSpec
INVARIANT GoneIsStoppedAndTold
PROPERTY GoneIsTerminal
PROPERTY RestartWithinCeiling
PROPERTY FaultIsAnswered
PROPERTY NoEndlessRestart

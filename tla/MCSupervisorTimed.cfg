\* root_budget_test.elf: the timed selector decides while the clock is usable.
CONSTANTS
    Child <- MCTimedChild
    Driver = {"blk"}
    Beam = "beam"
    Compiled <- MCTimedCompiled
    HardMax = 4
    HasEntry <- MCNoBeamEntry
    GoneWired = {"blk", "beam"}
    Timed = TRUE
    Capacity = 2
    LifetimeLimit = 4
    LeakInterval = 2
    Policies <- MCTimedPolicies
    MaxGeneration = 1
    MaxTicks = 5
SPECIFICATION SupSpec
INVARIANT TimedNeverInvalid
INVARIANT WindowBoundsRate
INVARIANT RestartsAreCharged
PROPERTY RestartLandsAtEntry

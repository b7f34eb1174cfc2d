\* Both selectors: the timed one of root_budget_test.elf as long as the clock
\* is usable, and production's where it is not, or no longer.
CONSTANTS
    Child <- MCChild
    Driver = {"blk"}
    Beam = "beam"
    Compiled <- MCCompiled
    HardMax = 2
    HasEntry <- MCHasEntry
    GoneWired = {"blk"}
    Timed = TRUE
    Capacity = 1
    LifetimeLimit = 2
    LeakInterval = 1
    Policies <- MCPolicies
    MaxGeneration = 1
    MaxTicks = 1
    WordMax = 7
    CommandTokens = 2
    RefillTicks = 1
    NoChild = "none"
    Views <- MCViews
SPECIFICATION RootSpec
INVARIANT PageIsTruth
INVARIANT RequestRunsOnce
INVARIANT DownIffGone
PROPERTY CommandContract
PROPERTY SupSpec
VIEW MCView

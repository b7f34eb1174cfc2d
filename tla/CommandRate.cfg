CONSTANTS
    CommandTokens = 3
    RefillTicks = 5
    MaxTick = 7
    MaxRequests = 7
SPECIFICATION RateSpec
INVARIANT RateBound
INVARIANT BackwardsBuysNothing

CONSTANTS
    p1 = p1
    p2 = p2
    p3 = p3
    Pcb <- MCPcb
    MaxSockets = 3
    Programs <- MCListener
    BufSize = 2
    BacklogCap = 2
    RefMax = 1
    CloseFails = {FALSE}
    None = None
CHECK_DEADLOCK FALSE
SPECIFICATION FairSpec
PROPERTY ClosingEnds

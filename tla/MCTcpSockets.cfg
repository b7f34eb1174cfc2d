CONSTANTS
    p1 = p1
    p2 = p2
    p3 = p3
    Pcb <- MCPcb
    MaxSockets = 3
    BufSize = 2
    BacklogCap = 2
    Programs <- MCPrograms
    RefMax = 2
    CloseFails = {FALSE, TRUE}
    None = None
CHECK_DEADLOCK FALSE
SYMMETRY PcbSymmetry
SPECIFICATION Spec
INVARIANTS
    NoDanglingPcb
    NoUnexpectedEdge
    BacklogOwned
    SleeperMissesNoEvent
    StreamInOrder

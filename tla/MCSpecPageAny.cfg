\* A committer that may reuse, skip or lower generations.
CONSTANTS
    Bodies = {"zero", "tight", "absent"}
    Undeclared = {"absent"}
    NoBody = "zero"
    MaxGeneration = 2
    SeqMax = 5
    Fresh = FALSE
SPECIFICATION SpecPageSpec
INVARIANT RetainedWasClosed
PROPERTY RefreshContract

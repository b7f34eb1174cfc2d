\* A committer that numbers its specs above what it sees.
CONSTANTS
    Bodies = {"zero", "tight", "absent"}
    Undeclared = {"absent"}
    NoBody = "zero"
    MaxGeneration = 4
    SeqMax = 7
    Fresh = TRUE
SPECIFICATION SpecPageSpec
INVARIANT OnlyHeaderRejected
PROPERTY CommitIsDurable

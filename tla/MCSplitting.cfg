\* Every short text under every scanner, engine and behavior.
SPECIFICATION Spec
CONSTANTS
    Inputs <- AllInputs
    MinChunk = 4
    MaxParallel = 3
    Overlap = 3
    Lookout = 2
INVARIANTS
    ScannerIsRegex
    ChunksAgreeOnCover
    CutsWhereSaid

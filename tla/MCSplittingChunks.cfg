\* A pattern that does not cover the text, matched in two chunks.
SPECIFICATION Spec
CONSTANTS
    Inputs <- PairInputs
    MinChunk = 4
    MaxParallel = 3
    Overlap = 3
    Lookout = 2
INVARIANT ChunksAgree

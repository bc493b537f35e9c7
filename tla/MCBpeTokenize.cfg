SPECIFICATION Spec
CONSTANTS
    Calls <- MCCalls
    SmallMergeMax = 4
    Invalid <- INVALID_TOKEN
INVARIANTS
    Spells
    WholeIsMerged
    TiktokenAgrees
    Compatible
PROPERTIES
    LowestFirst

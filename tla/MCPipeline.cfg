SPECIFICATION EncSpec
CONSTANTS
    Tokenizers <- MCTokenizers
    Jobs <- MCJobs
    IdLists <- MCIdLists
    MaxStep = 2
    TIKTOKEN_MAX_ENCODE_CHARS = 4
    MAX_CONSECUTIVE_CHARS = 2
    Settings <- MCSettings
    Lengths = {0, 3}
    Vecs <- MCVecs
    MaxOps = 3
INVARIANTS
    TypeOK PrefilterIsScan SegmentsSpell FusedAgrees ChunksAsLegacy RoundTrip
    StreamFaithful StreamComplete StreamOfTextGoesOn BatchAligned
PROPERTIES
    RowsKept TornBySetting

SPECIFICATION MCSpec
CONSTANTS
    Sizes <- MCSizes
    MaxTime = 2
    MaxHeadChunkFileSize = 4
    WriteBufferSize = 2
    HeaderSize = 1
    MaxChunks = 4
    MaxOpens = 3
    MaxTruncates = 2
    ValueBits = 4
    TimeBits = 6
    Fields <- MCFields
    LeadingBits = 1
    SigBits = 2
INVARIANTS
    TypeOK
    EveryRefReads
    OpensAgain
    XorReadsBack
PROPERTY TruncateKeepsNewer
CHECK_DEADLOCK FALSE

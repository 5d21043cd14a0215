SPECIFICATION FairSpec
CONSTANTS
    Num = 2
    IdxMod = 4
    pumpMaxBatch = 2
    Limits <- MCLimits
    Kinds = {"out", "far", "short", "bad"}
CHECK_DEADLOCK FALSE
INVARIANT MemorySafe
INVARIANT AnsweredOnce
PROPERTY Served

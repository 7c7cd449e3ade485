SPECIFICATION FairSpec
CONSTANTS
    MaxStreams = 2
    PoolSize = 1
    MaxRegistered = 1
    ArgNames = {a1}
    Values = {v1, v2}
    Plugin = {t1}
    MaxLayers = 2
    MaxIndex = 3
    MaxTime = 4
    NULL = NULL
INVARIANTS PoolsSound OpenDataLive OnceProcessed
PROPERTIES AwaitReturns
CHECK_DEADLOCK FALSE

CONSTANTS
    t1 = t1
    t2 = t2
    w1 = w1
    w2 = w2
    Tasks = {t1}
    Workers = {w1, w2}
    STREAMER_BUFFER_SIZE = 1
    STREAM_BUFFER_SIZE = 1
    MaxInstances = 2
    MaxConns = 2
    MaxData = 1
    MaxCrashes = 1
    MaxBreaks = 1
    MaxWriteFails = 1
    MaxFaults = 1
SPECIFICATION FairSpec
CHECK_DEADLOCK FALSE
INVARIANT StreamsInOrder
PROPERTIES StreamsClosed RunTaskEnds

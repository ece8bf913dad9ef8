CONSTANTS
    t1 = t1
    t2 = t2
    w1 = w1
    w2 = w2
    Tasks = {t1}
    Workers = {w1}
    STREAMER_BUFFER_SIZE = 2
    STREAM_BUFFER_SIZE = 1
    MaxInstances = 1
    MaxConns = 1
    MaxData = 0
    MaxCrashes = 0
    MaxBreaks = 0
    MaxWriteFails = 0
    MaxFaults = 1
SPECIFICATION Spec
CHECK_DEADLOCK FALSE
INVARIANT FlushedWhenFailed

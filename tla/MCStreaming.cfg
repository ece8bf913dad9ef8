CONSTANTS
    t1 = t1
    t2 = t2
    w1 = w1
    w2 = w2
    Tasks = {t1, t2}
    Workers = {w1}
    STREAMER_BUFFER_SIZE = 1
    STREAM_BUFFER_SIZE = 1
    MaxInstances = 1
    MaxConns = 2
    MaxData = 1
    MaxCrashes = 0
    MaxBreaks = 1
    MaxWriteFails = 0
    MaxFaults = 1
SPECIFICATION Spec
CHECK_DEADLOCK FALSE
SYMMETRY SymTasks
INVARIANTS ReadableUnlessLost PanicHasCause StreamsInOrder FlushedWhenFinished

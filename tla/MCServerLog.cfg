CONSTANTS
    c1 = c1
    c2 = c2
    w1 = w1
    w2 = w2
    Clients = {c1, c2}
    Workers = {w1}
    NoWorker = NoWorker
    JobSpecs <- LogJobs
    Selections <- FirstJob
    LastNs = {}
    Unreliable = {}
    Filters = {}
    MaxJobs = 1
    MaxQueue = 2
    MaxErrors = 0
SPECIFICATION FairSpec
INVARIANTS NoPanic CompletedWhenTerminated LogRegisteredWhileHeld
PROPERTIES MaxFailsEndsJob RequestsAnswered CompletedUnregistered

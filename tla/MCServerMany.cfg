CONSTANTS
    c1 = c1
    c2 = c2
    w1 = w1
    w2 = w2
    Clients = {c1}
    Workers = {w1}
    NoWorker = NoWorker
    JobSpecs <- MixedJobs
    Selections <- BothJobs
    LastNs = {1}
    Unreliable = {c1}
    Filters <- Unfinished
    MaxJobs = 2
    MaxQueue = 1
    MaxErrors = 0
SPECIFICATION Spec
CHECK_DEADLOCK FALSE
INVARIANTS LookupFindsOwner JobStatusRules

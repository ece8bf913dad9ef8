CONSTANTS
    c1 = c1
    c2 = c2
    w1 = w1
    w2 = w2
    Clients = {c1}
    Workers = {w1}
    NoWorker = NoWorker
    JobSpecs <- EmptyJobs
    Selections = {}
    LastNs = {}
    Unreliable = {}
    Filters = {}
    MaxJobs = 2
    MaxQueue = 2
    MaxErrors = 0
SPECIFICATION Spec
INVARIANT NoPanic

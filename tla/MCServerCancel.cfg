CONSTANTS
    c1 = c1
    c2 = c2
    w1 = w1
    w2 = w2
    Clients = {c1, c2}
    Workers = {w1, w2}
    NoWorker = NoWorker
    JobSpecs <- LimitedJobs
    Selections <- FirstJob
    LastNs = {}
    Unreliable = {}
    Filters = {}
    MaxJobs = 1
    MaxQueue = 2
    MaxErrors = 1
SPECIFICATION Spec
SYMMETRY SymAll
INVARIANTS NoPanic CountersMatch QuiescentAgreement CancelIsComplete RunsOnOnlineWorker
PROPERTIES TerminalIsFinal ImplementsLifecycle

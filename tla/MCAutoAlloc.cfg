CONSTANTS
    q1 = q1
    q2 = q2
    Queues = {q1, q2}
    Ids = {"a", "b", "c", "d", "e", "f"}
    target_scale <- Scales
    max_workers_per_alloc <- PerAlloc
    MAX_EVENT_QUEUE_LENGTH = 1
    MaxStatusFails = 1
    MaxQueueFails = 1
    MaxEnds = 1
SPECIFICATION FairSpec
INVARIANTS NoOverallocation TracksAllocations
PROPERTY ReachesScale

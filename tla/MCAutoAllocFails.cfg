CONSTANTS
    q1 = q1
    q2 = q2
    Queues = {q1}
    Ids = {"a", "b", "c", "d", "e", "f"}
    target_scale <- Scales
    max_workers_per_alloc <- PerAlloc
    MAX_EVENT_QUEUE_LENGTH = 2
    MaxStatusFails = 1
    MaxQueueFails = 0
    MaxEnds = 0
SPECIFICATION Spec
INVARIANT ListsAllAllocations

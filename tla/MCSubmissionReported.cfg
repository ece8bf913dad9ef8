SPECIFICATION Spec
CONSTANTS
    CommandLines <- SingleIds
    StatusLists <- AllStatusLists
    ClientDir = ClientDir
    ServerCwd = ServerCwd
    MaxSubmits = 1
    MaxJobs = 2
    MaxStarted = 3
    MaxRestarts = 0
    U32 = 16
INVARIANTS
    ReportedIdIsOwn
CHECK_DEADLOCK FALSE

SPECIFICATION Spec
CONSTANTS
    CommandLines <- LineFiles
    StatusLists <- AllStatusLists
    ClientDir = ClientDir
    ServerCwd = ServerCwd
    MaxSubmits = 1
    MaxJobs = 2
    MaxStarted = 3
    MaxRestarts = 0
    U32 = 16
INVARIANTS
    EntryIsLine
CHECK_DEADLOCK FALSE

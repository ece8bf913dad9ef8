SPECIFICATION Spec
CONSTANTS
    CommandLines <- AllCommandLines
    StatusLists <- AllStatusLists
    ClientDir = ClientDir
    ServerCwd = ServerCwd
    MaxSubmits = 1
    MaxJobs = 3
    MaxStarted = 3
    MaxRestarts = 1
    U32 = 16
INVARIANTS
    TasksHaveDefs CopiesKeepLines ResubmitSelects OutputsKeptApart
CHECK_DEADLOCK FALSE

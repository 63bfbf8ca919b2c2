CONSTANTS
    SyncCaller = {s1}
    AsyncCaller = {a1}
    NoJob = NoJob
    MaxPairs = 2
    MaxFailures = 1
    MaxReports = 2
SPECIFICATION Spec
CHECK_DEADLOCK FALSE
INVARIANTS OneTurnPerJob AnswerIsForJob JobsAreFenced

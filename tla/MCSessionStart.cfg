SPECIFICATION FairSpec
CONSTANTS
    PipeCapacity = 1
    Payload = 1
    MAX_BOUNDED_STREAM = 1
    MaxOutput = 2
    REAP_BUDGET = 1
    MaxTime = 8
    TOTAL_TIME_BUDGET = 4
    PROBE_TIMEOUT = 2
    LAUNCH_TIMEOUT = 2
    WHERE_TIMEOUT = 1
    SEARCH_TIMEOUT = 2
    STDIN_TIMEOUT = 1
    HOOK_TIMEOUT = 7
CHECK_DEADLOCK FALSE
INVARIANTS
    ReportsInTime
    AnswerIsWhole
    NoChildLeft
    EmptyIsAnswered
PROPERTIES
    AlwaysReports

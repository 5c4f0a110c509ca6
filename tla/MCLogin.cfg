SPECIFICATION Spec
CONSTANTS
    login_timeout = 7
    request_timeout = 2
    MAX_DEVICE_POLL_INTERVAL = 3
    DEVICE_SLOW_DOWN = 1
    READ_TIMEOUT = 1
    MaxReads = 2
    Intervals <- OfferedIntervals
    Lifetimes <- OfferedLifetimes
    MaxTime = 16
CHECK_DEADLOCK FALSE
INVARIANTS
    NeverSendsLate
    EndsInTime
PROPERTIES
    PollsAreSpaced
    LoginEnds
    ApprovedSignsIn

SPECIFICATION Spec
CONSTANTS
    NoCredential = NoCredential
    NoProc = NoProc
    Procs = {p1, p2, p3}
    Families = {f1, f2}
    Commands = {"login", "status", "logout", "local_only"}
    Faults = {"save_fails"}
    MaxGeneration = 2
    MaxLate = 0
SYMMETRY Interchangeable
INVARIANTS
    NeverReusesToken
    FailedSaveRevokes
    DeadCredentialDropped

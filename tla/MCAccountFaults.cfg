SPECIFICATION Spec
CONSTANTS
    NoCredential = NoCredential
    NoProc = NoProc
    Procs = {p1, p2}
    Families = {f1, f2}
    Commands = {"login", "logout", "logout_all", "revoke_device"}
    Faults = {"timeout", "late", "garbled", "save_fails", "crash", "web_revoke"}
    MaxGeneration = 1
    MaxLate = 1
SYMMETRY Interchangeable
INVARIANTS
    TypeOK
    OneRotation
    RemoteRevokedIsTrue
    AllDevicesRevoked

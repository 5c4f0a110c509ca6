SPECIFICATION FairSpec
CONSTANTS
    NoCredential = NoCredential
    NoProc = NoProc
    Procs = {p1, p2}
    Families = {f1}
    Commands = {"login", "status", "use", "logout", "logout_all", "local_only", "revoke_device"}
    Faults = {"timeout", "load_fails", "delete_fails"}
    MaxGeneration = 1
    MaxLate = 0
PROPERTIES
    CommandsEnd

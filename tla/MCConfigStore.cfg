SPECIFICATION FairSpec
CONSTANTS
    Absent = Absent
    None = None
    Nil = Nil
    NoLock = NoLock
    Stale = Stale
    Procs = {p1, p2}
    Profiles = {work}
    Accounts = {acct}
    Projects = {root}
    Faults = {"before_publish", "after_publish", "lock_write"}
INVARIANTS
    TypeOK
    LockMutex
    PublishesOverSnapshot
PROPERTIES
    CommandsReturn

SPECIFICATION Spec
CONSTANTS
    Absent = Absent
    NoEntry = NoEntry
    Empty = Empty
    NoDigest = NoDigest
    NoLock = NoLock
    Stale = Stale
    Nothing = Nothing
    Format = "json_entry"
    Entries = {e1}
    Foreign = {f1}
    Rests = {Empty, r1}
    Procs = {p1, p2}
    Start <- MaybeInstalled
    OldReceipts <- Undigested
    UserMay = {"edit", "drop_receipt", "crash", "clear_lock"}
    HandEntries = {e1, f1}
    MaxEdits = 1
    MaxFaults = 1
    Faults = {"before_publish", "after_publish"}
SYMMETRY Interchangeable
INVARIANTS
    LockMutex
    ReplacesItsSnapshot
    UserContentPreserved
    ByteIdenticalRestore

PROPERTIES
    ImplementsOwnedEntry

SPECIFICATION Spec
CONSTANTS
    Absent = Absent
    NoEntry = NoEntry
    Empty = Empty
    NoDigest = NoDigest
    NoLock = NoLock
    Stale = Stale
    Nothing = Nothing
    Format = "json_entry"
    Entries = {e1, e2}
    Foreign = {f1}
    Rests = {Empty, r1}
    Procs = {p1}
    Start <- MaybeFile
    OldReceipts = {}
    UserMay = {"edit"}
    HandEntries = {}
    MaxEdits = 1
    MaxFaults = 0
    Faults = {}
INVARIANTS
    UserContentPreserved

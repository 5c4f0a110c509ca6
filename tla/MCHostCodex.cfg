SPECIFICATION Spec
CONSTANTS
    Absent = Absent
    NoEntry = NoEntry
    Empty = Empty
    NoDigest = NoDigest
    NoLock = NoLock
    Stale = Stale
    Nothing = Nothing
    Format = "codex_marker_block"
    Entries = {e1, e2}
    Foreign = {f1}
    Rests = {Empty, r1}
    Procs = {p1, p2}
    Start <- MaybeFile
    OldReceipts = {}
    UserMay = {"edit", "drop_receipt", "clear_lock"}
    HandEntries = {}
    MaxEdits = 1
    MaxFaults = 1
    Faults = {"before_publish", "lock_write"}
SYMMETRY Interchangeable
INVARIANTS
    TypeOK
    DisconnectRemovesEntry
    ReceiptAgrees
    FailedStepRestores
    NoResidue

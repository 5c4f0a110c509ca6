SPECIFICATION Spec
CONSTANTS
    d1 = d1
    q1 = q1
    q2 = q2
    v1 = v1
    v2 = v2
    Profiles = {f1}
    Projects = {q1, q2}
    Roots = {d1, v1, v2}
    default_vault_root <- DefaultRoots
    ProjectVault <- ProjectRoots
    NoRoot = NoRoot
    NoProfile = NoProfile
    MaxWorkspaces = 2
    Procs = {p1, p2}
    Home = Home
    HostSets = {{"claude"}}
    Scopes = {"user"}
    Policies = {"auto", "create"}
    ExplicitRoots = {NoRoot, d1}
    SkipSets = {{}}
    Singles = {"connect"}
    Alone = {"teardown", "install", "remove", "profile_remove"}
    UserMay = {"delete_files", "delete_vault", "drop_record"}
    Faults = {"step", "preflight", "publish", "crash"}
    MaxCommands = 3
SYMMETRY Interchangeable
CHECK_DEADLOCK FALSE
INVARIANTS
    NeverForks
PROPERTIES
    SharedEntryKept
    RemovedIsGone

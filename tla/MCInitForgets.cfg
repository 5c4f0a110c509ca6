SPECIFICATION Spec
CONSTANTS
    d1 = d1
    q1 = q1
    q2 = q2
    v1 = v1
    v2 = v2
    Profiles = {f1}
    Projects = {q1, q2}
    Roots = {d1, v1, v2}
    default_vault_root <- DefaultRoots
    ProjectVault <- ProjectRoots
    NoRoot = NoRoot
    NoProfile = NoProfile
    MaxWorkspaces = 2
    Procs = {p1}
    Home = Home
    HostSets = {{"claude"}, {"codex"}, {"claude", "codex"}}
    Scopes = {"user"}
    Policies = {"auto"}
    ExplicitRoots = {NoRoot}
    SkipSets = {{}}
    Singles = {}
    Alone = {"teardown", "install", "remove", "profile_remove"}
    UserMay = {}
    Faults = {}
    MaxCommands = 4
CHECK_DEADLOCK FALSE
PROPERTIES
    SharedEntryKept

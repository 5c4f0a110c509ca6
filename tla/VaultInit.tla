----------------------------- MODULE VaultInit -----------------------------
(***************************************************************************)
(* What init does about the vault (src/manager.rs, src/discovery.rs): use  *)
(* the profile of that name, adopt the one vault in reach, create one, or  *)
(* refuse.  The engine process that owns vaults and the profile registry   *)
(* is external: each of its commands is modelled by what the manager       *)
(* relies on.                                                              *)
(*                                                                         *)
(* A vault is a directory whose manifest parses; only the number of its    *)
(* workspaces is kept.  One is right, two is a fork: init-profile on an    *)
(* existing vault succeeds and adds a workspace.                           *)
(***************************************************************************)
EXTENDS Naturals, FiniteSets

CONSTANTS
    Profiles,       \* profile names
    Projects,       \* project directories
    Roots,          \* directories that can hold a vault
    default_vault_root, \* the root under the user data directory, per profile
    ProjectVault,   \* .kaleidoscope of each project
    NoRoot,         \* --root not given, or no profile of that name
    NoProfile,      \* no active profile
    MaxWorkspaces   \* bound on the workspaces of one vault

ASSUME VaultAssumption ==
    /\ default_vault_root \in [Profiles -> Roots]
    /\ ProjectVault \in [Projects -> Roots]
    /\ NoRoot \notin Roots /\ NoProfile \notin Profiles
    /\ MaxWorkspaces \in Nat \ {0}

VARIABLES
    workspaces,     \* workspaces in each root; 0: the root is not a vault
    registry,       \* the engine's profiles: name to root, or NoRoot
    active          \* the active profile in manager.json

vaultVars == <<workspaces, registry, active>>

VaultStart ==
    /\ workspaces \in [Roots -> {0, 1}]
    /\ registry = [f \in Profiles |-> NoRoot]
    /\ active = NoProfile

-----------------------------------------------------------------------------
(* The engine.                                                             *)

\* One profile whose vault is gone makes the engine refuse the whole registry.
Readable == \A f \in Profiles : registry[f] # NoRoot => workspaces[registry[f]] > 0

profile_show(f) == IF Readable THEN registry[f] ELSE NoRoot

profile_list == IF Readable THEN {f \in Profiles : registry[f] # NoRoot} ELSE {}

\* Refuses a name that is taken; never refuses a root that is a vault already.
init_profile(f, root) ==
    /\ registry[f] = NoRoot /\ workspaces[root] < MaxWorkspaces
    /\ registry' = [registry EXCEPT ![f] = root]
    /\ workspaces' = [workspaces EXCEPT ![root] = @ + 1]

\* Refuses a root that is not a vault and a vault with several workspaces.
profile_import(f, root) ==
    /\ registry[f] = NoRoot /\ workspaces[root] = 1
    /\ registry' = [registry EXCEPT ![f] = root]
    /\ UNCHANGED workspaces

-----------------------------------------------------------------------------
(* The manager.                                                            *)

\* Candidate::Vault of discovery::probe.
probe(root) == workspaces[root] > 0

\* The roots Manager::discover offers: the explicit one alone, or those of the
\* other profiles, the default root, the project's own and every child of the
\* user vault directory.
Offered(profile, root, project) ==
    IF root # NoRoot
      THEN {root}
      ELSE {profile_show(f) : f \in profile_list \ {profile}}
             \cup {default_vault_root[f] : f \in Profiles}
             \cup {ProjectVault[project]}

\* The vaults among them, each once whatever rules name it.
discover(profile, root, project) ==
    {r \in Offered(profile, root, project) \ {NoRoot} : probe(r)}

\* What init decides, once no profile of that name answered: a root to create
\* in, a vault to adopt, or a refusal.
decide(policy, profile, root, project) ==
    LET found  == discover(profile, root, project)
        target == IF root = NoRoot THEN default_vault_root[profile] ELSE root
    IN  CASE policy = "create" -> [act |-> "create", root |-> target]
          [] policy # "create" /\ Cardinality(found) = 1 ->
               [act |-> "adopt", root |-> CHOOSE r \in found : TRUE]
          [] policy = "auto" /\ found = {} -> [act |-> "create", root |-> target]
          [] OTHER -> [act |-> "refuse", root |-> NoRoot]

\* reuse_existing_profile: the profile of that name is the answer, unless the
\* user named another root.
reuse_existing_profile(profile, root) ==
    CASE profile_show(profile) = NoRoot -> "none"
      [] profile_show(profile) # NoRoot /\ root \in {NoRoot, profile_show(profile)} -> "reuse"
      [] OTHER -> "mismatch"

=============================================================================

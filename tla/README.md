# Kaleidoscope manager: a TLA+ verification project

The repository is the public side of a memory engine: a Rust manager
(`kaleidoscope`) that creates vaults through the engine, wires the engine into
editors by editing their configuration files, and manages an account session;
and two thin clients, in Python and TypeScript. None of it is a server. What is
hard about it is that several short-lived processes, the user's own editor and
a remote service change the same small pieces of state, that any of them can
stop half way, and that the manager promises to take out again exactly what it
put in.

The modules here are translated from the source; each definition's lines are
listed in `PROJECT.json` under `map`.

## Inventory

| Component | State | Operations | Interacts with | Correct when |
|---|---|---|---|---|
| configuration store, `src/config.rs` | `manager.json`, its lock file | set active profile, bind/unbind account, forget profile, register/forget project | other manager processes | always loads back; one writer; no edit lost |
| file primitives, `src/fs_safe.rs` | a target, its lock, backup and directory | snapshot, compare, atomic write/remove, restore, lock, prune | everything that writes | old or new content, never a mixture; one holder; foreign edits refused |
| host connection, `src/host.rs` | an editor file, its receipt and backup | plan connect/disconnect, apply | user's editor, other managers | the user's content survives; removal is exact when claimed |
| JSON span editor, `src/json_span.rs` | none | cut one member out of a text | host, hooks | what remains parses to the wanted document |
| instruction files, `src/instructions.rs` | marker blocks, whole files, receipts | install, update, adopt, remove, force | user's editor | as host connection |
| hook installer, `src/hooks.rs` | Claude settings, receipt | install, remove, force | user's editor | as host connection |
| hook runtime, `src/hooks.rs` | a time budget | probe, resolve, retrieve, render | engine process | bounded in time and size, verdict matches facts |
| account client, `src/account/client.rs` | none of its own | login, status, logout, devices, link | service, store, lock | no token used twice; reports are true |
| credential store and rotation lock, `src/account/store.rs` | one credential, one lock | load, save, delete, acquire, release | other invocations | rotation is exclusive, waits are bounded |
| OIDC, `src/account/oidc.rs` | provider documents | discover, verify | service | only a matching, current token is accepted |
| wire protocol, `src/account/protocol.rs`, `native_http.rs` | none | build requests, classify answers | service | closed set of routes; errors classified |
| vault initialisation, `src/manager.rs`, `src/discovery.rs` | vaults, profiles | discover, adopt, create | engine | never a second vault over an existing one |
| engine process, `src/engine.rs` | a child process | run with a deadline and a size bound | engine | returns in time, never blocks on a pipe |
| command line, `src/main.rs` | none | init (four steps a host), teardown, account | all | failed steps stop the run, teardown undoes what landed |
| interaction runtime, `src/account/runtime.rs` | a listener | open the browser, accept and read the callback | user, browser | ends in time, only the expected callback counts |
| doctor, `src/doctor.rs` | none | report | all, read only | status reflects what is on disk |
| Python and TypeScript clients | one MCP session, one turn | open, search, remember, close | engine process | one session; results as the engine gave them |

Hard behaviours, and where they bite, are listed in `PROJECT.json` under
`hazards`: reads that are stale when used (`load` then `save`, plan then apply),
work outside a lock (credential deletion, login), crashes between two writes,
failures after a rename has happened, answers that are lost or late after the
service has acted, children that hang, fill a pipe or hand it on, deadlines shared
by several steps, and long sequences of legal commands (connect, edit, connect,
disconnect; init here, teardown there).

## Modules

| Module | Models | Used by |
|---|---|---|
| `FsSafe` | what a write, removal or restore can publish and report | `ConfigStore`, `HostPlan`, `FileApply` |
| `ConfigStore` | `src/config.rs` over the lock and the comparison of `src/fs_safe.rs` | `MCConfigStore`, `ConfigStoreProofs` |
| `HostPlan` | the planners of `src/host.rs`, as operators | `HostApply` |
| `HostApply` | `ConnectionPlan::apply`, concurrent managers, the user | `HostImplements` |
| `OwnedEntry` | abstract: what owning one entry in the user's file means | `HostImplements` |
| `HostImplements` | the refinement mapping from `HostApply` to `OwnedEntry` | `MCHostApply`, `HostApplyProofs` |
| `ProjectFile` | a text file with blocks in it, and a receipt about it | `InstructionPlan`, `HookPlan` |
| `InstructionPlan` | the planners of `src/instructions.rs`, as operators | `FileApply` |
| `HookPlan` | the planners of the hook installer in `src/hooks.rs` | `FileApply` |
| `FileApply` | applying such a plan, with the user beside it | `MCFileApply`, `FileApplyProofs` |
| `VaultInit` | `src/manager.rs` and `src/discovery.rs` over the engine | `InitRun` |
| `InitRun` | init, teardown and the single-step commands of `src/main.rs` | `MCInitRun`, `InitRunProofs` |
| `BoundedRun` | `run_bounded` of `src/engine.rs` | `SessionHook` |
| `SessionHook` | `hook session-start` of `src/hooks.rs`, over `BoundedRun` | `SessionHookProofs` |
| `AccountSession` | `src/account/client.rs` with store, lock, network and service | `MCAccountSession`, `AccountSessionProofs`, `AccountTruthProofs` |
| `InteractiveLogin` | the waits of a login: device polls, loopback callback | `MCInteractiveLogin`, `InteractiveLoginProofs` |

### ConfigStore

`disk` is the file (absent or a configuration), `lock` the lock file (absent,
its owner, or stale), `proc` what each process has read and where it is. A
command is `LoadAndEdit` (load and the edit in memory), then the steps of
`ConfigStore::save`: `TakeSnapshot`, `AcquireLock`, `AssertUnchanged`,
`Publish`, `DropLock`. `Crash` leaves the lock file; `ClearStaleLock` is the
person who removes it. File versions are not told apart: a load upgrades
silently. The directory that holds the file is taken to exist.

### HostPlan and HostApply

A file is the user's content (`rest`), at most one Kaleidoscope entry, and a
layout: for the JSON hosts whether the bytes are the user's or the manager's
pretty form, for Codex how many newlines precede the block. A digest is the
bytes. `plan_connect` and `plan_disconnect` return the set of plans the code can
make: none when it refuses or has nothing to do. Removal from JSON gives either
the cut text or a re-encoded one, because which of the two happens depends on
how the text is spelled. An emptied parent object (`"mcpServers": {}`) is not
told apart from no object.

`HostApply` runs them: `ReadTarget`, `ReadReceipt`, `Plan` without a lock, and
then `apply` one file operation at a time. Each write can fail before or after
its rename. `Prune` removes the directory after the lock is dropped, as in the
code; the directory is one of those in the pruned list (`.codex`, `.cursor`).
Around it the user edits the file (`UserEdit`), writes an entry by hand, deletes
the receipt (the remedy the refusals name), clears lock files, and processes
die. Two history variables say what the user last left in the file and what was
there before the first write.

### OwnedEntry and HostImplements

`OwnedEntry` is what a user may rely on without knowing about plans, backups
and locks: the file is content and an entry, and the manager claims an entry or
none. A command may change the entry only when it is the one claimed, or there
is none and none is claimed; it may claim one that is exactly what it wants; it
never touches the content. A change is followed by its claim, or undone, or left
when the manager dies. `HostImplements` maps `HostApply` to it (the entry and
content of the target, the receipt as the claim, a change under way from the
write of the target until the receipt is settled) and states
`ImplementsOwnedEntry`, which `host_json` checks: crashes, failed writes and
concurrent managers are all steps of `OwnedEntry` or stutter. It is checked for
the instance in which no update of an entry happens, because an update can
lose the user's content (`host_update_loses_edit`), and proved for all such.

### ProjectFile, InstructionPlan, HookPlan and FileApply

A file is a body (the user's text, numbered), the line breaks at its end
(`gap`, 0 to 2), and a sequence of blocks: exact copies of a version, edited
ones, broken markers. There are four kinds: `AGENTS.md` or `CLAUDE.md` and the
Cursor rule, which hold a marker block, the skill file that is owned as a whole,
and `settings.json` with an array of hook entries. The planners return one plan or
a refusal, with the tier of the restore and whether text is disclosed as
discarded, for install, update, adopt, remove and the forced forms.

`FileApply` runs a command one file operation at a time, in the order of the two
`apply` functions: `Plan`, `AssertTarget`, `AssertReceipt`, `WriteBackup`,
`WriteTarget`, `WriteReceipt`, then `RemoveBackup`, or, when the receipt fails,
`Compare` and `Restore` (`Restore` alone for `settings.json`). Every write and
removal can fail before or after it is published (`FsSafe`), the undo and the
removal of the backup included, and a command says which it was: `aborted`,
`unsynced` (the target was replaced and an error reported, `fs_safe.rs:352`),
`failed`, `undo_failed`, `kept_backup`. The process can die between any two steps.
Around it the user edits the text at any moment (`Edit`, `EditAtWork`), and
between two commands, or between a plan and its first look, also the blank lines
or the block, breaks a marker, copies or deletes the block, deletes the file or
the receipt, or pastes an entry. Two history variables say what the file was
before the install the receipt goes back to, and what happened since; one field
of the latter, `unseen`, marks text saved after the command's last look at the
file and before it replaces or restores it, which the code loses. One command
runs at a time: the lock that keeps two apart, and the pruning of directories, are
the same functions as in `HostApply` and are checked there. `MaxEntries` bounds
the entries in a `settings.json` that is installed into.

### VaultInit and InitRun

A vault is a directory with a number of workspaces: one is right, two is a
fork. The engine is external: `init-profile` refuses a name that is taken and
never refuses a root, `profile import` needs a vault with one workspace, and
`profile list` fails as a whole when one registered vault is gone. On top of it
`resolve_vault` decides as in `src/discovery.rs` which vaults are offered, and
`InitRun` runs init: probe, create or adopt, set the active profile, preflight
every step of every host, apply them in order, register the project. Teardown
reads the other registered projects, decides whether the shared half stays,
removes in reverse and forgets the project. A slot is one file of one step;
`owned` says which hold something. How a slot is written is `HostApply` and
`FileApply`; here a step happens, has nothing to do, is refused because the
slot changed since the preflight, or fails. `relying` is a history variable: for
which hosts a project was told, by an init that finished, that the shared entry is
there; a teardown, disconnect or removal run in that project withdraws it. The
user deletes project files,
vaults and registry records; processes die between any two steps.

### BoundedRun and SessionHook

`BoundedRun` is one child, two pipes of bounded capacity, two reader threads,
a channel and two timers. `Manager` is the code's own steps: `WriteStdin`,
`Read`, `Receive`, `TimeOut` (which kills and reaps), `Reap`. The child is
arbitrary, and may leave a pipe open in a process of its own after it exits.
Time advances only while the runner waits with an unexpired timer.

`SessionHook` runs its stages over it: probe the MCP command, launch the
profile, resolve the project, search in up to four forms, report. Each stage
takes `slice` of the one deadline. A search that succeeds prints text that does
not parse, JSON without a list `selected_hits`, an empty list, a list whose first
hit is too long for the section, or one with a hit to show, in any order of the
attempts; `render_hits` leaves an entry only of the last. The history variable
`heard` keeps what became of each attempt, so that the verdict can be compared
with it. What the vault really holds is not modelled: the query, `top_k` and the
size limit stand between it and the answer.

### AccountSession

`store` is the one credential in the operating system's store (family and
generation), `lock` the file lock that covers `refresh_access`, `service` what
the service knows of each family, `network` the requests on their way. A family
stands for the device it was issued to. A command goes through the same steps
as in the code; every request is `Send`, an answer by `Service` or a `Timeout`,
and a `Receive...` action. A request can be handled after its sender has given
up. The service is external: it rotates, detects reuse and revokes the way the
client's error handling and its tests assume; a revoked family's access token
may or may not be refused. Calls that change nothing here (`get_account`, links,
identities, device list) are one kind of request. A failed load, a rate limit
and a malformed error answer all end a command without effect and are one case.

### InteractiveLogin

`login` is the client: which flow, where it is, its deadline, the timer it
waits for and its poll interval; `grant` is the service: what the user decided,
the spacing it asks for and when it was last polled. The device flow is
`BeginDevice`, `Sleep`, `Poll`, `PollAnswered`; the browser flow `Accept`,
`ReadMore`, `ReadCallback`, `ReadTimesOut`, `Exchange`. Every request ends at
the earlier of its own and the login's deadline. A login that gets a session is
over here; what is done with the session is `AccountSession`.

## Runs

| Run | Shows |
|---|---|
| `config_store` | with failing writes and crashes: the file always validates, one writer, a save replaces what it compared, every command returns |
| `host_json` | two managers, a user, failures and crashes: one writer, over the planned file, user content kept, exact restores exact, and every step one that `OwnedEntry` allows |
| `host_codex` | the Codex planner through adoption, update, dropped receipts and failing writes: disconnect takes the block out, receipt and file agree, a failed step puts the file back, no residue |
| `host_update_loses_edit` (violation) | connect, edit, connect, disconnect deletes the user's content |
| `project_files` | instruction, skill and settings files with a user who edits at any moment and writes that fail before or after publication: no text lost that the command could have seen, failed commands undone, removal undoes installation, no duplicate entry, a spoilt block can be forced out |
| `init` | two projects, two processes, failing steps, crashes: no vault forked, no shared entry taken from a project that needs it, "removed" means gone |
| `init_forgets_dependant` (violation) | a teardown of one host makes a later teardown elsewhere remove the entry of the other |
| `session_start` | arbitrary children: the hook reports before the harness would kill it, leaves no child, loses no output, and calls a vault empty only when it is |
| `account_quiet` | no refresh token is presented twice, refused sessions are revoked, dead credentials stay gone |
| `account_faults` | exclusive rotation and true reports with lost, late and unacceptable answers and crashes |
| `account_liveness` | every account command returns |
| `device_login` | no request on its way after the deadline, polls spaced as asked, a login overruns its deadline by less than one sleep or one callback, an approval in time signs in |

Bounds are in the `.cfg` files. Two processes are enough to interleave every
pair of steps, and the lock, comparison and deletion races need two; the
account run without faults uses three, because a refresh, a logout and a login
can meet. Two profiles, entries or versions make an update possible; one piece
of user content beside the empty one makes an edit visible. In `project_files`
two edits happen, of any sort between commands and of the text between any two
steps, which is enough to spoil a block and its surroundings, or the file and its
receipt, or to save new text in the window of a command; the Cursor rule, which
differs from `AGENTS.md` in one branch of the planner, has fewer of them; `MaxText` leaves room
for each edit to be a new text. In `init` three commands reach init here, init
there, teardown here, with a crash or a failure in any of them; it has one
profile, a default root beside the two projects' own vault directories, and
teardown, the single-step commands and profile removal run with no
other command beside them (`Alone`), since the races of a teardown with an init
are known (below). In `session_start` pipes hold one chunk, a child writes up to
two to each stream and a stream is cut off after one, so that a full pipe, a cap
and an unread rest all happen; the budget is shorter than the sum of the stages'
timeouts, as in the code. In `device_login` the deadline allows several polls at
the largest interval, and the offered intervals and lifetimes include 0 and
values beyond the limits. The bound that `EndsInTime` states for the browser flow
is what the code gives and no more: there is one read per byte up to 8 KiB, each
may take two seconds, and none looks at the deadline, so a peer that trickles can
hold a login for hours after it. `SYMMETRY` is over interchangeable processes (and
token families), and in `init` also over the two projects together with their
vault directories; no run with a liveness property uses it.

`host_json` excludes the case its violation run is about by its constants and
not by its properties: the user's edits there happen outside the window, and one
entry is wanted, so no update happens.

### Where the code and its documentation disagree

The two violation runs are the ones that cost the user something that cannot be
undone: content deleted by a disconnect, and the entry of a project the command
was not standing in. The others have no run of their own; each is in
`PROJECT.json` at its hazard.

- An edit of `manager.json` made between another command's load and save is
  overwritten (docs/manager.md:274-275 has it refused).
- An edit saved between the comparison and the replacement is overwritten, for
  editor files (`ReplacesItsSnapshot` fails as soon as `UserMay` has
  `"edit_in_window"`) as for the project's files (`since.unseen` in
  `UserTextPreserved`), and the hook installer's undo restores `settings.json`
  over any edit made since.
- In the project's files, a write of the target that is published and yet fails,
  an undo that fails and a just-created file whose receipt fails all leave the
  new file without its receipt.
- A file that a failing connect has just created stays (docs/manager.md:96).
- An update of a receipt without digests makes the next disconnect restore the
  entry (src/host.rs:150-156).
- A local-only logout is undone by a refresh in flight
  (src/account/fake.rs:921-929 expects an empty store). After a remote logout a
  refresh in flight stores a later rotation of the revoked family, and a command
  whose call is refused after its refresh keeps a credential it could know to be
  dead (src/account/client.rs:219); the next refresh drops either.
- A disconnect at user scope takes out the entry of every project; only teardown
  counts the others.
- An empty `.cursor` or `.codex` folder of the user's is pruned; a structural
  Codex removal can take a newline the manager did not insert; and because an
  update rewrites the backup, an unedited file connected twice is restored
  structurally, not byte for byte.
- An update of another profile's hook entry does not look for the entry it is
  about to write, and can leave it twice.
- Two profiles given one `--root` can both find it free, and the second init
  forks the first one's vault. An init that ends between a teardown's reading of
  the dependants and its removal loses the shared entry.
- With an engine that predates `--json`, an empty vault is reported as
  unavailable (src/hooks.rs:1098-1099); a first hit too long for the section, or
  JSON without `selected_hits` (src/hooks.rs:1218-1220), is reported as an empty
  vault.

### Fairness

`WF` of the steps of a running process, and of nothing else. No step of a save
or an apply waits for another process, since an existing lock file is an error.
In `AccountSession` a wait for the lock and a wait for an answer both have a
timeout in the code, and `Timeout` and the refusal in `Acquire` are those
timeouts. In `SessionHook` the hook's stages, its threads and the clock make
progress; a child need never write, close or exit. In `InteractiveLogin` the
client and the clock do; the user, the service, the network and whoever
connects owe nothing. `ApprovedSignsIn` therefore allows for a failed request.
Users start commands when they like.

`CHECK_DEADLOCK FALSE` is used where a behaviour ends: one login, one hook, a
bounded number of commands.

## Proofs

The `...Proofs` modules hold the theorems, for every set of processes, profiles,
projects, entries, contents and token families, and for every bound and timeout.
Where a theorem has a hypothesis, the property fails without it for a reason in
the code, named below.

### Configuration store and host connection

- `ConfigStaysReadable`, `FilesStayReadable`, `SessionsStayReadable`: type
  correctness. For the host planners this needs a lemma for each operator that
  builds bytes, receipts or plans.
- `OneWriter`, `OneApplier`: mutual exclusion is inductive together with the
  types: a process past `acquire` owns the lock file, a crash turns that file
  into a stale one, and only an absent file can be taken.
- `SaveReplacesItsSnapshot`: while a process is between the comparison and the
  rename, the disk equals its snapshot; any other process that could change the
  disk would be past its own `acquire`, which mutual exclusion excludes.
- `AppliesToPreviewedFile`: the same argument over the four steps between the
  comparison of the target and its replacement, when the user does not save in
  that window.

The other host theorems share one argument. `Planned` says that a process that
applies follows a plan made from the snapshots it carries, `AllRecorded` that
every receipt (on disk, read, or about to be written) tells the truth about the
file before the first write, and `PlanSensible` what a planner does when its
receipt is truthful: which entry, content and record its plan leaves.
`HolderSteps` says that while a process holds the lock only it and the user
touch the files, so each invariant is checked against one process's steps.

- `UserContentSurvives`: the user's content and foreign entries are kept. Not
  inductive alone: `Settled` adds that between a comparison and the write it
  allows, the receipt and the target are what was compared. Hypotheses: no save
  inside the window, and one entry (`OneEntry`), because an update loses an edit
  (`host_update_loses_edit`).
- `ExactRestoresAreExact`: `Exact` ties the digest in the receipt to the file
  that the first write replaced, and `Traced` carries that through the steps
  between the target and the receipt; updates are included.
- `DisconnectTakesEntryOut`: from `AllRecorded`; no hypothesis on the user or on
  failures.
- `ExactRemovalIsClean`: from `Planned` alone, without any hypothesis.
- `FailedApplyIsUndone`, `ReceiptMatchesFile`: at most one failure, since the undo
  is one more write that can fail. The first also excludes edits by hand. The
  second holds up to the first edit and excludes crashes and failures reported
  after a rename, which leave a written target without its receipt.
- `HostImplementsOwnedEntry`: the refinement. Initial states map to initial
  states; `StepSimulation` maps the write of the target to `Change`, of the
  receipt to `Claim`, the restore to `Undo`, deaths and failed comparisons to
  `Abandon`, what the user does to `User`, and everything else to a stutter.
  The lock makes the change under way unique (`PendingOf`). Hypotheses as for
  `UserContentSurvives`.

`PlainReceipts`, a hypothesis where receipts matter, says of the receipts an older
manager left that they carry no digests and that none of them is updated (see
the list of disagreements above for what happens otherwise).

### Instruction and hook files

For every kind of file, every set of versions and every choice of what the user
does and what fails; none of the five theorems has a hypothesis, and what the
code does not guarantee is excepted in the statement of the property. Each plan
rests on the file, the receipt and the backup it was made from, so the first
invariant (`AtWork`) says that a command at work remembers them, and that the
backup is the planned one until it is replaced. What the planners return is
described once, in lemmas (`PlanForTyped`, `PlanForHarmless`, `PlanShape`), and
the steps are argued from those descriptions.

- `ForcedRemovalAlwaysWorks`, `FailuresAreUndone`, `NoSecondCopy`: from the types,
  `AtWork` and, for the last, `ReceiptAsPlanned` (from the comparison on the
  receipt is the one the plan was made from). `FailuresAreUndone` excepts a
  just-created instruction file and does not speak of `unsynced`, `undo_failed`
  and `kept_backup`, after which the file is not as it was; `NoSecondCopy` excepts
  exact restores and updates from another profile's entry.
- `TextSurvives`: a removal may put a backup back, so the backup must hold the
  user's text. That needs history: texts are typed once (`Bounded`), what is saved
  after a look is newer than what was seen (`Newer`), an install that has written
  its backup saved what it saw (`Saved`), and when the backup holds another text
  than the one the receipt speaks of, the receipt's text does not come back into
  the file (`OldText`), so that a restore that compares with the receipt is never
  chosen over newer text. `NothingUnseen` says that without an edit in the window
  the file is what the command saw or wrote. The statement excepts that window
  (`since.unseen`: from the comparison to the replacement, and for `settings.json`
  also the undo, which `hooks.rs:340` makes without looking) and a created file
  that was installed into again.
- `RemovalUndoesInstall`: `Traced` follows, from the first install on, what the
  receipt records of the file before it, what the backup holds and what the
  file looks like (one block at its place, or the user's change to it), also for
  what a failing command may put back; `Still` and `TextOnly` say that what is
  saved beside a command at work is text and nothing else. A removal of such a
  file returns to the text before the block (`MarkedRestores`, `SkillRestores`,
  `SettingsRestore`).

### Account

- `RotationIsExclusive`: only the holder of the rotation lock is between loading
  a refresh token and settling what becomes of it. Not inductive alone: whether
  a request belongs to a rotation depends on which command sends it, so the
  invariant also says which command can be at which step (`Disciplined`), and,
  for the types of what the service answers, that a refresh on its way carries a
  token that can still be rotated (`RefreshesInFlight`). The lock is taken only
  when free, and then nobody is rotating; when it is dropped, none of the
  requests that follow is a refresh.
- `RemoteRevocationIsReal`, `NoDeviceIsForgotten`: whatever is lost, late or
  dies. `Mail` says that a process has at most the one request it waits for on
  its way, `Knows` that it holds the credentials its step needs, `Truthful` and
  `Revoked` that what it was answered, or is about to be, is true of the service; a revoked family never
  comes back.
- `UnsavedSessionsAreRevoked`, when answers arrive: `best_effort_revoke` gives up
  after a timeout.
- `DeadCredentialsStayOut`, when the store deletes what it is told to. `Issued`
  and `Fresh` say that what a login or a rotation is about to save is new and
  is nobody else's; `Dropped` that what a refresh found dead is neither stored nor
  on its way into the store; `Behind` that once a process has replaced the
  credential it held, whatever is stored or rotated of that family is of a later
  generation, and, after a logout's deletion, later than the logout's own. That
  one rotation can follow is the code's: the deletion takes no lock.
- `TokensAreUsedOnce`, when no answer is lost or garbled, no process dies and no
  deletion fails. The invariant says of the stored credential that it is the
  newest generation of its family (`Backed`) and of the rotating process that
  nobody has used the token it loaded (`UpToDate`). TLC refutes the property as
  soon as lost answers, garbled answers or crashes are allowed, and with failing
  deletions when saves fail too; failing loads and saves and revocations from
  elsewhere do no harm.
- `RequestsStayInside`, `LoginOverInTime`, `PollsKeepTheirDistance`: one
  inductive invariant for the three. `Flows` says which flow can be at which
  step, `Timers` bounds the timer of each step by the deadline (a request's is
  no later; a sleep's began before it and is at most one interval later; the
  reads of a callback are counted against their limit), and `Spacing` says that
  the client's interval is what the service last asked for, or the cap, and that
  a sleep ends no sooner than that after the last poll. A timer's bound and the
  clock's together give the end in time, since the clock stops at an expired
  timer.

### Session-start hook

- `NoRunLeavesItsChild`, `AnswersAreWhole`, `HookReportsInTime`: one invariant.
  `Accounted` balances what a child wrote to a stream against what is in the
  pipe and what was read, `Collected` says that an answer needs both streams,
  `Timers` keeps every timer inside the budget and one reaping, and `Fresh` that
  threads start anew with each run.
- `EmptyIsOnlySaidWhenAnswered`: the verdict follows from an answered search of
  both scopes; no failed, refused or unreadable search leads to it. Whether an
  answer without entries means a vault without memories is the engine's matter.

### Init and teardown

- `VaultsAreNotForked` (`VaultsApart`): from the second look at a root to the call
  of the engine the root stays free, or another init of the same profile has
  taken it and the engine refuses the name (`RootStaysFree`). Profiles have their
  own roots and registry records stay: with a shared `--root` nothing closes the
  gap.
- `RemovedMeansRemoved`: `Tracks` relates the steps still to do, the failed ones
  and the slots that hold something. Nothing runs beside a teardown, for which
  the manager takes no lock.
- `SharedEntryOutlives` (`WiredAlike`): every project that relies on the shared
  entry is registered, or its init is still at work, and a removal has counted
  all of them. Every command names the same hosts, or the project is forgotten
  (`init_forgets_dependant`); teardowns and single-step commands run alone, so the
  race of a teardown with an init is not covered. The statement says that of all
  commands only a disconnect takes the entry from a project that relies on it:
  it removes the entry and looks at no other project.

### Assumptions

The assumptions on constants (`ConfigAssumption`, `HostPlanAssumption`,
`HostApplyAssumption`, `ProjectFileAssumption`, `FileApplyAssumption`,
`NothingAssumption`, `AccountAssumption`, `FaultsAssumption`, `LoginAssumption`,
`SessionHookAssumption` and those of the modules under them) say that the model values that mark absence are not among
the real values, that bounds and timeouts are numbers, that the hook's budget
fits the harness's timeout and that the bound on the clock is beyond what any
login needs; TLC evaluates them in every run.

### Only model-checked

The liveness properties: the prover does not reason about fairness or
`ENABLED`. Every safety property of a passing run has its theorem. The cases a
theorem excludes by a hypothesis are explored by TLC where a run has them.

## Plan

Done: the configuration store, host connection, instruction and hook files, the
abstract owned entry and its refinement, init and teardown over the vault, the
bounded run and the session-start hook, account sessions and interactive login.
Left, in this order:

1. `RefreshLock`: the file lock and the in-process lock of
   `src/account/store.rs` shown to implement one abstract lock.
2. `McpSession`: the Python and TypeScript sessions, one request at a time.
3. Pure algorithms checked against a reference: `JsonSpan` (recursive, TLC
   only), OpenCode shape selection, OIDC claims, the doctor's aggregation.

## Not modelled

Signatures, encodings and other cryptography; browser launch and sockets below
`accept` and `read`; path validation against symbolic links; wording of
previews and reports; option parsing and dry runs, which write nothing; the
fake service and the tests, which are read as statements of intent; the
conformance and release scripts, which are tooling. The clients, OIDC claims,
the doctor and the span editor's scanner are planned.

--------------------------- MODULE AccountSession ---------------------------
(***************************************************************************)
(* The account client (src/account/client.rs): command line invocations    *)
(* that share one credential in the operating system's store and one lock  *)
(* file, and talk to an account service that rotates refresh tokens.       *)
(*                                                                         *)
(* A credential is a token family and the generation of its refresh token. *)
(* Using a token consumes it and yields the next generation; the service   *)
(* revokes a family when a consumed token comes back.  Every command that  *)
(* needs the service goes through refresh_access, the only part that runs  *)
(* under the lock.  A family stands for the device it was issued to.       *)
(***************************************************************************)
EXTENDS Naturals, FiniteSets

CONSTANTS
    Procs,          \* slots for concurrent invocations
    Families,       \* token families the service can issue
    NoCredential,   \* the store is empty
    NoProc,         \* nobody: the lock is free; the sender has given up
    Commands,       \* the commands users run, a subset of AllCommands
    Faults,         \* what can go wrong, a subset of AllFaults
    MaxGeneration,  \* bound on the rotations of a family
    MaxLate         \* bound on requests that arrive after their deadline

AllCommands == {"login", "status", "use", "logout", "logout_all", "local_only", "revoke_device"}

\* "late" is a request that outlives the deadline of the client that sent it,
\* "garbled" a session the client will not accept.
AllFaults == {"timeout", "late", "garbled", "load_fails", "save_fails", "delete_fails", "crash",
              "web_revoke"}

ASSUME AccountAssumption ==
    /\ NoProc \notin Procs
    /\ NoCredential \notin [family : Families, generation : Nat]
    /\ Commands \subseteq AllCommands /\ Faults \subseteq AllFaults
    /\ MaxGeneration \in Nat \ {0} /\ MaxLate \in Nat

VARIABLES
    store,      \* the credential store: NoCredential or a credential
    lock,       \* account-refresh.lock: NoProc or its holder
    service,    \* what the account service knows of each family
    network,    \* requests on their way to the service
    proc        \* what each invocation is doing

vars == <<store, lock, service, network, proc>>

Credential == [family : Families, generation : 0..MaxGeneration]
Stored == Credential \cup {NoCredential}

Dead(f) == service[f].state \in {"revoked", "reused"}

NoReply == [status |-> "none", credential |-> NoCredential, devices |-> {}]
Reply(status) == [NoReply EXCEPT !.status = status]
Session(f, g) ==
    [NoReply EXCEPT !.status = "session", !.credential = [family |-> f, generation |-> g]]

Idle == [pc |-> "done", command |-> "none", asking |-> "none", held |-> NoCredential,
         session |-> NoCredential, todo |-> {}, listed |-> {}, reply |-> NoReply,
         result |-> "none"]

Init ==
    /\ store = NoCredential
    /\ lock = NoProc
    /\ service = [f \in Families |-> [state |-> "unused", generation |-> 0]]
    /\ network = {}
    /\ proc = [p \in Procs |-> Idle]

-----------------------------------------------------------------------------

\* The ways to single out a member of S: as a set, empty when S is.
OneOf(S) == IF S = {} THEN {{}} ELSE {{x} : x \in S}

Goto(p, pc) == proc' = [proc EXCEPT ![p].pc = pc]
Ask(p, kind) ==
    proc' = [proc EXCEPT ![p].pc = "send", ![p].asking = kind, ![p].reply = NoReply]
Save(p, session) ==
    proc' = [proc EXCEPT ![p].pc = "save", ![p].session = session, ![p].reply = NoReply]

\* What is remembered of a command that has returned: its result, and the
\* credentials that result is about.
End(p, result) ==
    proc' = [proc EXCEPT ![p] =
      [Idle EXCEPT !.command = proc[p].command, !.result = result,
                   !.held = IF result \in {"dead", "remote_revoked"} THEN proc[p].held ELSE @,
                   !.listed = IF result = "remote_revoked" THEN proc[p].listed ELSE @,
                   !.session = IF result = "store_failure" THEN proc[p].session ELSE @]]

Release(p, result) ==
    proc' = [proc EXCEPT ![p].pc = "release", ![p].result = result, ![p].reply = NoReply]

\* The invocation of a command; revoke_device names the device.
Begin(p) ==
    /\ proc[p].pc = "done"
    /\ \E c \in Commands : \E device \in OneOf(IF c = "revoke_device" THEN Families ELSE {}) :
         proc' = [proc EXCEPT ![p] =
           [Idle EXCEPT !.command = c,
                        !.todo = device,
                        !.pc = CASE c = "login" -> "ensure_signed_out"
                                 [] c \in {"use", "revoke_device"} -> "acquire"
                                 [] OTHER -> "load"]]
    /\ UNCHANGED <<store, lock, service, network>>

\* login_pkce and login_device start here; nothing is locked.
ensure_signed_out(p) ==
    /\ proc[p].pc = "ensure_signed_out"
    /\ \/ store = NoCredential /\ Ask(p, "exchange")
       \/ store # NoCredential /\ End(p, "already_signed_in")
       \/ "load_fails" \in Faults /\ End(p, "error")
    /\ UNCHANGED <<store, lock, service, network>>

\* status and logout look at the store first, outside the lock.
LoadFirst(p) ==
    /\ proc[p].pc = "load"
    /\ \/ store = NoCredential /\ End(p, "signed_out")
       \/ /\ store # NoCredential
          /\ Goto(p, IF proc[p].command = "local_only" THEN "delete" ELSE "acquire")
       \/ "load_fails" \in Faults /\ End(p, "error")
    /\ UNCHANGED <<store, lock, service, network>>

-----------------------------------------------------------------------------
(* refresh_access.                                                         *)

\* As Acquire, without the timeout.
MutAcquireWaits(p) ==
    /\ proc[p].pc = "acquire" /\ lock = NoProc
    /\ lock' = p /\ Goto(p, "load_stored")
    /\ UNCHANGED <<store, service, network>>

\* As Acquire, with a lock that does not exclude.
MutAcquire(p) ==
    /\ proc[p].pc = "acquire"
    /\ lock' = p /\ Goto(p, "load_stored")
    /\ UNCHANGED <<store, service, network>>

\* RefreshLock::acquire polls until its timeout.
Acquire(p) ==
    /\ proc[p].pc = "acquire"
    /\ \/ lock = NoProc /\ lock' = p /\ Goto(p, "load_stored")
       \/ lock # NoProc /\ End(p, "lock_unavailable") /\ UNCHANGED lock
    /\ UNCHANGED <<store, service, network>>

\* As LoadStored, without the test for an empty store.
MutLoadStored(p) ==
    /\ proc[p].pc = "load_stored"
    /\ proc' = [proc EXCEPT ![p].pc = "send", ![p].asking = "refresh", ![p].held = store]
    /\ UNCHANGED <<store, lock, service, network>>

LoadStored(p) ==
    /\ proc[p].pc = "load_stored"
    /\ \/ /\ store # NoCredential
          /\ proc' = [proc EXCEPT ![p].pc = "send", ![p].asking = "refresh", ![p].held = store]
       \/ store = NoCredential /\ Release(p, "error")
       \/ "load_fails" \in Faults /\ Release(p, "error")
    /\ UNCHANGED <<store, lock, service, network>>

validate_session(reply, previous) ==
    IF previous = NoCredential
      THEN reply.credential.generation = 0
      ELSE /\ reply.credential.family = previous.family
           /\ reply.credential.generation = previous.generation + 1

ReceiveRefresh(p) ==
    /\ proc[p].pc = "await" /\ proc[p].asking = "refresh"
    /\ LET reply == proc[p].reply
       IN  \/ /\ reply.status = "session"
              /\ IF validate_session(reply, proc[p].held)
                   THEN Save(p, reply.credential)
                   ELSE Release(p, "error")
           \/ /\ reply.status \in {"token_reuse", "session_revoked"}
              /\ proc' = [proc EXCEPT ![p].pc = "delete_dead", ![p].result = "dead"]
           \/ reply.status = "offline" /\ Release(p, "offline")
    /\ UNCHANGED <<store, lock, service, network>>

\* As DeleteDead, keeping the credential of a session the service refused.
MutDeleteDead(p) ==
    /\ proc[p].pc = "delete_dead"
    /\ store' = IF proc[p].result = "dead" THEN store ELSE NoCredential
    /\ Goto(p, "release")
    /\ UNCHANGED <<lock, service, network>>

\* The result of this deletion is ignored.
DeleteDead(p) ==
    /\ proc[p].pc = "delete_dead"
    /\ \/ store' = NoCredential
       \/ "delete_fails" \in Faults /\ UNCHANGED store
    /\ Goto(p, "release")
    /\ UNCHANGED <<lock, service, network>>

\* The guard is dropped and the calling command goes on.  A logout whose
\* session turns out dead deletes the credential (again), without the lock.
ReleaseLock(p) ==
    /\ proc[p].pc = "release"
    /\ lock' = NoProc
    /\ LET command == proc[p].command
           result == proc[p].result
       IN  CASE result = "active" ->
                  Ask(p, CASE command \in {"status", "use"} -> "call"
                           [] command = "logout" -> "revoke"
                           [] command = "logout_all" -> "list_devices"
                           [] command = "revoke_device" -> "revoke_device")
             [] result = "dead" /\ command = "logout" ->
                  proc' = [proc EXCEPT ![p].pc = "delete", ![p].result = "remote_revoked"]
             [] result = "offline" /\ command \in {"logout", "logout_all"} -> End(p, "unconfirmed")
             [] OTHER -> End(p, result)
    /\ UNCHANGED <<store, service, network>>

-----------------------------------------------------------------------------
(* The store, and what a command does with the session it obtained.        *)

Undone(p) == proc' = [proc EXCEPT ![p].pc = "delete_dead", ![p].result = "store_failure"]

\* As SaveSession, without the revocation when the store refuses.
MutSaveSession(p) ==
    /\ proc[p].pc = "save"
    /\ LET login == proc[p].command = "login"
       IN  \/ /\ store' = proc[p].session
              /\ IF login THEN End(p, "signed_in") ELSE Release(p, "active")
           \/ /\ "save_fails" \in Faults
              /\ IF login THEN End(p, "store_failure") ELSE Undone(p)
              /\ UNCHANGED store
    /\ UNCHANGED <<lock, service, network>>

\* publish_login and the end of refresh_access: a session that cannot be
\* stored is revoked.
SaveSession(p) ==
    /\ proc[p].pc = "save"
    /\ LET login == proc[p].command = "login"
       IN  \/ /\ store' = proc[p].session
              /\ IF login THEN End(p, "signed_in") ELSE Release(p, "active")
           \/ "save_fails" \in Faults /\ Ask(p, "undo") /\ UNCHANGED store
    /\ UNCHANGED <<lock, service, network>>

\* best_effort_revoke: whatever the answer.
ReceiveUndo(p) ==
    /\ proc[p].pc = "await" /\ proc[p].asking = "undo" /\ proc[p].reply # NoReply
    /\ IF proc[p].command = "login" THEN End(p, "store_failure") ELSE Undone(p)
    /\ UNCHANGED <<store, lock, service, network>>

ReceiveExchange(p) ==
    /\ proc[p].pc = "await" /\ proc[p].asking = "exchange" /\ proc[p].reply # NoReply
    /\ LET reply == proc[p].reply
       IN  IF reply.status = "session" /\ validate_session(reply, NoCredential)
             THEN Save(p, reply.credential)
             ELSE End(p, "error")
    /\ UNCHANGED <<store, lock, service, network>>

\* get_account, link, unlink, external_identities and devices change nothing.
ReceiveCall(p) ==
    /\ proc[p].pc = "await" /\ proc[p].asking = "call" /\ proc[p].reply # NoReply
    /\ End(p, IF proc[p].reply.status = "ok" THEN "online" ELSE proc[p].reply.status)
    /\ UNCHANGED <<store, lock, service, network>>

ReceiveDevices(p) ==
    /\ proc[p].pc = "await" /\ proc[p].asking = "list_devices" /\ proc[p].reply # NoReply
    /\ LET devices == proc[p].reply.devices
       IN  IF proc[p].reply.status = "devices"
             THEN proc' = [proc EXCEPT ![p].pc = "send", ![p].todo = devices, ![p].listed = devices,
                                       ![p].asking = IF devices = {} THEN "revoke" ELSE "revoke_device"]
             ELSE End(p, "error")
    /\ UNCHANGED <<store, lock, service, network>>

\* As ReceiveDeviceRevoked, going on to the session when a device fails.
MutReceiveDeviceRevoked(p) ==
    /\ proc[p].pc = "await" /\ proc[p].asking = "revoke_device" /\ proc[p].reply # NoReply
    /\ LET rest == IF proc[p].reply.status = "ok" THEN proc[p].todo \ proc[p].reply.devices ELSE {}
       IN  IF proc[p].command = "logout_all"
             THEN proc' = [proc EXCEPT ![p].pc = "send", ![p].todo = rest,
                                       ![p].asking = IF rest = {} THEN "revoke" ELSE "revoke_device"]
             ELSE End(p, "error")
    /\ UNCHANGED <<store, lock, service, network>>

\* One device at a time; the first failure ends the command.  revoke_device
\* forgets the credential when the device was this one.
ReceiveDeviceRevoked(p) ==
    /\ proc[p].pc = "await" /\ proc[p].asking = "revoke_device" /\ proc[p].reply # NoReply
    /\ LET rest == proc[p].todo \ proc[p].reply.devices
       IN  CASE proc[p].reply.status # "ok" -> End(p, "error")
             [] proc[p].reply.status = "ok" /\ proc[p].command = "logout_all" ->
                  proc' = [proc EXCEPT ![p].pc = "send", ![p].todo = rest,
                                       ![p].asking = IF rest = {} THEN "revoke" ELSE "revoke_device"]
             [] proc[p].reply.status = "ok" /\ proc[p].command = "revoke_device" ->
                  IF proc[p].session.family \in proc[p].reply.devices
                    THEN proc' = [proc EXCEPT ![p].pc = "delete", ![p].result = "device_revoked"]
                    ELSE End(p, "device_revoked")
    /\ UNCHANGED <<store, lock, service, network>>

\* As ReceiveRevoked, not looking at the answer.
MutReceiveRevoked(p) ==
    /\ proc[p].pc = "await" /\ proc[p].asking = "revoke" /\ proc[p].reply # NoReply
    /\ proc' = [proc EXCEPT ![p].pc = "delete", ![p].result = "remote_revoked"]
    /\ UNCHANGED <<store, lock, service, network>>

ReceiveRevoked(p) ==
    /\ proc[p].pc = "await" /\ proc[p].asking = "revoke" /\ proc[p].reply # NoReply
    /\ IF proc[p].reply.status = "ok"
         THEN proc' = [proc EXCEPT ![p].pc = "delete", ![p].result = "remote_revoked"]
         ELSE End(p, "error")
    /\ UNCHANGED <<store, lock, service, network>>

\* The deletion at the end of logout and revoke_device, without the lock.
DeleteCredential(p) ==
    /\ proc[p].pc = "delete"
    /\ \/ /\ store' = NoCredential
          /\ End(p, IF proc[p].command = "local_only" THEN "local_only" ELSE proc[p].result)
       \/ "delete_fails" \in Faults /\ End(p, "error") /\ UNCHANGED store
    /\ UNCHANGED <<lock, service, network>>

-----------------------------------------------------------------------------
(* The transport, and the account service as the client sees it.           *)

\* The token a request carries: the stored one, or the access token of the
\* session just obtained, of which only the family matters.
Token(p) ==
    CASE proc[p].asking = "refresh"  -> proc[p].held
      [] proc[p].asking = "exchange" -> NoCredential
      [] OTHER -> proc[p].session

Request(p, device) ==
    [from |-> p, kind |-> proc[p].asking, token |-> Token(p), device |-> device]

Send(p) ==
    /\ proc[p].pc = "send"
    /\ proc[p].asking = "refresh" => proc[p].held.generation < MaxGeneration
    /\ \E device \in OneOf(IF proc[p].asking = "revoke_device" THEN proc[p].todo ELSE {}) :
         network' = network \cup {Request(p, device)}
    /\ proc' = [proc EXCEPT ![p].pc = "await", ![p].reply = NoReply]
    /\ UNCHANGED <<store, lock, service>>

\* The discovery of the provider precedes these two requests and can fail; so
\* does every refresh beyond the bound of the model.
DiscoveryFails(p) ==
    /\ proc[p].pc = "send" /\ proc[p].asking \in {"exchange", "refresh"}
    /\ \/ "timeout" \in Faults
       \/ proc[p].asking = "refresh" /\ proc[p].held.generation = MaxGeneration
    /\ IF proc[p].asking = "refresh" THEN Release(p, "offline") ELSE End(p, "error")
    /\ UNCHANGED <<store, lock, service, network>>

Mine(p) == {m \in network : m.from = p}
Orphans == {m \in network : m.from = NoProc}

\* Nobody waits for p's request any more: it is lost, or merely late.
Abandon(p) ==
    \/ network' = network \ Mine(p)
    \/ /\ "late" \in Faults /\ Mine(p) # {} /\ Cardinality(Orphans) < MaxLate
       /\ network' = (network \ Mine(p)) \cup {[m EXCEPT !.from = NoProc] : m \in Mine(p)}

\* The deadline of a request passes, or the connection breaks, before or after
\* the service has handled it; it may also be handled later.
Timeout(p) ==
    /\ "timeout" \in Faults
    /\ proc[p].pc = "await" /\ proc[p].reply.status # "offline"
    /\ proc' = [proc EXCEPT ![p].reply = Reply("offline")]
    /\ Abandon(p)
    /\ UNCHANGED <<store, lock, service>>

\* The service, modelled from the replies the client distinguishes: what it
\* answers to m and what it then knows of the families.
Answers(m) ==
    LET f == m.token.family
        revoked(S) == [d \in Families |-> IF d \in S THEN [service[d] EXCEPT !.state = "revoked"]
                                          ELSE service[d]]
        slips == IF "garbled" \in Faults THEN 0..1 ELSE {0}
    IN  CASE m.kind = "exchange" ->
               {[reply |-> Session(n, slip), after |-> [service EXCEPT ![n].state = "live"]] :
                  n \in {n \in Families : service[n].state = "unused"}, slip \in slips}
                 \cup {[reply |-> Reply("access_denied"), after |-> service]}
          [] m.kind = "refresh" ->
               {IF m.token.generation < service[f].generation
                  THEN [reply |-> Reply("token_reuse"), after |-> [service EXCEPT ![f].state = "reused"]]
                  ELSE IF Dead(f)
                    THEN [reply |-> Reply("session_revoked"), after |-> service]
                    ELSE [reply |-> Session(f, m.token.generation + 1 - slip),
                          after |-> [service EXCEPT ![f].generation = m.token.generation + 1]] :
                slip \in slips}
          [] OTHER ->
               (IF Dead(f) THEN {[reply |-> Reply("session_revoked"), after |-> service]} ELSE {})
                 \cup
               CASE m.kind = "call" -> {[reply |-> Reply("ok"), after |-> service]}
                 [] m.kind = "list_devices" ->
                      {[reply |-> [Reply("devices") EXCEPT
                                     !.devices = {d \in Families : service[d].state # "unused"}],
                        after |-> service]}
                 [] m.kind = "revoke_device" ->
                      {IF \E d \in m.device : service[d].state = "unused"
                         THEN [reply |-> Reply("not_found"), after |-> service]
                         ELSE [reply |-> [Reply("ok") EXCEPT !.devices = m.device],
                               after |-> revoked(m.device)]}
                 [] m.kind \in {"revoke", "undo"} ->
                      {[reply |-> Reply("ok"), after |-> revoked({f})]}

Service(m) ==
    /\ \E a \in Answers(m) :
         /\ service' = a.after
         /\ proc' = IF m.from = NoProc THEN proc ELSE [proc EXCEPT ![m.from].reply = a.reply]
    /\ network' = network \ {m}
    /\ UNCHANGED <<store, lock>>

\* The user revokes a device from the account web page.
WebRevoke(f) ==
    /\ "web_revoke" \in Faults /\ service[f].state = "live"
    /\ service' = [service EXCEPT ![f].state = "revoked"]
    /\ UNCHANGED <<store, lock, network, proc>>

\* The operating system drops the lock of a process that dies.
Crash(p) ==
    /\ "crash" \in Faults /\ proc[p].pc # "done"
    /\ lock' = IF lock = p THEN NoProc ELSE lock
    /\ proc' = [proc EXCEPT ![p] = Idle]
    /\ Abandon(p)
    /\ UNCHANGED <<store, service>>

\* Everything a running command does.
Run(p) ==
    \/ ensure_signed_out(p) \/ LoadFirst(p)
    \/ Acquire(p) \/ LoadStored(p) \/ ReceiveRefresh(p) \/ DeleteDead(p) \/ ReleaseLock(p)
    \/ SaveSession(p) \/ ReceiveUndo(p) \/ ReceiveExchange(p) \/ ReceiveCall(p)
    \/ ReceiveDevices(p) \/ ReceiveDeviceRevoked(p) \/ ReceiveRevoked(p)
    \/ DeleteCredential(p) \/ Send(p) \/ DiscoveryFails(p)

Next ==
    \/ \E p \in Procs : Begin(p) \/ Run(p) \/ Timeout(p) \/ Crash(p)
    \/ \E m \in network : Service(m)
    \/ \E f \in Families : WebRevoke(f)

Spec == Init /\ [][Next]_vars

\* A running process keeps running, and every request has a deadline.
FairSpec == Spec /\ \A p \in Procs : WF_vars(Run(p) \/ Timeout(p))

-----------------------------------------------------------------------------

PCs == {"done", "ensure_signed_out", "load", "acquire", "load_stored", "send", "await",
        "save", "delete_dead", "release", "delete"}
Kinds == {"exchange", "refresh", "undo", "call", "list_devices", "revoke_device", "revoke"}
Statuses == {"none", "session", "ok", "devices", "token_reuse", "session_revoked",
             "access_denied", "not_found", "offline"}

Replies == [status : Statuses, credential : Stored, devices : SUBSET Families]
Results == {"none", "error", "signed_out", "already_signed_in", "signed_in", "lock_unavailable",
            "active", "dead", "offline", "unconfirmed", "store_failure", "online",
            "device_revoked", "remote_revoked", "local_only"} \cup Statuses

ProcType ==
    [pc : PCs, command : AllCommands \cup {"none"}, asking : Kinds \cup {"none"},
     held : Stored, session : Stored,
     todo : SUBSET Families, listed : SUBSET Families, reply : Replies, result : Results]

\* Every value is one its reader understands, and a refresh request carries a
\* stored token: an empty store never gets that far.
TypeOK ==
    /\ store \in Stored
    /\ lock \in Procs \cup {NoProc}
    /\ service \in [Families -> [state : {"unused", "live", "revoked", "reused"},
                                 generation : 0..MaxGeneration]]
    /\ network \subseteq [from : Procs \cup {NoProc}, kind : Kinds, token : Stored,
                          device : SUBSET Families]
    /\ proc \in [Procs -> ProcType]
    /\ \A p \in Procs :
         proc[p].pc = "send" /\ proc[p].asking = "refresh" => proc[p].held # NoCredential

InRotation(p) ==
    \/ proc[p].pc \in {"load_stored", "delete_dead", "release"}
    \/ /\ proc[p].pc \in {"send", "await", "save"} /\ proc[p].command # "login"
       /\ proc[p].asking \in {"refresh", "undo"}

\* Refresh rotation is exclusive: only the invocation that holds the lock is
\* between loading a refresh token and settling what becomes of it.
OneRotation == \A p \in Procs : InRotation(p) => lock = p

\* As long as answers arrive and nobody dies, no interleaving of invocations
\* makes the client present a refresh token twice, which would cost the user
\* the whole token family.
NeverReusesToken == \A f \in Families : service[f].state # "reused"

\* A logout that reports remote_revoked is right about the session it used.
RemoteRevokedIsTrue ==
    \A p \in Procs :
      proc[p].pc = "done" /\ proc[p].result = "remote_revoked" => Dead(proc[p].held.family)

\* all_devices_revoked means every device the service listed, whatever failed
\* on the way and whoever else was signing in or out.
AllDevicesRevoked ==
    \A p \in Procs :
      proc[p].pc = "done" /\ proc[p].command = "logout_all" /\ proc[p].result = "remote_revoked"
        => \A d \in proc[p].listed : Dead(d)

\* A session the store refused is not left alive at the service, as long as the
\* service can be reached.
FailedSaveRevokes ==
    \A p \in Procs :
      proc[p].pc = "done" /\ proc[p].result = "store_failure" => Dead(proc[p].session.family)

\* After a refresh was answered that its session is dead (result "dead"), no
\* credential of that family is stored again, whoever else was rotating it or
\* signing in.  After a logout that reports remote_revoked, what it used and
\* what it stored never come back either; all that can still be stored of that
\* family is a later rotation, by another invocation whose refresh was answered
\* before the revocation and saved after the logout's unlocked deletion.  This
\* says nothing of the result "session_revoked" (a call refused after its
\* refresh, client.rs:219) nor of "local_only", which revokes nothing.
DeadCredentialDropped ==
    \A p \in Procs :
      /\ proc[p].pc = "done" /\ proc[p].result \in {"dead", "remote_revoked"}
      /\ store # NoCredential /\ store.family = proc[p].held.family
      => /\ proc[p].result = "remote_revoked"
         /\ store.generation > proc[p].held.generation + 1

\* No command hangs, even when the service never answers and another
\* invocation sits on the lock.
CommandsEnd == \A p \in Procs : proc[p].pc # "done" ~> proc[p].pc = "done"

=============================================================================

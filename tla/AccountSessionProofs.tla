------------------------ MODULE AccountSessionProofs ------------------------
(***************************************************************************)
(* What AccountSession guarantees for every set of invocations and token   *)
(* families, every choice of commands and faults, and every bound.         *)
(***************************************************************************)
EXTENDS AccountSession, TLAPS

\* The commands that go through refresh_access.
Refreshers == {"status", "use", "logout", "logout_all", "revoke_device"}

\* Which command can be where: a login rotates nothing, everybody else saves
\* only what a refresh returned, and refresh_access serves the Refreshers.
Disciplined(p) ==
    /\ proc[p].pc \in {"acquire", "load_stored", "delete_dead", "release"}
         => proc[p].command \in Refreshers
    /\ proc[p].pc \in {"send", "await", "save"} =>
         /\ proc[p].asking \in Kinds
         /\ proc[p].asking = "refresh" => proc[p].command \in Refreshers
         /\ proc[p].asking = "exchange" => proc[p].command = "login"
         /\ proc[p].asking = "undo" => proc[p].command \in Refreshers \cup {"login"}
         /\ proc[p].asking = "list_devices" => proc[p].command = "logout_all"
         /\ proc[p].asking = "revoke_device" => proc[p].command \in {"logout_all", "revoke_device"}
    /\ proc[p].pc = "save" => proc[p].asking \in {"refresh", "exchange"}
    /\ proc[p].pc = "ensure_signed_out" => proc[p].command = "login"
    /\ proc[p].pc = "load" => proc[p].command \in Refreshers \cup {"local_only"}

\* A refresh request on its way carries a token that can still be rotated.
RefreshesInFlight ==
    \A m \in network :
      m.kind = "refresh" => m.token \in Credential /\ m.token.generation < MaxGeneration

\* The inductive invariant.
IInv ==
    /\ TypeOK
    /\ RefreshesInFlight
    /\ \A p \in Procs : Disciplined(p)
    /\ OneRotation

\* A step of p changes nothing of what the others are doing.
Moves(p) ==
    /\ proc' \in [Procs -> ProcType]
    /\ \A q \in Procs \ {p} : proc'[q] = proc[q]

-----------------------------------------------------------------------------
(* The building blocks of the actions.                                     *)

LEMMA ReplyTypes ==
    /\ NoReply \in Replies
    /\ \A s \in Statuses : Reply(s) \in Replies /\ Reply(s).status = s
    /\ \A f \in Families, g \in 0..MaxGeneration : Session(f, g) \in Replies
<1>1. NoReply \in Replies
  BY DEF NoReply, Replies, Statuses, Stored
<1>2. ASSUME NEW s \in Statuses PROVE Reply(s) \in Replies /\ Reply(s).status = s
  BY <1>1 DEF Reply, Replies
<1>3. ASSUME NEW f \in Families, NEW g \in 0..MaxGeneration PROVE Session(f, g) \in Replies
  <2>1. [family |-> f, generation |-> g] \in Stored
    BY DEF Stored, Credential
  <2>2. "session" \in Statuses
    BY DEF Statuses
  <2> QED BY <1>1, <2>1, <2>2 DEF Session, Replies
<1> QED BY <1>1, <1>2, <1>3

LEMMA IdleType == Idle \in ProcType /\ Idle.pc = "done"
BY ReplyTypes DEF Idle, ProcType, PCs, Stored, Results, Statuses

LEMMA GotoMoves ==
    ASSUME TypeOK, NEW p \in Procs, NEW pc \in PCs, Goto(p, pc)
    PROVE  Moves(p) /\ proc'[p].pc = pc /\ proc'[p].command = proc[p].command
BY DEF Goto, TypeOK, Moves, ProcType

LEMMA AskMoves ==
    ASSUME TypeOK, NEW p \in Procs, NEW kind \in Kinds, Ask(p, kind)
    PROVE  /\ Moves(p)
           /\ proc'[p].pc = "send" /\ proc'[p].asking = kind
           /\ proc'[p].command = proc[p].command /\ proc'[p].held = proc[p].held
<1> DEFINE moved == [proc[p] EXCEPT !.pc = "send", !.asking = kind, !.reply = NoReply]
<1>1. proc' = [proc EXCEPT ![p] = moved]
  BY DEF Ask, TypeOK
<1>2. proc[p] \in ProcType
  BY DEF TypeOK
<1>3. moved \in ProcType
  BY <1>2, ReplyTypes DEF ProcType, PCs
<1> QED BY <1>1, <1>2, <1>3 DEF Moves, TypeOK, ProcType

LEMMA SaveMoves ==
    ASSUME TypeOK, NEW p \in Procs, NEW session \in Stored, Save(p, session)
    PROVE  /\ Moves(p)
           /\ proc'[p].pc = "save" /\ proc'[p].asking = proc[p].asking
           /\ proc'[p].command = proc[p].command
<1> DEFINE moved == [proc[p] EXCEPT !.pc = "save", !.session = session, !.reply = NoReply]
<1>1. proc' = [proc EXCEPT ![p] = moved]
  BY DEF Save, TypeOK
<1>2. proc[p] \in ProcType
  BY DEF TypeOK
<1>3. moved \in ProcType
  BY <1>2, ReplyTypes DEF ProcType, PCs
<1> QED BY <1>1, <1>2, <1>3 DEF Moves, TypeOK, ProcType

LEMMA ReleaseMoves ==
    ASSUME TypeOK, NEW p \in Procs, NEW result \in Results, Release(p, result)
    PROVE  /\ Moves(p)
           /\ proc'[p].pc = "release" /\ proc'[p].command = proc[p].command
<1> DEFINE moved == [proc[p] EXCEPT !.pc = "release", !.result = result, !.reply = NoReply]
<1>1. proc' = [proc EXCEPT ![p] = moved]
  BY DEF Release, TypeOK
<1>2. proc[p] \in ProcType
  BY DEF TypeOK
<1>3. moved \in ProcType
  BY <1>2, ReplyTypes DEF ProcType, PCs
<1> QED BY <1>1, <1>2, <1>3 DEF Moves, TypeOK, ProcType

LEMMA EndMoves ==
    ASSUME TypeOK, NEW p \in Procs, NEW result \in Results, End(p, result)
    PROVE  Moves(p) /\ proc'[p].pc = "done"
<1> DEFINE held == IF result \in {"dead", "remote_revoked"} THEN proc[p].held ELSE Idle.held
           listed == IF result = "remote_revoked" THEN proc[p].listed ELSE Idle.listed
           session == IF result = "store_failure" THEN proc[p].session ELSE Idle.session
           ended == [Idle EXCEPT !.command = proc[p].command, !.result = result,
                                 !.held = held, !.listed = listed,
                                 !.session = session]
<1>1. proc[p] \in ProcType
  BY DEF TypeOK
<1>2. /\ held \in Stored /\ session \in Stored
      /\ listed \in SUBSET Families
      /\ proc[p].command \in AllCommands \cup {"none"}
  BY <1>1, IdleType DEF ProcType
<1>3. proc' = [proc EXCEPT ![p] = ended]
  BY DEF End, Idle
<1> HIDE DEF held, listed, session
<1>4. ended \in ProcType /\ ended.pc = "done"
  BY <1>2, IdleType DEF ProcType
<1> HIDE DEF ended
<1> QED BY <1>3, <1>4 DEF TypeOK, Moves

\* A step of p that leaves the lock and the requests alone.
LEMMA LocalStep ==
    ASSUME IInv, NEW p \in Procs, Moves(p),
           store' \in Stored,
           UNCHANGED <<lock, service, network>>,
           Disciplined(p)',
           InRotation(p)' => InRotation(p),
           proc'[p].pc = "send" /\ proc'[p].asking = "refresh" => proc'[p].held # NoCredential
    PROVE  IInv'
<1>1. TypeOK'
  BY DEF IInv, TypeOK, Moves
<1>2. RefreshesInFlight'
  BY DEF IInv, RefreshesInFlight
<1>3. \A q \in Procs : Disciplined(q)'
  BY DEF IInv, Moves, Disciplined
<1>4. OneRotation'
  BY DEF IInv, Moves, OneRotation, InRotation
<1> QED BY <1>1, <1>2, <1>3, <1>4 DEF IInv

\* Ending a command is always such a step.
LEMMA EndStep ==
    ASSUME IInv, NEW p \in Procs, NEW result \in Results, End(p, result),
           store' \in Stored,
           UNCHANGED <<lock, service, network>>
    PROVE  IInv'
<1>1. Moves(p) /\ proc'[p].pc = "done"
  BY EndMoves DEF IInv
<1>2. Disciplined(p)' /\ ~InRotation(p)'
  BY <1>1 DEF Disciplined, InRotation
<1> QED BY <1>1, <1>2, LocalStep

\* refresh_access going to the release of its lock.
LEMMA ReleaseStep ==
    ASSUME IInv, NEW p \in Procs, NEW result \in Results, Release(p, result),
           proc[p].command \in Refreshers, InRotation(p),
           store' \in Stored,
           UNCHANGED <<lock, service, network>>
    PROVE  IInv'
<1>1. Moves(p) /\ proc'[p].pc = "release" /\ proc'[p].command = proc[p].command
  BY ReleaseMoves DEF IInv
<1>2. Disciplined(p)'
  BY <1>1 DEF Disciplined
<1> QED BY <1>1, <1>2, LocalStep

\* Going on to the next request, when that is not part of a rotation.
LEMMA AskStep ==
    ASSUME IInv, NEW p \in Procs, NEW kind \in Kinds, Ask(p, kind),
           kind \notin {"refresh", "undo", "list_devices", "revoke_device"},
           kind = "exchange" => proc[p].command = "login",
           store' \in Stored,
           UNCHANGED <<lock, service, network>>
    PROVE  IInv'
<1>1. /\ Moves(p)
      /\ proc'[p].pc = "send" /\ proc'[p].asking = kind
      /\ proc'[p].command = proc[p].command
  BY AskMoves DEF IInv
<1>2. Disciplined(p)' /\ ~InRotation(p)'
  BY <1>1 DEF Disciplined, InRotation
<1> QED BY <1>1, <1>2, LocalStep

\* A deletion that ends a rotation, or that follows one.
LEMMA DeletingStep ==
    ASSUME IInv, NEW p \in Procs, NEW pc \in {"delete", "delete_dead"}, NEW result \in Results,
           proc' = [proc EXCEPT ![p].pc = pc, ![p].result = result],
           pc = "delete_dead" => proc[p].command \in Refreshers /\ InRotation(p),
           UNCHANGED <<store, lock, service, network>>
    PROVE  IInv'
<1> DEFINE moved == [proc[p] EXCEPT !.pc = pc, !.result = result]
<1>1. Moves(p) /\ proc'[p].pc = pc /\ proc'[p].command = proc[p].command
  <2>1. proc' = [proc EXCEPT ![p] = moved] /\ proc[p] \in ProcType
    BY DEF IInv, TypeOK
  <2>2. moved \in ProcType
    BY <2>1 DEF ProcType, PCs
  <2> QED BY <2>1, <2>2 DEF IInv, TypeOK, Moves, ProcType
<1>2. Disciplined(p)'
  BY <1>1 DEF Disciplined
<1>3. InRotation(p)' => InRotation(p)
  BY <1>1 DEF InRotation
<1>4. store' \in Stored
  BY DEF IInv, TypeOK
<1> QED BY <1>1, <1>2, <1>3, <1>4, LocalStep

-----------------------------------------------------------------------------
(* Each action keeps the invariant.                                        *)

LEMMA BeginInv ==
    ASSUME IInv, NEW p \in Procs, Begin(p)
    PROVE  IInv'
<1>1. PICK c \in Commands : \E device \in OneOf(IF c = "revoke_device" THEN Families ELSE {}) :
        proc' = [proc EXCEPT ![p] =
          [Idle EXCEPT !.command = c, !.todo = device,
                       !.pc = CASE c = "login" -> "ensure_signed_out"
                                [] c \in {"use", "revoke_device"} -> "acquire"
                                [] OTHER -> "load"]]
  BY DEF Begin
<1>2. PICK device \in OneOf(IF c = "revoke_device" THEN Families ELSE {}) :
        proc' = [proc EXCEPT ![p] =
          [Idle EXCEPT !.command = c, !.todo = device,
                       !.pc = CASE c = "login" -> "ensure_signed_out"
                                [] c \in {"use", "revoke_device"} -> "acquire"
                                [] OTHER -> "load"]]
  BY <1>1
<1> DEFINE pc == CASE c = "login" -> "ensure_signed_out"
                   [] c \in {"use", "revoke_device"} -> "acquire"
                   [] OTHER -> "load"
           begun == [Idle EXCEPT !.command = c, !.todo = device, !.pc = pc]
<1>3. c \in AllCommands
  BY AccountAssumption
<1>4. /\ pc \in {"ensure_signed_out", "acquire", "load"} \cap PCs
      /\ pc = "ensure_signed_out" => c = "login"
      /\ pc = "acquire" => c \in Refreshers
      /\ pc = "load" => c \in Refreshers \cup {"local_only"}
  BY <1>3 DEF PCs, AllCommands, Refreshers
<1>5. device \in SUBSET Families
  BY DEF OneOf
<1>6. proc' = [proc EXCEPT ![p] = begun]
  BY <1>2
<1> HIDE DEF pc
<1>7. begun \in ProcType /\ begun.pc = pc /\ begun.command = c
  BY <1>3, <1>4, <1>5, IdleType DEF ProcType
<1> HIDE DEF begun
<1>8. Moves(p) /\ proc'[p].pc = pc /\ proc'[p].command = c
  BY <1>6, <1>7 DEF IInv, TypeOK, Moves
<1>9. Disciplined(p)' /\ ~InRotation(p)'
  BY <1>4, <1>8 DEF Disciplined, InRotation
<1> QED BY <1>4, <1>8, <1>9, LocalStep DEF Begin, IInv, TypeOK

LEMMA StartInv ==
    ASSUME IInv, NEW p \in Procs, ensure_signed_out(p) \/ LoadFirst(p)
    PROVE  IInv'
<1>1. /\ store' \in Stored
      /\ UNCHANGED <<store, lock, service, network>>
  BY DEF ensure_signed_out, LoadFirst, IInv, TypeOK
<1>2. {"already_signed_in", "signed_out", "error"} \subseteq Results
  BY DEF Results
<1>3. CASE End(p, "already_signed_in") \/ End(p, "signed_out") \/ End(p, "error")
  BY <1>1, <1>2, <1>3, EndStep
<1>4. CASE Ask(p, "exchange") /\ proc[p].pc = "ensure_signed_out"
  <2>1. proc[p].command = "login"
    BY <1>4 DEF IInv, Disciplined
  <2> QED BY <1>1, <1>4, <2>1, AskStep DEF Kinds
<1>5. CASE /\ proc[p].pc = "load"
           /\ Goto(p, IF proc[p].command = "local_only" THEN "delete" ELSE "acquire")
  <2> DEFINE pc == IF proc[p].command = "local_only" THEN "delete" ELSE "acquire"
  <2>1. pc \in PCs /\ pc \in {"delete", "acquire"} /\ Goto(p, pc)
    BY <1>5 DEF PCs
  <2>2. pc = "acquire" => proc[p].command \in Refreshers
    BY <1>5 DEF IInv, Disciplined
  <2> HIDE DEF pc
  <2>3. Moves(p) /\ proc'[p].pc = pc /\ proc'[p].command = proc[p].command
    BY <2>1, GotoMoves DEF IInv
  <2>4. Disciplined(p)' /\ ~InRotation(p)'
    BY <2>1, <2>2, <2>3 DEF Disciplined, InRotation
  <2> QED BY <1>1, <2>1, <2>3, <2>4, LocalStep
<1> QED BY <1>3, <1>4, <1>5 DEF ensure_signed_out, LoadFirst

\* Only a free lock is taken, and while it is free nobody is rotating.
LEMMA AcquireInv ==
    ASSUME IInv, NEW p \in Procs, Acquire(p)
    PROVE  IInv'
<1>1. proc[p].pc = "acquire" /\ proc[p].command \in Refreshers
  BY DEF Acquire, IInv, Disciplined
<1>2. CASE lock = NoProc /\ lock' = p /\ Goto(p, "load_stored")
  <2>1. Moves(p) /\ proc'[p].pc = "load_stored" /\ proc'[p].command = proc[p].command
    BY <1>2, GotoMoves DEF IInv, PCs
  <2>2. \A q \in Procs : ~InRotation(q)
    BY <1>2, AccountAssumption DEF IInv, OneRotation
  <2>3. TypeOK'
    BY <1>2, <2>1 DEF Acquire, IInv, TypeOK, Moves
  <2>4. RefreshesInFlight'
    BY DEF Acquire, IInv, RefreshesInFlight
  <2>5. \A q \in Procs : Disciplined(q)'
    BY <1>1, <2>1 DEF IInv, Moves, Disciplined
  <2>6. OneRotation'
    BY <1>2, <2>1, <2>2 DEF Moves, OneRotation, InRotation
  <2> QED BY <2>3, <2>4, <2>5, <2>6 DEF IInv
<1>3. CASE End(p, "lock_unavailable") /\ UNCHANGED lock
  <2>1. "lock_unavailable" \in Results
    BY DEF Results
  <2>2. store' \in Stored /\ UNCHANGED <<lock, service, network>>
    BY <1>3 DEF Acquire, IInv, TypeOK
  <2> QED BY <1>3, <2>1, <2>2, EndStep
<1> QED BY <1>2, <1>3 DEF Acquire

LEMMA LoadStoredInv ==
    ASSUME IInv, NEW p \in Procs, LoadStored(p)
    PROVE  IInv'
<1>1. /\ proc[p].pc = "load_stored" /\ proc[p].command \in Refreshers /\ InRotation(p)
      /\ store' \in Stored /\ UNCHANGED <<lock, service, network>>
  BY DEF LoadStored, IInv, TypeOK, Disciplined, InRotation
<1>2. CASE Release(p, "error")
  BY <1>1, <1>2, ReleaseStep DEF Results
<1>3. CASE /\ store # NoCredential
           /\ proc' = [proc EXCEPT ![p].pc = "send", ![p].asking = "refresh", ![p].held = store]
  <2> DEFINE moved == [proc[p] EXCEPT !.pc = "send", !.asking = "refresh", !.held = store]
  <2>1. proc' = [proc EXCEPT ![p] = moved] /\ proc[p] \in ProcType /\ store \in Stored
    BY <1>3 DEF IInv, TypeOK
  <2>2. moved \in ProcType
    BY <2>1 DEF ProcType, PCs, Kinds
  <2>3. /\ Moves(p) /\ proc'[p].pc = "send" /\ proc'[p].asking = "refresh"
        /\ proc'[p].held = store /\ proc'[p].command = proc[p].command
    BY <2>1, <2>2 DEF IInv, TypeOK, Moves, ProcType
  <2>4. Disciplined(p)'
    BY <1>1, <2>3 DEF Disciplined, Kinds
  <2> QED BY <1>1, <1>3, <2>3, <2>4, LocalStep
<1> QED BY <1>2, <1>3 DEF LoadStored

LEMMA ReceiveRefreshInv ==
    ASSUME IInv, NEW p \in Procs, ReceiveRefresh(p)
    PROVE  IInv'
<1>1. /\ proc[p].pc = "await" /\ proc[p].asking = "refresh"
      /\ UNCHANGED <<store, lock, service, network>>
  BY DEF ReceiveRefresh
<1>2. proc[p].command \in Refreshers
  BY <1>1 DEF IInv, Disciplined
<1>3. /\ InRotation(p)
      /\ store' \in Stored /\ UNCHANGED <<lock, service, network>>
  BY <1>1, <1>2 DEF IInv, TypeOK, InRotation, Refreshers
<1>4. CASE Save(p, proc[p].reply.credential)
  <2>1. proc[p].reply.credential \in Stored
    BY DEF IInv, TypeOK, ProcType, Replies
  <2>2. /\ Moves(p) /\ proc'[p].pc = "save"
        /\ proc'[p].asking = proc[p].asking /\ proc'[p].command = proc[p].command
    BY <1>4, <2>1, SaveMoves DEF IInv
  <2>3. Disciplined(p)'
    BY <1>1, <1>2, <2>2 DEF Disciplined, Kinds
  <2> QED BY <1>3, <2>2, <2>3, LocalStep
<1>5. CASE Release(p, "error") \/ Release(p, "offline")
  BY <1>2, <1>3, <1>5, ReleaseStep DEF Results
<1>6. CASE proc' = [proc EXCEPT ![p].pc = "delete_dead", ![p].result = "dead"]
  BY <1>1, <1>2, <1>3, <1>6, DeletingStep DEF Results
<1> QED BY <1>4, <1>5, <1>6 DEF ReceiveRefresh

LEMMA DeleteDeadInv ==
    ASSUME IInv, NEW p \in Procs, DeleteDead(p)
    PROVE  IInv'
<1>1. /\ proc[p].pc = "delete_dead" /\ proc[p].command \in Refreshers /\ InRotation(p)
      /\ store' \in Stored /\ UNCHANGED <<lock, service, network>>
  BY DEF DeleteDead, IInv, TypeOK, Disciplined, InRotation, Stored
<1>2. Moves(p) /\ proc'[p].pc = "release" /\ proc'[p].command = proc[p].command
  BY GotoMoves DEF DeleteDead, IInv, PCs
<1>3. Disciplined(p)'
  BY <1>1, <1>2 DEF Disciplined
<1> QED BY <1>1, <1>2, <1>3, LocalStep

\* The lock is given up together with the last right to rotate: none of the
\* requests that follow is a refresh.
LEMMA ReleaseLockInv ==
    ASSUME IInv, NEW p \in Procs, ReleaseLock(p)
    PROVE  IInv'
<1>1. /\ proc[p].pc = "release" /\ lock' = NoProc
      /\ UNCHANGED <<store, service, network>>
  BY DEF ReleaseLock
<1>2. proc[p].command \in Refreshers /\ lock = p /\ proc[p].result \in Results
  BY <1>1 DEF IInv, Disciplined, OneRotation, InRotation, TypeOK, ProcType
<1>3. /\ Moves(p)
      /\ \/ proc'[p].pc \in {"done", "delete"}
         \/ /\ proc'[p].pc = "send" /\ proc'[p].asking \in Kinds \ {"exchange", "refresh", "undo"}
            /\ proc'[p].asking = "list_devices" => proc'[p].command = "logout_all"
            /\ proc'[p].asking = "revoke_device" => proc'[p].command = "revoke_device"
  <2>1. CASE proc[p].result = "active"
    <3> DEFINE kind == CASE proc[p].command \in {"status", "use"} -> "call"
                         [] proc[p].command = "logout" -> "revoke"
                         [] proc[p].command = "logout_all" -> "list_devices"
                         [] proc[p].command = "revoke_device" -> "revoke_device"
    <3>1. /\ kind \in Kinds \ {"exchange", "refresh", "undo"}
          /\ kind = "list_devices" => proc[p].command = "logout_all"
          /\ kind = "revoke_device" => proc[p].command = "revoke_device"
      BY <1>2 DEF Refreshers, Kinds
    <3>2. Ask(p, kind)
      BY <2>1 DEF ReleaseLock
    <3> HIDE DEF kind
    <3> QED BY <3>1, <3>2, AskMoves DEF IInv
  <2>2. CASE proc[p].result = "dead" /\ proc[p].command = "logout"
    <3> DEFINE moved == [proc[p] EXCEPT !.pc = "delete", !.result = "remote_revoked"]
    <3>1. proc' = [proc EXCEPT ![p].pc = "delete", ![p].result = "remote_revoked"]
      BY <2>2 DEF ReleaseLock
    <3>2. proc' = [proc EXCEPT ![p] = moved] /\ proc[p] \in ProcType
      BY <3>1 DEF IInv, TypeOK
    <3>3. moved \in ProcType
      BY <3>2 DEF ProcType, PCs, Results
    <3> QED BY <3>2, <3>3 DEF IInv, TypeOK, Moves, ProcType
  <2>3. CASE /\ proc[p].result # "active"
             /\ ~(proc[p].result = "dead" /\ proc[p].command = "logout")
    <3>1. End(p, "unconfirmed") \/ End(p, proc[p].result)
      BY <2>3 DEF ReleaseLock
    <3> QED BY <1>2, <3>1, EndMoves DEF IInv, Results
  <2> QED BY <2>1, <2>2, <2>3
<1>4. ~InRotation(p)'
  BY <1>3 DEF InRotation
<1>5. TypeOK'
  BY <1>1, <1>3 DEF IInv, TypeOK, Moves
<1>6. RefreshesInFlight'
  BY <1>1 DEF IInv, RefreshesInFlight
<1>7. \A q \in Procs : Disciplined(q)'
  BY <1>3 DEF IInv, Moves, Disciplined
<1>8. OneRotation'
  <2>1. \A q \in Procs \ {p} : ~InRotation(q)
    BY <1>2 DEF IInv, OneRotation
  <2> QED BY <1>3, <1>4, <2>1 DEF Moves, OneRotation, InRotation
<1> QED BY <1>5, <1>6, <1>7, <1>8 DEF IInv

LEMMA SaveSessionInv ==
    ASSUME IInv, NEW p \in Procs, SaveSession(p)
    PROVE  IInv'
<1>1. /\ proc[p].pc = "save" /\ UNCHANGED <<lock, service, network>>
      /\ \/ /\ store' = proc[p].session
            /\ IF proc[p].command = "login" THEN End(p, "signed_in") ELSE Release(p, "active")
         \/ Ask(p, "undo") /\ UNCHANGED store
  BY DEF SaveSession
<1>2. /\ store' \in Stored
      /\ {"signed_in", "active"} \subseteq Results
  BY <1>1 DEF IInv, TypeOK, ProcType, Results
<1>3. proc[p].command # "login" => proc[p].command \in Refreshers /\ InRotation(p)
  BY <1>1 DEF IInv, Disciplined, InRotation
<1>4. CASE End(p, "signed_in")
  BY <1>1, <1>2, <1>4, EndStep
<1>5. CASE Release(p, "active") /\ proc[p].command # "login"
  BY <1>1, <1>2, <1>3, <1>5, ReleaseStep
<1>6. CASE Ask(p, "undo")
  <2>1. /\ Moves(p) /\ proc'[p].pc = "send" /\ proc'[p].asking = "undo"
        /\ proc'[p].command = proc[p].command
    BY <1>6, AskMoves DEF IInv, Kinds
  <2>2. Disciplined(p)'
    BY <1>3, <2>1 DEF Disciplined, Kinds
  <2>3. InRotation(p)' => InRotation(p)
    BY <1>3, <2>1 DEF InRotation
  <2> QED BY <1>1, <1>2, <2>1, <2>2, <2>3, LocalStep
<1> QED BY <1>1, <1>4, <1>5, <1>6

LEMMA ReceiveUndoInv ==
    ASSUME IInv, NEW p \in Procs, ReceiveUndo(p)
    PROVE  IInv'
<1>1. /\ proc[p].pc = "await" /\ proc[p].asking = "undo"
      /\ UNCHANGED <<store, lock, service, network>>
      /\ store' \in Stored
  BY DEF ReceiveUndo, IInv, TypeOK
<1>2. "store_failure" \in Results
  BY DEF Results
<1>3. CASE proc[p].command = "login"
  BY <1>1, <1>2, <1>3, EndStep DEF ReceiveUndo
<1>4. CASE proc[p].command # "login"
  <2>1. proc[p].command \in Refreshers /\ InRotation(p)
    BY <1>1, <1>4 DEF IInv, Disciplined, InRotation
  <2>2. proc' = [proc EXCEPT ![p].pc = "delete_dead", ![p].result = "store_failure"]
    BY <1>4 DEF ReceiveUndo, Undone
  <2> QED BY <1>1, <1>2, <2>1, <2>2, DeletingStep
<1> QED BY <1>3, <1>4

LEMMA ReceiveExchangeInv ==
    ASSUME IInv, NEW p \in Procs, ReceiveExchange(p)
    PROVE  IInv'
<1>1. /\ proc[p].pc = "await" /\ proc[p].asking = "exchange"
      /\ UNCHANGED <<store, lock, service, network>>
      /\ store' \in Stored
      /\ Save(p, proc[p].reply.credential) \/ End(p, "error")
  BY DEF ReceiveExchange, IInv, TypeOK
<1>2. CASE End(p, "error")
  BY <1>1, <1>2, EndStep DEF Results
<1>3. CASE Save(p, proc[p].reply.credential)
  <2>1. proc[p].reply.credential \in Stored
    BY DEF IInv, TypeOK, ProcType, Replies
  <2>2. /\ Moves(p) /\ proc'[p].pc = "save"
        /\ proc'[p].asking = proc[p].asking /\ proc'[p].command = proc[p].command
    BY <1>3, <2>1, SaveMoves DEF IInv
  <2>3. proc[p].command = "login"
    BY <1>1 DEF IInv, Disciplined
  <2>4. Disciplined(p)' /\ ~InRotation(p)'
    BY <1>1, <2>2, <2>3 DEF Disciplined, Kinds, InRotation
  <2> QED BY <1>1, <2>2, <2>4, LocalStep
<1> QED BY <1>1, <1>2, <1>3

\* The answers that concern no refresh token.
LEMMA ReceiveOthersInv ==
    ASSUME IInv, NEW p \in Procs,
           ReceiveCall(p) \/ ReceiveDevices(p) \/ ReceiveDeviceRevoked(p) \/ ReceiveRevoked(p)
    PROVE  IInv'
<1>1. /\ proc[p].pc = "await"
      /\ UNCHANGED <<store, lock, service, network>>
      /\ store' \in Stored
  BY DEF ReceiveCall, ReceiveDevices, ReceiveDeviceRevoked, ReceiveRevoked, IInv, TypeOK
<1>2. /\ {"error", "online", "device_revoked", "remote_revoked"} \subseteq Results
      /\ proc[p].reply.status \in Results
      /\ proc[p].reply.devices \in SUBSET Families /\ proc[p].todo \in SUBSET Families
  BY DEF Results, IInv, TypeOK, ProcType, Replies
<1>3. ASSUME NEW result \in Results, End(p, result) PROVE IInv'
  BY <1>1, <1>3, EndStep
<1>4. ASSUME NEW result \in Results,
             proc' = [proc EXCEPT ![p].pc = "delete", ![p].result = result]
      PROVE  IInv'
  BY <1>1, <1>4, DeletingStep
\* Going on with the devices that are left, and then with the session.
<1>5. ASSUME NEW moved \in ProcType, proc' = [proc EXCEPT ![p] = moved],
             moved.pc = "send", moved.asking \in {"revoke", "revoke_device"},
             moved.command = "logout_all"
      PROVE  IInv'
  <2>1. /\ Moves(p) /\ proc'[p].pc = "send" /\ proc'[p].asking \in {"revoke", "revoke_device"}
        /\ proc'[p].command = "logout_all"
    BY <1>5 DEF IInv, TypeOK, Moves
  <2>2. Disciplined(p)' /\ ~InRotation(p)'
    BY <2>1 DEF Disciplined, Kinds, InRotation
  <2> QED BY <1>1, <2>1, <2>2, LocalStep
<1>6. CASE ReceiveCall(p)
  <2>1. PICK result \in Results : End(p, result)
    BY <1>2, <1>6 DEF ReceiveCall
  <2> QED BY <1>3, <2>1
<1>7. CASE ReceiveDevices(p)
  <2> DEFINE devices == proc[p].reply.devices
             kind == IF devices = {} THEN "revoke" ELSE "revoke_device"
  <2>1. CASE End(p, "error")
    BY <1>2, <1>3, <2>1
  <2>2. CASE proc' = [proc EXCEPT ![p].pc = "send", ![p].todo = devices, ![p].listed = devices,
                                  ![p].asking = kind]
    <3> DEFINE moved == [proc[p] EXCEPT !.pc = "send", !.todo = devices, !.listed = devices,
                                        !.asking = kind]
    <3>1. proc[p].command = "logout_all"
      BY <1>7 DEF ReceiveDevices, IInv, Disciplined
    <3>2. devices \in SUBSET Families /\ kind \in {"revoke", "revoke_device"}
      BY <1>2
    <3> HIDE DEF devices, kind
    <3>3. proc' = [proc EXCEPT ![p] = moved] /\ proc[p] \in ProcType
      BY <2>2 DEF IInv, TypeOK
    <3>4. /\ moved \in ProcType /\ moved.pc = "send" /\ moved.asking = kind
          /\ moved.command = "logout_all"
      BY <3>1, <3>2, <3>3 DEF ProcType, PCs, Kinds
    <3> HIDE DEF moved
    <3> QED BY <1>5, <3>2, <3>3, <3>4
  <2> QED BY <1>7, <2>1, <2>2 DEF ReceiveDevices
<1>8. CASE ReceiveDeviceRevoked(p)
  <2> DEFINE rest == proc[p].todo \ proc[p].reply.devices
             kind == IF rest = {} THEN "revoke" ELSE "revoke_device"
  <2>1. proc[p].command \in {"logout_all", "revoke_device"}
    BY <1>8 DEF ReceiveDeviceRevoked, IInv, Disciplined
  <2>2. \/ End(p, "error") \/ End(p, "device_revoked")
        \/ proc' = [proc EXCEPT ![p].pc = "delete", ![p].result = "device_revoked"]
        \/ /\ proc[p].command = "logout_all"
           /\ proc' = [proc EXCEPT ![p].pc = "send", ![p].todo = rest, ![p].asking = kind]
    BY <1>8, <2>1 DEF ReceiveDeviceRevoked
  <2>3. CASE /\ proc[p].command = "logout_all"
             /\ proc' = [proc EXCEPT ![p].pc = "send", ![p].todo = rest, ![p].asking = kind]
    <3> DEFINE moved == [proc[p] EXCEPT !.pc = "send", !.todo = rest, !.asking = kind]
    <3>1. rest \in SUBSET Families /\ kind \in {"revoke", "revoke_device"}
      BY <1>2
    <3> HIDE DEF rest, kind
    <3>2. proc' = [proc EXCEPT ![p] = moved] /\ proc[p] \in ProcType
      BY <2>3 DEF IInv, TypeOK
    <3>3. /\ moved \in ProcType /\ moved.pc = "send" /\ moved.asking = kind
          /\ moved.command = "logout_all"
      BY <2>3, <3>1, <3>2 DEF ProcType, PCs, Kinds
    <3> HIDE DEF moved
    <3> QED BY <1>5, <3>1, <3>2, <3>3
  <2> QED BY <1>2, <1>3, <1>4, <2>2, <2>3
<1>9. CASE ReceiveRevoked(p)
  BY <1>2, <1>3, <1>4, <1>9 DEF ReceiveRevoked
<1> QED BY <1>6, <1>7, <1>8, <1>9

LEMMA DeleteCredentialInv ==
    ASSUME IInv, NEW p \in Procs, DeleteCredential(p)
    PROVE  IInv'
<1>1. PICK result \in Results : End(p, result)
  <2>1. proc[p].result \in Results /\ {"local_only", "error"} \subseteq Results
    BY DEF IInv, TypeOK, ProcType, Results
  <2> QED BY <2>1 DEF DeleteCredential
<1>2. store' \in Stored /\ UNCHANGED <<lock, service, network>>
  BY DEF DeleteCredential, IInv, TypeOK, Stored
<1> QED BY <1>1, <1>2, EndStep

\* A refresh is sent only with a token that was stored and can be rotated.
LEMMA SendInv ==
    ASSUME IInv, NEW p \in Procs, Send(p)
    PROVE  IInv'
<1>1. PICK device \in OneOf(IF proc[p].asking = "revoke_device" THEN proc[p].todo ELSE {}) :
        network' = network \cup {Request(p, device)}
  BY DEF Send
<1>2. proc[p] \in ProcType /\ proc[p].pc = "send" /\ proc[p].asking \in Kinds
  BY DEF Send, IInv, TypeOK, Disciplined
<1>3. device \in SUBSET Families
  <2>1. proc[p].todo \in SUBSET Families
    BY <1>2 DEF ProcType
  <2> QED BY <2>1 DEF OneOf
<1>4. Token(p) \in Stored
  BY <1>2 DEF Token, ProcType, Stored
<1>5. Request(p, device) \in [from : Procs \cup {NoProc}, kind : Kinds, token : Stored,
                              device : SUBSET Families]
  BY <1>2, <1>3, <1>4 DEF Request
<1>6. proc[p].asking = "refresh" => Token(p) \in Credential /\ Token(p).generation < MaxGeneration
  <2>1. SUFFICES ASSUME proc[p].asking = "refresh"
                 PROVE  Token(p) \in Credential /\ Token(p).generation < MaxGeneration
    OBVIOUS
  <2>2. Token(p) = proc[p].held /\ proc[p].held \in Stored /\ proc[p].held # NoCredential
    BY <1>2, <2>1 DEF Token, IInv, TypeOK, ProcType
  <2> QED BY <2>1, <2>2 DEF Send, Stored
<1>7. /\ Moves(p) /\ proc'[p].pc = "await" /\ proc'[p].asking = proc[p].asking
      /\ proc'[p].command = proc[p].command
  <2> DEFINE moved == [proc[p] EXCEPT !.pc = "await", !.reply = NoReply]
  <2>1. proc' = [proc EXCEPT ![p] = moved]
    BY DEF Send, IInv, TypeOK
  <2>2. moved \in ProcType
    BY <1>2, ReplyTypes DEF ProcType, PCs
  <2> QED BY <1>2, <2>1, <2>2 DEF Moves, IInv, TypeOK, ProcType
<1>8. TypeOK'
  BY <1>1, <1>5, <1>7 DEF Send, IInv, TypeOK, Moves
<1>9. RefreshesInFlight'
  <2>1. Request(p, device).kind = proc[p].asking /\ Request(p, device).token = Token(p)
    BY DEF Request
  <2> QED BY <1>1, <1>6, <2>1 DEF IInv, RefreshesInFlight
<1>10. \A q \in Procs : Disciplined(q)'
  BY <1>2, <1>7 DEF IInv, Moves, Disciplined
<1>11. OneRotation'
  BY <1>2, <1>7 DEF Send, IInv, Moves, OneRotation, InRotation
<1> QED BY <1>8, <1>9, <1>10, <1>11 DEF IInv

LEMMA DiscoveryFailsInv ==
    ASSUME IInv, NEW p \in Procs, DiscoveryFails(p)
    PROVE  IInv'
<1>1. /\ proc[p].pc = "send"
      /\ UNCHANGED <<lock, service, network>> /\ store' \in Stored
      /\ {"offline", "error"} \subseteq Results
  BY DEF DiscoveryFails, IInv, TypeOK, Results
<1>2. CASE proc[p].asking = "refresh"
  <2>1. proc[p].command \in Refreshers
    BY <1>1, <1>2 DEF IInv, Disciplined
  <2>2. InRotation(p)
    BY <1>1, <1>2, <2>1 DEF InRotation, Refreshers
  <2>3. Release(p, "offline")
    BY <1>2 DEF DiscoveryFails
  <2> QED BY <1>1, <2>1, <2>2, <2>3, ReleaseStep
<1>3. CASE proc[p].asking # "refresh"
  <2>1. End(p, "error")
    BY <1>3 DEF DiscoveryFails
  <2> QED BY <1>1, <2>1, EndStep
<1> QED BY <1>2, <1>3

-----------------------------------------------------------------------------
(* The network, the service and the deaths of invocations.                 *)

LEMMA AbandonType ==
    ASSUME IInv, NEW p \in Procs, Abandon(p)
    PROVE  /\ network' \subseteq [from : Procs \cup {NoProc}, kind : Kinds, token : Stored,
                                  device : SUBSET Families]
           /\ RefreshesInFlight'
<1> DEFINE orphaned == {[m EXCEPT !.from = NoProc] : m \in Mine(p)}
           request == [from : Procs \cup {NoProc}, kind : Kinds, token : Stored,
                       device : SUBSET Families]
<1>1. network \subseteq request /\ Mine(p) \subseteq network
  BY DEF IInv, TypeOK, Mine
<1>2. \A m \in orphaned : m \in request /\ \E n \in network : m.kind = n.kind /\ m.token = n.token
  <2>1. SUFFICES ASSUME NEW n \in Mine(p)
                 PROVE  /\ [n EXCEPT !.from = NoProc] \in request
                        /\ \E o \in network : /\ [n EXCEPT !.from = NoProc].kind = o.kind
                                              /\ [n EXCEPT !.from = NoProc].token = o.token
    OBVIOUS
  <2>2. n \in request /\ n \in network
    BY <1>1
  <2>3. /\ [n EXCEPT !.from = NoProc] \in request
        /\ [n EXCEPT !.from = NoProc].kind = n.kind
        /\ [n EXCEPT !.from = NoProc].token = n.token
    BY <2>2
  <2> QED BY <2>2, <2>3
<1>3. network' \subseteq network \cup orphaned
  BY DEF Abandon
<1> HIDE DEF orphaned
<1> QED BY <1>1, <1>2, <1>3 DEF IInv, RefreshesInFlight

LEMMA TimeoutInv ==
    ASSUME IInv, NEW p \in Procs, Timeout(p)
    PROVE  IInv'
<1>1. /\ proc[p].pc = "await" /\ proc[p] \in ProcType /\ "offline" \in Statuses
      /\ UNCHANGED <<store, lock, service>>
  BY DEF Timeout, IInv, TypeOK, Statuses
<1>2. /\ Moves(p) /\ proc'[p].pc = "await" /\ proc'[p].asking = proc[p].asking
      /\ proc'[p].command = proc[p].command
  <2> DEFINE moved == [proc[p] EXCEPT !.reply = Reply("offline")]
  <2>1. proc' = [proc EXCEPT ![p] = moved]
    BY DEF Timeout, IInv, TypeOK
  <2>2. Reply("offline") \in Replies
    BY <1>1, ReplyTypes
  <2>3. moved \in ProcType
    BY <1>1, <2>2 DEF ProcType
  <2> QED BY <1>1, <2>1, <2>3 DEF Moves, IInv, TypeOK, ProcType
<1>3. /\ network' \subseteq [from : Procs \cup {NoProc}, kind : Kinds, token : Stored,
                             device : SUBSET Families]
      /\ RefreshesInFlight'
  BY AbandonType DEF Timeout
<1>4. TypeOK'
  BY <1>1, <1>2, <1>3 DEF IInv, TypeOK, Moves
<1>5. \A q \in Procs : Disciplined(q)'
  BY <1>1, <1>2 DEF IInv, Moves, Disciplined
<1>6. OneRotation'
  BY <1>1, <1>2 DEF IInv, Moves, OneRotation, InRotation
<1> QED BY <1>3, <1>4, <1>5, <1>6 DEF IInv

\* The lock of a process that dies is free at once, and its rotation is over.
LEMMA CrashInv ==
    ASSUME IInv, NEW p \in Procs, Crash(p)
    PROVE  IInv'
<1>1. /\ lock' = (IF lock = p THEN NoProc ELSE lock)
      /\ UNCHANGED <<store, service>>
  BY DEF Crash
<1>2. Moves(p) /\ proc'[p].pc = "done"
  BY IdleType DEF Crash, IInv, TypeOK, Moves
<1>3. /\ network' \subseteq [from : Procs \cup {NoProc}, kind : Kinds, token : Stored,
                             device : SUBSET Families]
      /\ RefreshesInFlight'
  BY AbandonType DEF Crash
<1>4. TypeOK'
  BY <1>1, <1>2, <1>3 DEF IInv, TypeOK, Moves
<1>5. \A q \in Procs : Disciplined(q)'
  BY <1>2 DEF IInv, Moves, Disciplined
<1>6. OneRotation'
  BY <1>1, <1>2 DEF IInv, Moves, OneRotation, InRotation
<1> QED BY <1>3, <1>4, <1>5, <1>6 DEF IInv

\* Whatever the service answers, the client can read it.
LEMMA AnswerType ==
    ASSUME IInv, NEW m \in network, NEW a \in Answers(m)
    PROVE  /\ a.reply \in Replies
           /\ a.after \in [Families -> [state : {"unused", "live", "revoked", "reused"},
                                        generation : 0..MaxGeneration]]
<1> DEFINE f == m.token.family
           Known == [state : {"unused", "live", "revoked", "reused"}, generation : 0..MaxGeneration]
           revoked(S) == [d \in Families |-> IF d \in S THEN [service[d] EXCEPT !.state = "revoked"]
                                             ELSE service[d]]
           slips == IF "garbled" \in Faults THEN 0..1 ELSE {0}
           Good(b) == b.reply \in Replies /\ b.after \in [Families -> Known]
<1>1. /\ service \in [Families -> Known] /\ m.kind \in Kinds /\ m.device \in SUBSET Families
      /\ MaxGeneration \in Nat \ {0}
  BY AccountAssumption DEF IInv, TypeOK
<1>2. \A S : revoked(S) \in [Families -> Known]
  BY <1>1
<1>3. Statuses \subseteq {s \in Statuses : Reply(s) \in Replies}
  BY ReplyTypes
<1>4. \A s \in Statuses : Good([reply |-> Reply(s), after |-> service])
  BY <1>1, <1>3
<1>5. CASE m.kind = "exchange"
  <2>1. \/ a = [reply |-> Reply("access_denied"), after |-> service]
        \/ \E n \in Families, slip \in slips :
             a = [reply |-> Session(n, slip), after |-> [service EXCEPT ![n].state = "live"]]
    BY <1>5 DEF Answers
  <2>2. ASSUME NEW n \in Families, NEW slip \in slips,
               a = [reply |-> Session(n, slip), after |-> [service EXCEPT ![n].state = "live"]]
        PROVE  Good(a)
    <3>1. slip \in 0..MaxGeneration
      BY <1>1
    <3>2. Session(n, slip) \in Replies
      BY <3>1, ReplyTypes
    <3>3. [service EXCEPT ![n].state = "live"] \in [Families -> Known]
      BY <1>1
    <3> QED BY <2>2, <3>2, <3>3
  <2> QED BY <1>4, <2>1, <2>2 DEF Statuses
<1>6. CASE m.kind = "refresh"
  <2>1. m.token \in Credential /\ m.token.generation < MaxGeneration
    BY <1>6 DEF IInv, RefreshesInFlight
  <2>2. f \in Families /\ m.token.generation \in 0..MaxGeneration
    BY <2>1 DEF Credential
  <2>3. \/ a = [reply |-> Reply("token_reuse"), after |-> [service EXCEPT ![f].state = "reused"]]
        \/ a = [reply |-> Reply("session_revoked"), after |-> service]
        \/ \E slip \in slips :
             a = [reply |-> Session(f, m.token.generation + 1 - slip),
                  after |-> [service EXCEPT ![f].generation = m.token.generation + 1]]
    BY <1>6 DEF Answers
  <2>4. CASE a = [reply |-> Reply("token_reuse"), after |-> [service EXCEPT ![f].state = "reused"]]
    <3>1. [service EXCEPT ![f].state = "reused"] \in [Families -> Known]
      BY <1>1, <2>2
    <3>2. Reply("token_reuse") \in Replies
      BY ReplyTypes DEF Statuses
    <3> QED BY <2>4, <3>1, <3>2
  <2>5. ASSUME NEW slip \in slips,
               a = [reply |-> Session(f, m.token.generation + 1 - slip),
                    after |-> [service EXCEPT ![f].generation = m.token.generation + 1]]
        PROVE  Good(a)
    <3>1. /\ m.token.generation + 1 - slip \in 0..MaxGeneration
          /\ m.token.generation + 1 \in 0..MaxGeneration
      BY <1>1, <2>1, <2>2
    <3>2. Session(f, m.token.generation + 1 - slip) \in Replies
      BY <2>2, <3>1, ReplyTypes
    <3>3. [service EXCEPT ![f].generation = m.token.generation + 1] \in [Families -> Known]
      BY <1>1, <2>2, <3>1
    <3> QED BY <2>5, <3>2, <3>3
  <2> QED BY <1>4, <2>3, <2>4, <2>5 DEF Statuses
<1>7. CASE m.kind \notin {"exchange", "refresh"}
  <2> DEFINE listing == [Reply("devices") EXCEPT
                           !.devices = {d \in Families : service[d].state # "unused"}]
             done == [Reply("ok") EXCEPT !.devices = m.device]
  <2>1. \/ \E s \in {"session_revoked", "ok", "not_found"} :
             a = [reply |-> Reply(s), after |-> service]
        \/ a = [reply |-> listing, after |-> service]
        \/ a = [reply |-> done, after |-> revoked(m.device)]
        \/ a = [reply |-> Reply("ok"), after |-> revoked({f})]
    BY <1>1, <1>7 DEF Answers, Kinds
  <2>2. {"session_revoked", "ok", "not_found", "devices"} \subseteq Statuses
    BY DEF Statuses
  <2>3. listing \in Replies /\ done \in Replies /\ Reply("ok") \in Replies
    BY <1>1, <2>2, ReplyTypes DEF Replies
  <2> HIDE DEF listing, done, revoked
  <2> QED BY <1>1, <1>2, <1>4, <2>1, <2>2, <2>3
<1> QED BY <1>5, <1>6, <1>7

LEMMA ServiceInv ==
    ASSUME IInv, NEW m \in network, Service(m)
    PROVE  IInv'
<1>1. PICK a \in Answers(m) :
        /\ service' = a.after
        /\ proc' = IF m.from = NoProc THEN proc ELSE [proc EXCEPT ![m.from].reply = a.reply]
  BY DEF Service
<1>2. /\ a.reply \in Replies
      /\ a.after \in [Families -> [state : {"unused", "live", "revoked", "reused"},
                                   generation : 0..MaxGeneration]]
  BY AnswerType
<1>3. network' \subseteq network /\ UNCHANGED <<store, lock>>
  BY DEF Service
<1>4. /\ proc' \in [Procs -> ProcType]
      /\ \A q \in Procs : /\ proc'[q].pc = proc[q].pc /\ proc'[q].asking = proc[q].asking
                          /\ proc'[q].command = proc[q].command /\ proc'[q].held = proc[q].held
  <2>1. m.from \in Procs \cup {NoProc} /\ proc \in [Procs -> ProcType]
    BY DEF IInv, TypeOK
  <2>2. CASE m.from = NoProc
    BY <1>1, <2>1, <2>2
  <2>3. CASE m.from # NoProc
    <3> DEFINE answered == [proc[m.from] EXCEPT !.reply = a.reply]
    <3>1. m.from \in Procs /\ proc' = [proc EXCEPT ![m.from] = answered]
      BY <1>1, <2>1, <2>3
    <3>2. proc[m.from] \in ProcType
      BY <2>1, <3>1
    <3>3. answered \in ProcType
      BY <1>2, <3>2 DEF ProcType
    <3> QED BY <2>1, <3>1, <3>2, <3>3 DEF ProcType
  <2> QED BY <2>2, <2>3
<1>5. TypeOK'
  BY <1>1, <1>2, <1>3, <1>4 DEF IInv, TypeOK
<1>6. RefreshesInFlight'
  BY <1>3 DEF IInv, RefreshesInFlight
<1>7. \A q \in Procs : Disciplined(q)'
  BY <1>4 DEF IInv, Disciplined
<1>8. OneRotation'
  BY <1>3, <1>4 DEF IInv, OneRotation, InRotation
<1> QED BY <1>5, <1>6, <1>7, <1>8 DEF IInv

LEMMA WebRevokeInv ==
    ASSUME IInv, NEW f \in Families, WebRevoke(f)
    PROVE  IInv'
BY DEF WebRevoke, IInv, TypeOK, RefreshesInFlight, Disciplined, OneRotation, InRotation

-----------------------------------------------------------------------------

LEMMA InitIInv == Init => IInv
<1> SUFFICES ASSUME Init PROVE IInv
  OBVIOUS
<1>1. TypeOK
  <2>1. service \in [Families -> [state : {"unused", "live", "revoked", "reused"},
                                  generation : 0..MaxGeneration]]
    BY AccountAssumption DEF Init
  <2>2. /\ store \in Stored /\ lock \in Procs \cup {NoProc}
        /\ network = {}
    BY DEF Init, Stored
  <2>3. proc \in [Procs -> ProcType] /\ \A p \in Procs : proc[p].pc = "done"
    BY IdleType DEF Init
  <2> QED BY <2>1, <2>2, <2>3 DEF TypeOK
<1>2. RefreshesInFlight
  BY DEF Init, RefreshesInFlight
<1>3. (\A p \in Procs : Disciplined(p)) /\ OneRotation
  BY IdleType DEF Init, Disciplined, OneRotation, InRotation
<1> QED BY <1>1, <1>2, <1>3 DEF IInv

LEMMA NextIInv == IInv /\ [Next]_vars => IInv'
<1> SUFFICES ASSUME IInv, [Next]_vars PROVE IInv'
  OBVIOUS
<1>1. ASSUME NEW p \in Procs, Begin(p) \/ Timeout(p) \/ Crash(p) PROVE IInv'
  BY <1>1, BeginInv, TimeoutInv, CrashInv
<1>2. ASSUME NEW p \in Procs, Run(p) PROVE IInv'
  <2>1. CASE ensure_signed_out(p) \/ LoadFirst(p)
    BY <2>1, StartInv
  <2>2. CASE Acquire(p) \/ LoadStored(p) \/ ReceiveRefresh(p) \/ DeleteDead(p) \/ ReleaseLock(p)
    BY <2>2, AcquireInv, LoadStoredInv, ReceiveRefreshInv, DeleteDeadInv, ReleaseLockInv
  <2>3. CASE SaveSession(p) \/ ReceiveUndo(p) \/ ReceiveExchange(p) \/ DeleteCredential(p)
    BY <2>3, SaveSessionInv, ReceiveUndoInv, ReceiveExchangeInv, DeleteCredentialInv
  <2>4. CASE ReceiveCall(p) \/ ReceiveDevices(p) \/ ReceiveDeviceRevoked(p) \/ ReceiveRevoked(p)
    BY <2>4, ReceiveOthersInv
  <2>5. CASE Send(p) \/ DiscoveryFails(p)
    BY <2>5, SendInv, DiscoveryFailsInv
  <2> QED BY <1>2, <2>1, <2>2, <2>3, <2>4, <2>5 DEF Run
<1>3. ASSUME NEW m \in network, Service(m) PROVE IInv'
  BY <1>3, ServiceInv
<1>4. ASSUME NEW f \in Families, WebRevoke(f) PROVE IInv'
  BY <1>4, WebRevokeInv
<1>5. CASE UNCHANGED vars
  BY <1>5 DEF vars, IInv, TypeOK, RefreshesInFlight, Disciplined, OneRotation, InRotation
<1> QED BY <1>1, <1>2, <1>3, <1>4, <1>5 DEF Next

LEMMA Inductive == Spec => []IInv
BY InitIInv, NextIInv, PTL DEF Spec

\* Every credential, request and answer is one its reader understands, and no
\* refresh request is made of an empty store: LoadStored tests the store after
\* RefreshLock::acquire, whatever was deleted while it waited.
THEOREM SessionsStayReadable == Spec => []TypeOK
<1>1. IInv => TypeOK
  BY DEF IInv
<1> QED BY Inductive, <1>1, PTL

\* For any number of invocations, with timeouts, late answers and deaths, only
\* the holder of RefreshLock is between loading a refresh token and settling
\* what becomes of it.
THEOREM RotationIsExclusive == Spec => []OneRotation
<1>1. IInv => OneRotation
  BY DEF IInv
<1> QED BY Inductive, <1>1, PTL

=============================================================================

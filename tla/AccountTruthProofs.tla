------------------------- MODULE AccountTruthProofs -------------------------
(***************************************************************************)
(* That what the account client reports is true, that a dead credential    *)
(* stays dropped, and that no refresh token is presented twice: for every  *)
(* set of invocations and token families and, but for the faults named     *)
(* with a theorem, whatever goes wrong.                                    *)
(***************************************************************************)
EXTENDS AccountSessionProofs

\* A process has at most one request on its way, the one it awaits the answer
\* of; what it gave up waiting for is nobody's.
Mail(p) ==
    \A m \in network : m.from = p =>
      /\ proc[p].pc = "await" /\ proc[p].reply = NoReply
      /\ m.kind = proc[p].asking /\ m.token = Token(p)
      /\ \A n \in network : n.from = p => n = m

\* p goes on with the session that refresh_access obtained.
Obtained(p) ==
    \/ proc[p].pc = "save" /\ proc[p].asking = "refresh"
    \/ /\ proc[p].pc \in {"send", "await"}
       /\ proc[p].asking \in {"call", "list_devices", "revoke_device", "revoke"}
    \/ proc[p].pc \in {"send", "await"} /\ proc[p].asking = "undo" /\ proc[p].command # "login"
    \/ proc[p].pc = "release" /\ proc[p].result = "active"

\* What p holds where: the session it goes on with is of the family it held.
Knows(p) ==
    /\ proc[p].pc \in {"send", "await", "save"} /\ proc[p].asking = "refresh" =>
         proc[p].held \in Credential
    /\ proc[p].pc = "await" /\ proc[p].reply.status = "session" =>
         proc[p].reply.credential \in Credential
    /\ proc[p].pc = "save" => proc[p].session \in Credential
    /\ proc[p].pc \in {"send", "await"} /\ proc[p].asking = "undo" => proc[p].session \in Credential
    /\ Obtained(p) => /\ proc[p].session \in Credential /\ proc[p].held \in Credential
                      /\ proc[p].session.family = proc[p].held.family
    /\ proc[p].pc \in {"ensure_signed_out", "load", "acquire", "load_stored"} =>
         proc[p].result = "none"
    /\ proc[p].pc = "delete_dead" => proc[p].result \in {"dead", "store_failure"}
    /\ proc[p].pc = "delete" => proc[p].result \in {"none", "device_revoked", "remote_revoked"}
    /\ proc[p].pc = "release" => proc[p].result \in {"active", "error", "offline", "dead", "store_failure"}

\* The service has revoked f.
Gone(f) == f \in Families /\ Dead(f)

\* What p has been told, and what it goes on to say, is so.
Truthful(p) ==
    /\ /\ proc[p].pc = "await" /\ proc[p].asking = "refresh"
       /\ proc[p].reply.status \in {"token_reuse", "session_revoked"}
       => Gone(proc[p].held.family)
    /\ proc[p].pc = "await" /\ proc[p].asking = "revoke" /\ proc[p].reply.status = "ok"
       => Gone(proc[p].session.family)
    /\ proc[p].pc = "await" /\ proc[p].asking = "revoke_device" /\ proc[p].reply.status = "ok"
       => \A d \in proc[p].reply.devices : Gone(d)
    /\ proc[p].pc \in {"delete_dead", "release", "done"} /\ proc[p].result = "dead"
       => Gone(proc[p].held.family)
    /\ proc[p].pc \in {"delete", "done"} /\ proc[p].result = "remote_revoked"
       => Gone(proc[p].held.family)

\* The devices a logout_all has come to are revoked.
Revoked(p) ==
    proc[p].command = "logout_all" =>
      /\ proc[p].pc \in {"send", "await"} /\ proc[p].asking = "revoke_device"
         => \A d \in proc[p].listed \ proc[p].todo : Gone(d)
      /\ proc[p].pc \in {"send", "await"} /\ proc[p].asking = "revoke"
         => \A d \in proc[p].listed : Gone(d)
      /\ proc[p].pc \in {"delete", "done"} /\ proc[p].result = "remote_revoked"
         => \A d \in proc[p].listed : Gone(d)

TInv == IInv /\ \A p \in Procs : Mail(p) /\ Knows(p) /\ Truthful(p) /\ Revoked(p)

-----------------------------------------------------------------------------
(* The building blocks of the actions, field by field.                     *)

LEMMA ProcStep ==
    ASSUME TypeOK, NEW p \in Procs, NEW c \in ProcType, proc' = [proc EXCEPT ![p] = c]
    PROVE  Moves(p) /\ proc'[p] = c
BY DEF TypeOK, Moves

LEMMA GotoDoes ==
    ASSUME TypeOK, NEW p \in Procs, NEW pc \in PCs, Goto(p, pc)
    PROVE  /\ Moves(p) /\ proc'[p].pc = pc
           /\ proc'[p].command = proc[p].command /\ proc'[p].asking = proc[p].asking
           /\ proc'[p].held = proc[p].held /\ proc'[p].session = proc[p].session
           /\ proc'[p].todo = proc[p].todo /\ proc'[p].listed = proc[p].listed
           /\ proc'[p].reply = proc[p].reply /\ proc'[p].result = proc[p].result
<1> DEFINE moved == [proc[p] EXCEPT !.pc = pc]
<1>1. proc[p] \in ProcType /\ proc' = [proc EXCEPT ![p] = moved]
  BY DEF Goto, TypeOK
<1>2. moved \in ProcType
  BY <1>1 DEF ProcType
<1>3. Moves(p) /\ proc'[p] = moved
  BY <1>1, <1>2, ProcStep
<1> QED BY <1>1, <1>3 DEF ProcType

LEMMA AskDoes ==
    ASSUME TypeOK, NEW p \in Procs, NEW kind \in Kinds, Ask(p, kind)
    PROVE  /\ Moves(p) /\ proc'[p].pc = "send" /\ proc'[p].asking = kind
           /\ proc'[p].command = proc[p].command
           /\ proc'[p].held = proc[p].held /\ proc'[p].session = proc[p].session
           /\ proc'[p].todo = proc[p].todo /\ proc'[p].listed = proc[p].listed
           /\ proc'[p].reply = NoReply /\ proc'[p].result = proc[p].result
<1> DEFINE moved == [proc[p] EXCEPT !.pc = "send", !.asking = kind, !.reply = NoReply]
<1>1. proc[p] \in ProcType /\ proc' = [proc EXCEPT ![p] = moved]
  BY DEF Ask, TypeOK
<1>2. moved \in ProcType
  BY <1>1, ReplyTypes DEF ProcType, PCs
<1>3. Moves(p) /\ proc'[p] = moved
  BY <1>1, <1>2, ProcStep
<1>4. /\ moved.pc = "send" /\ moved.reply = NoReply
      /\ moved.asking = kind /\ moved.result = proc[p].result /\ moved.session = proc[p].session
      /\ moved.command = proc[p].command /\ moved.held = proc[p].held
      /\ moved.todo = proc[p].todo /\ moved.listed = proc[p].listed
  BY <1>1 DEF ProcType
<1> HIDE DEF moved
<1> QED BY <1>3, <1>4

LEMMA SaveDoes ==
    ASSUME TypeOK, NEW p \in Procs, NEW session \in Stored, Save(p, session)
    PROVE  /\ Moves(p) /\ proc'[p].pc = "save" /\ proc'[p].session = session
           /\ proc'[p].command = proc[p].command /\ proc'[p].asking = proc[p].asking
           /\ proc'[p].held = proc[p].held
           /\ proc'[p].todo = proc[p].todo /\ proc'[p].listed = proc[p].listed
           /\ proc'[p].reply = NoReply /\ proc'[p].result = proc[p].result
<1> DEFINE moved == [proc[p] EXCEPT !.pc = "save", !.session = session, !.reply = NoReply]
<1>1. proc[p] \in ProcType /\ proc' = [proc EXCEPT ![p] = moved]
  BY DEF Save, TypeOK
<1>2. moved \in ProcType
  BY <1>1, ReplyTypes DEF ProcType, PCs
<1>3. Moves(p) /\ proc'[p] = moved
  BY <1>1, <1>2, ProcStep
<1>4. /\ moved.pc = "save" /\ moved.reply = NoReply
      /\ moved.asking = proc[p].asking /\ moved.result = proc[p].result /\ moved.session = session
      /\ moved.command = proc[p].command /\ moved.held = proc[p].held
      /\ moved.todo = proc[p].todo /\ moved.listed = proc[p].listed
  BY <1>1 DEF ProcType
<1> HIDE DEF moved
<1> QED BY <1>3, <1>4

LEMMA ReleaseDoes ==
    ASSUME TypeOK, NEW p \in Procs, NEW result \in Results, Release(p, result)
    PROVE  /\ Moves(p) /\ proc'[p].pc = "release" /\ proc'[p].result = result
           /\ proc'[p].command = proc[p].command /\ proc'[p].asking = proc[p].asking
           /\ proc'[p].held = proc[p].held /\ proc'[p].session = proc[p].session
           /\ proc'[p].todo = proc[p].todo /\ proc'[p].listed = proc[p].listed
           /\ proc'[p].reply = NoReply
<1> DEFINE moved == [proc[p] EXCEPT !.pc = "release", !.result = result, !.reply = NoReply]
<1>1. proc[p] \in ProcType /\ proc' = [proc EXCEPT ![p] = moved]
  BY DEF Release, TypeOK
<1>2. moved \in ProcType
  BY <1>1, ReplyTypes DEF ProcType, PCs
<1>3. Moves(p) /\ proc'[p] = moved
  BY <1>1, <1>2, ProcStep
<1>4. /\ moved.pc = "release" /\ moved.reply = NoReply
      /\ moved.asking = proc[p].asking /\ moved.result = result /\ moved.session = proc[p].session
      /\ moved.command = proc[p].command /\ moved.held = proc[p].held
      /\ moved.todo = proc[p].todo /\ moved.listed = proc[p].listed
  BY <1>1 DEF ProcType
<1> HIDE DEF moved
<1> QED BY <1>3, <1>4

LEMMA IdleFields ==
    /\ Idle \in ProcType /\ Idle.pc = "done" /\ Idle.command = "none" /\ Idle.asking = "none"
    /\ Idle.held = NoCredential /\ Idle.session = NoCredential /\ Idle.todo = {}
    /\ Idle.listed = {} /\ Idle.reply = NoReply /\ Idle.result = "none"
BY IdleType DEF Idle

LEMMA EndDoes ==
    ASSUME TypeOK, NEW p \in Procs, NEW result \in Results, End(p, result)
    PROVE  /\ Moves(p) /\ proc'[p].pc = "done" /\ proc'[p].result = result
           /\ proc'[p].command = proc[p].command /\ proc'[p].asking = "none"
           /\ proc'[p].held = IF result \in {"dead", "remote_revoked"} THEN proc[p].held
                              ELSE NoCredential
           /\ proc'[p].session = IF result = "store_failure" THEN proc[p].session ELSE NoCredential
           /\ proc'[p].listed = IF result = "remote_revoked" THEN proc[p].listed ELSE {}
           /\ proc'[p].reply = NoReply
<1> DEFINE held == IF result \in {"dead", "remote_revoked"} THEN proc[p].held ELSE NoCredential
           listed == IF result = "remote_revoked" THEN proc[p].listed ELSE {}
           session == IF result = "store_failure" THEN proc[p].session ELSE NoCredential
           ended == [Idle EXCEPT !.command = proc[p].command, !.result = result,
                                 !.held = held, !.listed = listed, !.session = session]
<1>1. proc[p] \in ProcType
  BY DEF TypeOK
<1>2. /\ held \in Stored /\ session \in Stored
      /\ listed \in SUBSET Families
      /\ proc[p].command \in AllCommands \cup {"none"}
  BY <1>1 DEF ProcType, Stored
<1>3. proc' = [proc EXCEPT ![p] = ended]
  BY IdleFields DEF End
<1> HIDE DEF held, listed, session
<1>4. ended \in ProcType
  BY <1>2, IdleFields DEF ProcType
<1>5. Moves(p) /\ proc'[p] = ended
  BY <1>3, <1>4, ProcStep
<1>6. /\ ended.pc = "done" /\ ended.result = result /\ ended.command = proc[p].command
      /\ ended.asking = "none" /\ ended.held = held /\ ended.session = session
      /\ ended.listed = listed /\ ended.reply = NoReply
  BY IdleFields DEF ProcType
<1> QED BY <1>5, <1>6 DEF held, listed, session

\* A deletion is decided on; the rest of the command is as it was.
LEMMA DeletingDoes ==
    ASSUME TypeOK, NEW p \in Procs, NEW pc \in PCs, NEW result \in Results,
           proc' = [proc EXCEPT ![p].pc = pc, ![p].result = result]
    PROVE  /\ Moves(p) /\ proc'[p].pc = pc /\ proc'[p].result = result
           /\ proc'[p].command = proc[p].command /\ proc'[p].asking = proc[p].asking
           /\ proc'[p].held = proc[p].held /\ proc'[p].session = proc[p].session
           /\ proc'[p].listed = proc[p].listed
<1> DEFINE moved == [proc[p] EXCEPT !.pc = pc, !.result = result]
<1>1. proc[p] \in ProcType /\ proc' = [proc EXCEPT ![p] = moved]
  BY DEF TypeOK
<1>2. moved \in ProcType
  BY <1>1 DEF ProcType
<1>3. Moves(p) /\ proc'[p] = moved
  BY <1>1, <1>2, ProcStep
<1> QED BY <1>1, <1>3 DEF ProcType

LEMMA UndoneDoes ==
    ASSUME TypeOK, NEW p \in Procs, Undone(p)
    PROVE  /\ Moves(p) /\ proc'[p].pc = "delete_dead" /\ proc'[p].result = "store_failure"
           /\ proc'[p].asking = proc[p].asking /\ proc'[p].held = proc[p].held
           /\ proc'[p].session = proc[p].session
<1>1. "delete_dead" \in PCs /\ "store_failure" \in Results
  BY DEF PCs, Results
<1>2. proc' = [proc EXCEPT ![p].pc = "delete_dead", ![p].result = "store_failure"]
  BY DEF Undone
<1> QED BY <1>1, <1>2, DeletingDoes

-----------------------------------------------------------------------------
(* Steps that concern one process alone.                                   *)

\* Whoever awaits no answer has no request on its way.
LEMMA NothingSent ==
    ASSUME NEW p \in Procs, Mail(p), proc[p].pc # "await" \/ proc[p].reply # NoReply
    PROVE  Mine(p) = {}
BY DEF Mail, Mine

\* A step of p leaves what the others know, have been told and have sent.
LEMMA OthersMail ==
    ASSUME TInv, NEW p \in Procs, Moves(p), NEW q \in Procs \ {p},
           {m \in network' : m.from = q} \subseteq {m \in network : m.from = q}
    PROVE  Mail(q)'
<1>1. proc'[q] = proc[q] /\ Mail(q)
  BY DEF Moves, TInv
<1> QED BY <1>1 DEF Mail, Token

LEMMA OthersTruth ==
    ASSUME TInv, NEW p \in Procs, Moves(p), UNCHANGED service, NEW q \in Procs \ {p}
    PROVE  Knows(q)' /\ Truthful(q)' /\ Revoked(q)'
<1>1. proc'[q] = proc[q] /\ Knows(q) /\ Truthful(q) /\ Revoked(q)
  BY DEF Moves, TInv
<1>2. \A f : Gone(f)' <=> Gone(f)
  BY DEF Gone, Dead
<1>3. Knows(q)'
  BY <1>1 DEF Knows, Obtained
<1> QED BY <1>1, <1>2, <1>3 DEF Truthful, Revoked

LEMMA LocalTruth ==
    ASSUME TInv, NEW p \in Procs, Moves(p), UNCHANGED <<service, network>>,
           proc[p].pc # "await" \/ proc[p].reply # NoReply,
           IInv', Knows(p)', Truthful(p)', Revoked(p)'
    PROVE  TInv'
<1>1. Mine(p) = {}
  BY NothingSent DEF TInv
<1>2. Mail(p)'
  BY <1>1 DEF Mine, Mail
<1>3. ASSUME NEW q \in Procs \ {p} PROVE Mail(q)' /\ Knows(q)' /\ Truthful(q)' /\ Revoked(q)'
  BY OthersMail, OthersTruth
<1> QED BY <1>2, <1>3 DEF TInv

LEMMA EndTruth ==
    ASSUME TInv, NEW p \in Procs, NEW result \in Results, End(p, result),
           UNCHANGED <<service, network>>, IInv',
           proc[p].pc # "await" \/ proc[p].reply # NoReply,
           result \in {"dead", "remote_revoked"} => Gone(proc[p].held.family),
           result = "remote_revoked" /\ proc[p].command = "logout_all"
             => \A d \in proc[p].listed : Gone(d)
    PROVE  TInv'
<1>1. /\ Moves(p) /\ proc'[p].pc = "done" /\ proc'[p].result = result
      /\ proc'[p].command = proc[p].command
      /\ result \in {"dead", "remote_revoked"} => proc'[p].held = proc[p].held
      /\ result = "remote_revoked" => proc'[p].listed = proc[p].listed
  BY EndDoes DEF TInv, IInv
<1>2. \A f : Gone(f)' <=> Gone(f)
  BY DEF Gone, Dead
<1>3. Knows(p)'
  BY <1>1 DEF Knows, Obtained
<1>4. Truthful(p)' /\ Revoked(p)'
  BY <1>1, <1>2 DEF Truthful, Revoked
<1> QED BY <1>1, <1>3, <1>4, LocalTruth

\* Going back to refresh_access's caller, with or without a session.
LEMMA ReleaseTruth ==
    ASSUME TInv, NEW p \in Procs, NEW result \in {"active", "error", "offline"}, Release(p, result),
           UNCHANGED <<service, network>>, IInv',
           proc[p].pc # "await" \/ proc[p].reply # NoReply,
           result = "active" => Obtained(p)
    PROVE  TInv'
<1>1. /\ Moves(p) /\ proc'[p].pc = "release" /\ proc'[p].result = result
      /\ proc'[p].held = proc[p].held /\ proc'[p].session = proc[p].session
  BY ReleaseDoes DEF TInv, IInv, Results
<1>2. Knows(p)'
  BY <1>1 DEF TInv, Knows, Obtained
<1>3. Truthful(p)' /\ Revoked(p)'
  BY <1>1 DEF Truthful, Revoked
<1> QED BY <1>1, <1>2, <1>3, LocalTruth

-----------------------------------------------------------------------------
(* Each action keeps it.                                                   *)

LEMMA BeginDoes ==
    ASSUME TypeOK, NEW p \in Procs, Begin(p)
    PROVE  /\ Moves(p) /\ proc[p].pc = "done"
           /\ proc'[p].pc \in {"ensure_signed_out", "acquire", "load"}
           /\ proc'[p].result = "none" /\ proc'[p].asking = "none"
           /\ proc'[p].held = NoCredential /\ proc'[p].reply = NoReply
           /\ UNCHANGED <<store, lock, service, network>>
<1>1. /\ proc[p].pc = "done" /\ UNCHANGED <<store, lock, service, network>>
      /\ \E c \in Commands : \E device \in OneOf(IF c = "revoke_device" THEN Families ELSE {}) :
           proc' = [proc EXCEPT ![p] =
             [Idle EXCEPT !.command = c, !.todo = device,
                          !.pc = CASE c = "login" -> "ensure_signed_out"
                                   [] c \in {"use", "revoke_device"} -> "acquire"
                                   [] OTHER -> "load"]]
  BY DEF Begin
<1>2. PICK c \in Commands, device \in SUBSET Families, pc \in {"ensure_signed_out", "acquire", "load"} :
        proc' = [proc EXCEPT ![p] = [Idle EXCEPT !.command = c, !.todo = device, !.pc = pc]]
  <2>1. PICK c \in Commands : \E device \in OneOf(IF c = "revoke_device" THEN Families ELSE {}) :
           proc' = [proc EXCEPT ![p] =
             [Idle EXCEPT !.command = c, !.todo = device,
                          !.pc = CASE c = "login" -> "ensure_signed_out"
                                   [] c \in {"use", "revoke_device"} -> "acquire"
                                   [] OTHER -> "load"]]
    BY <1>1
  <2>2. PICK device \in OneOf(IF c = "revoke_device" THEN Families ELSE {}) :
           proc' = [proc EXCEPT ![p] =
             [Idle EXCEPT !.command = c, !.todo = device,
                          !.pc = CASE c = "login" -> "ensure_signed_out"
                                   [] c \in {"use", "revoke_device"} -> "acquire"
                                   [] OTHER -> "load"]]
    BY <2>1
  <2> DEFINE pc == CASE c = "login" -> "ensure_signed_out"
                     [] c \in {"use", "revoke_device"} -> "acquire"
                     [] OTHER -> "load"
  <2>3. device \in SUBSET Families /\ pc \in {"ensure_signed_out", "acquire", "load"}
    BY DEF OneOf
  <2>4. proc' = [proc EXCEPT ![p] = [Idle EXCEPT !.command = c, !.todo = device, !.pc = pc]]
    BY <2>2
  <2> HIDE DEF pc
  <2> QED BY <2>3, <2>4
<1> DEFINE begun == [Idle EXCEPT !.command = c, !.todo = device, !.pc = pc]
<1>3. c \in AllCommands /\ pc \in PCs
  BY AccountAssumption DEF PCs
<1>4. /\ begun \in ProcType /\ begun.pc = pc /\ begun.result = "none" /\ begun.asking = "none"
      /\ begun.held = NoCredential /\ begun.reply = NoReply
  BY <1>3, IdleFields DEF ProcType
<1> HIDE DEF begun
<1>5. Moves(p) /\ proc'[p] = begun
  BY <1>2, <1>4, ProcStep DEF begun
<1> QED BY <1>1, <1>4, <1>5

LEMMA BeginTruth ==
    ASSUME TInv, NEW p \in Procs, Begin(p), IInv'
    PROVE  TInv'
<1>1. /\ Moves(p) /\ proc[p].pc = "done"
      /\ proc'[p].pc \in {"ensure_signed_out", "acquire", "load"}
      /\ proc'[p].result = "none" /\ UNCHANGED <<service, network>>
  BY BeginDoes DEF TInv, IInv
<1>2. Knows(p)' /\ Truthful(p)' /\ Revoked(p)'
  BY <1>1 DEF Knows, Obtained, Truthful, Revoked
<1> QED BY <1>1, <1>2, LocalTruth

LEMMA StartTruth ==
    ASSUME TInv, NEW p \in Procs, ensure_signed_out(p) \/ LoadFirst(p), IInv'
    PROVE  TInv'
<1>1. /\ UNCHANGED <<service, network>> /\ proc[p].pc \in {"ensure_signed_out", "load"}
      /\ proc[p].result = "none"
  BY DEF ensure_signed_out, LoadFirst, TInv, Knows
<1>2. CASE End(p, "already_signed_in") \/ End(p, "signed_out") \/ End(p, "error")
  BY <1>1, <1>2, EndTruth DEF Results
<1>3. CASE Ask(p, "exchange")
  <2>1. Moves(p) /\ proc'[p].pc = "send" /\ proc'[p].asking = "exchange"
    BY <1>3, AskDoes DEF TInv, IInv, Kinds
  <2>2. Knows(p)' /\ Truthful(p)' /\ Revoked(p)'
    BY <2>1 DEF Knows, Obtained, Truthful, Revoked
  <2> QED BY <1>1, <2>1, <2>2, LocalTruth
<1>4. CASE Goto(p, IF proc[p].command = "local_only" THEN "delete" ELSE "acquire")
  <2>1. PICK pc \in {"delete", "acquire"} : Goto(p, pc)
    BY <1>4
  <2>2. Moves(p) /\ proc'[p].pc = pc /\ proc'[p].result = "none"
    BY <1>1, <2>1, GotoDoes DEF TInv, IInv, PCs
  <2>3. Knows(p)' /\ Truthful(p)' /\ Revoked(p)'
    BY <2>2 DEF Knows, Obtained, Truthful, Revoked
  <2> QED BY <1>1, <2>2, <2>3, LocalTruth
<1> QED BY <1>2, <1>3, <1>4 DEF ensure_signed_out, LoadFirst

LEMMA AcquireTruth ==
    ASSUME TInv, NEW p \in Procs, Acquire(p), IInv'
    PROVE  TInv'
<1>1. UNCHANGED <<service, network>> /\ proc[p].pc = "acquire" /\ proc[p].result = "none"
  BY DEF Acquire, TInv, Knows
<1>2. CASE Goto(p, "load_stored")
  <2>1. Moves(p) /\ proc'[p].pc = "load_stored" /\ proc'[p].result = "none"
    BY <1>1, <1>2, GotoDoes DEF TInv, IInv, PCs
  <2>2. Knows(p)' /\ Truthful(p)' /\ Revoked(p)'
    BY <2>1 DEF Knows, Obtained, Truthful, Revoked
  <2> QED BY <1>1, <2>1, <2>2, LocalTruth
<1>3. CASE End(p, "lock_unavailable")
  BY <1>1, <1>3, EndTruth DEF Results
<1> QED BY <1>2, <1>3 DEF Acquire

LEMMA LoadStoredDoes ==
    ASSUME TypeOK, NEW p \in Procs, LoadStored(p)
    PROVE  /\ proc[p].pc = "load_stored" /\ UNCHANGED <<store, lock, service, network>>
           /\ \/ Release(p, "error")
              \/ /\ Moves(p) /\ proc'[p].pc = "send" /\ proc'[p].asking = "refresh"
                 /\ store \in Credential /\ proc'[p].held = store
                 /\ proc'[p].command = proc[p].command /\ proc'[p].session = proc[p].session
                 /\ proc'[p].result = proc[p].result /\ proc'[p].reply = proc[p].reply
<1>1. proc[p].pc = "load_stored" /\ UNCHANGED <<store, lock, service, network>>
  BY DEF LoadStored
<1>2. CASE /\ store # NoCredential
           /\ proc' = [proc EXCEPT ![p].pc = "send", ![p].asking = "refresh", ![p].held = store]
  <2> DEFINE moved == [proc[p] EXCEPT !.pc = "send", !.asking = "refresh", !.held = store]
  <2>1. proc' = [proc EXCEPT ![p] = moved] /\ proc[p] \in ProcType /\ store \in Stored
    BY <1>2 DEF TypeOK
  <2>2. moved \in ProcType
    BY <2>1 DEF ProcType, PCs, Kinds
  <2>3. Moves(p) /\ proc'[p] = moved
    BY <2>1, <2>2, ProcStep
  <2>4. /\ moved.pc = "send" /\ moved.asking = "refresh" /\ moved.held = store
        /\ moved.command = proc[p].command /\ moved.session = proc[p].session
        /\ moved.result = proc[p].result /\ moved.reply = proc[p].reply
    BY <2>1 DEF ProcType
  <2> HIDE DEF moved
  <2> QED BY <1>1, <1>2, <2>1, <2>3, <2>4 DEF Stored
<1> QED BY <1>1, <1>2 DEF LoadStored

LEMMA LoadStoredTruth ==
    ASSUME TInv, NEW p \in Procs, LoadStored(p), IInv'
    PROVE  TInv'
<1>1. /\ proc[p].pc = "load_stored" /\ UNCHANGED <<service, network>>
      /\ \/ Release(p, "error")
         \/ /\ Moves(p) /\ proc'[p].pc = "send" /\ proc'[p].asking = "refresh"
            /\ store \in Credential /\ proc'[p].held = store
  BY LoadStoredDoes DEF TInv, IInv
<1>2. CASE Release(p, "error")
  BY <1>1, <1>2, ReleaseTruth
<1>3. CASE ~Release(p, "error")
  <2>1. Knows(p)' /\ Truthful(p)' /\ Revoked(p)'
    BY <1>1, <1>3 DEF Knows, Obtained, Truthful, Revoked
  <2> QED BY <1>1, <1>3, <2>1, LocalTruth
<1> QED BY <1>2, <1>3

LEMMA NoCredentialIsNone == NoCredential \notin Credential
<1>1. Credential \subseteq [family : Families, generation : Nat]
  BY AccountAssumption DEF Credential
<1> QED BY <1>1, AccountAssumption

LEMMA NoReplyIsNone == NoReply.status = "none" /\ NoReply.devices = {}
BY DEF NoReply

LEMMA ReceiveRefreshTruth ==
    ASSUME TInv, NEW p \in Procs, ReceiveRefresh(p), IInv'
    PROVE  TInv'
<1>1. /\ proc[p].pc = "await" /\ proc[p].asking = "refresh" /\ UNCHANGED <<service, network>>
      /\ proc[p].reply.status \in {"session", "token_reuse", "session_revoked", "offline"}
  BY DEF ReceiveRefresh
<1>2. proc[p].reply # NoReply /\ proc[p].held \in Credential
  BY <1>1, NoReplyIsNone DEF TInv, Knows
<1>3. CASE /\ proc[p].reply.status = "session" /\ validate_session(proc[p].reply, proc[p].held)
           /\ Save(p, proc[p].reply.credential)
  <2>1. /\ proc[p].reply.credential \in Credential
        /\ proc[p].reply.credential.family = proc[p].held.family
    BY <1>1, <1>2, <1>3, NoCredentialIsNone DEF TInv, Knows, validate_session
  <2>2. /\ Moves(p) /\ proc'[p].pc = "save" /\ proc'[p].session = proc[p].reply.credential
        /\ proc'[p].held = proc[p].held
    BY <1>3, <2>1, SaveDoes DEF TInv, IInv, Stored
  <2>3. Knows(p)' /\ Truthful(p)' /\ Revoked(p)'
    BY <1>2, <2>1, <2>2 DEF Knows, Obtained, Truthful, Revoked
  <2> QED BY <1>1, <1>2, <2>2, <2>3, LocalTruth
<1>4. CASE Release(p, "error") \/ Release(p, "offline")
  BY <1>1, <1>2, <1>4, ReleaseTruth
<1>5. CASE /\ proc[p].reply.status \in {"token_reuse", "session_revoked"}
           /\ proc' = [proc EXCEPT ![p].pc = "delete_dead", ![p].result = "dead"]
  <2>1. Gone(proc[p].held.family)
    BY <1>1, <1>5 DEF TInv, Truthful
  <2>2. /\ Moves(p) /\ proc'[p].pc = "delete_dead" /\ proc'[p].result = "dead"
        /\ proc'[p].held = proc[p].held
    BY <1>5, DeletingDoes DEF TInv, IInv, PCs, Results
  <2>3. Knows(p)' /\ Truthful(p)' /\ Revoked(p)'
    BY <1>1, <2>1, <2>2 DEF Knows, Obtained, Truthful, Revoked, Gone, Dead
  <2> QED BY <1>1, <1>2, <2>2, <2>3, LocalTruth
<1> QED BY <1>3, <1>4, <1>5 DEF ReceiveRefresh

LEMMA DeleteDeadTruth ==
    ASSUME TInv, NEW p \in Procs, DeleteDead(p), IInv'
    PROVE  TInv'
<1>1. /\ proc[p].pc = "delete_dead" /\ UNCHANGED <<service, network>>
      /\ proc[p].result \in {"dead", "store_failure"}
      /\ proc[p].result = "dead" => Gone(proc[p].held.family)
  BY DEF DeleteDead, TInv, Knows, Truthful
<1>2. /\ Moves(p) /\ proc'[p].pc = "release" /\ proc'[p].result = proc[p].result
      /\ proc'[p].held = proc[p].held
  BY GotoDoes DEF DeleteDead, TInv, IInv, PCs
<1>3. Knows(p)' /\ Truthful(p)' /\ Revoked(p)'
  BY <1>1, <1>2 DEF Knows, Obtained, Truthful, Revoked, Gone, Dead
<1> QED BY <1>1, <1>2, <1>3, LocalTruth

\* What the caller of refresh_access goes on with.
LEMMA ReleaseLockDoes ==
    ASSUME TypeOK, NEW p \in Procs, Disciplined(p), ReleaseLock(p)
    PROVE  /\ proc[p].pc = "release" /\ UNCHANGED <<store, service, network>>
           /\ \/ /\ proc[p].result = "active"
                 /\ \E kind \in {"call", "revoke", "list_devices", "revoke_device"} :
                      /\ Ask(p, kind)
                      /\ proc[p].command = "logout_all" => kind = "list_devices"
              \/ /\ proc[p].result = "dead" /\ proc[p].command = "logout"
                 /\ proc' = [proc EXCEPT ![p].pc = "delete", ![p].result = "remote_revoked"]
              \/ proc[p].result = "offline" /\ End(p, "unconfirmed")
              \/ End(p, proc[p].result)
<1>1. proc[p].pc = "release" /\ UNCHANGED <<store, service, network>>
  BY DEF ReleaseLock
<1>2. proc[p].command \in Refreshers
  BY <1>1 DEF Disciplined
<1>3. CASE proc[p].result = "active"
  <2> DEFINE kind == CASE proc[p].command \in {"status", "use"} -> "call"
                       [] proc[p].command = "logout" -> "revoke"
                       [] proc[p].command = "logout_all" -> "list_devices"
                       [] proc[p].command = "revoke_device" -> "revoke_device"
  <2>1. /\ kind \in {"call", "revoke", "list_devices", "revoke_device"}
        /\ proc[p].command = "logout_all" => kind = "list_devices"
    BY <1>2 DEF Refreshers
  <2>2. Ask(p, kind)
    BY <1>3 DEF ReleaseLock
  <2> HIDE DEF kind
  <2> QED BY <1>1, <1>3, <2>1, <2>2
<1>4. CASE proc[p].result # "active"
  BY <1>1, <1>4 DEF ReleaseLock
<1> QED BY <1>3, <1>4

LEMMA ReleaseLockTruth ==
    ASSUME TInv, NEW p \in Procs, ReleaseLock(p), IInv'
    PROVE  TInv'
<1>1. TypeOK /\ Disciplined(p)
  BY DEF TInv, IInv
<1>2. /\ proc[p].pc = "release" /\ UNCHANGED <<service, network>> /\ proc[p].result \in Results
      /\ \/ /\ proc[p].result = "active"
            /\ \E kind \in {"call", "revoke", "list_devices", "revoke_device"} :
                 /\ Ask(p, kind)
                 /\ proc[p].command = "logout_all" => kind = "list_devices"
         \/ /\ proc[p].result = "dead" /\ proc[p].command = "logout"
            /\ proc' = [proc EXCEPT ![p].pc = "delete", ![p].result = "remote_revoked"]
         \/ proc[p].result = "offline" /\ End(p, "unconfirmed")
         \/ End(p, proc[p].result)
  BY <1>1, ReleaseLockDoes DEF TypeOK, ProcType
<1>3. ASSUME proc[p].result = "active",
             NEW kind \in {"call", "revoke", "list_devices", "revoke_device"}, Ask(p, kind),
             proc[p].command = "logout_all" => kind = "list_devices"
      PROVE  TInv'
  <2>1. /\ Moves(p) /\ proc'[p].pc = "send" /\ proc'[p].asking = kind
        /\ proc'[p].command = proc[p].command
        /\ proc'[p].held = proc[p].held /\ proc'[p].session = proc[p].session
    BY <1>1, <1>3, AskDoes DEF Kinds
  <2>2. Knows(p)'
    BY <1>2, <1>3, <2>1 DEF TInv, Knows, Obtained
  <2>3. Truthful(p)' /\ Revoked(p)'
    BY <1>3, <2>1 DEF Truthful, Revoked
  <2> QED BY <1>2, <2>1, <2>2, <2>3, LocalTruth
<1>4. CASE /\ proc[p].result = "dead" /\ proc[p].command = "logout"
           /\ proc' = [proc EXCEPT ![p].pc = "delete", ![p].result = "remote_revoked"]
  <2>1. Gone(proc[p].held.family)
    BY <1>2, <1>4 DEF TInv, Truthful
  <2>2. /\ Moves(p) /\ proc'[p].pc = "delete" /\ proc'[p].result = "remote_revoked"
        /\ proc'[p].held = proc[p].held /\ proc'[p].command = "logout"
    BY <1>1, <1>4, DeletingDoes DEF PCs, Results
  <2>3. Knows(p)' /\ Truthful(p)' /\ Revoked(p)'
    BY <1>2, <2>1, <2>2 DEF Knows, Obtained, Truthful, Revoked, Gone, Dead
  <2> QED BY <1>2, <2>2, <2>3, LocalTruth
<1>5. CASE End(p, "unconfirmed")
  BY <1>2, <1>5, EndTruth DEF Results
<1>6. CASE End(p, proc[p].result)
  <2>1. /\ proc[p].result = "dead" => Gone(proc[p].held.family)
        /\ proc[p].result # "remote_revoked"
    BY <1>2 DEF TInv, Truthful, Knows
  <2> QED BY <1>2, <1>6, <2>1, EndTruth
<1> QED BY <1>2, <1>3, <1>4, <1>5, <1>6

LEMMA SaveSessionTruth ==
    ASSUME TInv, NEW p \in Procs, SaveSession(p), IInv'
    PROVE  TInv'
<1>1. /\ proc[p].pc = "save" /\ UNCHANGED <<service, network>>
      /\ IF proc[p].command = "login" THEN End(p, "signed_in") \/ Ask(p, "undo")
         ELSE Release(p, "active") \/ Ask(p, "undo")
  BY DEF SaveSession
<1>2. /\ proc[p].session \in Credential
      /\ proc[p].command # "login" => Obtained(p)
  BY <1>1 DEF TInv, IInv, Disciplined, Knows, Obtained
<1>3. CASE End(p, "signed_in")
  BY <1>1, <1>3, EndTruth DEF Results
<1>4. CASE Release(p, "active") /\ proc[p].command # "login"
  BY <1>1, <1>2, <1>4, ReleaseTruth
<1>5. CASE Ask(p, "undo")
  <2>1. /\ Moves(p) /\ proc'[p].pc = "send" /\ proc'[p].asking = "undo"
        /\ proc'[p].command = proc[p].command
        /\ proc'[p].held = proc[p].held /\ proc'[p].session = proc[p].session
    BY <1>5, AskDoes DEF TInv, IInv, Kinds
  <2>2. Knows(p)'
    BY <1>2, <2>1 DEF TInv, Knows, Obtained
  <2>3. Truthful(p)' /\ Revoked(p)'
    BY <2>1 DEF Truthful, Revoked
  <2> QED BY <1>1, <2>1, <2>2, <2>3, LocalTruth
<1> QED BY <1>1, <1>3, <1>4, <1>5

LEMMA ReceiveUndoTruth ==
    ASSUME TInv, NEW p \in Procs, ReceiveUndo(p), IInv'
    PROVE  TInv'
<1>1. /\ proc[p].pc = "await" /\ proc[p].reply # NoReply /\ UNCHANGED <<service, network>>
      /\ End(p, "store_failure") \/ Undone(p)
  BY DEF ReceiveUndo
<1>2. CASE End(p, "store_failure")
  BY <1>1, <1>2, EndTruth DEF Results
<1>3. CASE Undone(p)
  <2>1. Moves(p) /\ proc'[p].pc = "delete_dead" /\ proc'[p].result = "store_failure"
    BY <1>3, UndoneDoes DEF TInv, IInv
  <2>2. Knows(p)' /\ Truthful(p)' /\ Revoked(p)'
    BY <2>1 DEF Knows, Obtained, Truthful, Revoked
  <2> QED BY <1>1, <2>1, <2>2, LocalTruth
<1> QED BY <1>1, <1>2, <1>3

LEMMA ReceiveExchangeTruth ==
    ASSUME TInv, NEW p \in Procs, ReceiveExchange(p), IInv'
    PROVE  TInv'
<1>1. /\ proc[p].pc = "await" /\ proc[p].asking = "exchange" /\ proc[p].reply # NoReply
      /\ UNCHANGED <<service, network>>
      /\ \/ End(p, "error")
         \/ proc[p].reply.status = "session" /\ Save(p, proc[p].reply.credential)
  BY DEF ReceiveExchange
<1>2. CASE End(p, "error")
  BY <1>1, <1>2, EndTruth DEF Results
<1>3. CASE proc[p].reply.status = "session" /\ Save(p, proc[p].reply.credential)
  <2>1. proc[p].reply.credential \in Credential
    BY <1>1, <1>3 DEF TInv, Knows
  <2>2. /\ Moves(p) /\ proc'[p].pc = "save" /\ proc'[p].session = proc[p].reply.credential
        /\ proc'[p].asking = "exchange"
    BY <1>1, <1>3, <2>1, SaveDoes DEF TInv, IInv, Stored
  <2>3. Knows(p)' /\ Truthful(p)' /\ Revoked(p)'
    BY <2>1, <2>2 DEF Knows, Obtained, Truthful, Revoked
  <2> QED BY <1>1, <2>2, <2>3, LocalTruth
<1> QED BY <1>1, <1>2, <1>3

\* The devices that are left to revoke, and then the session itself.
GoesOn(p, todo, listed) ==
    \/ proc' = [proc EXCEPT ![p].pc = "send", ![p].todo = todo, ![p].listed = listed,
                            ![p].asking = IF todo = {} THEN "revoke" ELSE "revoke_device"]
    \/ /\ proc' = [proc EXCEPT ![p].pc = "send", ![p].todo = todo,
                               ![p].asking = IF todo = {} THEN "revoke" ELSE "revoke_device"]
       /\ proc[p].listed = listed

LEMMA DevicesDoes ==
    ASSUME TypeOK, NEW p \in Procs, NEW todo \in SUBSET Families, NEW listed \in SUBSET Families,
           GoesOn(p, todo, listed)
    PROVE  /\ Moves(p) /\ proc'[p].pc = "send" /\ proc'[p].todo = todo /\ proc'[p].listed = listed
           /\ proc'[p].asking = IF todo = {} THEN "revoke" ELSE "revoke_device"
           /\ proc'[p].command = proc[p].command /\ proc'[p].result = proc[p].result
           /\ proc'[p].held = proc[p].held /\ proc'[p].session = proc[p].session
<1> DEFINE kind == IF todo = {} THEN "revoke" ELSE "revoke_device"
           moved == [proc[p] EXCEPT !.pc = "send", !.todo = todo, !.listed = listed, !.asking = kind]
<1>1. kind \in Kinds
  BY DEF Kinds
<1> HIDE DEF kind
<1>2. proc[p] \in ProcType /\ proc' = [proc EXCEPT ![p] = moved]
  <2>1. proc \in [Procs -> ProcType]
    BY DEF TypeOK
  <2>2. CASE proc' = [proc EXCEPT ![p].pc = "send", ![p].todo = todo, ![p].listed = listed,
                                  ![p].asking = kind]
    BY <2>1, <2>2
  <2>3. CASE /\ proc' = [proc EXCEPT ![p].pc = "send", ![p].todo = todo, ![p].asking = kind]
             /\ proc[p].listed = listed
    <3>1. moved = [proc[p] EXCEPT !.pc = "send", !.todo = todo, !.asking = kind]
      BY <2>1, <2>3 DEF ProcType
    <3> QED BY <2>1, <2>3, <3>1
  <2> QED BY <2>2, <2>3 DEF kind, GoesOn
<1>3. moved \in ProcType
  BY <1>1, <1>2 DEF ProcType, PCs
<1>4. Moves(p) /\ proc'[p] = moved
  BY <1>2, <1>3, ProcStep
<1>5. /\ moved.pc = "send" /\ moved.todo = todo /\ moved.listed = listed /\ moved.asking = kind
      /\ moved.command = proc[p].command /\ moved.result = proc[p].result
      /\ moved.held = proc[p].held /\ moved.session = proc[p].session
  BY <1>2 DEF ProcType
<1> HIDE DEF moved
<1> QED BY <1>4, <1>5 DEF kind

LEMMA ReceiveDevicesTruth ==
    ASSUME TInv, NEW p \in Procs, ReceiveDevices(p), IInv'
    PROVE  TInv'
<1> DEFINE devices == proc[p].reply.devices
<1>1. /\ proc[p].pc = "await" /\ proc[p].asking = "list_devices" /\ proc[p].reply # NoReply
      /\ UNCHANGED <<service, network>>
  BY DEF ReceiveDevices
<1>2. devices \in SUBSET Families
  BY DEF TInv, IInv, TypeOK, ProcType, Replies
<1>3. CASE End(p, "error")
  BY <1>1, <1>3, EndTruth DEF Results
<1>4. CASE proc' = [proc EXCEPT ![p].pc = "send", ![p].todo = devices, ![p].listed = devices,
                                ![p].asking = IF devices = {} THEN "revoke" ELSE "revoke_device"]
  <2> HIDE DEF devices
  <2>1. /\ Moves(p) /\ proc'[p].pc = "send" /\ proc'[p].todo = devices /\ proc'[p].listed = devices
        /\ proc'[p].asking = IF devices = {} THEN "revoke" ELSE "revoke_device"
        /\ proc'[p].held = proc[p].held /\ proc'[p].session = proc[p].session
    <3>1. GoesOn(p, devices, devices) /\ TypeOK
      BY <1>4 DEF GoesOn, TInv, IInv
    <3> QED BY <1>2, <3>1, DevicesDoes
  <2>2. Knows(p)'
    BY <1>1, <2>1 DEF TInv, Knows, Obtained
  <2>3. Truthful(p)' /\ Revoked(p)'
    BY <2>1 DEF Truthful, Revoked
  <2> QED BY <1>1, <2>1, <2>2, <2>3, LocalTruth
<1> QED BY <1>3, <1>4 DEF ReceiveDevices

LEMMA ReceiveDeviceRevokedTruth ==
    ASSUME TInv, NEW p \in Procs, ReceiveDeviceRevoked(p), IInv'
    PROVE  TInv'
<1> DEFINE rest == proc[p].todo \ proc[p].reply.devices
<1>1. /\ proc[p].pc = "await" /\ proc[p].asking = "revoke_device" /\ proc[p].reply # NoReply
      /\ UNCHANGED <<service, network>>
  BY DEF ReceiveDeviceRevoked
<1>2. proc[p].command \in {"logout_all", "revoke_device"} /\ TypeOK
  BY <1>1 DEF TInv, IInv, Disciplined
<1>3. rest \in SUBSET Families /\ proc[p].listed \in SUBSET Families
  BY <1>2 DEF TypeOK, ProcType
<1>4. \/ End(p, "error") \/ End(p, "device_revoked")
      \/ proc' = [proc EXCEPT ![p].pc = "delete", ![p].result = "device_revoked"]
      \/ /\ proc[p].reply.status = "ok" /\ proc[p].command = "logout_all"
         /\ proc' = [proc EXCEPT ![p].pc = "send", ![p].todo = rest,
                                 ![p].asking = IF rest = {} THEN "revoke" ELSE "revoke_device"]
  BY <1>2 DEF ReceiveDeviceRevoked
<1>5. CASE End(p, "error") \/ End(p, "device_revoked")
  BY <1>1, <1>5, EndTruth DEF Results
<1>6. CASE proc' = [proc EXCEPT ![p].pc = "delete", ![p].result = "device_revoked"]
  <2>1. Moves(p) /\ proc'[p].pc = "delete" /\ proc'[p].result = "device_revoked"
    BY <1>2, <1>6, DeletingDoes DEF PCs, Results
  <2>2. Knows(p)' /\ Truthful(p)' /\ Revoked(p)'
    BY <2>1 DEF Knows, Obtained, Truthful, Revoked
  <2> QED BY <1>1, <2>1, <2>2, LocalTruth
<1>7. CASE /\ proc[p].reply.status = "ok" /\ proc[p].command = "logout_all"
           /\ proc' = [proc EXCEPT ![p].pc = "send", ![p].todo = rest,
                                   ![p].asking = IF rest = {} THEN "revoke" ELSE "revoke_device"]
  <2>1. \A d \in proc[p].listed \ rest : Gone(d)
    BY <1>1, <1>7 DEF TInv, Truthful, Revoked
  <2> HIDE DEF rest
  <2>2. /\ Moves(p) /\ proc'[p].pc = "send" /\ proc'[p].todo = rest
        /\ proc'[p].listed = proc[p].listed
        /\ proc'[p].asking = IF rest = {} THEN "revoke" ELSE "revoke_device"
        /\ proc'[p].held = proc[p].held /\ proc'[p].session = proc[p].session
    <3>1. GoesOn(p, rest, proc[p].listed)
      BY <1>7 DEF GoesOn
    <3> QED BY <1>2, <1>3, <3>1, DevicesDoes
  <2>3. Knows(p)'
    BY <1>1, <2>2 DEF TInv, Knows, Obtained
  <2>4. Truthful(p)' /\ Revoked(p)'
    BY <1>1, <2>1, <2>2 DEF Truthful, Revoked, Gone, Dead
  <2> QED BY <1>1, <2>2, <2>3, <2>4, LocalTruth
<1> QED BY <1>4, <1>5, <1>6, <1>7

LEMMA ReceiveCallTruth ==
    ASSUME TInv, NEW p \in Procs, ReceiveCall(p), IInv'
    PROVE  TInv'
<1>1. /\ proc[p].pc = "await" /\ proc[p].reply # NoReply /\ UNCHANGED <<service, network>>
  BY DEF ReceiveCall
<1>2. proc[p].reply.status \in Statuses
  BY DEF TInv, IInv, TypeOK, ProcType, Replies
<1>3. PICK result \in Results \ {"dead", "remote_revoked"} : End(p, result)
  BY <1>2 DEF ReceiveCall, Results, Statuses
<1> QED BY <1>1, <1>3, EndTruth

LEMMA ReceiveRevokedTruth ==
    ASSUME TInv, NEW p \in Procs, ReceiveRevoked(p), IInv'
    PROVE  TInv'
<1>1. /\ proc[p].pc = "await" /\ proc[p].asking = "revoke" /\ proc[p].reply # NoReply
      /\ UNCHANGED <<service, network>>
  BY DEF ReceiveRevoked
<1>2. CASE End(p, "error")
  BY <1>1, <1>2, EndTruth DEF Results
<1>3. CASE /\ proc[p].reply.status = "ok"
           /\ proc' = [proc EXCEPT ![p].pc = "delete", ![p].result = "remote_revoked"]
  <2>1. Gone(proc[p].held.family)
    BY <1>1, <1>3 DEF TInv, Truthful, Knows, Obtained
  <2>2. proc[p].command = "logout_all" => \A d \in proc[p].listed : Gone(d)
    BY <1>1 DEF TInv, Revoked
  <2>3. /\ Moves(p) /\ proc'[p].pc = "delete" /\ proc'[p].result = "remote_revoked"
        /\ proc'[p].command = proc[p].command
        /\ proc'[p].held = proc[p].held /\ proc'[p].listed = proc[p].listed
    BY <1>3, DeletingDoes DEF TInv, IInv, PCs, Results
  <2>4. Knows(p)' /\ Truthful(p)' /\ Revoked(p)'
    BY <1>1, <2>1, <2>2, <2>3 DEF Knows, Obtained, Truthful, Revoked, Gone, Dead
  <2> QED BY <1>1, <2>3, <2>4, LocalTruth
<1> QED BY <1>2, <1>3 DEF ReceiveRevoked

LEMMA DeleteCredentialTruth ==
    ASSUME TInv, NEW p \in Procs, DeleteCredential(p), IInv'
    PROVE  TInv'
<1>1. /\ proc[p].pc = "delete" /\ UNCHANGED <<service, network>>
      /\ proc[p].result \in Results /\ proc[p].result # "dead"
  BY DEF DeleteCredential, TInv, IInv, TypeOK, ProcType, Knows
<1>2. PICK result \in Results \ {"dead"} :
        End(p, result) /\ (result = "remote_revoked" => proc[p].result = "remote_revoked")
  BY <1>1 DEF DeleteCredential, Results
<1>3. result = "remote_revoked" =>
        /\ Gone(proc[p].held.family)
        /\ proc[p].command = "logout_all" => \A d \in proc[p].listed : Gone(d)
  BY <1>1, <1>2 DEF TInv, Truthful, Revoked
<1> QED BY <1>1, <1>2, <1>3, EndTruth

LEMMA DiscoveryFailsTruth ==
    ASSUME TInv, NEW p \in Procs, DiscoveryFails(p), IInv'
    PROVE  TInv'
<1>1. /\ proc[p].pc = "send" /\ UNCHANGED <<service, network>>
      /\ Release(p, "offline") \/ End(p, "error")
  BY DEF DiscoveryFails
<1> QED BY <1>1, ReleaseTruth, EndTruth DEF Results

LEMMA SendDoes ==
    ASSUME TypeOK, NEW p \in Procs, Send(p)
    PROVE  /\ Moves(p) /\ proc[p].pc = "send" /\ proc'[p].pc = "await" /\ proc'[p].reply = NoReply
           /\ proc'[p].command = proc[p].command /\ proc'[p].asking = proc[p].asking
           /\ proc'[p].held = proc[p].held /\ proc'[p].session = proc[p].session
           /\ proc'[p].todo = proc[p].todo /\ proc'[p].listed = proc[p].listed
           /\ proc'[p].result = proc[p].result
           /\ \E device : network' = network \cup {Request(p, device)}
           /\ UNCHANGED <<store, lock, service>>
<1> DEFINE moved == [proc[p] EXCEPT !.pc = "await", !.reply = NoReply]
<1>1. proc[p] \in ProcType /\ proc' = [proc EXCEPT ![p] = moved]
  BY DEF Send, TypeOK
<1>2. moved \in ProcType
  BY <1>1, ReplyTypes DEF ProcType, PCs
<1>3. Moves(p) /\ proc'[p] = moved
  BY <1>1, <1>2, ProcStep
<1>4. /\ moved.pc = "await" /\ moved.reply = NoReply
      /\ moved.asking = proc[p].asking /\ moved.result = proc[p].result
      /\ moved.session = proc[p].session
      /\ moved.command = proc[p].command /\ moved.held = proc[p].held
      /\ moved.todo = proc[p].todo /\ moved.listed = proc[p].listed
  BY <1>1 DEF ProcType
<1> HIDE DEF moved
<1>5. /\ \E device : network' = network \cup {Request(p, device)}
      /\ proc[p].pc = "send" /\ UNCHANGED <<store, lock, service>>
  BY DEF Send
<1> QED BY <1>3, <1>4, <1>5

LEMMA SendTruth ==
    ASSUME TInv, NEW p \in Procs, Send(p), IInv'
    PROVE  TInv'
<1>1. TypeOK /\ Mail(p)
  BY DEF TInv, IInv
<1>2. /\ Moves(p) /\ proc[p].pc = "send" /\ proc'[p].pc = "await" /\ proc'[p].reply = NoReply
      /\ proc'[p].command = proc[p].command /\ proc'[p].asking = proc[p].asking
      /\ proc'[p].held = proc[p].held /\ proc'[p].session = proc[p].session
      /\ proc'[p].todo = proc[p].todo /\ proc'[p].listed = proc[p].listed
      /\ UNCHANGED service
  BY <1>1, SendDoes
<1>3. PICK device : network' = network \cup {Request(p, device)}
  BY <1>1, SendDoes
<1> DEFINE sent == Request(p, device)
<1>4. sent.from = p /\ sent.kind = proc[p].asking /\ sent.token = Token(p)
  BY DEF Request
<1> HIDE DEF sent
<1>5. Mail(p)'
  <2>1. \A m \in network' : m.from = p => m = sent
    BY <1>1, <1>2, <1>3 DEF Mail, sent
  <2>2. Token(p)' = Token(p)
    BY <1>2 DEF Token
  <2> QED BY <1>2, <1>4, <2>1, <2>2 DEF Mail
<1>6. ASSUME NEW q \in Procs \ {p} PROVE Mail(q)' /\ Knows(q)' /\ Truthful(q)' /\ Revoked(q)'
  <2>1. {m \in network' : m.from = q} \subseteq {m \in network : m.from = q}
    BY <1>3, <1>4 DEF sent
  <2> QED BY <1>2, <2>1, OthersMail, OthersTruth
<1>7. Knows(p)'
  BY <1>2, NoReplyIsNone DEF TInv, Knows, Obtained
<1>8. Truthful(p)' /\ Revoked(p)'
  <2>1. \A f : Gone(f)' <=> Gone(f)
    BY <1>2 DEF Gone, Dead
  <2> QED BY <1>2, <2>1, NoReplyIsNone DEF TInv, Truthful, Revoked
<1> QED BY <1>5, <1>6, <1>7, <1>8 DEF TInv

\* A request that is given up is not p's any more, and the others' stay.
LEMMA AbandonDoes ==
    ASSUME TypeOK, NEW p \in Procs, Abandon(p)
    PROVE  /\ \A m \in network' : m.from # p
           /\ \A q \in Procs \ {p} :
                {m \in network' : m.from = q} \subseteq {m \in network : m.from = q}
<1> DEFINE orphaned == {[m EXCEPT !.from = NoProc] : m \in Mine(p)}
<1>1. \A m \in orphaned : m.from = NoProc
  <2>1. SUFFICES ASSUME NEW n \in Mine(p) PROVE [n EXCEPT !.from = NoProc].from = NoProc
    OBVIOUS
  <2>2. n \in [from : Procs \cup {NoProc}, kind : Kinds, token : Stored, device : SUBSET Families]
    BY DEF Mine, TypeOK
  <2> QED BY <2>2
<1>2. network' \subseteq (network \ Mine(p)) \cup orphaned
  BY DEF Abandon
<1> HIDE DEF orphaned
<1> QED BY <1>1, <1>2, AccountAssumption DEF Mine

LEMMA TimeoutDoes ==
    ASSUME TypeOK, NEW p \in Procs, Timeout(p)
    PROVE  /\ Moves(p) /\ proc[p].pc = "await" /\ proc'[p].pc = "await"
           /\ proc'[p].reply.status = "offline"
           /\ proc'[p].command = proc[p].command /\ proc'[p].asking = proc[p].asking
           /\ proc'[p].held = proc[p].held /\ proc'[p].session = proc[p].session
           /\ proc'[p].todo = proc[p].todo /\ proc'[p].listed = proc[p].listed
           /\ proc'[p].result = proc[p].result
           /\ Abandon(p) /\ UNCHANGED <<store, lock, service>>
<1> DEFINE moved == [proc[p] EXCEPT !.reply = Reply("offline")]
<1>1. proc[p] \in ProcType /\ proc' = [proc EXCEPT ![p] = moved]
  BY DEF Timeout, TypeOK
<1>2. Reply("offline") \in Replies /\ Reply("offline").status = "offline"
  BY ReplyTypes DEF Statuses
<1>3. moved \in ProcType
  BY <1>1, <1>2 DEF ProcType
<1>4. Moves(p) /\ proc'[p] = moved
  BY <1>1, <1>3, ProcStep
<1>5. /\ moved.pc = proc[p].pc /\ moved.reply.status = "offline"
      /\ moved.asking = proc[p].asking /\ moved.result = proc[p].result
      /\ moved.session = proc[p].session
      /\ moved.command = proc[p].command /\ moved.held = proc[p].held
      /\ moved.todo = proc[p].todo /\ moved.listed = proc[p].listed
  BY <1>1, <1>2 DEF ProcType
<1> HIDE DEF moved
<1>6. proc[p].pc = "await" /\ Abandon(p) /\ UNCHANGED <<store, lock, service>>
  BY DEF Timeout
<1> QED BY <1>4, <1>5, <1>6

LEMMA TimeoutTruth ==
    ASSUME TInv, NEW p \in Procs, Timeout(p), IInv'
    PROVE  TInv'
<1>1. TypeOK
  BY DEF TInv, IInv
<1>2. /\ Moves(p) /\ proc[p].pc = "await" /\ proc'[p].pc = "await"
      /\ proc'[p].reply.status = "offline"
      /\ proc'[p].command = proc[p].command /\ proc'[p].asking = proc[p].asking
      /\ proc'[p].held = proc[p].held /\ proc'[p].session = proc[p].session
      /\ proc'[p].todo = proc[p].todo /\ proc'[p].listed = proc[p].listed
      /\ UNCHANGED service
  BY <1>1, TimeoutDoes
<1>3. /\ \A m \in network' : m.from # p
      /\ \A q \in Procs \ {p} :
           {m \in network' : m.from = q} \subseteq {m \in network : m.from = q}
  BY <1>1, TimeoutDoes, AbandonDoes
<1>4. Mail(p)'
  BY <1>3 DEF Mail
<1>5. ASSUME NEW q \in Procs \ {p} PROVE Mail(q)' /\ Knows(q)' /\ Truthful(q)' /\ Revoked(q)'
  BY <1>2, <1>3, OthersMail, OthersTruth
<1>6. Knows(p)'
  BY <1>2 DEF TInv, Knows, Obtained
<1>7. Truthful(p)' /\ Revoked(p)'
  <2>1. \A f : Gone(f)' <=> Gone(f)
    BY <1>2 DEF Gone, Dead
  <2> QED BY <1>2, <2>1 DEF TInv, Truthful, Revoked
<1> QED BY <1>4, <1>5, <1>6, <1>7 DEF TInv

LEMMA CrashDoes ==
    ASSUME TypeOK, NEW p \in Procs, Crash(p)
    PROVE  /\ Moves(p) /\ proc'[p] = Idle /\ Abandon(p) /\ UNCHANGED <<store, service>>
           /\ lock' = IF lock = p THEN NoProc ELSE lock
<1>1. /\ proc' = [proc EXCEPT ![p] = Idle] /\ Abandon(p) /\ UNCHANGED <<store, service>>
      /\ lock' = IF lock = p THEN NoProc ELSE lock
  BY DEF Crash
<1> QED BY <1>1, IdleFields, ProcStep

LEMMA CrashTruth ==
    ASSUME TInv, NEW p \in Procs, Crash(p), IInv'
    PROVE  TInv'
<1>1. TypeOK
  BY DEF TInv, IInv
<1>2. Moves(p) /\ proc'[p].pc = "done" /\ proc'[p].result = "none" /\ UNCHANGED service
  BY <1>1, CrashDoes, IdleFields
<1>3. /\ \A m \in network' : m.from # p
      /\ \A q \in Procs \ {p} :
           {m \in network' : m.from = q} \subseteq {m \in network : m.from = q}
  BY <1>1, CrashDoes, AbandonDoes
<1>4. Mail(p)'
  BY <1>3 DEF Mail
<1>5. ASSUME NEW q \in Procs \ {p} PROVE Mail(q)' /\ Knows(q)' /\ Truthful(q)' /\ Revoked(q)'
  BY <1>2, <1>3, OthersMail, OthersTruth
<1>6. Knows(p)' /\ Truthful(p)' /\ Revoked(p)'
  BY <1>2 DEF Knows, Obtained, Truthful, Revoked
<1> QED BY <1>4, <1>5, <1>6 DEF TInv

-----------------------------------------------------------------------------
(* The service.                                                            *)

\* What the service answers, kind by kind.
LEMMA AnswerCases ==
    ASSUME IInv, NEW m \in network, NEW a \in Answers(m)
    PROVE  LET f == m.token.family
               revoked(S) == [d \in Families |->
                                IF d \in S THEN [service[d] EXCEPT !.state = "revoked"] ELSE service[d]]
               slips == IF "garbled" \in Faults THEN 0..1 ELSE {0}
           IN  \/ /\ m.kind = "exchange"
                  /\ \/ a = [reply |-> Reply("access_denied"), after |-> service]
                     \/ \E n \in Families, slip \in slips :
                          /\ service[n].state = "unused"
                          /\ a = [reply |-> Session(n, slip),
                                  after |-> [service EXCEPT ![n].state = "live"]]
               \/ /\ m.kind = "refresh"
                  /\ \/ /\ m.token.generation < service[f].generation
                        /\ a = [reply |-> Reply("token_reuse"),
                                after |-> [service EXCEPT ![f].state = "reused"]]
                     \/ Dead(f) /\ a = [reply |-> Reply("session_revoked"), after |-> service]
                     \/ \E slip \in slips :
                          /\ ~(m.token.generation < service[f].generation) /\ ~Dead(f)
                          /\ a = [reply |-> Session(f, m.token.generation + 1 - slip),
                                  after |-> [service EXCEPT ![f].generation = m.token.generation + 1]]
               \/ /\ m.kind \notin {"exchange", "refresh"}
                  /\ \/ Dead(f) /\ a = [reply |-> Reply("session_revoked"), after |-> service]
                     \/ m.kind = "call" /\ a = [reply |-> Reply("ok"), after |-> service]
                     \/ /\ m.kind = "list_devices"
                        /\ a = [reply |-> [Reply("devices") EXCEPT
                                             !.devices = {d \in Families : service[d].state # "unused"}],
                                after |-> service]
                     \/ /\ m.kind = "revoke_device"
                        /\ \/ a = [reply |-> Reply("not_found"), after |-> service]
                           \/ a = [reply |-> [Reply("ok") EXCEPT !.devices = m.device],
                                   after |-> revoked(m.device)]
                     \/ /\ m.kind \in {"revoke", "undo"}
                        /\ a = [reply |-> Reply("ok"), after |-> revoked({f})]
<1>1. m.kind \in Kinds
  BY DEF IInv, TypeOK
<1>2. CASE m.kind = "exchange"
  BY <1>2 DEF Answers
<1>3. CASE m.kind = "refresh"
  BY <1>3 DEF Answers
<1>4. CASE m.kind \notin {"exchange", "refresh"}
  BY <1>1, <1>4 DEF Answers, Kinds
<1> QED BY <1>2, <1>3, <1>4

LEMMA ReplyFields ==
    /\ \A s \in Statuses : Reply(s).status = s /\ Reply(s).devices = {}
    /\ \A f, g : /\ Session(f, g).status = "session"
                 /\ Session(f, g).credential = [family |-> f, generation |-> g]
<1>1. NoReply \in Replies /\ NoReply.devices = {}
  BY ReplyTypes, NoReplyIsNone
<1>2. ASSUME NEW s \in Statuses
      PROVE  Reply(s) \in Replies /\ Reply(s).status = s /\ Reply(s).devices = {}
  BY <1>1 DEF Reply, Replies
<1>3. ASSUME NEW f, NEW g
      PROVE  /\ Session(f, g).status = "session"
             /\ Session(f, g).credential = [family |-> f, generation |-> g]
  BY <1>1 DEF Session, Replies
<1> QED BY <1>2, <1>3

\* As Dead, of what the service knows after an answer.
GoneIn(known, f) == known[f].state \in {"revoked", "reused"}

\* What an answer says is so, and what was revoked stays revoked.
LEMMA AnswerTruth ==
    ASSUME IInv, NEW m \in network, NEW a \in Answers(m)
    PROVE  /\ a.reply.status \notin {"none", "offline"}
           /\ \A d \in Families : Dead(d) => GoneIn(a.after, d)
           /\ m.kind = "refresh" /\ a.reply.status \in {"token_reuse", "session_revoked"}
                => GoneIn(a.after, m.token.family)
           /\ m.kind \in {"revoke", "undo"} /\ m.token \in Credential
                => GoneIn(a.after, m.token.family)
           /\ m.kind = "revoke_device" /\ a.reply.status = "ok"
                => \A d \in a.reply.devices : GoneIn(a.after, d)
           /\ a.reply.status = "session"
                => m.kind \in {"exchange", "refresh"} /\ a.reply.credential \in Credential
<1> DEFINE f == m.token.family
           Known == [state : {"unused", "live", "revoked", "reused"}, generation : 0..MaxGeneration]
           revoked(S) == [d \in Families |-> IF d \in S THEN [service[d] EXCEPT !.state = "revoked"]
                                             ELSE service[d]]
           slips == IF "garbled" \in Faults THEN 0..1 ELSE {0}
<1>1. /\ service \in [Families -> Known] /\ m.kind \in Kinds /\ m.device \in SUBSET Families
      /\ MaxGeneration \in Nat \ {0} /\ slips \subseteq 0..1
  BY AccountAssumption DEF IInv, TypeOK
<1>2. m.kind = "refresh" =>
        /\ f \in Families /\ m.token.generation \in 0..MaxGeneration
        /\ m.token.generation < MaxGeneration
  BY DEF IInv, RefreshesInFlight, Credential
<1>3. m.token \in Credential => f \in Families
  BY DEF Credential
<1>4. \A S \in SUBSET Families : \A d \in Families :
        /\ d \in S => GoneIn(revoked(S), d)
        /\ Dead(d) => GoneIn(revoked(S), d)
  BY <1>1 DEF GoneIn, Dead
<1>5. \A d \in Families : Dead(d) => GoneIn(service, d)
  BY DEF GoneIn, Dead
<1>6. {"access_denied", "token_reuse", "session_revoked", "ok", "devices", "not_found"}
        \subseteq Statuses
  BY DEF Statuses
<1> HIDE DEF revoked
<1>7. CASE m.kind = "exchange"
  <2>1. CASE a = [reply |-> Reply("access_denied"), after |-> service]
    BY <1>5, <1>6, <1>7, <2>1, ReplyFields
  <2>2. ASSUME NEW n \in Families, NEW slip \in slips, service[n].state = "unused",
               a = [reply |-> Session(n, slip), after |-> [service EXCEPT ![n].state = "live"]]
        PROVE  /\ a.reply.status = "session" /\ a.reply.credential \in Credential
               /\ \A d \in Families : Dead(d) => GoneIn(a.after, d)
    <3>1. \A d \in Families : Dead(d) => GoneIn(a.after, d)
      BY <1>1, <2>2 DEF GoneIn, Dead
    <3>2. a.reply.status = "session" /\ a.reply.credential = [family |-> n, generation |-> slip]
      BY <2>2, ReplyFields
    <3> QED BY <1>1, <3>1, <3>2 DEF Credential
  <2> QED BY <1>7, <2>1, <2>2, AnswerCases
<1>8. CASE m.kind = "refresh"
  <2>1. CASE a = [reply |-> Reply("token_reuse"), after |-> [service EXCEPT ![f].state = "reused"]]
    <3>1. /\ GoneIn(a.after, f)
          /\ \A d \in Families : Dead(d) => GoneIn(a.after, d)
      BY <1>1, <1>2, <1>8, <2>1 DEF GoneIn, Dead
    <3>2. a.reply.status = "token_reuse"
      BY <1>6, <2>1, ReplyFields
    <3> QED BY <1>8, <3>1, <3>2
  <2>2. CASE Dead(f) /\ a = [reply |-> Reply("session_revoked"), after |-> service]
    <3>1. a.reply.status = "session_revoked" /\ a.after = service
      BY <1>6, <2>2, ReplyFields
    <3> QED BY <1>2, <1>5, <1>8, <2>2, <3>1
  <2>3. ASSUME NEW slip \in slips,
               a = [reply |-> Session(f, m.token.generation + 1 - slip),
                    after |-> [service EXCEPT ![f].generation = m.token.generation + 1]]
        PROVE  /\ a.reply.status = "session" /\ a.reply.credential \in Credential
               /\ \A d \in Families : Dead(d) => GoneIn(a.after, d)
    <3>1. \A d \in Families : Dead(d) => GoneIn(a.after, d)
      BY <1>1, <1>2, <1>8, <2>3 DEF GoneIn, Dead
    <3>2. /\ a.reply.status = "session"
          /\ a.reply.credential = [family |-> f, generation |-> m.token.generation + 1 - slip]
      BY <2>3, ReplyFields
    <3>3. m.token.generation + 1 - slip \in 0..MaxGeneration
      BY <1>1, <1>2, <1>8
    <3> QED BY <1>2, <1>8, <3>1, <3>2, <3>3 DEF Credential
  <2> QED BY <1>8, <2>1, <2>2, <2>3, AnswerCases
<1>9. CASE m.kind \notin {"exchange", "refresh"}
  <2>1. CASE Dead(f) /\ a = [reply |-> Reply("session_revoked"), after |-> service]
    <3>1. a.reply.status = "session_revoked" /\ a.after = service
      BY <1>6, <2>1, ReplyFields
    <3> QED BY <1>3, <1>5, <1>9, <2>1, <3>1
  <2>2. CASE m.kind = "call" /\ a = [reply |-> Reply("ok"), after |-> service]
    BY <1>5, <1>6, <2>2, ReplyFields
  <2>3. CASE /\ m.kind = "list_devices"
             /\ a = [reply |-> [Reply("devices") EXCEPT
                                  !.devices = {d \in Families : service[d].state # "unused"}],
                     after |-> service]
    <3>1. Reply("devices") \in Replies /\ Reply("devices").status = "devices"
      BY <1>6, ReplyTypes
    <3>2. a.reply.status = "devices" /\ a.after = service
      BY <2>3, <3>1 DEF Replies
    <3> QED BY <1>5, <2>3, <3>2
  <2>4. CASE m.kind = "revoke_device" /\ a = [reply |-> Reply("not_found"), after |-> service]
    BY <1>5, <1>6, <2>4, ReplyFields
  <2>5. CASE /\ m.kind = "revoke_device"
             /\ a = [reply |-> [Reply("ok") EXCEPT !.devices = m.device], after |-> revoked(m.device)]
    <3>1. Reply("ok") \in Replies /\ Reply("ok").status = "ok"
      BY <1>6, ReplyTypes
    <3>2. a.reply.status = "ok" /\ a.reply.devices = m.device /\ a.after = revoked(m.device)
      BY <2>5, <3>1 DEF Replies
    <3> QED BY <1>1, <1>4, <2>5, <3>2
  <2>6. CASE m.kind \in {"revoke", "undo"} /\ a = [reply |-> Reply("ok"), after |-> revoked({f})]
    <3>1. a.reply.status = "ok" /\ a.after = revoked({f})
      BY <1>6, <2>6, ReplyFields
    <3>2. \A d \in Families : Dead(d) => GoneIn(revoked({f}), d)
      BY <1>1 DEF revoked, GoneIn, Dead
    <3>3. f \in Families => GoneIn(revoked({f}), f)
      BY <1>4
    <3> QED BY <1>3, <2>6, <3>1, <3>2, <3>3
  <2> QED BY <1>9, <2>1, <2>2, <2>3, <2>4, <2>5, <2>6, AnswerCases DEF revoked
<1> QED BY <1>7, <1>8, <1>9

\* The answer reaches whoever sent the request, and nobody else.
LEMMA ServiceDoes ==
    ASSUME TypeOK, NEW m \in network, NEW a \in Answers(m), a.reply \in Replies,
           proc' = IF m.from = NoProc THEN proc ELSE [proc EXCEPT ![m.from].reply = a.reply]
    PROVE  /\ proc' \in [Procs -> ProcType]
           /\ \A q \in Procs :
                /\ proc'[q].pc = proc[q].pc /\ proc'[q].asking = proc[q].asking
                /\ proc'[q].command = proc[q].command /\ proc'[q].result = proc[q].result
                /\ proc'[q].held = proc[q].held /\ proc'[q].session = proc[q].session
                /\ proc'[q].todo = proc[q].todo /\ proc'[q].listed = proc[q].listed
                /\ proc'[q].reply = IF m.from = q THEN a.reply ELSE proc[q].reply
<1>1. m.from \in Procs \cup {NoProc} /\ proc \in [Procs -> ProcType]
  BY DEF TypeOK
<1>2. CASE m.from = NoProc
  BY <1>1, <1>2, AccountAssumption
<1>3. CASE m.from # NoProc
  <2> DEFINE answered == [proc[m.from] EXCEPT !.reply = a.reply]
  <2>1. m.from \in Procs /\ proc' = [proc EXCEPT ![m.from] = answered]
    BY <1>1, <1>3
  <2>2. proc[m.from] \in ProcType
    BY <1>1, <2>1
  <2>3. answered \in ProcType
    BY <2>2 DEF ProcType
  <2>4. /\ answered.pc = proc[m.from].pc /\ answered.asking = proc[m.from].asking
        /\ answered.command = proc[m.from].command /\ answered.result = proc[m.from].result
        /\ answered.held = proc[m.from].held /\ answered.session = proc[m.from].session
        /\ answered.todo = proc[m.from].todo /\ answered.listed = proc[m.from].listed
        /\ answered.reply = a.reply
    BY <2>2 DEF ProcType
  <2> HIDE DEF answered
  <2> QED BY <1>1, <2>1, <2>3, <2>4
<1> QED BY <1>2, <1>3

LEMMA ServiceTruth ==
    ASSUME TInv, NEW m \in network, Service(m), IInv'
    PROVE  TInv'
<1>1. PICK a \in Answers(m) :
        /\ service' = a.after
        /\ proc' = IF m.from = NoProc THEN proc ELSE [proc EXCEPT ![m.from].reply = a.reply]
  BY DEF Service
<1>2. IInv /\ TypeOK /\ network' = network \ {m}
  BY DEF TInv, IInv, Service
<1>3. \A q \in Procs :
        /\ proc'[q].pc = proc[q].pc /\ proc'[q].asking = proc[q].asking
        /\ proc'[q].command = proc[q].command /\ proc'[q].result = proc[q].result
        /\ proc'[q].held = proc[q].held /\ proc'[q].session = proc[q].session
        /\ proc'[q].todo = proc[q].todo /\ proc'[q].listed = proc[q].listed
        /\ proc'[q].reply = IF m.from = q THEN a.reply ELSE proc[q].reply
  BY <1>1, <1>2, AnswerType, ServiceDoes
<1>4. \A f : GoneIn(a.after, f) <=> Dead(f)'
  BY <1>1 DEF GoneIn, Dead
<1>5. \A f : Gone(f) => Gone(f)'
  BY <1>2, <1>4, AnswerTruth DEF Gone
<1>6. ASSUME NEW q \in Procs PROVE Mail(q)'
  <2>1. CASE m.from = q
    BY <1>2, <2>1 DEF TInv, Mail
  <2>2. CASE m.from # q
    <3>1. Token(q)' = Token(q)
      BY <1>3 DEF Token
    <3> QED BY <1>2, <1>3, <2>2, <3>1 DEF TInv, Mail
  <2> QED BY <2>1, <2>2
<1>7. ASSUME NEW q \in Procs PROVE Knows(q)' /\ Truthful(q)' /\ Revoked(q)'
  <2>1. Knows(q) /\ Truthful(q) /\ Revoked(q) /\ Mail(q)
    BY DEF TInv
  <2>2. Revoked(q)'
    BY <1>3, <1>5, <2>1 DEF Revoked
  <2>3. CASE m.from # q
    <3>1. Knows(q)'
      BY <1>3, <2>1, <2>3 DEF Knows, Obtained
    <3>2. Truthful(q)'
      BY <1>3, <1>5, <2>1, <2>3 DEF Truthful
    <3> QED BY <2>2, <3>1, <3>2
  <2>4. CASE m.from = q
    <3>1. m.kind = proc[q].asking /\ m.token = Token(q)
      BY <2>1, <2>4 DEF Mail
    <3>2. /\ a.reply.status = "session" => a.reply.credential \in Credential
          /\ m.kind = "refresh" /\ a.reply.status \in {"token_reuse", "session_revoked"}
               => Dead(m.token.family)'
          /\ m.kind = "revoke" /\ m.token \in Credential => Dead(m.token.family)'
          /\ m.kind = "revoke_device" /\ a.reply.status = "ok"
               => \A d \in a.reply.devices : Dead(d)'
      BY <1>2, <1>4, AnswerTruth
    <3>3. Knows(q)'
      BY <1>3, <2>1, <2>4, <3>2 DEF Knows, Obtained
    <3>4. a.reply.devices \subseteq Families /\ \A c \in Credential : c.family \in Families
      BY <1>2, AnswerType DEF Replies, Credential
    <3>5. proc[q].pc = "await" /\ proc[q].asking = "refresh"
            => m.token = proc[q].held /\ proc[q].held \in Credential
      BY <2>1, <3>1 DEF Token, Knows
    <3>6. proc[q].pc = "await" /\ proc[q].asking = "revoke"
            => m.token = proc[q].session /\ proc[q].session \in Credential
      BY <2>1, <3>1 DEF Token, Knows, Obtained
    <3>7. Truthful(q)'
      <4>1. proc[q].pc = "await" /\ proc'[q].reply = a.reply
        BY <1>3, <2>1, <2>4 DEF Mail
      <4> QED BY <1>3, <3>1, <3>2, <3>4, <3>5, <3>6, <4>1 DEF Truthful, Gone
    <3> QED BY <2>2, <3>3, <3>7
  <2> QED BY <2>3, <2>4
<1> QED BY <1>6, <1>7 DEF TInv

LEMMA WebRevokeTruth ==
    ASSUME TInv, NEW f \in Families, WebRevoke(f), IInv'
    PROVE  TInv'
<1>1. /\ UNCHANGED <<network, proc>>
      /\ service' = [service EXCEPT ![f].state = "revoked"]
      /\ service \in [Families -> [state : {"unused", "live", "revoked", "reused"},
                                   generation : 0..MaxGeneration]]
  BY DEF WebRevoke, TInv, IInv, TypeOK
<1>2. \A g : Gone(g) => Gone(g)'
  BY <1>1 DEF Gone, Dead
<1>3. ASSUME NEW q \in Procs PROVE Mail(q)' /\ Knows(q)' /\ Truthful(q)' /\ Revoked(q)'
  <2>1. Mail(q) /\ Knows(q) /\ Truthful(q) /\ Revoked(q)
    BY DEF TInv
  <2>2. Mail(q)'
    BY <1>1, <2>1 DEF Mail, Token
  <2>3. Knows(q)'
    BY <1>1, <2>1 DEF Knows, Obtained
  <2>4. Truthful(q)' /\ Revoked(q)'
    BY <1>1, <1>2, <2>1 DEF Truthful, Revoked
  <2> QED BY <2>2, <2>3, <2>4
<1> QED BY <1>3 DEF TInv

-----------------------------------------------------------------------------

LEMMA InitTInv == Init => TInv
<1> SUFFICES ASSUME Init PROVE TInv
  OBVIOUS
<1>1. IInv /\ network = {}
  BY InitIInv DEF Init
<1>2. ASSUME NEW p \in Procs PROVE Mail(p) /\ Knows(p) /\ Truthful(p) /\ Revoked(p)
  <2>1. proc[p].pc = "done" /\ proc[p].result = "none"
    BY IdleFields DEF Init
  <2> QED BY <1>1, <2>1 DEF Mail, Knows, Obtained, Truthful, Revoked
<1> QED BY <1>1, <1>2 DEF TInv

LEMMA NextTInv == TInv /\ [Next]_vars => TInv'
<1> SUFFICES ASSUME TInv, [Next]_vars PROVE TInv'
  OBVIOUS
<1>1. IInv'
  BY NextIInv DEF TInv
<1>2. ASSUME NEW p \in Procs, Begin(p) \/ Timeout(p) \/ Crash(p) PROVE TInv'
  BY <1>1, <1>2, BeginTruth, TimeoutTruth, CrashTruth
<1>3. ASSUME NEW p \in Procs, Run(p) PROVE TInv'
  <2>1. CASE ensure_signed_out(p) \/ LoadFirst(p) \/ Acquire(p) \/ LoadStored(p) \/ ReceiveRefresh(p)
    BY <1>1, <2>1, StartTruth, AcquireTruth, LoadStoredTruth, ReceiveRefreshTruth
  <2>2. CASE DeleteDead(p) \/ ReleaseLock(p) \/ SaveSession(p) \/ ReceiveUndo(p) \/ ReceiveExchange(p)
    BY <1>1, <2>2, DeleteDeadTruth, ReleaseLockTruth, SaveSessionTruth, ReceiveUndoTruth,
       ReceiveExchangeTruth
  <2>3. CASE ReceiveCall(p) \/ ReceiveDevices(p) \/ ReceiveDeviceRevoked(p) \/ ReceiveRevoked(p)
    BY <1>1, <2>3, ReceiveCallTruth, ReceiveDevicesTruth, ReceiveDeviceRevokedTruth,
       ReceiveRevokedTruth
  <2>4. CASE DeleteCredential(p) \/ Send(p) \/ DiscoveryFails(p)
    BY <1>1, <2>4, DeleteCredentialTruth, SendTruth, DiscoveryFailsTruth
  <2> QED BY <1>3, <2>1, <2>2, <2>3, <2>4 DEF Run
<1>4. ASSUME NEW m \in network, Service(m) PROVE TInv'
  BY <1>1, <1>4, ServiceTruth
<1>5. ASSUME NEW f \in Families, WebRevoke(f) PROVE TInv'
  BY <1>1, <1>5, WebRevokeTruth
<1>6. CASE UNCHANGED vars
  <2>1. \A f : Gone(f)' <=> Gone(f)
    BY <1>6 DEF vars, Gone, Dead
  <2>2. \A p \in Procs : Mail(p)' /\ Knows(p)'
    BY <1>6 DEF vars, TInv, Mail, Token, Knows, Obtained
  <2>3. \A p \in Procs : Truthful(p)' /\ Revoked(p)'
    BY <1>6, <2>1 DEF vars, TInv, Truthful, Revoked
  <2> QED BY <1>1, <2>2, <2>3 DEF TInv
<1> QED BY <1>2, <1>3, <1>4, <1>5, <1>6 DEF Next

LEMMA TruthInductive == Spec => []TInv
BY InitTInv, NextTInv, PTL DEF Spec

\* Whatever times out, arrives late or dies, a logout or logout_all that
\* reports remote_revoked is right about the session it used: either the
\* service said it had revoked it, or it refused the refresh as dead.
THEOREM RemoteRevocationIsReal == Spec => []RemoteRevokedIsTrue
<1>1. TInv => RemoteRevokedIsTrue
  BY DEF TInv, Truthful, Gone, RemoteRevokedIsTrue
<1> QED BY <1>1, TruthInductive, PTL

\* all_devices_revoked is said only when every device the service listed is
\* revoked: logout goes from device to device, gives up at the first
\* failure, and no other invocation, late request or crash revives a family.
THEOREM NoDeviceIsForgotten == Spec => []AllDevicesRevoked
<1>1. TInv => AllDevicesRevoked
  BY DEF TInv, Revoked, Gone, AllDevicesRevoked
<1> QED BY <1>1, TruthInductive, PTL

-----------------------------------------------------------------------------
(* The steps that have nothing to do with the session in hand.             *)

\* p neither asks for a session nor saves, undoes or gives one up; what it
\* knew of a dead or unsaved session it still says.
Aside(p) ==
    /\ Moves(p) /\ UNCHANGED service /\ store' \in {store, NoCredential}
    /\ proc'[p].pc \notin {"await", "save", "delete_dead"}
    /\ proc'[p].pc = "send" => proc'[p].asking \notin {"refresh", "undo"}
    /\ proc'[p].held \in {proc[p].held, NoCredential}
    /\ proc'[p].pc \in {"release", "done"} /\ proc'[p].result = "dead"
         => proc[p].pc = "release" /\ proc[p].result = "dead" /\ proc'[p].held = proc[p].held
    /\ proc'[p].pc \in {"release", "done"} /\ proc'[p].result = "store_failure"
         => /\ proc[p].pc = "release" /\ proc[p].result = "store_failure"
            /\ proc'[p].session = proc[p].session

LEMMA EndAside ==
    ASSUME TypeOK, NEW p \in Procs, NEW result \in Results, End(p, result),
           UNCHANGED service, store' \in {store, NoCredential},
           result \in {"dead", "store_failure"} => proc[p].pc = "release" /\ proc[p].result = result
    PROVE  Aside(p)
BY EndDoes DEF Aside

LEMMA AskAside ==
    ASSUME TypeOK, NEW p \in Procs, NEW kind \in Kinds \ {"refresh", "undo"}, Ask(p, kind),
           UNCHANGED <<service, store>>
    PROVE  Aside(p)
BY AskDoes DEF Aside

LEMMA DeletingAside ==
    ASSUME TypeOK, NEW p \in Procs, NEW result \in Results, UNCHANGED <<service, store>>,
           proc' = [proc EXCEPT ![p].pc = "delete", ![p].result = result]
    PROVE  Aside(p)
BY DeletingDoes DEF Aside, PCs

LEMMA AsideSteps ==
    ASSUME TInv, NEW p \in Procs,
           \/ Begin(p) \/ ensure_signed_out(p) \/ LoadFirst(p) \/ Acquire(p) \/ ReleaseLock(p)
           \/ ReceiveCall(p) \/ ReceiveDevices(p) \/ ReceiveDeviceRevoked(p) \/ ReceiveRevoked(p)
           \/ DeleteCredential(p) \/ DiscoveryFails(p) \/ Crash(p)
    PROVE  Aside(p)
<1>1. TypeOK /\ Disciplined(p) /\ proc[p] \in ProcType
  BY DEF TInv, IInv, TypeOK
<1>2. /\ {"error", "signed_out", "already_signed_in", "lock_unavailable", "unconfirmed", "online",
          "device_revoked", "remote_revoked", "local_only"} \subseteq Results
      /\ proc[p].result \in Results /\ proc[p].reply \in Replies
  BY <1>1 DEF Results, ProcType
<1>3. CASE Begin(p)
  BY <1>1, <1>3, BeginDoes DEF Aside
<1>4. CASE ensure_signed_out(p) \/ LoadFirst(p)
  <2>1. UNCHANGED <<service, store>>
    BY <1>4 DEF ensure_signed_out, LoadFirst
  <2>2. CASE End(p, "already_signed_in") \/ End(p, "signed_out") \/ End(p, "error")
    BY <1>1, <1>2, <2>1, <2>2, EndAside
  <2>3. CASE Ask(p, "exchange")
    BY <1>1, <2>1, <2>3, AskAside DEF Kinds
  <2>4. CASE Goto(p, IF proc[p].command = "local_only" THEN "delete" ELSE "acquire")
    <3>1. PICK pc \in {"delete", "acquire"} : Goto(p, pc)
      BY <2>4
    <3> QED BY <1>1, <2>1, <3>1, GotoDoes DEF Aside, PCs
  <2> QED BY <1>4, <2>2, <2>3, <2>4 DEF ensure_signed_out, LoadFirst
<1>5. CASE Acquire(p)
  <2>1. UNCHANGED <<service, store>> /\ (Goto(p, "load_stored") \/ End(p, "lock_unavailable"))
    BY <1>5 DEF Acquire
  <2>2. CASE Goto(p, "load_stored")
    BY <1>1, <2>1, <2>2, GotoDoes DEF Aside, PCs
  <2> QED BY <1>1, <1>2, <2>1, <2>2, EndAside
<1>6. CASE ReleaseLock(p)
  <2>1. /\ proc[p].pc = "release" /\ UNCHANGED <<store, service>>
        /\ \/ \E kind \in {"call", "revoke", "list_devices", "revoke_device"} : Ask(p, kind)
           \/ proc' = [proc EXCEPT ![p].pc = "delete", ![p].result = "remote_revoked"]
           \/ End(p, "unconfirmed")
           \/ End(p, proc[p].result)
    BY <1>1, <1>6, ReleaseLockDoes
  <2>2. CASE \E kind \in {"call", "revoke", "list_devices", "revoke_device"} : Ask(p, kind)
    BY <1>1, <2>1, <2>2, AskAside DEF Kinds
  <2>3. CASE proc' = [proc EXCEPT ![p].pc = "delete", ![p].result = "remote_revoked"]
    BY <1>1, <1>2, <2>1, <2>3, DeletingAside
  <2> QED BY <1>1, <1>2, <2>1, <2>2, <2>3, EndAside
<1>7. CASE ReceiveCall(p)
  <2>1. PICK result \in Results \ {"dead", "store_failure"} : End(p, result)
    BY <1>2, <1>7 DEF ReceiveCall, Results, Replies, Statuses
  <2>2. UNCHANGED <<service, store>>
    BY <1>7 DEF ReceiveCall
  <2> QED BY <1>1, <2>1, <2>2, EndAside
<1>8. CASE ReceiveDevices(p)
  <2> DEFINE devices == proc[p].reply.devices
  <2>1. UNCHANGED <<service, store>> /\ (End(p, "error") \/ GoesOn(p, devices, devices))
    BY <1>8 DEF ReceiveDevices, GoesOn
  <2>2. CASE GoesOn(p, devices, devices)
    <3>1. devices \in SUBSET Families
      BY <1>2 DEF Replies
    <3> QED BY <1>1, <2>1, <2>2, <3>1, DevicesDoes DEF Aside
  <2> QED BY <1>1, <1>2, <2>1, <2>2, EndAside
<1>9. CASE ReceiveDeviceRevoked(p)
  <2> DEFINE rest == proc[p].todo \ proc[p].reply.devices
  <2>1. proc[p].command \in {"logout_all", "revoke_device"}
    BY <1>1, <1>9 DEF ReceiveDeviceRevoked, Disciplined
  <2>2. /\ UNCHANGED <<service, store>>
        /\ \/ End(p, "error") \/ End(p, "device_revoked") \/ GoesOn(p, rest, proc[p].listed)
           \/ proc' = [proc EXCEPT ![p].pc = "delete", ![p].result = "device_revoked"]
    BY <1>9, <2>1 DEF ReceiveDeviceRevoked, GoesOn
  <2>3. CASE GoesOn(p, rest, proc[p].listed)
    <3>1. rest \in SUBSET Families /\ proc[p].listed \in SUBSET Families
      BY <1>1 DEF ProcType
    <3> QED BY <1>1, <2>2, <2>3, <3>1, DevicesDoes DEF Aside
  <2>4. CASE proc' = [proc EXCEPT ![p].pc = "delete", ![p].result = "device_revoked"]
    BY <1>1, <1>2, <2>2, <2>4, DeletingAside
  <2> QED BY <1>1, <1>2, <2>2, <2>3, <2>4, EndAside
<1>10. CASE ReceiveRevoked(p)
  <2>1. /\ UNCHANGED <<service, store>>
        /\ \/ End(p, "error")
           \/ proc' = [proc EXCEPT ![p].pc = "delete", ![p].result = "remote_revoked"]
    BY <1>10 DEF ReceiveRevoked
  <2> QED BY <1>1, <1>2, <2>1, EndAside, DeletingAside
<1>11. CASE DeleteCredential(p)
  <2>1. proc[p].result \in {"none", "device_revoked", "remote_revoked"}
    BY <1>11 DEF DeleteCredential, TInv, Knows
  <2>2. PICK result \in Results \ {"dead", "store_failure"} : End(p, result)
    BY <1>2, <1>11, <2>1 DEF DeleteCredential
  <2>3. UNCHANGED service /\ store' \in {store, NoCredential}
    BY <1>11 DEF DeleteCredential
  <2> QED BY <1>1, <2>2, <2>3, EndAside
<1>12. CASE DiscoveryFails(p)
  <2>1. /\ UNCHANGED <<service, store>>
        /\ Release(p, "offline") \/ End(p, "error")
    BY <1>12 DEF DiscoveryFails
  <2>2. CASE Release(p, "offline")
    BY <1>1, <2>1, <2>2, ReleaseDoes DEF Aside, Results
  <2> QED BY <1>1, <1>2, <2>1, <2>2, EndAside
<1>13. CASE Crash(p)
  BY <1>1, <1>13, CrashDoes, IdleFields DEF Aside
<1> QED BY <1>3, <1>4, <1>5, <1>6, <1>7, <1>8, <1>9, <1>10, <1>11, <1>12, <1>13

-----------------------------------------------------------------------------
(* A session the store refused.                                            *)

\* Once best_effort_revoke has its answer, the session is gone.
Undid(p) ==
    /\ proc[p].pc = "await" /\ proc[p].asking = "undo" /\ proc[p].reply # NoReply
         => Gone(proc[p].session.family)
    /\ proc[p].pc \in {"delete_dead", "release", "done"} /\ proc[p].result = "store_failure"
         => Gone(proc[p].session.family)

UInv == TInv /\ \A p \in Procs : Undid(p)

LEMMA UndidLocal ==
    ASSUME UInv, NEW p \in Procs, Moves(p), UNCHANGED service, TInv', Undid(p)'
    PROVE  UInv'
<1>1. \A f : Gone(f)' <=> Gone(f)
  BY DEF Gone, Dead
<1>2. ASSUME NEW q \in Procs \ {p} PROVE Undid(q)'
  BY <1>1 DEF UInv, Moves, Undid
<1> QED BY <1>2 DEF UInv

LEMMA UndidAside ==
    ASSUME UInv, NEW p \in Procs, Aside(p), TInv'
    PROVE  UInv'
<1>1. Undid(p)'
  BY DEF UInv, Aside, Undid, Gone, Dead
<1> QED BY <1>1, UndidLocal DEF Aside

\* The steps of refresh_access and publish_login.
LEMMA UndidSteps ==
    ASSUME UInv, NEW p \in Procs, TInv',
           \/ LoadStored(p) \/ ReceiveRefresh(p) \/ DeleteDead(p) \/ SaveSession(p)
           \/ ReceiveUndo(p) \/ ReceiveExchange(p) \/ Send(p)
    PROVE  UInv'
<1>1. TypeOK /\ proc[p] \in ProcType /\ Undid(p)
  BY DEF UInv, TInv, IInv, TypeOK
<1>2. \A f : UNCHANGED service => (Gone(f)' <=> Gone(f))
  BY DEF Gone, Dead
<1>3. {"error", "offline", "dead", "signed_in", "active", "store_failure"} \subseteq Results
  BY DEF Results
<1>4. ASSUME NEW result \in {"error", "offline", "active", "signed_in"}, UNCHANGED service,
             Release(p, result) \/ End(p, result)
      PROVE  UInv'
  <2>1. Moves(p) /\ proc'[p].pc \in {"release", "done"} /\ proc'[p].result = result
    BY <1>1, <1>3, <1>4, ReleaseDoes, EndDoes
  <2>2. Undid(p)'
    BY <2>1 DEF Undid
  <2> QED BY <1>4, <2>1, <2>2, UndidLocal
<1>5. ASSUME UNCHANGED service, Save(p, proc[p].reply.credential)
      PROVE  UInv'
  <2>1. proc[p].reply.credential \in Stored
    BY <1>1 DEF ProcType, Replies
  <2>2. Moves(p) /\ proc'[p].pc = "save"
    BY <1>1, <1>5, <2>1, SaveDoes
  <2>3. Undid(p)'
    BY <2>2 DEF Undid
  <2> QED BY <1>5, <2>2, <2>3, UndidLocal
<1>6. CASE LoadStored(p)
  <2>1. CASE Release(p, "error")
    BY <1>1, <1>4, <1>6, <2>1, LoadStoredDoes
  <2>2. CASE ~Release(p, "error")
    <3>1. Moves(p) /\ proc'[p].pc = "send" /\ UNCHANGED service
      BY <1>1, <1>6, <2>2, LoadStoredDoes
    <3>2. Undid(p)'
      BY <3>1 DEF Undid
    <3> QED BY <3>1, <3>2, UndidLocal
  <2> QED BY <2>1, <2>2
<1>7. CASE ReceiveRefresh(p)
  <2>1. /\ UNCHANGED service
        /\ \/ Release(p, "error") \/ Release(p, "offline") \/ Save(p, proc[p].reply.credential)
           \/ proc' = [proc EXCEPT ![p].pc = "delete_dead", ![p].result = "dead"]
    BY <1>7 DEF ReceiveRefresh
  <2>2. CASE proc' = [proc EXCEPT ![p].pc = "delete_dead", ![p].result = "dead"]
    <3>1. Moves(p) /\ proc'[p].pc = "delete_dead" /\ proc'[p].result = "dead"
      BY <1>1, <1>3, <2>2, DeletingDoes DEF PCs
    <3>2. Undid(p)'
      BY <3>1 DEF Undid
    <3> QED BY <2>1, <3>1, <3>2, UndidLocal
  <2> QED BY <1>4, <1>5, <2>1, <2>2
<1>8. CASE DeleteDead(p)
  <2>1. /\ Moves(p) /\ proc[p].pc = "delete_dead" /\ proc'[p].pc = "release"
        /\ proc'[p].session = proc[p].session /\ proc'[p].result = proc[p].result
        /\ UNCHANGED service
    BY <1>1, <1>8, GotoDoes DEF DeleteDead, PCs
  <2>2. Undid(p)'
    BY <1>1, <1>2, <2>1 DEF Undid
  <2> QED BY <2>1, <2>2, UndidLocal
<1>9. CASE SaveSession(p)
  <2>1. UNCHANGED service /\ (End(p, "signed_in") \/ Release(p, "active") \/ Ask(p, "undo"))
    BY <1>9 DEF SaveSession
  <2>2. CASE Ask(p, "undo")
    <3>1. Moves(p) /\ proc'[p].pc = "send"
      BY <1>1, <2>2, AskDoes DEF Kinds
    <3>2. Undid(p)'
      BY <3>1 DEF Undid
    <3> QED BY <2>1, <3>1, <3>2, UndidLocal
  <2> QED BY <1>4, <2>1, <2>2
<1>10. CASE ReceiveUndo(p)
  <2>1. UNCHANGED service /\ (End(p, "store_failure") \/ Undone(p)) /\ Gone(proc[p].session.family)
    BY <1>1, <1>10 DEF ReceiveUndo, Undid
  <2>2. /\ Moves(p) /\ proc'[p].session = proc[p].session
        /\ proc'[p].pc \in {"done", "delete_dead"}
    <3>1. CASE End(p, "store_failure")
      BY <1>1, <1>3, <3>1, EndDoes
    <3>2. CASE Undone(p)
      BY <1>1, <3>2, UndoneDoes
    <3> QED BY <2>1, <3>1, <3>2
  <2>3. Undid(p)'
    BY <1>2, <2>1, <2>2 DEF Undid
  <2> QED BY <2>1, <2>2, <2>3, UndidLocal
<1>11. CASE ReceiveExchange(p)
  <2>1. UNCHANGED service /\ (End(p, "error") \/ Save(p, proc[p].reply.credential))
    BY <1>11 DEF ReceiveExchange
  <2> QED BY <1>4, <1>5, <2>1
<1>12. CASE Send(p)
  <2>1. Moves(p) /\ proc'[p].pc = "await" /\ proc'[p].reply = NoReply /\ UNCHANGED service
    BY <1>1, <1>12, SendDoes
  <2>2. Undid(p)'
    BY <2>1 DEF Undid
  <2> QED BY <2>1, <2>2, UndidLocal
<1> QED BY <1>6, <1>7, <1>8, <1>9, <1>10, <1>11, <1>12

LEMMA UndidService ==
    ASSUME UInv, TInv', NEW m \in network, Service(m)
    PROVE  UInv'
<1>1. PICK a \in Answers(m) :
        /\ service' = a.after
        /\ proc' = IF m.from = NoProc THEN proc ELSE [proc EXCEPT ![m.from].reply = a.reply]
  BY DEF Service
<1>2. IInv /\ TypeOK
  BY DEF UInv, TInv, IInv
<1>3. \A q \in Procs :
        /\ proc'[q].pc = proc[q].pc /\ proc'[q].asking = proc[q].asking
        /\ proc'[q].result = proc[q].result /\ proc'[q].session = proc[q].session
        /\ proc'[q].reply = IF m.from = q THEN a.reply ELSE proc[q].reply
  BY <1>1, <1>2, AnswerType, ServiceDoes
<1>4. \A f : GoneIn(a.after, f) <=> Dead(f)'
  BY <1>1 DEF GoneIn, Dead
<1>5. \A f : Gone(f) => Gone(f)'
  BY <1>2, <1>4, AnswerTruth DEF Gone
<1>6. ASSUME NEW q \in Procs PROVE Undid(q)'
  <2>1. Undid(q) /\ Mail(q) /\ Knows(q)
    BY DEF UInv, TInv
  <2>2. CASE m.from # q
    BY <1>3, <1>5, <2>1, <2>2 DEF Undid
  <2>3. CASE m.from = q
    <3>1. proc[q].pc = "await" /\ m.kind = proc[q].asking /\ m.token = Token(q)
      BY <2>1, <2>3 DEF Mail
    <3>2. proc[q].asking = "undo" => m.token = proc[q].session /\ proc[q].session \in Credential
      BY <2>1, <3>1 DEF Token, Knows
    <3>3. proc[q].asking = "undo" => Gone(proc[q].session.family)'
      <4>1. \A c \in Credential : c.family \in Families
        BY DEF Credential
      <4> QED BY <1>2, <1>3, <1>4, <3>1, <3>2, <4>1, AnswerTruth DEF Gone
    <3> QED BY <1>3, <3>1, <3>3 DEF Undid
  <2> QED BY <2>2, <2>3
<1> QED BY <1>6 DEF UInv

LEMMA UndidWebRevoke ==
    ASSUME UInv, TInv', NEW f \in Families, WebRevoke(f)
    PROVE  UInv'
<1>1. /\ UNCHANGED proc
      /\ service' = [service EXCEPT ![f].state = "revoked"]
      /\ service \in [Families -> [state : {"unused", "live", "revoked", "reused"},
                                   generation : 0..MaxGeneration]]
  BY DEF WebRevoke, UInv, TInv, IInv, TypeOK
<1>2. \A g : Gone(g) => Gone(g)'
  BY <1>1 DEF Gone, Dead
<1>3. \A q \in Procs : Undid(q)'
  BY <1>1, <1>2 DEF UInv, Undid
<1> QED BY <1>3 DEF UInv

LEMMA NextUInv == "timeout" \notin Faults /\ UInv /\ [Next]_vars => UInv'
<1> SUFFICES ASSUME "timeout" \notin Faults, UInv, [Next]_vars PROVE UInv'
  OBVIOUS
<1>1. TInv /\ TInv'
  BY NextTInv DEF UInv
<1>2. ASSUME NEW p \in Procs, Begin(p) \/ Run(p) \/ Timeout(p) \/ Crash(p) PROVE UInv'
  <2>1. CASE \/ LoadStored(p) \/ ReceiveRefresh(p) \/ DeleteDead(p) \/ SaveSession(p)
             \/ ReceiveUndo(p) \/ ReceiveExchange(p) \/ Send(p)
    BY <1>1, <2>1, UndidSteps
  <2>2. CASE Aside(p)
    BY <1>1, <2>2, UndidAside
  <2>3. ~Timeout(p)
    BY DEF Timeout
  <2> QED BY <1>1, <1>2, <2>1, <2>2, <2>3, AsideSteps DEF Run
<1>3. ASSUME NEW m \in network, Service(m) PROVE UInv'
  BY <1>1, <1>3, UndidService
<1>4. ASSUME NEW f \in Families, WebRevoke(f) PROVE UInv'
  BY <1>1, <1>4, UndidWebRevoke
<1>5. CASE UNCHANGED vars
  BY <1>1, <1>5 DEF vars, UInv, Undid, Gone, Dead
<1> QED BY <1>2, <1>3, <1>4, <1>5 DEF Next

\* As long as answers arrive, a session that publish_login or refresh_access
\* could not save is revoked before the command reports store_failure, even if
\* other invocations die or the device is revoked meanwhile.  When the answer
\* does not arrive best_effort_revoke gives up, as its name says.
THEOREM UnsavedSessionsAreRevoked ==
    ASSUME "timeout" \notin Faults
    PROVE  Spec => []FailedSaveRevokes
<1>1. Init => UInv
  <2>1. Init => \A p \in Procs : Undid(p)
    BY IdleFields DEF Init, Undid
  <2> QED BY <2>1, InitTInv DEF UInv
<1>2. UInv /\ [Next]_vars => UInv'
  BY NextUInv
<1>3. UInv => FailedSaveRevokes
  BY DEF UInv, Undid, Gone, FailedSaveRevokes
<1> QED BY <1>1, <1>2, <1>3, PTL DEF Spec

-----------------------------------------------------------------------------
(* A dead session's credential stays out of the store.                     *)

Has(credential, f) == credential # NoCredential /\ credential.family = f

\* p has just been issued f and not saved it yet.
New(p, f) ==
    /\ proc[p].asking = "exchange"
    /\ \/ /\ proc[p].pc = "await" /\ proc[p].reply.status = "session"
          /\ f = proc[p].reply.credential.family
       \/ proc[p].pc = "save" /\ f = proc[p].session.family

Rotating(p) == proc[p].pc \in {"send", "await", "save"} /\ proc[p].asking = "refresh"

\* Nobody has a family that the service has not issued.
Issued ==
    \A f \in Families : service[f].state = "unused" =>
      /\ ~Has(store, f)
      /\ \A p \in Procs : ~Has(proc[p].held, f) /\ ~New(p, f)

\* A new family is nobody else's.
Fresh ==
    \A p \in Procs, f \in Families : New(p, f) =>
      /\ ~Has(store, f)
      /\ \A q \in Procs : ~Has(proc[q].held, f)
      /\ \A q \in Procs \ {p} : ~New(q, f)

\* What p knows to be dead is not stored, nor being rotated into the store.
Dropped(p) ==
    /\ proc[p].pc \in {"delete_dead", "release", "done"} /\ proc[p].result = "dead" =>
         proc[p].held \in Credential
    /\ proc[p].pc \in {"release", "done"} /\ proc[p].result = "dead" =>
         \A f \in Families : Has(proc[p].held, f) =>
           ~Has(store, f) /\ \A q \in Procs : Rotating(q) => ~Has(proc[q].held, f)

DInv == TInv /\ Issued /\ Fresh /\ \A p \in Procs : Dropped(p)

\* A step of p that stores at most what p has just obtained.
LEMMA DropLocal ==
    ASSUME DInv, NEW p \in Procs, Moves(p), UNCHANGED service, TInv', Dropped(p)',
           \A f \in Families : Has(store', f) =>
             Has(store, f) \/ New(p, f) \/ (Rotating(p) /\ Has(proc[p].held, f)),
           \A f \in Families : Has(proc'[p].held, f) => Has(proc[p].held, f) \/ Has(store, f),
           \A f \in Families : New(p, f)' => New(p, f) /\ UNCHANGED store,
           Rotating(p)' => (Rotating(p) /\ proc'[p].held = proc[p].held) \/ proc'[p].held = store
    PROVE  DInv'
<1>1. \A q \in Procs \ {p} :
        /\ proc'[q] = proc[q] /\ (Rotating(q)' <=> Rotating(q))
        /\ \A f : New(q, f)' <=> New(q, f)
  BY DEF Moves, Rotating, New
<1>2. Issued'
  BY <1>1 DEF DInv, Issued
<1>3. Fresh'
  <2>1. SUFFICES ASSUME NEW q \in Procs, NEW f \in Families, New(q, f)'
                 PROVE  /\ ~Has(store', f)
                        /\ \A r \in Procs : ~Has(proc'[r].held, f)
                        /\ \A r \in Procs \ {q} : ~New(r, f)'
    BY DEF Fresh, Has
  <2>2. New(q, f)
    BY <1>1, <2>1
  <2>3. /\ ~Has(store, f) /\ \A r \in Procs : ~Has(proc[r].held, f)
        /\ \A r \in Procs \ {q} : ~New(r, f)
    BY <2>2 DEF DInv, Fresh
  <2>4. ~Has(store', f)
    BY <2>1, <2>2, <2>3
  <2> QED BY <1>1, <2>3, <2>4
<1>4. ASSUME NEW q \in Procs \ {p} PROVE Dropped(q)'
  <2>1. SUFFICES ASSUME NEW f \in Families, Has(proc[q].held, f),
                        proc[q].pc \in {"release", "done"}, proc[q].result = "dead"
                 PROVE  ~Has(store', f) /\ \A r \in Procs : Rotating(r)' => ~Has(proc'[r].held, f)
    BY <1>1 DEF DInv, Dropped, Has
  <2>2. ~Has(store, f) /\ \A r \in Procs : Rotating(r) => ~Has(proc[r].held, f)
    BY <2>1 DEF DInv, Dropped
  <2>3. ~New(p, f)
    BY <2>1 DEF DInv, Fresh
  <2> QED BY <1>1, <2>2, <2>3
<1> QED BY <1>2, <1>3, <1>4 DEF DInv

LEMMA DropAside ==
    ASSUME DInv, NEW p \in Procs, Aside(p), TInv'
    PROVE  DInv'
<1>1. /\ \A f \in Families : Has(store', f) => Has(store, f)
      /\ \A f \in Families : Has(proc'[p].held, f) => Has(proc[p].held, f)
      /\ \A f \in Families : ~New(p, f)'
      /\ ~Rotating(p)' /\ Moves(p) /\ UNCHANGED service
  BY DEF Aside, Has, New, Rotating
<1>2. Dropped(p)'
  <2>1. SUFFICES ASSUME NEW f \in Families, Has(proc'[p].held, f),
                        proc'[p].pc \in {"release", "done"}, proc'[p].result = "dead"
                 PROVE  ~Has(store', f) /\ \A r \in Procs : Rotating(r)' => ~Has(proc'[r].held, f)
    BY DEF DInv, Aside, Dropped, Has
  <2>2. ~Has(store, f) /\ \A r \in Procs : Rotating(r) => ~Has(proc[r].held, f)
    BY <2>1 DEF Aside, DInv, Dropped
  <2>3. \A q \in Procs \ {p} : proc'[q] = proc[q] /\ (Rotating(q)' <=> Rotating(q))
    BY DEF Aside, Moves, Rotating
  <2> QED BY <1>1, <2>2, <2>3
<1> QED BY <1>1, <1>2, DropLocal

LEMMA ReleaseAside ==
    ASSUME TypeOK, NEW p \in Procs, NEW result \in {"error", "offline"}, Release(p, result),
           UNCHANGED <<service, store>>
    PROVE  Aside(p)
BY ReleaseDoes DEF Aside, Results

\* Whoever rotates holds the lock.
LEMMA OneRotates ==
    ASSUME IInv, NEW p \in Procs, InRotation(p), NEW q \in Procs, Rotating(q)
    PROVE  q = p
<1>1. proc[q].command \in Refreshers
  BY DEF IInv, Disciplined, Rotating
<1>2. InRotation(q)
  BY <1>1 DEF InRotation, Rotating, Refreshers
<1> QED BY <1>2 DEF IInv, OneRotation

LEMMA DropSteps ==
    ASSUME DInv, NEW p \in Procs, TInv', "delete_fails" \notin Faults,
           \/ LoadStored(p) \/ ReceiveRefresh(p) \/ DeleteDead(p) \/ SaveSession(p)
           \/ ReceiveUndo(p) \/ ReceiveExchange(p) \/ Send(p) \/ Timeout(p)
    PROVE  DInv'
<1>1. TypeOK /\ IInv /\ proc[p] \in ProcType /\ Knows(p) /\ Disciplined(p)
  BY DEF DInv, TInv, IInv, TypeOK
<1>2. {"error", "offline", "dead", "signed_in", "active", "store_failure"} \subseteq Results
  BY DEF Results
<1>3. CASE LoadStored(p)
  <2>1. CASE Release(p, "error")
    BY <1>1, <1>3, <2>1, ReleaseAside, DropAside DEF LoadStored
  <2>2. CASE ~Release(p, "error")
    <3>1. /\ Moves(p) /\ proc'[p].pc = "send" /\ proc'[p].asking = "refresh"
          /\ proc'[p].held = store /\ UNCHANGED <<store, service>>
      BY <1>1, <1>3, <2>2, LoadStoredDoes
    <3>2. Dropped(p)' /\ \A f \in Families : ~New(p, f)'
      BY <3>1 DEF Dropped, New
    <3> QED BY <3>1, <3>2, DropLocal
  <2> QED BY <2>1, <2>2
<1>4. CASE ReceiveRefresh(p)
  <2>1. /\ UNCHANGED <<service, store>> /\ proc[p].pc = "await" /\ proc[p].asking = "refresh"
        /\ \/ Release(p, "error") \/ Release(p, "offline") \/ Save(p, proc[p].reply.credential)
           \/ proc' = [proc EXCEPT ![p].pc = "delete_dead", ![p].result = "dead"]
    BY <1>4 DEF ReceiveRefresh
  <2>2. CASE Release(p, "error") \/ Release(p, "offline")
    BY <1>1, <2>1, <2>2, ReleaseAside, DropAside
  <2>3. CASE Save(p, proc[p].reply.credential)
    <3>1. proc[p].reply.credential \in Stored
      BY <1>1 DEF ProcType, Replies
    <3>2. /\ Moves(p) /\ proc'[p].pc = "save" /\ proc'[p].asking = "refresh"
          /\ proc'[p].held = proc[p].held
      BY <1>1, <2>1, <2>3, <3>1, SaveDoes
    <3>3. Dropped(p)' /\ Rotating(p) /\ \A f \in Families : ~New(p, f)'
      BY <2>1, <3>2 DEF Dropped, New, Rotating
    <3> QED BY <2>1, <3>2, <3>3, DropLocal
  <2>4. CASE proc' = [proc EXCEPT ![p].pc = "delete_dead", ![p].result = "dead"]
    <3>1. Moves(p) /\ proc'[p].pc = "delete_dead" /\ proc'[p].held = proc[p].held
      BY <1>1, <1>2, <2>4, DeletingDoes DEF PCs
    <3>2. Dropped(p)' /\ ~Rotating(p)' /\ \A f \in Families : ~New(p, f)'
      BY <1>1, <2>1, <3>1 DEF Knows, Dropped, New, Rotating
    <3> QED BY <2>1, <3>1, <3>2, DropLocal
  <2> QED BY <2>1, <2>2, <2>3, <2>4
<1>5. CASE DeleteDead(p)
  <2>1. /\ Moves(p) /\ proc[p].pc = "delete_dead" /\ proc'[p].pc = "release"
        /\ proc'[p].held = proc[p].held /\ proc'[p].result = proc[p].result
        /\ UNCHANGED service /\ store' = NoCredential
    BY <1>1, <1>5, GotoDoes DEF DeleteDead, PCs
  <2>2. ~Rotating(p)' /\ \A f \in Families : ~New(p, f)' /\ ~Has(store', f)
    BY <2>1 DEF Rotating, New, Has
  <2>3. \A q \in Procs : ~Rotating(q)'
    <3>1. InRotation(p) /\ ~Rotating(p)
      BY <2>1 DEF InRotation, Rotating
    <3>2. \A q \in Procs \ {p} : ~Rotating(q) /\ proc'[q] = proc[q]
      BY <1>1, <2>1, <3>1, OneRotates DEF Moves
    <3> QED BY <2>2, <3>2 DEF Rotating
  <2>4. Dropped(p)'
    BY <2>1, <2>2, <2>3 DEF DInv, Dropped, Has
  <2> QED BY <2>1, <2>2, <2>4, DropLocal
<1>6. CASE SaveSession(p)
  <2>1. /\ proc[p].pc = "save" /\ UNCHANGED service
        /\ proc[p].asking \in {"refresh", "exchange"}
        /\ proc[p].asking = "refresh" => proc[p].command # "login"
        /\ proc[p].asking = "exchange" => proc[p].command = "login"
    BY <1>1, <1>6 DEF SaveSession, Disciplined, Refreshers
  <2>2. CASE /\ store' = proc[p].session
             /\ IF proc[p].command = "login" THEN End(p, "signed_in") ELSE Release(p, "active")
    <3>1. /\ Moves(p) /\ proc'[p].pc \in {"done", "release"} /\ proc'[p].result # "dead"
          /\ proc'[p].held \in {proc[p].held, NoCredential}
      <4>1. CASE End(p, "signed_in")
        BY <1>1, <1>2, <4>1, EndDoes
      <4>2. CASE Release(p, "active")
        BY <1>1, <1>2, <4>2, ReleaseDoes
      <4> QED BY <2>2, <4>1, <4>2
    <3>2. Dropped(p)' /\ ~Rotating(p)' /\ \A f \in Families : ~New(p, f)'
      BY <3>1 DEF Dropped, New, Rotating
    <3>3. \A f \in Families : Has(store', f) => New(p, f) \/ (Rotating(p) /\ Has(proc[p].held, f))
      <4>1. CASE proc[p].asking = "exchange"
        BY <2>1, <2>2, <4>1 DEF New, Has
      <4>2. CASE proc[p].asking = "refresh"
        <5>1. proc[p].held \in Credential /\ proc[p].session.family = proc[p].held.family
          BY <1>1, <2>1, <4>2 DEF Knows, Obtained
        <5> QED BY <2>1, <2>2, <4>2, <5>1, NoCredentialIsNone DEF Rotating, Has
      <4> QED BY <2>1, <4>1, <4>2
    <3>4. \A f \in Families : Has(proc'[p].held, f) => Has(proc[p].held, f)
      BY <3>1 DEF Has
    <3> QED BY <2>1, <3>1, <3>2, <3>3, <3>4, DropLocal
  <2>3. CASE Ask(p, "undo") /\ UNCHANGED store
    <3>1. /\ Moves(p) /\ proc'[p].pc = "send" /\ proc'[p].asking = "undo"
          /\ proc'[p].held = proc[p].held
      BY <1>1, <2>3, AskDoes DEF Kinds
    <3>2. Dropped(p)' /\ ~Rotating(p)' /\ \A f \in Families : ~New(p, f)'
      BY <3>1 DEF Dropped, New, Rotating
    <3> QED BY <2>1, <2>3, <3>1, <3>2, DropLocal
  <2> QED BY <1>6, <2>2, <2>3 DEF SaveSession
<1>7. CASE ReceiveUndo(p)
  <2>1. UNCHANGED <<service, store>> /\ (End(p, "store_failure") \/ Undone(p))
    BY <1>7 DEF ReceiveUndo
  <2>2. /\ Moves(p) /\ proc'[p].pc \in {"done", "delete_dead"} /\ proc'[p].result # "dead"
        /\ proc'[p].held \in {proc[p].held, NoCredential}
    <3>1. CASE End(p, "store_failure")
      BY <1>1, <1>2, <3>1, EndDoes
    <3>2. CASE Undone(p)
      BY <1>1, <3>2, UndoneDoes
    <3> QED BY <2>1, <3>1, <3>2
  <2>3. /\ Dropped(p)' /\ ~Rotating(p)' /\ \A f \in Families : ~New(p, f)'
    BY <2>2 DEF Dropped, New, Rotating
  <2>4. \A f \in Families : Has(proc'[p].held, f) => Has(proc[p].held, f)
    BY <2>2 DEF Has
  <2> QED BY <2>1, <2>2, <2>3, <2>4, DropLocal
<1>8. CASE ReceiveExchange(p)
  <2>1. /\ UNCHANGED <<service, store>> /\ proc[p].pc = "await" /\ proc[p].asking = "exchange"
        /\ \/ End(p, "error")
           \/ proc[p].reply.status = "session" /\ Save(p, proc[p].reply.credential)
    BY <1>8 DEF ReceiveExchange
  <2>2. CASE End(p, "error")
    BY <1>1, <1>2, <2>1, <2>2, EndAside, DropAside
  <2>3. CASE proc[p].reply.status = "session" /\ Save(p, proc[p].reply.credential)
    <3>1. proc[p].reply.credential \in Stored
      BY <1>1 DEF ProcType, Replies
    <3>2. /\ Moves(p) /\ proc'[p].pc = "save" /\ proc'[p].asking = "exchange"
          /\ proc'[p].held = proc[p].held /\ proc'[p].session = proc[p].reply.credential
      BY <1>1, <2>1, <2>3, <3>1, SaveDoes
    <3>3. Dropped(p)' /\ ~Rotating(p)' /\ \A f \in Families : New(p, f)' => New(p, f)
      BY <2>1, <2>3, <3>2 DEF Dropped, New, Rotating
    <3> QED BY <2>1, <3>2, <3>3, DropLocal
  <2> QED BY <2>1, <2>2, <2>3
<1>9. CASE Send(p) \/ Timeout(p)
  <2>1. /\ Moves(p) /\ proc[p].pc \in {"send", "await"} /\ proc'[p].pc = "await"
        /\ proc'[p].reply.status \in {"none", "offline"}
        /\ proc'[p].asking = proc[p].asking /\ proc'[p].held = proc[p].held
        /\ UNCHANGED <<service, store>>
    BY <1>1, <1>9, SendDoes, TimeoutDoes, NoReplyIsNone
  <2>2. /\ Dropped(p)' /\ \A f \in Families : ~New(p, f)'
        /\ Rotating(p)' => Rotating(p)
    BY <2>1 DEF Dropped, New, Rotating
  <2> QED BY <2>1, <2>2, DropLocal
<1> QED BY <1>3, <1>4, <1>5, <1>6, <1>7, <1>8, <1>9

\* A new session is of a family that was not issued before; nothing else
\* issues or takes back a family.
LEMMA AnswerIssues ==
    ASSUME IInv, NEW m \in network, NEW a \in Answers(m)
    PROVE  /\ \A d \in Families : a.after[d].state = "unused" => service[d].state = "unused"
           /\ m.kind = "exchange" /\ a.reply.status = "session" =>
                LET n == a.reply.credential.family
                IN  n \in Families /\ service[n].state = "unused" /\ a.after[n].state # "unused"
<1> DEFINE f == m.token.family
           Known == [state : {"unused", "live", "revoked", "reused"}, generation : 0..MaxGeneration]
           revoked(S) == [d \in Families |-> IF d \in S THEN [service[d] EXCEPT !.state = "revoked"]
                                             ELSE service[d]]
           slips == IF "garbled" \in Faults THEN 0..1 ELSE {0}
           kept == \A d \in Families : a.after[d].state = "unused" => service[d].state = "unused"
<1>1. service \in [Families -> Known]
  BY DEF IInv, TypeOK
<1>2. \A S, d : d \in Families /\ revoked(S)[d].state = "unused" => service[d].state = "unused"
  BY <1>1
<1>3. CASE m.kind = "exchange"
  <2>1. CASE a = [reply |-> Reply("access_denied"), after |-> service]
    BY <2>1, ReplyFields DEF Statuses
  <2>2. ASSUME NEW n \in Families, NEW slip \in slips, service[n].state = "unused",
               a = [reply |-> Session(n, slip), after |-> [service EXCEPT ![n].state = "live"]]
        PROVE  kept /\ a.reply.credential.family = n /\ a.after[n].state # "unused"
    <3>1. kept /\ a.after[n].state # "unused"
      BY <1>1, <2>2
    <3>2. a.reply.credential = [family |-> n, generation |-> slip]
      BY <2>2, ReplyFields
    <3> QED BY <3>1, <3>2
  <2> QED BY <1>3, <2>1, <2>2, AnswerCases
<1>4. CASE m.kind = "refresh"
  <2>1. f \in Families
    BY <1>4 DEF IInv, RefreshesInFlight, Credential
  <2>2. CASE a = [reply |-> Reply("token_reuse"), after |-> [service EXCEPT ![f].state = "reused"]]
    <3>1. \A d \in Families : d # f => a.after[d] = service[d]
      BY <1>1, <2>1, <2>2
    <3>2. a.after[f].state = "reused"
      BY <1>1, <2>1, <2>2
    <3> QED BY <1>4, <3>1, <3>2
  <2>3. CASE a = [reply |-> Reply("session_revoked"), after |-> service]
    BY <1>4, <2>3
  <2>4. ASSUME NEW slip \in slips,
               a = [reply |-> Session(f, m.token.generation + 1 - slip),
                    after |-> [service EXCEPT ![f].generation = m.token.generation + 1]]
        PROVE  kept
    <3>1. \A d \in Families : d # f => a.after[d] = service[d]
      BY <1>1, <2>1, <2>4
    <3>2. a.after[f].state = service[f].state
      BY <1>1, <2>1, <2>4
    <3> QED BY <3>1, <3>2
  <2> QED BY <1>4, <2>2, <2>3, <2>4, AnswerCases
<1>5. CASE m.kind \notin {"exchange", "refresh"}
  <2> DEFINE listing == [Reply("devices") EXCEPT
                           !.devices = {d \in Families : service[d].state # "unused"}]
             done == [Reply("ok") EXCEPT !.devices = m.device]
  <2>1. \/ \E s : a = [reply |-> Reply(s), after |-> service]
        \/ a = [reply |-> listing, after |-> service]
        \/ a = [reply |-> done, after |-> revoked(m.device)]
        \/ a = [reply |-> Reply("ok"), after |-> revoked({f})]
    BY <1>5, AnswerCases
  <2> HIDE DEF listing, done, revoked
  <2>2. a.after = service \/ a.after = revoked(m.device) \/ a.after = revoked({f})
    BY <2>1
  <2> QED BY <1>2, <1>5, <2>2
<1> QED BY <1>3, <1>4, <1>5

LEMMA DropService ==
    ASSUME DInv, TInv', NEW m \in network, Service(m)
    PROVE  DInv'
<1>1. PICK a \in Answers(m) :
        /\ service' = a.after
        /\ proc' = IF m.from = NoProc THEN proc ELSE [proc EXCEPT ![m.from].reply = a.reply]
  BY DEF Service
<1>2. IInv /\ TypeOK /\ UNCHANGED store
  BY DEF DInv, TInv, IInv, Service
<1>3. \A q \in Procs :
        /\ proc'[q].pc = proc[q].pc /\ proc'[q].asking = proc[q].asking
        /\ proc'[q].result = proc[q].result /\ proc'[q].session = proc[q].session
        /\ proc'[q].held = proc[q].held
        /\ proc'[q].reply = IF m.from = q THEN a.reply ELSE proc[q].reply
  BY <1>1, <1>2, AnswerType, ServiceDoes
<1>4. \A q \in Procs : Dropped(q)'
  <2>1. \A q \in Procs : Rotating(q)' <=> Rotating(q)
    BY <1>3 DEF Rotating
  <2> QED BY <1>2, <1>3, <2>1 DEF DInv, Dropped, Has
<1>5. \A d \in Families : service'[d].state = "unused" => service[d].state = "unused"
  BY <1>1, <1>2, AnswerIssues
<1>6. ASSUME NEW q \in Procs, NEW f \in Families, New(q, f)', ~New(q, f)
      PROVE  /\ m.from = q /\ f = a.reply.credential.family
             /\ service[f].state = "unused" /\ service'[f].state # "unused"
  <2>1. /\ m.from = q /\ proc[q].asking = "exchange" /\ a.reply.status = "session"
        /\ f = a.reply.credential.family
    BY <1>3, <1>6 DEF New
  <2>2. m.kind = "exchange"
    BY <2>1 DEF DInv, TInv, Mail
  <2> QED BY <1>1, <1>2, <2>1, <2>2, AnswerIssues
<1>7. Issued'
  <2>1. SUFFICES ASSUME NEW f \in Families, service'[f].state = "unused"
                 PROVE  /\ ~Has(store, f)
                        /\ \A q \in Procs : ~Has(proc[q].held, f) /\ ~New(q, f)'
    BY <1>2, <1>3 DEF Issued, Has
  <2>2. service[f].state = "unused"
    BY <1>5, <2>1
  <2>3. ~Has(store, f) /\ \A q \in Procs : ~Has(proc[q].held, f) /\ ~New(q, f)
    BY <2>2 DEF DInv, Issued
  <2> QED BY <1>6, <2>1, <2>3
<1>8. Fresh'
  <2>1. SUFFICES ASSUME NEW q \in Procs, NEW f \in Families, New(q, f)'
                 PROVE  /\ ~Has(store, f)
                        /\ \A r \in Procs : ~Has(proc[r].held, f)
                        /\ \A r \in Procs \ {q} : ~New(r, f)'
    BY <1>2, <1>3 DEF Fresh, Has
  <2>2. CASE New(q, f)
    <3>1. /\ ~Has(store, f) /\ \A r \in Procs : ~Has(proc[r].held, f)
          /\ \A r \in Procs \ {q} : ~New(r, f)
      BY <2>2 DEF DInv, Fresh
    <3>2. service[f].state # "unused"
      BY <2>2 DEF DInv, Issued
    <3> QED BY <1>6, <3>1, <3>2
  <2>3. CASE ~New(q, f)
    <3>1. m.from = q /\ service[f].state = "unused"
      BY <1>6, <2>1, <2>3
    <3>2. /\ ~Has(store, f) /\ \A r \in Procs : ~Has(proc[r].held, f) /\ ~New(r, f)
      BY <3>1 DEF DInv, Issued
    <3> QED BY <1>6, <3>1, <3>2
  <2> QED BY <2>2, <2>3
<1> QED BY <1>4, <1>7, <1>8 DEF DInv

LEMMA InitDInv == Init => DInv
<1>1. SUFFICES ASSUME Init PROVE Issued /\ Fresh /\ \A p \in Procs : Dropped(p)
  BY InitTInv DEF DInv
<1>2. /\ \A f : ~Has(store, f)
      /\ \A p \in Procs : /\ proc[p].result = "none"
                          /\ \A f : ~Has(proc[p].held, f) /\ ~New(p, f)
  <2>1. store = NoCredential /\ \A p \in Procs : proc[p] = Idle
    BY <1>1 DEF Init
  <2>2. \A f : ~Has(NoCredential, f)
    BY DEF Has
  <2>3. ASSUME NEW p \in Procs, NEW f PROVE ~New(p, f)
    BY <2>1, IdleFields DEF New
  <2> QED BY <2>1, <2>2, <2>3, IdleFields
<1> QED BY <1>2 DEF Issued, Fresh, Dropped

LEMMA NextDInv == "delete_fails" \notin Faults /\ DInv /\ [Next]_vars => DInv'
<1> SUFFICES ASSUME "delete_fails" \notin Faults, DInv, [Next]_vars PROVE DInv'
  OBVIOUS
<1>1. TInv /\ TInv'
  BY NextTInv DEF DInv
<1>2. ASSUME NEW p \in Procs, Begin(p) \/ Run(p) \/ Timeout(p) \/ Crash(p) PROVE DInv'
  <2>1. CASE \/ LoadStored(p) \/ ReceiveRefresh(p) \/ DeleteDead(p) \/ SaveSession(p)
             \/ ReceiveUndo(p) \/ ReceiveExchange(p) \/ Send(p) \/ Timeout(p)
    BY <1>1, <2>1, DropSteps
  <2>2. CASE Aside(p)
    BY <1>1, <2>2, DropAside
  <2> QED BY <1>1, <1>2, <2>1, <2>2, AsideSteps DEF Run
<1>3. ASSUME NEW m \in network, Service(m) PROVE DInv'
  BY <1>1, <1>3, DropService
<1>4. ASSUME NEW g \in Families, WebRevoke(g) PROVE DInv'
  <2>1. /\ UNCHANGED <<store, proc>>
        /\ \A f \in Families : service'[f].state = "unused" => service[f].state = "unused"
    BY <1>4 DEF WebRevoke, DInv, TInv, IInv, TypeOK
  <2>2. \A q \in Procs : Dropped(q)' /\ \A f : New(q, f)' <=> New(q, f)
    BY <2>1 DEF DInv, Dropped, Has, Rotating, New
  <2> QED BY <1>1, <2>1, <2>2 DEF DInv, Issued, Fresh, Has
<1>5. CASE UNCHANGED vars
  <2>1. \A q \in Procs : Dropped(q)' /\ \A f : New(q, f)' <=> New(q, f)
    BY <1>5 DEF vars, DInv, Dropped, Has, Rotating, New
  <2> QED BY <1>1, <1>5, <2>1 DEF vars, DInv, Issued, Fresh, Has
<1> QED BY <1>2, <1>3, <1>4, <1>5 DEF Next

\* p has replaced the credential it held, or has given up its family, and goes
\* on to report so.
Beyond(p) ==
    \/ proc[p].pc = "release" /\ proc[p].result = "active"
    \/ /\ proc[p].pc \in {"send", "await"}
       /\ proc[p].asking \in {"call", "list_devices", "revoke_device", "revoke"}
    \/ proc[p].pc \in {"delete", "done"} /\ proc[p].result = "remote_revoked"

\* credential is none, or of another family, or by more than n after old.
Past(credential, old, n) ==
    credential # NoCredential /\ credential.family = old.family
      => credential.generation > old.generation + n

\* What p has replaced is neither stored nor rotated, and once a logout has
\* deleted the credential neither is what p replaced it with stored.
Behind(p) ==
    Beyond(p) =>
      /\ proc[p].held \in Credential
      /\ Past(store, proc[p].held, IF proc[p].pc = "done" THEN 1 ELSE 0)
      /\ \A q \in Procs : Rotating(q) => Past(proc[q].held, proc[p].held, 0)

Succeeds(p) ==
    proc[p].pc = "save" /\ proc[p].asking = "refresh" =>
      proc[p].session.generation = proc[p].held.generation + 1

GInv == DInv /\ \A p \in Procs : Behind(p) /\ Succeeds(p)

LEMMA BehindLocal ==
    ASSUME GInv, NEW p \in Procs, Moves(p), DInv', Behind(p)', Succeeds(p)',
           \/ store' \in {store, NoCredential}
           \/ /\ proc[p].pc = "save" /\ proc[p].asking \in {"refresh", "exchange"}
              /\ store' = proc[p].session,
           Rotating(p)' => (Rotating(p) /\ proc'[p].held = proc[p].held) \/ proc'[p].held = store
    PROVE  GInv'
<1>1. \A q \in Procs \ {p} : proc'[q] = proc[q] /\ (Rotating(q)' <=> Rotating(q))
  BY DEF Moves, Rotating
<1>2. ASSUME NEW q \in Procs \ {p} PROVE Succeeds(q)'
  BY <1>1 DEF GInv, Succeeds
<1>3. ASSUME NEW q \in Procs \ {p}, Beyond(q)' PROVE Behind(q)'
  <2> DEFINE old == proc[q].held
             n == IF proc[q].pc = "done" THEN 1 ELSE 0
  <2>1. Beyond(q)
    BY <1>1, <1>3 DEF Beyond
  <2>2. /\ old \in Credential /\ Past(store, old, n)
        /\ \A r \in Procs : Rotating(r) => Past(proc[r].held, old, 0)
    BY <2>1 DEF GInv, Behind
  <2>3. Past(store, old, 0)
    <3>1. old.generation \in Nat
      BY <2>2 DEF Credential
    <3>2. store # NoCredential => store.generation \in Nat
      BY DEF GInv, DInv, TInv, IInv, TypeOK, Stored, Credential
    <3> QED BY <2>2, <3>1, <3>2 DEF Past
  <2>4. Past(store', old, n)
    <3>1. CASE store' \in {store, NoCredential}
      BY <2>2, <3>1 DEF Past
    <3>2. CASE proc[p].pc = "save" /\ proc[p].asking = "exchange" /\ store' = proc[p].session
      <4>1. proc[p].session \in Credential
        BY <3>2 DEF GInv, DInv, TInv, Knows
      <4>2. New(p, proc[p].session.family) /\ proc[p].session.family \in Families
        BY <3>2, <4>1 DEF New, Credential
      <4>3. ~Has(old, proc[p].session.family)
        BY <4>2 DEF GInv, DInv, Fresh
      <4> QED BY <2>2, <3>2, <4>3, NoCredentialIsNone DEF Has, Past
    <3>3. CASE proc[p].pc = "save" /\ proc[p].asking = "refresh" /\ store' = proc[p].session
      <4>1. /\ proc[p].held \in Credential /\ proc[p].session \in Credential
            /\ proc[p].session.family = proc[p].held.family
        BY <3>3 DEF GInv, DInv, TInv, Knows, Obtained
      <4>2. proc[p].session.generation = proc[p].held.generation + 1
        BY <3>3 DEF GInv, Succeeds
      <4>3. Past(proc[p].held, old, 0)
        BY <2>2, <3>3 DEF Rotating
      <4>4. proc[p].held.generation \in Nat /\ old.generation \in Nat
        BY <2>2, <4>1 DEF Credential
      <4> QED BY <3>3, <4>1, <4>2, <4>3, <4>4, NoCredentialIsNone DEF Past
    <3> QED BY <3>1, <3>2, <3>3
  <2>5. \A r \in Procs : Rotating(r)' => Past(proc'[r].held, old, 0)
    BY <1>1, <2>2, <2>3
  <2> QED BY <1>1, <2>2, <2>4, <2>5 DEF Behind, Past
<1>4. ASSUME NEW q \in Procs \ {p} PROVE Behind(q)'
  BY <1>3 DEF Behind
<1> QED BY <1>2, <1>4 DEF GInv

\* p goes on with what it has replaced or given up, or ends.
Settles(p) ==
    /\ proc[p].pc # "done"
    /\ Beyond(p)' =>
         /\ proc'[p].held = proc[p].held
         /\ Beyond(p) \/ (proc[p].pc = "release" /\ proc[p].result = "dead")
         /\ proc'[p].pc = "done" => store' = NoCredential

LEMMA SettlesBehind ==
    ASSUME GInv, NEW p \in Procs, Moves(p), DInv', Settles(p) \/ ~Beyond(p)',
           Succeeds(p)', store' \in {store, NoCredential},
           Rotating(p)' => Rotating(p) /\ proc'[p].held = proc[p].held
    PROVE  GInv'
<1>1. ASSUME Beyond(p)' PROVE Behind(p)'
  <2> DEFINE old == proc[p].held
  <2>1. /\ Settles(p) /\ proc'[p].held = old /\ proc[p].pc # "done"
        /\ proc'[p].pc = "done" => store' = NoCredential
    BY <1>1 DEF Settles
  <2>2. /\ old \in Credential /\ Past(store, old, 0)
        /\ \A q \in Procs : Rotating(q) => Past(proc[q].held, old, 0)
    <3>1. CASE Beyond(p)
      BY <2>1, <3>1 DEF GInv, Behind
    <3>2. CASE proc[p].pc = "release" /\ proc[p].result = "dead"
      <4>1. old \in Credential
        BY <3>2 DEF GInv, DInv, Dropped
      <4>2. old.family \in Families /\ Has(old, old.family)
        BY <4>1, NoCredentialIsNone DEF Credential, Has
      <4>3. /\ ~Has(store, old.family)
            /\ \A q \in Procs : Rotating(q) => ~Has(proc[q].held, old.family)
        BY <3>2, <4>2 DEF GInv, DInv, Dropped
      <4> QED BY <4>1, <4>3 DEF Has, Past
    <3> QED BY <1>1, <2>1, <3>1, <3>2 DEF Settles
  <2>3. \A q \in Procs \ {p} : proc'[q] = proc[q] /\ (Rotating(q)' <=> Rotating(q))
    BY DEF Moves, Rotating
  <2>4. Past(store', old, IF proc'[p].pc = "done" THEN 1 ELSE 0)
    BY <2>1, <2>2 DEF Past
  <2> QED BY <2>1, <2>2, <2>3, <2>4 DEF Behind
<1>2. Behind(p)'
  BY <1>1 DEF Behind
<1> QED BY <1>2, BehindLocal

LEMMA EndSettles ==
    ASSUME TypeOK, NEW p \in Procs, NEW result \in Results \ {"remote_revoked"}, End(p, result)
    PROVE  ~Beyond(p)'
BY EndDoes DEF Beyond

LEMMA AsideSettles ==
    ASSUME TInv, NEW p \in Procs,
           \/ Begin(p) \/ ensure_signed_out(p) \/ LoadFirst(p) \/ Acquire(p) \/ ReleaseLock(p)
           \/ ReceiveCall(p) \/ ReceiveDevices(p) \/ ReceiveDeviceRevoked(p) \/ ReceiveRevoked(p)
           \/ DeleteCredential(p) \/ DiscoveryFails(p) \/ Crash(p)
    PROVE  Settles(p) \/ ~Beyond(p)'
<1>1. TypeOK /\ Disciplined(p) /\ Knows(p) /\ proc[p] \in ProcType
  BY DEF TInv, IInv, TypeOK
<1>2. /\ {"error", "signed_out", "already_signed_in", "lock_unavailable", "unconfirmed", "online",
          "device_revoked", "remote_revoked", "local_only"} \subseteq Results
      /\ proc[p].result \in Results /\ proc[p].reply \in Replies
  BY <1>1 DEF Results, ProcType
<1>3. CASE Begin(p)
  BY <1>1, <1>3, BeginDoes DEF Beyond
<1>4. CASE ensure_signed_out(p) \/ LoadFirst(p)
  <2>1. CASE End(p, "already_signed_in") \/ End(p, "signed_out") \/ End(p, "error")
    BY <1>1, <1>2, <2>1, EndSettles
  <2>2. CASE Ask(p, "exchange")
    BY <1>1, <2>2, AskDoes DEF Kinds, Beyond
  <2>3. CASE Goto(p, IF proc[p].command = "local_only" THEN "delete" ELSE "acquire")
    <3>1. PICK pc \in {"delete", "acquire"} : Goto(p, pc)
      BY <2>3
    <3>2. proc'[p].pc \in {"delete", "acquire"} /\ proc'[p].result = proc[p].result
      BY <1>1, <3>1, GotoDoes DEF PCs
    <3>3. proc[p].result = "none"
      BY <1>1, <1>4 DEF Knows, ensure_signed_out, LoadFirst
    <3> QED BY <3>2, <3>3 DEF Beyond
  <2> QED BY <1>4, <2>1, <2>2, <2>3 DEF ensure_signed_out, LoadFirst
<1>5. CASE Acquire(p)
  <2>1. CASE Goto(p, "load_stored")
    BY <1>1, <2>1, GotoDoes DEF PCs, Beyond
  <2> QED BY <1>1, <1>2, <1>5, <2>1, EndSettles DEF Acquire
<1>6. CASE ReleaseLock(p)
  <2>1. CASE \E kind \in {"call", "revoke", "list_devices", "revoke_device"} : Ask(p, kind)
    <3>1. proc[p].pc = "release"
      BY <1>6 DEF ReleaseLock
    <3>2. proc'[p].pc = "send" /\ proc'[p].held = proc[p].held
      BY <1>1, <2>1, AskDoes DEF Kinds
    <3>3. proc[p].result = "active" \/ End(p, "unconfirmed") \/ End(p, proc[p].result)
            \/ proc' = [proc EXCEPT ![p].pc = "delete", ![p].result = "remote_revoked"]
      BY <1>1, <1>6, ReleaseLockDoes
    <3>4. ~End(p, "unconfirmed") /\ ~End(p, proc[p].result)
      BY <1>1, <1>2, <3>2, EndDoes
    <3>5. proc' # [proc EXCEPT ![p].pc = "delete", ![p].result = "remote_revoked"]
      <4> SUFFICES ASSUME proc' = [proc EXCEPT ![p].pc = "delete", ![p].result = "remote_revoked"]
                   PROVE  FALSE
        OBVIOUS
      <4>1. "delete" \in PCs /\ "remote_revoked" \in Results
        BY <1>2 DEF PCs
      <4>2. proc'[p].pc = "delete"
        BY <1>1, <4>1, DeletingDoes
      <4> QED BY <3>2, <4>2
    <3>6. proc[p].result = "active"
      BY <3>3, <3>4, <3>5
    <3> QED BY <3>1, <3>2, <3>6 DEF Settles, Beyond
  <2>2. CASE /\ proc[p].result = "dead"
             /\ proc' = [proc EXCEPT ![p].pc = "delete", ![p].result = "remote_revoked"]
    <3>1. proc'[p].pc = "delete" /\ proc'[p].held = proc[p].held
      BY <1>1, <1>2, <2>2, DeletingDoes DEF PCs
    <3> QED BY <1>6, <2>2, <3>1 DEF Settles, ReleaseLock
  <2>3. CASE End(p, "unconfirmed") \/ End(p, proc[p].result)
    <3>1. proc[p].result # "remote_revoked"
      BY <1>1, <1>6 DEF Knows, ReleaseLock
    <3> QED BY <1>1, <1>2, <2>3, <3>1, EndSettles
  <2> QED BY <1>1, <1>6, <2>1, <2>2, <2>3, ReleaseLockDoes
<1>7. CASE ReceiveCall(p)
  <2>1. PICK result \in Results \ {"remote_revoked"} : End(p, result)
    BY <1>2, <1>7 DEF ReceiveCall, Results, Replies, Statuses
  <2> QED BY <1>1, <2>1, EndSettles
<1>8. CASE ReceiveDevices(p)
  <2> DEFINE devices == proc[p].reply.devices
  <2>1. /\ proc[p].pc = "await" /\ proc[p].asking = "list_devices"
        /\ End(p, "error") \/ GoesOn(p, devices, devices)
    BY <1>8 DEF ReceiveDevices, GoesOn
  <2>2. CASE GoesOn(p, devices, devices)
    <3>1. devices \in SUBSET Families
      BY <1>2 DEF Replies
    <3> QED BY <1>1, <2>1, <2>2, <3>1, DevicesDoes DEF Settles, Beyond
  <2> QED BY <1>1, <1>2, <2>1, <2>2, EndSettles
<1>9. CASE ReceiveDeviceRevoked(p)
  <2> DEFINE rest == proc[p].todo \ proc[p].reply.devices
  <2>1. proc[p].command \in {"logout_all", "revoke_device"}
    BY <1>1, <1>9 DEF ReceiveDeviceRevoked, Disciplined
  <2>2. /\ proc[p].pc = "await" /\ proc[p].asking = "revoke_device"
        /\ \/ End(p, "error") \/ End(p, "device_revoked") \/ GoesOn(p, rest, proc[p].listed)
           \/ proc' = [proc EXCEPT ![p].pc = "delete", ![p].result = "device_revoked"]
    BY <1>9, <2>1 DEF ReceiveDeviceRevoked, GoesOn
  <2>3. CASE GoesOn(p, rest, proc[p].listed)
    <3>1. rest \in SUBSET Families /\ proc[p].listed \in SUBSET Families
      BY <1>1 DEF ProcType
    <3> QED BY <1>1, <2>2, <2>3, <3>1, DevicesDoes DEF Settles, Beyond
  <2>4. CASE proc' = [proc EXCEPT ![p].pc = "delete", ![p].result = "device_revoked"]
    BY <1>1, <1>2, <2>4, DeletingDoes DEF PCs, Beyond
  <2> QED BY <1>1, <1>2, <2>2, <2>3, <2>4, EndSettles
<1>10. CASE ReceiveRevoked(p)
  <2>1. /\ proc[p].pc = "await" /\ proc[p].asking = "revoke"
        /\ \/ End(p, "error")
           \/ proc' = [proc EXCEPT ![p].pc = "delete", ![p].result = "remote_revoked"]
    BY <1>10 DEF ReceiveRevoked
  <2>2. CASE proc' = [proc EXCEPT ![p].pc = "delete", ![p].result = "remote_revoked"]
    <3>1. proc'[p].pc = "delete" /\ proc'[p].held = proc[p].held
      BY <1>1, <1>2, <2>2, DeletingDoes DEF PCs
    <3> QED BY <2>1, <3>1 DEF Settles, Beyond
  <2> QED BY <1>1, <1>2, <2>1, <2>2, EndSettles
<1>11. CASE DeleteCredential(p)
  <2>1. /\ proc[p].pc = "delete" /\ proc[p].result \in {"none", "device_revoked", "remote_revoked"}
    BY <1>1, <1>11 DEF DeleteCredential, Knows
  <2>2. CASE End(p, "error")
    BY <1>1, <1>2, <2>2, EndSettles
  <2>3. CASE store' = NoCredential /\ \E result \in {"local_only", proc[p].result} :
               End(p, result)
    <3>1. PICK result \in {"local_only", proc[p].result} : End(p, result)
      BY <2>3
    <3>2. CASE result = "remote_revoked"
      <4>1. proc'[p].held = proc[p].held /\ proc[p].result = "remote_revoked"
        BY <1>1, <1>2, <3>1, <3>2, EndDoes
      <4> QED BY <2>1, <2>3, <4>1 DEF Settles, Beyond
    <3> QED BY <1>1, <1>2, <3>1, <3>2, EndSettles
  <2> QED BY <1>11, <2>2, <2>3 DEF DeleteCredential
<1>12. CASE DiscoveryFails(p)
  <2>1. CASE Release(p, "offline")
    BY <1>1, <2>1, ReleaseDoes DEF Beyond, Results
  <2> QED BY <1>1, <1>2, <1>12, <2>1, EndSettles DEF DiscoveryFails
<1>13. CASE Crash(p)
  BY <1>1, <1>13, CrashDoes, IdleFields DEF Beyond
<1> QED BY <1>3, <1>4, <1>5, <1>6, <1>7, <1>8, <1>9, <1>10, <1>11, <1>12, <1>13

LEMMA BehindAside ==
    ASSUME GInv, NEW p \in Procs, Aside(p), DInv', Settles(p) \/ ~Beyond(p)'
    PROVE  GInv'
<1>1. /\ Moves(p) /\ store' \in {store, NoCredential} /\ Succeeds(p)' /\ ~Rotating(p)'
  BY DEF Aside, Succeeds, Rotating
<1> QED BY <1>1, SettlesBehind

LEMMA BehindSteps ==
    ASSUME GInv, NEW p \in Procs, DInv',
           \/ LoadStored(p) \/ ReceiveRefresh(p) \/ DeleteDead(p) \/ SaveSession(p)
           \/ ReceiveUndo(p) \/ ReceiveExchange(p) \/ Send(p) \/ Timeout(p)
    PROVE  GInv'
<1>1. TypeOK /\ IInv /\ proc[p] \in ProcType /\ Knows(p) /\ Disciplined(p)
  BY DEF GInv, DInv, TInv, IInv, TypeOK
<1>2. {"error", "offline", "dead", "signed_in", "active", "store_failure"} \subseteq Results
  BY DEF Results
<1>3. CASE LoadStored(p)
  <2>1. CASE Release(p, "error")
    <3>1. Aside(p) /\ ~Beyond(p)'
      BY <1>1, <1>2, <1>3, <2>1, ReleaseAside, ReleaseDoes DEF LoadStored, Beyond
    <3> QED BY <3>1, BehindAside
  <2>2. CASE ~Release(p, "error")
    <3>1. /\ Moves(p) /\ proc'[p].pc = "send" /\ proc'[p].asking = "refresh"
          /\ proc'[p].held = store /\ UNCHANGED store
      BY <1>1, <1>3, <2>2, LoadStoredDoes
    <3>2. Behind(p)' /\ Succeeds(p)'
      BY <3>1 DEF Behind, Beyond, Succeeds
    <3> QED BY <3>1, <3>2, BehindLocal
  <2> QED BY <2>1, <2>2
<1>4. CASE ReceiveRefresh(p)
  <2>1. /\ UNCHANGED <<service, store>> /\ proc[p].pc = "await" /\ proc[p].asking = "refresh"
        /\ \/ Release(p, "error") \/ Release(p, "offline")
           \/ /\ Save(p, proc[p].reply.credential) /\ validate_session(proc[p].reply, proc[p].held)
              /\ proc[p].reply.status = "session"
           \/ proc' = [proc EXCEPT ![p].pc = "delete_dead", ![p].result = "dead"]
    BY <1>4 DEF ReceiveRefresh
  <2>2. CASE Release(p, "error") \/ Release(p, "offline")
    <3>1. Aside(p) /\ ~Beyond(p)'
      BY <1>1, <1>2, <2>1, <2>2, ReleaseAside, ReleaseDoes DEF Beyond
    <3> QED BY <3>1, BehindAside
  <2>3. CASE /\ Save(p, proc[p].reply.credential) /\ validate_session(proc[p].reply, proc[p].held)
             /\ proc[p].reply.status = "session"
    <3>1. proc[p].reply.credential \in Stored /\ proc[p].held \in Credential
      BY <1>1, <2>1 DEF ProcType, Replies, Knows
    <3>2. /\ Moves(p) /\ proc'[p].pc = "save" /\ proc'[p].asking = "refresh"
          /\ proc'[p].held = proc[p].held /\ proc'[p].session = proc[p].reply.credential
      BY <1>1, <2>1, <2>3, <3>1, SaveDoes
    <3>3. proc[p].reply.credential.generation = proc[p].held.generation + 1
      BY <2>3, <3>1, NoCredentialIsNone DEF validate_session
    <3>4. Succeeds(p)' /\ ~Beyond(p)' /\ Rotating(p)
      BY <2>1, <3>2, <3>3 DEF Succeeds, Beyond, Rotating
    <3> QED BY <2>1, <3>2, <3>4, SettlesBehind
  <2>4. CASE proc' = [proc EXCEPT ![p].pc = "delete_dead", ![p].result = "dead"]
    <3>1. Moves(p) /\ proc'[p].pc = "delete_dead"
      BY <1>1, <1>2, <2>4, DeletingDoes DEF PCs
    <3>2. Succeeds(p)' /\ ~Beyond(p)' /\ ~Rotating(p)'
      BY <3>1 DEF Succeeds, Beyond, Rotating
    <3> QED BY <2>1, <3>1, <3>2, SettlesBehind
  <2> QED BY <2>1, <2>2, <2>3, <2>4
<1>5. CASE DeleteDead(p)
  <2>1. /\ Moves(p) /\ proc'[p].pc = "release" /\ proc'[p].result = proc[p].result
        /\ proc[p].pc = "delete_dead" /\ store' \in {store, NoCredential}
    BY <1>1, <1>5, GotoDoes DEF DeleteDead, PCs
  <2>2. proc[p].result # "active"
    BY <1>1, <2>1 DEF Knows
  <2>3. Succeeds(p)' /\ ~Beyond(p)' /\ ~Rotating(p)'
    BY <2>1, <2>2 DEF Succeeds, Beyond, Rotating
  <2> QED BY <2>1, <2>3, SettlesBehind
<1>6. CASE SaveSession(p)
  <2>1. /\ proc[p].pc = "save" /\ proc[p].asking \in {"refresh", "exchange"}
        /\ proc[p].asking = "refresh" => proc[p].command # "login"
        /\ proc[p].asking = "exchange" => proc[p].command = "login"
    BY <1>1, <1>6 DEF SaveSession, Disciplined, Refreshers
  <2>2. CASE store' = proc[p].session /\ End(p, "signed_in")
    <3>1. Moves(p) /\ proc'[p].pc = "done" /\ proc'[p].result = "signed_in"
      BY <1>1, <1>2, <2>2, EndDoes
    <3>2. Behind(p)' /\ Succeeds(p)' /\ ~Rotating(p)'
      BY <3>1 DEF Behind, Beyond, Succeeds, Rotating
    <3> QED BY <2>1, <2>2, <3>1, <3>2, BehindLocal
  <2>3. CASE store' = proc[p].session /\ Release(p, "active") /\ proc[p].asking = "refresh"
    <3>1. Moves(p) /\ proc'[p].pc = "release" /\ proc'[p].held = proc[p].held
      BY <1>1, <1>2, <2>3, ReleaseDoes
    <3>2. Succeeds(p)' /\ ~Rotating(p)'
      BY <3>1 DEF Succeeds, Rotating
    <3>3. /\ proc[p].held \in Credential
          /\ proc[p].session.generation = proc[p].held.generation + 1
      BY <1>1, <2>1, <2>3 DEF Knows, Obtained, GInv, Succeeds
    <3>4. Past(store', proc'[p].held, 0)
      <4>1. proc[p].held.generation \in Nat
        BY <3>3 DEF Credential
      <4> QED BY <2>3, <3>1, <3>3, <4>1 DEF Past
    <3>5. \A q \in Procs : ~Rotating(q)'
      <4>1. InRotation(p)
        BY <2>1, <2>3 DEF InRotation
      <4>2. \A q \in Procs \ {p} : ~Rotating(q) /\ proc'[q] = proc[q]
        BY <1>1, <3>1, <4>1, OneRotates DEF Moves
      <4> QED BY <3>2, <4>2 DEF Rotating
    <3>6. Behind(p)'
      BY <3>1, <3>3, <3>4, <3>5 DEF Behind
    <3> QED BY <2>1, <2>3, <3>1, <3>2, <3>6, BehindLocal
  <2>4. CASE Ask(p, "undo") /\ UNCHANGED store
    <3>1. Moves(p) /\ proc'[p].pc = "send" /\ proc'[p].asking = "undo"
      BY <1>1, <2>4, AskDoes DEF Kinds
    <3>2. Succeeds(p)' /\ ~Beyond(p)' /\ ~Rotating(p)'
      BY <3>1 DEF Succeeds, Beyond, Rotating
    <3> QED BY <2>4, <3>1, <3>2, SettlesBehind
  <2> QED BY <1>6, <2>1, <2>2, <2>3, <2>4 DEF SaveSession
<1>7. CASE ReceiveUndo(p)
  <2>1. UNCHANGED store /\ (End(p, "store_failure") \/ Undone(p))
    BY <1>7 DEF ReceiveUndo
  <2>2. /\ Moves(p) /\ proc'[p].pc \in {"done", "delete_dead"}
        /\ proc'[p].result = "store_failure"
    BY <1>1, <1>2, <2>1, EndDoes, UndoneDoes
  <2>3. Succeeds(p)' /\ ~Beyond(p)' /\ ~Rotating(p)'
    BY <2>2 DEF Succeeds, Beyond, Rotating
  <2> QED BY <2>1, <2>2, <2>3, SettlesBehind
<1>8. CASE ReceiveExchange(p)
  <2>1. /\ UNCHANGED store /\ proc[p].asking = "exchange"
        /\ End(p, "error") \/ Save(p, proc[p].reply.credential)
    BY <1>8 DEF ReceiveExchange
  <2>2. /\ Moves(p) /\ (proc'[p].pc = "done" \/ proc'[p].pc = "save")
        /\ proc'[p].pc = "done" => proc'[p].result = "error"
        /\ proc'[p].pc = "save" => proc'[p].asking = "exchange"
    <3>1. CASE End(p, "error")
      BY <1>1, <1>2, <3>1, EndDoes
    <3>2. CASE Save(p, proc[p].reply.credential)
      <4>1. proc[p].reply.credential \in Stored
        BY <1>1 DEF ProcType, Replies
      <4> QED BY <1>1, <2>1, <3>2, <4>1, SaveDoes
    <3> QED BY <2>1, <3>1, <3>2
  <2>3. Succeeds(p)' /\ ~Beyond(p)' /\ ~Rotating(p)'
    BY <2>2 DEF Succeeds, Beyond, Rotating
  <2> QED BY <2>1, <2>2, <2>3, SettlesBehind
<1>9. CASE Send(p) \/ Timeout(p)
  <2>1. /\ Moves(p) /\ proc[p].pc \in {"send", "await"} /\ proc'[p].pc = "await"
        /\ proc'[p].asking = proc[p].asking /\ proc'[p].held = proc[p].held
        /\ proc'[p].result = proc[p].result /\ UNCHANGED store
    BY <1>1, <1>9, SendDoes, TimeoutDoes
  <2>2. Settles(p) /\ Succeeds(p)' /\ (Rotating(p)' => Rotating(p))
    BY <2>1 DEF Settles, Succeeds, Beyond, Rotating
  <2> QED BY <2>1, <2>2, SettlesBehind
<1> QED BY <1>3, <1>4, <1>5, <1>6, <1>7, <1>8, <1>9

LEMMA BehindStill ==
    ASSUME GInv, DInv', UNCHANGED store,
           \A q \in Procs : /\ proc'[q].pc = proc[q].pc /\ proc'[q].asking = proc[q].asking
                            /\ proc'[q].result = proc[q].result /\ proc'[q].held = proc[q].held
                            /\ proc'[q].session = proc[q].session
    PROVE  GInv'
<1>1. \A q \in Procs : (Rotating(q)' <=> Rotating(q)) /\ (Beyond(q)' <=> Beyond(q)) /\ Succeeds(q)'
  BY DEF Rotating, Beyond, GInv, Succeeds
<1>2. ASSUME NEW q \in Procs PROVE Behind(q)'
  <2>1. CASE Beyond(q)
    <3>1. /\ proc[q].held \in Credential
          /\ Past(store, proc[q].held, IF proc[q].pc = "done" THEN 1 ELSE 0)
          /\ \A r \in Procs : Rotating(r) => Past(proc[r].held, proc[q].held, 0)
      BY <2>1 DEF GInv, Behind
    <3> QED BY <1>1, <3>1 DEF Behind
  <2>2. CASE ~Beyond(q)
    BY <1>1, <2>2 DEF Behind
  <2> QED BY <2>1, <2>2
<1> QED BY <1>1, <1>2 DEF GInv

LEMMA NextGInv == "delete_fails" \notin Faults /\ GInv /\ [Next]_vars => GInv'
<1> SUFFICES ASSUME "delete_fails" \notin Faults, GInv, [Next]_vars PROVE GInv'
  OBVIOUS
<1>1. DInv' /\ DInv /\ TInv /\ TypeOK
  BY NextDInv DEF GInv, DInv, TInv, IInv
<1>2. ASSUME NEW p \in Procs, Begin(p) \/ Run(p) \/ Timeout(p) \/ Crash(p) PROVE GInv'
  <2>1. CASE \/ LoadStored(p) \/ ReceiveRefresh(p) \/ DeleteDead(p) \/ SaveSession(p)
             \/ ReceiveUndo(p) \/ ReceiveExchange(p) \/ Send(p) \/ Timeout(p)
    BY <1>1, <2>1, BehindSteps
  <2>2. CASE \/ Begin(p) \/ ensure_signed_out(p) \/ LoadFirst(p) \/ Acquire(p) \/ ReleaseLock(p)
             \/ ReceiveCall(p) \/ ReceiveDevices(p) \/ ReceiveDeviceRevoked(p)
             \/ ReceiveRevoked(p) \/ DeleteCredential(p) \/ DiscoveryFails(p) \/ Crash(p)
    <3>1. Aside(p) /\ (Settles(p) \/ ~Beyond(p)')
      BY <1>1, <2>2, AsideSteps, AsideSettles
    <3> QED BY <1>1, <3>1, BehindAside
  <2> QED BY <1>2, <2>1, <2>2 DEF Run
<1>3. ASSUME NEW m \in network, Service(m) PROVE GInv'
  <2>1. PICK a \in Answers(m) :
          proc' = IF m.from = NoProc THEN proc ELSE [proc EXCEPT ![m.from].reply = a.reply]
    BY <1>3 DEF Service
  <2>2. IInv /\ UNCHANGED store
    BY <1>1, <1>3 DEF TInv, Service
  <2>3. \A q \in Procs :
          /\ proc'[q].pc = proc[q].pc /\ proc'[q].asking = proc[q].asking
          /\ proc'[q].result = proc[q].result /\ proc'[q].session = proc[q].session
          /\ proc'[q].held = proc[q].held
    BY <1>1, <2>1, <2>2, AnswerType, ServiceDoes
  <2> QED BY <1>1, <2>2, <2>3, BehindStill
<1>4. CASE UNCHANGED <<store, proc>>
  BY <1>1, <1>4, BehindStill
<1>5. ASSUME NEW g \in Families, WebRevoke(g) PROVE UNCHANGED <<store, proc>>
  BY <1>5 DEF WebRevoke
<1>6. CASE UNCHANGED vars
  BY <1>4, <1>6 DEF vars
<1> QED BY <1>2, <1>3, <1>4, <1>5, <1>6 DEF Next

\* Once refresh_access has learned that its session is dead, no invocation
\* brings a credential of that family back to the store: not one that was
\* rotating it, not one that was signing in, not one that died on the way.
\* Once a logout has reported remote_revoked, neither the credential it used
\* nor the one it stored comes back; a later rotation by another invocation
\* may (logout deletes without the lock).  The exception is a deletion the
\* store refuses, which delete_dead ignores.
THEOREM DeadCredentialsStayOut ==
    ASSUME "delete_fails" \notin Faults
    PROVE  Spec => []DeadCredentialDropped
<1>1. Init => GInv
  <2>1. SUFFICES ASSUME Init, NEW p \in Procs PROVE Behind(p) /\ Succeeds(p)
    BY InitDInv DEF GInv
  <2>2. proc[p].pc = "done" /\ proc[p].result = "none"
    BY <2>1, IdleFields DEF Init
  <2> QED BY <2>2 DEF Behind, Beyond, Succeeds
<1>2. GInv /\ [Next]_vars => GInv'
  BY NextGInv
<1>3. GInv => DeadCredentialDropped
  <2>1. SUFFICES ASSUME GInv, NEW p \in Procs, proc[p].pc = "done",
                        proc[p].result \in {"dead", "remote_revoked"},
                        store # NoCredential, store.family = proc[p].held.family
                 PROVE  /\ proc[p].result = "remote_revoked"
                        /\ store.generation > proc[p].held.generation + 1
    BY DEF DeadCredentialDropped
  <2>2. CASE proc[p].result = "dead"
    <3>1. store.family \in Families /\ Has(store, store.family)
      BY <2>1 DEF GInv, DInv, TInv, IInv, TypeOK, Stored, Credential, Has
    <3>2. proc[p].held # NoCredential
      BY <2>1, <2>2, NoCredentialIsNone DEF GInv, DInv, Dropped
    <3>3. Has(proc[p].held, store.family)
      BY <2>1, <3>2 DEF Has
    <3> QED BY <2>1, <2>2, <3>1, <3>3 DEF GInv, DInv, Dropped
  <2>3. CASE proc[p].result = "remote_revoked"
    <3>1. Past(store, proc[p].held, 1)
      BY <2>1, <2>3 DEF GInv, Behind, Beyond
    <3> QED BY <2>1, <2>3, <3>1 DEF Past
  <2> QED BY <2>1, <2>2, <2>3
<1> QED BY <1>1, <1>2, <1>3, PTL DEF Spec

-----------------------------------------------------------------------------
(* No refresh token is presented twice.                                    *)

\* The service would take credential for a refresh.
Current(credential) == credential.generation = service[credential.family].generation

\* p has used up the token it held and still has to replace or delete it.
Consuming(p) ==
    \/ proc[p].pc = "await" /\ proc[p].asking = "refresh" /\ proc[p].reply.status = "session"
    \/ proc[p].pc = "save" /\ proc[p].asking = "refresh"
    \/ proc[p].pc \in {"send", "await"} /\ proc[p].asking = "undo" /\ proc[p].command # "login"
    \/ proc[p].pc = "delete_dead"

\* What p is about to present, has been given, or is about to save can be used.
UpToDate(p) ==
    /\ /\ proc[p].asking = "refresh"
       /\ proc[p].pc = "send" \/ (proc[p].pc = "await" /\ proc[p].reply = NoReply)
       => Current(proc[p].held)
    /\ /\ proc[p].pc = "await" /\ proc[p].asking = "refresh"
       /\ proc[p].reply.status = "session"
       => Current(proc[p].reply.credential) /\ validate_session(proc[p].reply, proc[p].held)
    /\ /\ proc[p].pc = "await" /\ proc[p].asking = "exchange"
       /\ proc[p].reply.status = "session"
       => Current(proc[p].reply.credential)
    /\ proc[p].pc = "save" => Current(proc[p].session)

\* A stored token that has been used up is in the hands of whoever used it.
Backed ==
    store # NoCredential =>
      Current(store) \/ \E p \in Procs : Consuming(p) /\ Has(proc[p].held, store.family)

RInv ==
    /\ DInv
    /\ \A m \in network : m.from \in Procs
    /\ \A f \in Families : service[f].state = "unused" => service[f].generation = 0
    /\ NeverReusesToken
    /\ Backed
    /\ \A p \in Procs : UpToDate(p)

LEMMA ConsumerRotates ==
    ASSUME IInv, NEW p \in Procs, Consuming(p)
    PROVE  InRotation(p)
<1>1. proc[p].asking = "refresh" /\ proc[p].pc \in {"await", "save"} => proc[p].command # "login"
  BY DEF IInv, Disciplined, Refreshers
<1> QED BY <1>1 DEF Consuming, InRotation

LEMMA FreshLocal ==
    ASSUME RInv, DInv', NEW p \in Procs, Moves(p), UNCHANGED service,
           \A m \in network' : m.from \in Procs,
           UpToDate(p)',
           \/ store' = NoCredential
           \/ Current(store')
           \/ store' = store /\ (Consuming(p) => Consuming(p)' /\ proc'[p].held = proc[p].held)
    PROVE  RInv'
<1>1. \A q \in Procs \ {p} : proc'[q] = proc[q] /\ (Consuming(q)' <=> Consuming(q))
  BY DEF Moves, Consuming
<1>2. \A q \in Procs \ {p} : UpToDate(q)'
  BY <1>1 DEF RInv, UpToDate, Current, validate_session
<1>3. Backed'
  BY <1>1 DEF RInv, Backed, Current, Has
<1>4. NeverReusesToken' /\ \A f \in Families : service'[f].state = "unused" => service'[f].generation = 0
  BY DEF RInv, NeverReusesToken
<1> QED BY <1>2, <1>3, <1>4 DEF RInv

LEMMA FreshAside ==
    ASSUME RInv, DInv', NEW p \in Procs, Aside(p), UNCHANGED network, ~Consuming(p)
    PROVE  RInv'
<1>1. UpToDate(p)'
  BY DEF Aside, UpToDate
<1> QED BY <1>1, FreshLocal DEF Aside, RInv

LEMMA AsideConsumesNothing ==
    ASSUME IInv, NEW p \in Procs,
           \/ Begin(p) \/ ensure_signed_out(p) \/ LoadFirst(p) \/ Acquire(p) \/ ReleaseLock(p)
           \/ ReceiveCall(p) \/ ReceiveDevices(p) \/ ReceiveDeviceRevoked(p) \/ ReceiveRevoked(p)
           \/ DeleteCredential(p) \/ DiscoveryFails(p)
    PROVE  ~Consuming(p) /\ UNCHANGED network
<1>1. CASE Begin(p) \/ ensure_signed_out(p) \/ LoadFirst(p) \/ Acquire(p) \/ ReleaseLock(p)
           \/ DeleteCredential(p)
  <2>1. proc[p].pc \in {"done", "ensure_signed_out", "load", "acquire", "release", "delete"}
    BY <1>1 DEF Begin, ensure_signed_out, LoadFirst, Acquire, ReleaseLock, DeleteCredential
  <2>2. UNCHANGED network
    BY <1>1 DEF Begin, ensure_signed_out, LoadFirst, Acquire, ReleaseLock, DeleteCredential
  <2> QED BY <2>1, <2>2 DEF Consuming
<1>2. CASE ReceiveCall(p) \/ ReceiveDevices(p) \/ ReceiveDeviceRevoked(p) \/ ReceiveRevoked(p)
  <2>1. /\ proc[p].pc = "await"
        /\ proc[p].asking \in {"call", "list_devices", "revoke_device", "revoke"}
    BY <1>2 DEF ReceiveCall, ReceiveDevices, ReceiveDeviceRevoked, ReceiveRevoked
  <2>2. UNCHANGED network
    BY <1>2 DEF ReceiveCall, ReceiveDevices, ReceiveDeviceRevoked, ReceiveRevoked
  <2> QED BY <2>1, <2>2 DEF Consuming
<1>3. CASE DiscoveryFails(p)
  BY <1>3 DEF DiscoveryFails, Consuming
<1> QED BY <1>1, <1>2, <1>3

LEMMA FreshSteps ==
    ASSUME RInv, DInv', NEW p \in Procs, "delete_fails" \notin Faults,
           \/ LoadStored(p) \/ ReceiveRefresh(p) \/ DeleteDead(p) \/ SaveSession(p)
           \/ ReceiveUndo(p) \/ ReceiveExchange(p) \/ Send(p)
    PROVE  RInv'
<1>1. /\ TypeOK /\ IInv /\ proc[p] \in ProcType /\ Knows(p) /\ Disciplined(p) /\ UpToDate(p)
      /\ \A m \in network : m.from \in Procs
  BY DEF RInv, DInv, TInv, IInv, TypeOK
<1>2. {"error", "offline", "dead", "signed_in", "active", "store_failure"} \subseteq Results
  BY DEF Results
<1>3. CASE LoadStored(p)
  <2>1. ~Consuming(p) /\ InRotation(p)
    BY <1>3 DEF LoadStored, Consuming, InRotation
  <2>2. CASE Release(p, "error")
    BY <1>1, <1>3, <2>1, <2>2, ReleaseAside, FreshAside DEF LoadStored
  <2>3. CASE ~Release(p, "error")
    <3>1. /\ Moves(p) /\ proc'[p].pc = "send" /\ proc'[p].asking = "refresh"
          /\ store \in Credential /\ proc'[p].held = store
          /\ UNCHANGED <<store, service, network>>
      BY <1>1, <1>3, <2>3, LoadStoredDoes
    <3>2. Current(store)
      <4>1. \A q \in Procs : ~Consuming(q)
        BY <1>1, <2>1, ConsumerRotates DEF IInv, OneRotation
      <4> QED BY <3>1, <4>1, NoCredentialIsNone DEF RInv, Backed
    <3>3. UpToDate(p)'
      BY <3>1, <3>2 DEF UpToDate, Current
    <3> QED BY <1>1, <2>1, <3>1, <3>3, FreshLocal
  <2> QED BY <2>2, <2>3
<1>4. CASE ReceiveRefresh(p)
  <2>1. /\ UNCHANGED <<service, store, network>> /\ proc[p].pc = "await"
        /\ proc[p].asking = "refresh"
    BY <1>4 DEF ReceiveRefresh
  <2>2. CASE proc[p].reply.status = "session"
    <3>1. Current(proc[p].reply.credential) /\ Save(p, proc[p].reply.credential)
      BY <1>1, <1>4, <2>1, <2>2 DEF UpToDate, ReceiveRefresh
    <3>2. proc[p].reply.credential \in Stored
      BY <1>1 DEF ProcType, Replies
    <3>3. /\ Moves(p) /\ proc'[p].pc = "save" /\ proc'[p].asking = "refresh"
          /\ proc'[p].held = proc[p].held /\ proc'[p].session = proc[p].reply.credential
      BY <1>1, <2>1, <3>1, <3>2, SaveDoes
    <3>4. UpToDate(p)' /\ Consuming(p)'
      BY <2>1, <3>1, <3>3 DEF UpToDate, Consuming, Current
    <3> QED BY <1>1, <2>1, <3>3, <3>4, FreshLocal
  <2>3. CASE proc[p].reply.status # "session"
    <3>1. ~Consuming(p)
      BY <2>1, <2>3 DEF Consuming
    <3>2. CASE Release(p, "offline")
      BY <1>1, <2>1, <3>1, <3>2, ReleaseAside, FreshAside
    <3>3. CASE proc' = [proc EXCEPT ![p].pc = "delete_dead", ![p].result = "dead"]
      <4>1. Moves(p) /\ proc'[p].pc = "delete_dead"
        BY <1>1, <1>2, <3>3, DeletingDoes DEF PCs
      <4>2. UpToDate(p)'
        BY <4>1 DEF UpToDate
      <4> QED BY <1>1, <2>1, <3>1, <4>1, <4>2, FreshLocal
    <3> QED BY <1>4, <2>3, <3>2, <3>3 DEF ReceiveRefresh
  <2> QED BY <2>2, <2>3
<1>5. CASE DeleteDead(p)
  <2>1. /\ Moves(p) /\ proc'[p].pc = "release"
        /\ UNCHANGED <<service, network>> /\ store' = NoCredential
    BY <1>1, <1>5, GotoDoes DEF DeleteDead, PCs
  <2>2. UpToDate(p)'
    BY <2>1 DEF UpToDate
  <2> QED BY <1>1, <2>1, <2>2, FreshLocal
<1>6. CASE SaveSession(p)
  <2>1. /\ proc[p].pc = "save" /\ UNCHANGED <<service, network>> /\ Current(proc[p].session)
        /\ proc[p].asking = "refresh" => proc[p].command # "login"
    BY <1>1, <1>6 DEF SaveSession, UpToDate, Disciplined, Refreshers
  <2>2. CASE /\ store' = proc[p].session
             /\ End(p, "signed_in") \/ Release(p, "active")
    <3>1. Moves(p) /\ proc'[p].pc \in {"done", "release"}
      BY <1>1, <1>2, <2>2, EndDoes, ReleaseDoes
    <3>2. UpToDate(p)'
      BY <3>1 DEF UpToDate
    <3> QED BY <1>1, <2>1, <2>2, <3>1, <3>2, FreshLocal
  <2>3. CASE Ask(p, "undo") /\ UNCHANGED store
    <3>1. /\ Moves(p) /\ proc'[p].pc = "send" /\ proc'[p].asking = "undo"
          /\ proc'[p].held = proc[p].held /\ proc'[p].command = proc[p].command
      BY <1>1, <2>3, AskDoes DEF Kinds
    <3>2. UpToDate(p)' /\ (Consuming(p) => Consuming(p)')
      BY <2>1, <3>1 DEF UpToDate, Consuming
    <3> QED BY <1>1, <2>1, <2>3, <3>1, <3>2, FreshLocal
  <2> QED BY <1>6, <2>2, <2>3 DEF SaveSession
<1>7. CASE ReceiveUndo(p)
  <2>1. /\ UNCHANGED <<service, store, network>> /\ proc[p].pc = "await" /\ proc[p].asking = "undo"
    BY <1>7 DEF ReceiveUndo
  <2>2. CASE proc[p].command = "login"
    <3>1. End(p, "store_failure") /\ ~Consuming(p)
      BY <1>7, <2>1, <2>2 DEF ReceiveUndo, Consuming
    <3>2. Moves(p) /\ proc'[p].pc = "done"
      BY <1>1, <1>2, <3>1, EndDoes
    <3>3. UpToDate(p)'
      BY <3>2 DEF UpToDate
    <3> QED BY <1>1, <2>1, <3>1, <3>2, <3>3, FreshLocal
  <2>3. CASE proc[p].command # "login"
    <3>1. Undone(p)
      BY <1>7, <2>3 DEF ReceiveUndo
    <3>2. Moves(p) /\ proc'[p].pc = "delete_dead" /\ proc'[p].held = proc[p].held
      BY <1>1, <3>1, UndoneDoes
    <3>3. UpToDate(p)' /\ Consuming(p)'
      BY <3>2 DEF UpToDate, Consuming
    <3> QED BY <1>1, <2>1, <3>2, <3>3, FreshLocal
  <2> QED BY <2>2, <2>3
<1>8. CASE ReceiveExchange(p)
  <2>1. /\ UNCHANGED <<service, store, network>> /\ proc[p].pc = "await"
        /\ proc[p].asking = "exchange"
        /\ \/ End(p, "error")
           \/ proc[p].reply.status = "session" /\ Save(p, proc[p].reply.credential)
    BY <1>8 DEF ReceiveExchange
  <2>2. ~Consuming(p)
    BY <2>1 DEF Consuming
  <2>3. CASE End(p, "error")
    BY <1>1, <1>2, <2>1, <2>2, <2>3, EndAside, FreshAside
  <2>4. CASE proc[p].reply.status = "session" /\ Save(p, proc[p].reply.credential)
    <3>1. proc[p].reply.credential \in Stored /\ Current(proc[p].reply.credential)
      BY <1>1, <2>1, <2>4 DEF ProcType, Replies, UpToDate
    <3>2. /\ Moves(p) /\ proc'[p].pc = "save" /\ proc'[p].session = proc[p].reply.credential
      BY <1>1, <2>4, <3>1, SaveDoes
    <3>3. UpToDate(p)'
      BY <2>1, <3>1, <3>2 DEF UpToDate, Current
    <3> QED BY <1>1, <2>1, <2>2, <3>2, <3>3, FreshLocal
  <2> QED BY <2>1, <2>3, <2>4
<1>9. CASE Send(p)
  <2>1. /\ Moves(p) /\ proc[p].pc = "send" /\ proc'[p].pc = "await" /\ proc'[p].reply = NoReply
        /\ proc'[p].command = proc[p].command
        /\ proc'[p].asking = proc[p].asking /\ proc'[p].held = proc[p].held
        /\ UNCHANGED <<service, store>>
    BY <1>1, <1>9, SendDoes
  <2>2. PICK device : network' = network \cup {Request(p, device)}
    BY <1>1, <1>9, SendDoes
  <2>3. \A m \in network' : m.from \in Procs
    <3>1. Request(p, device).from = p
      BY DEF Request
    <3> QED BY <1>1, <2>2, <3>1
  <2>4. UpToDate(p)'
    BY <1>1, <2>1, NoReplyIsNone DEF UpToDate, Current
  <2>5. Consuming(p) => Consuming(p)'
    BY <2>1 DEF Consuming
  <2> QED BY <2>1, <2>3, <2>4, <2>5, FreshLocal
<1> QED BY <1>3, <1>4, <1>5, <1>6, <1>7, <1>8, <1>9

\* Only a refresh moves a generation on, to the one it answers with.
LEMMA AnswerRotates ==
    ASSUME IInv, NEW m \in network, NEW a \in Answers(m), "garbled" \notin Faults,
           m.kind = "refresh" => Current(m.token)
    PROVE  /\ \A d \in Families : a.after[d].state = "reused" => service[d].state = "reused"
           /\ \A d \in Families :
                a.after[d].generation = service[d].generation
                  \/ /\ m.kind = "refresh" /\ d = m.token.family /\ a.reply.status = "session"
                     /\ a.reply.credential = [family |-> d, generation |-> m.token.generation + 1]
                     /\ a.after[d].generation = m.token.generation + 1
           /\ m.kind = "refresh" /\ a.reply.status = "session" =>
                /\ a.reply.credential
                     = [family |-> m.token.family, generation |-> m.token.generation + 1]
                /\ a.after[m.token.family].generation = m.token.generation + 1
           /\ m.kind = "exchange" /\ a.reply.status = "session" => a.reply.credential.generation = 0
<1> DEFINE f == m.token.family
           Known == [state : {"unused", "live", "revoked", "reused"}, generation : 0..MaxGeneration]
           revoked(S) == [d \in Families |-> IF d \in S THEN [service[d] EXCEPT !.state = "revoked"]
                                             ELSE service[d]]
           slips == IF "garbled" \in Faults THEN 0..1 ELSE {0}
           same == \A d \in Families : /\ a.after[d].generation = service[d].generation
                                       /\ a.after[d].state = "reused" => service[d].state = "reused"
<1>1. service \in [Families -> Known] /\ slips = {0}
  BY DEF IInv, TypeOK
<1>2. \A S, d : d \in Families =>
        /\ revoked(S)[d].generation = service[d].generation
        /\ revoked(S)[d].state = "reused" => service[d].state = "reused"
  BY <1>1
<1>3. CASE m.kind = "exchange"
  <2>1. CASE a = [reply |-> Reply("access_denied"), after |-> service]
    <3>1. a.reply.status # "session" /\ a.after = service
      BY <2>1, ReplyFields DEF Statuses
    <3> QED BY <1>3, <3>1
  <2>2. ASSUME NEW n \in Families, NEW slip \in slips, service[n].state = "unused",
               a = [reply |-> Session(n, slip), after |-> [service EXCEPT ![n].state = "live"]]
        PROVE  same /\ a.reply.credential.generation = 0
    <3>1. same
      BY <1>1, <2>2
    <3>2. a.reply.credential = [family |-> n, generation |-> slip]
      BY <2>2, ReplyFields
    <3> QED BY <1>1, <3>1, <3>2
  <2> QED BY <1>3, <2>1, <2>2, AnswerCases
<1>4. CASE m.kind = "refresh"
  <2>1. /\ f \in Families /\ m.token.generation \in 0..MaxGeneration
        /\ m.token.generation = service[f].generation
    BY <1>4 DEF IInv, RefreshesInFlight, Credential, Current
  <2>2. CASE a = [reply |-> Reply("session_revoked"), after |-> service]
    <3>1. a.reply.status = "session_revoked" /\ a.after = service
      BY <2>2, ReplyFields DEF Statuses
    <3> QED BY <1>4, <3>1
  <2>3. CASE a = [reply |-> Session(f, m.token.generation + 1 - 0),
                  after |-> [service EXCEPT ![f].generation = m.token.generation + 1]]
    <3>1. /\ a.reply.status = "session"
          /\ a.reply.credential = [family |-> f, generation |-> m.token.generation + 1]
      <4>1. m.token.generation + 1 - 0 = m.token.generation + 1
        BY <2>1, AccountAssumption
      <4> QED BY <2>3, <4>1, ReplyFields
    <3>2. \A d \in Families : d # f => a.after[d] = service[d]
      BY <1>1, <2>1, <2>3
    <3>3. a.after[f].state = service[f].state /\ a.after[f].generation = m.token.generation + 1
      BY <1>1, <2>1, <2>3
    <3> QED BY <1>4, <3>1, <3>2, <3>3
  <2>4. ~(m.token.generation < service[f].generation)
    BY <1>1, <2>1, AccountAssumption
  <2> QED BY <1>1, <1>4, <2>2, <2>3, <2>4, AnswerCases
<1>5. CASE m.kind \notin {"exchange", "refresh"}
  <2> DEFINE listing == [Reply("devices") EXCEPT
                           !.devices = {d \in Families : service[d].state # "unused"}]
             done == [Reply("ok") EXCEPT !.devices = m.device]
  <2>1. \/ \E s : a = [reply |-> Reply(s), after |-> service]
        \/ a = [reply |-> listing, after |-> service]
        \/ a = [reply |-> done, after |-> revoked(m.device)]
        \/ a = [reply |-> Reply("ok"), after |-> revoked({f})]
    BY <1>5, AnswerCases
  <2> HIDE DEF listing, done, revoked
  <2>2. a.after = service \/ a.after = revoked(m.device) \/ a.after = revoked({f})
    BY <2>1
  <2> QED BY <1>2, <1>5, <2>2
<1> QED BY <1>3, <1>4, <1>5

LEMMA FreshService ==
    ASSUME RInv, DInv', NEW m \in network, Service(m), "garbled" \notin Faults
    PROVE  RInv'
<1>1. PICK a \in Answers(m) :
        /\ service' = a.after
        /\ proc' = IF m.from = NoProc THEN proc ELSE [proc EXCEPT ![m.from].reply = a.reply]
  BY DEF Service
<1>2. IInv /\ TypeOK /\ UNCHANGED store /\ network' \subseteq network
  BY DEF RInv, DInv, TInv, IInv, Service
<1>3. \A q \in Procs :
        /\ proc'[q].pc = proc[q].pc /\ proc'[q].asking = proc[q].asking
        /\ proc'[q].command = proc[q].command /\ proc'[q].session = proc[q].session
        /\ proc'[q].held = proc[q].held
        /\ proc'[q].reply = IF m.from = q THEN a.reply ELSE proc[q].reply
  BY <1>1, <1>2, AnswerType, ServiceDoes
<1> DEFINE s == m.from
           f == m.token.family
<1>4. /\ s \in Procs /\ proc[s].pc = "await" /\ proc[s].reply = NoReply
      /\ m.kind = proc[s].asking /\ m.token = Token(s)
  BY DEF RInv, DInv, TInv, Mail
<1>5. m.kind = "refresh" =>
        /\ m.token = proc[s].held /\ Current(proc[s].held)
        /\ proc[s].held \in Credential /\ InRotation(s)
  <2>1. SUFFICES ASSUME m.kind = "refresh"
                 PROVE  /\ m.token = proc[s].held /\ Current(proc[s].held)
                        /\ proc[s].held \in Credential /\ InRotation(s)
    OBVIOUS
  <2>2. m.token = proc[s].held
    BY <1>4, <2>1 DEF Token
  <2>3. Current(proc[s].held)
    BY <1>4, <2>1 DEF RInv, UpToDate
  <2>4. proc[s].held \in Credential
    BY <1>4, <2>1 DEF RInv, DInv, TInv, Knows
  <2>5. proc[s].command \in Refreshers
    BY <1>2, <1>4, <2>1 DEF IInv, Disciplined
  <2>6. InRotation(s)
    BY <1>4, <2>1, <2>5 DEF InRotation, Refreshers
  <2> QED BY <2>2, <2>3, <2>4, <2>6
<1>6. /\ \A d \in Families : a.after[d].state = "reused" => service[d].state = "reused"
      /\ \A d \in Families :
           a.after[d].generation = service[d].generation
             \/ /\ m.kind = "refresh" /\ d = f /\ a.reply.status = "session"
                /\ a.after[d].generation = m.token.generation + 1
      /\ m.kind = "refresh" /\ a.reply.status = "session" =>
           /\ a.reply.credential = [family |-> f, generation |-> m.token.generation + 1]
           /\ a.after[f].generation = m.token.generation + 1
      /\ m.kind = "exchange" /\ a.reply.status = "session" => a.reply.credential.generation = 0
  <2>1. m.kind = "refresh" => Current(m.token)
    BY <1>5
  <2> QED BY <1>2, <2>1, AnswerRotates
\* The service moves on the family of whoever rotates, and nobody else.
<1>7. ASSUME NEW q \in Procs, NEW d \in Families, service'[d].generation # service[d].generation
      PROVE  /\ d = f /\ m.kind = "refresh" /\ a.reply.status = "session"
             /\ Has(proc[s].held, d) /\ ~New(q, d)
             /\ q # s => ~Rotating(q) /\ ~Consuming(q)
  <2>1. d = f /\ m.kind = "refresh" /\ a.reply.status = "session"
    BY <1>1, <1>6, <1>7
  <2>2. Has(proc[s].held, d)
    BY <1>5, <2>1, NoCredentialIsNone DEF Has
  <2>3. ~New(q, d)
    BY <1>4, <2>2 DEF RInv, DInv, Fresh
  <2>4. Rotating(q) => q = s
    BY <1>2, <1>4, <1>5, <2>1, OneRotates
  <2>5. Consuming(q) => q = s
    BY <1>2, <1>4, <1>5, <2>1, ConsumerRotates DEF IInv, OneRotation
  <2> QED BY <2>1, <2>2, <2>3, <2>4, <2>5
<1>8. NeverReusesToken'
  BY <1>1, <1>6 DEF RInv, NeverReusesToken
<1>9. \A d \in Families : service'[d].state = "unused" => service'[d].generation = 0
  <2>1. SUFFICES ASSUME NEW d \in Families, service'[d].state = "unused"
                 PROVE  service'[d].generation = 0
    OBVIOUS
  <2>2. service[d].state = "unused"
    BY <1>1, <1>2, <2>1, AnswerIssues
  <2>3. ~Has(proc[s].held, d)
    BY <1>4, <2>2 DEF RInv, DInv, Issued
  <2> QED BY <1>4, <1>7, <2>2, <2>3 DEF RInv
<1>10. Backed'
  <2>1. SUFFICES ASSUME store # NoCredential
                 PROVE  \/ Current(store)'
                        \/ \E p \in Procs : Consuming(p)' /\ Has(proc'[p].held, store.family)
    BY <1>2 DEF Backed, Has
  <2>2. store.family \in Families
    BY <1>2, <2>1 DEF TypeOK, Stored, Credential
  <2>3. CASE service'[store.family].generation # service[store.family].generation
    <3>1. Has(proc[s].held, store.family) /\ m.kind = "refresh" /\ a.reply.status = "session"
      BY <1>4, <1>7, <2>2, <2>3
    <3>2. Consuming(s)'
      BY <1>3, <1>4, <3>1 DEF Consuming
    <3> QED BY <1>3, <1>4, <3>1, <3>2
  <2>4. CASE service'[store.family].generation = service[store.family].generation
    <3>1. CASE Current(store)
      BY <1>2, <2>4, <3>1 DEF Current
    <3>2. CASE \E p \in Procs : Consuming(p) /\ Has(proc[p].held, store.family)
      <4>1. PICK p \in Procs : Consuming(p) /\ Has(proc[p].held, store.family)
        BY <3>2
      <4>2. Consuming(p)'
        <5>1. CASE p # s
          BY <1>3, <4>1, <5>1 DEF Consuming
        <5>2. CASE p = s
          BY <1>3, <1>4, <4>1, <5>2, NoReplyIsNone DEF Consuming
        <5> QED BY <5>1, <5>2
      <4> QED BY <1>3, <4>1, <4>2
    <3> QED BY <2>1, <3>1, <3>2 DEF RInv, Backed
  <2> QED BY <2>3, <2>4
<1>11. ASSUME NEW q \in Procs PROVE UpToDate(q)'
  <2>1. UpToDate(q) /\ Knows(q) /\ Knows(q)' /\ \A c \in Credential : c.family \in Families
    BY DEF RInv, DInv, TInv, Credential
  <2>2. CASE q # s
    <3>1. proc'[q].reply = proc[q].reply
      BY <1>3, <2>2
    <3>2. ASSUME proc[q].asking = "refresh",
                 proc[q].pc = "send" \/ (proc[q].pc = "await" /\ proc[q].reply = NoReply)
          PROVE  Current(proc[q].held)'
      <4>1. Current(proc[q].held) /\ proc[q].held.family \in Families /\ Rotating(q)
        BY <2>1, <3>2 DEF UpToDate, Knows, Rotating
      <4> QED BY <1>3, <1>7, <2>2, <4>1 DEF Current
    <3>3. ASSUME proc[q].pc = "await", proc[q].asking \in {"refresh", "exchange"},
                 proc[q].reply.status = "session"
          PROVE  Current(proc[q].reply.credential)'
      <4>1. Current(proc[q].reply.credential) /\ proc[q].reply.credential.family \in Families
        BY <2>1, <3>3 DEF UpToDate, Knows
      <4>2. Rotating(q) \/ New(q, proc[q].reply.credential.family)
        BY <3>3 DEF Rotating, New
      <4> QED BY <1>3, <1>7, <2>2, <3>1, <4>1, <4>2 DEF Current
    <3>4. ASSUME proc[q].pc = "save"
          PROVE  Current(proc[q].session)'
      <4>1. Current(proc[q].session) /\ proc[q].session.family \in Families
        BY <2>1, <3>4 DEF UpToDate, Knows
      <4>2. proc[q].asking \in {"refresh", "exchange"}
        BY <1>2, <3>4 DEF IInv, Disciplined
      <4>3. Rotating(q) \/ New(q, proc[q].session.family)
        BY <3>4, <4>2 DEF Rotating, New
      <4> QED BY <1>3, <1>7, <2>2, <4>1, <4>3 DEF Current
    <3> QED BY <1>3, <2>1, <3>1, <3>2, <3>3, <3>4 DEF UpToDate, validate_session
  <2>3. CASE q = s
    <3>1. proc'[q].pc = "await" /\ proc'[q].reply = a.reply /\ a.reply # NoReply
      BY <1>2, <1>3, <1>4, <2>3, AnswerTruth, NoReplyIsNone
    <3>2. ASSUME proc[q].asking = "refresh", a.reply.status = "session"
          PROVE  Current(a.reply.credential)' /\ validate_session(a.reply, proc[q].held)
      <4>1. /\ a.reply.credential = [family |-> f, generation |-> m.token.generation + 1]
            /\ service'[f].generation = m.token.generation + 1
            /\ m.token = proc[q].held /\ proc[q].held \in Credential
        BY <1>1, <1>4, <1>5, <1>6, <2>3, <3>2
      <4> QED BY <4>1, NoCredentialIsNone DEF Current, validate_session
    <3>3. ASSUME proc[q].asking = "exchange", a.reply.status = "session"
          PROVE  Current(a.reply.credential)'
      <4> DEFINE n == a.reply.credential.family
      <4>1. /\ n \in Families /\ service[n].state = "unused"
            /\ a.reply.credential.generation = 0
        BY <1>2, <1>4, <1>6, <2>3, <3>3, AnswerIssues
      <4>2. service[n].generation = 0 /\ service'[n].generation = service[n].generation
        BY <1>4, <1>7, <2>3, <3>3, <4>1 DEF RInv
      <4> QED BY <4>1, <4>2 DEF Current
    <3>4. proc'[q].held = proc[q].held /\ proc'[q].asking = proc[q].asking
      BY <1>3
    <3> QED BY <3>1, <3>2, <3>3, <3>4 DEF UpToDate, Current
  <2> QED BY <2>2, <2>3
<1>12. \A n \in network' : n.from \in Procs
  BY <1>2 DEF RInv
<1> QED BY <1>8, <1>9, <1>10, <1>11, <1>12 DEF RInv

\* What must not go wrong for tokens never to come back.
Calm == Faults \cap {"timeout", "crash", "garbled", "delete_fails"} = {}

LEMMA NextRInv == Calm /\ RInv /\ [Next]_vars => RInv'
<1> SUFFICES ASSUME Calm, RInv, [Next]_vars PROVE RInv'
  OBVIOUS
<1>1. "timeout" \notin Faults /\ "crash" \notin Faults /\ "garbled" \notin Faults
      /\ "delete_fails" \notin Faults
  BY DEF Calm
<1>2. DInv /\ DInv' /\ TInv /\ IInv
  BY <1>1, NextDInv DEF RInv, DInv, TInv
<1>3. ASSUME NEW p \in Procs, Begin(p) \/ Run(p) \/ Timeout(p) \/ Crash(p) PROVE RInv'
  <2>1. ~Timeout(p) /\ ~Crash(p)
    BY <1>1 DEF Timeout, Crash
  <2>2. CASE \/ LoadStored(p) \/ ReceiveRefresh(p) \/ DeleteDead(p) \/ SaveSession(p)
             \/ ReceiveUndo(p) \/ ReceiveExchange(p) \/ Send(p)
    BY <1>1, <1>2, <2>2, FreshSteps
  <2>3. CASE \/ Begin(p) \/ ensure_signed_out(p) \/ LoadFirst(p) \/ Acquire(p) \/ ReleaseLock(p)
             \/ ReceiveCall(p) \/ ReceiveDevices(p) \/ ReceiveDeviceRevoked(p) \/ ReceiveRevoked(p)
             \/ DeleteCredential(p) \/ DiscoveryFails(p)
    BY <1>2, <2>3, AsideSteps, AsideConsumesNothing, FreshAside
  <2> QED BY <1>3, <2>1, <2>2, <2>3 DEF Run
<1>4. ASSUME NEW m \in network, Service(m) PROVE RInv'
  BY <1>1, <1>2, <1>4, FreshService
<1>5. ASSUME NEW g \in Families, WebRevoke(g) PROVE RInv'
  <2>1. /\ UNCHANGED <<store, proc, network>>
        /\ \A f \in Families : /\ service'[f].state \in {"unused", "reused"} => service'[f] = service[f]
                               /\ service'[f].generation = service[f].generation
    BY <1>2, <1>5 DEF WebRevoke, IInv, TypeOK
  <2>2. \A c \in Credential : Current(c) => Current(c)'
    BY <2>1 DEF Current, Credential
  <2>3. Backed'
    <3>1. store # NoCredential => store \in Credential
      BY <1>2 DEF IInv, TypeOK, Stored
    <3>2. \A p \in Procs : Consuming(p) => Consuming(p)'
      BY <2>1 DEF Consuming
    <3> QED BY <2>1, <2>2, <3>1, <3>2 DEF RInv, Backed, Has
  <2>4. \A p \in Procs : UpToDate(p)'
    <3>1. SUFFICES ASSUME NEW p \in Procs PROVE UpToDate(p)'
      OBVIOUS
    <3>2. Knows(p) /\ UpToDate(p)
      BY <1>2 DEF TInv, RInv
    <3> QED BY <2>1, <2>2, <3>2 DEF Knows, UpToDate, validate_session
  <2> QED BY <1>2, <2>1, <2>3, <2>4 DEF RInv, NeverReusesToken
<1>6. CASE UNCHANGED vars
  <2>1. Backed' /\ NeverReusesToken'
    BY <1>6 DEF vars, RInv, Backed, NeverReusesToken, Current, Consuming, Has
  <2>2. \A p \in Procs : UpToDate(p)'
    BY <1>6 DEF vars, RInv, UpToDate, Current, validate_session
  <2> QED BY <1>2, <1>6, <2>1, <2>2 DEF vars, RInv
<1> QED BY <1>3, <1>4, <1>5, <1>6 DEF Next

\* The point of RefreshLock: as long as answers arrive whole, nobody dies and
\* the store deletes what it is told to, no interleaving of any number of
\* invocations presents a refresh token twice, whatever is loaded, refused by
\* the store or revoked meanwhile.  Each of the four faults excluded leaves a
\* used-up token in the store.
THEOREM TokensAreUsedOnce ==
    ASSUME Calm
    PROVE  Spec => []NeverReusesToken
<1>1. Init => RInv
  <2>1. SUFFICES ASSUME Init PROVE RInv
    OBVIOUS
  <2>2. DInv
    BY <2>1, InitDInv
  <2>3. /\ store = NoCredential /\ network = {}
        /\ \A p \in Procs : proc[p].pc = "done"
        /\ \A f \in Families : service[f] = [state |-> "unused", generation |-> 0]
    BY <2>1, IdleFields DEF Init
  <2> QED BY <2>2, <2>3 DEF RInv, NeverReusesToken, Backed, UpToDate
<1>2. RInv /\ [Next]_vars => RInv'
  BY NextRInv
<1>3. RInv => NeverReusesToken
  BY DEF RInv
<1> QED BY <1>1, <1>2, <1>3, PTL DEF Spec

=============================================================================

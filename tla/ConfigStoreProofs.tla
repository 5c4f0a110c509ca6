------------------------- MODULE ConfigStoreProofs -------------------------
(***************************************************************************)
(* What ConfigStore guarantees for every set of processes, profiles,       *)
(* accounts and projects and for every combination of failures.            *)
(***************************************************************************)
EXTENDS ConfigStore, TLAPS

\* The inductive invariant.  LockMutex alone is enough for mutual exclusion;
\* the snapshot check needs it, so that nobody publishes between the
\* comparison and the rename.
IInv == TypeOK /\ LockMutex /\ PublishesOverSnapshot

\* ConfigStore::load hands out only configurations that validate.
LEMMA LoadType ==
    ASSUME NEW file \in Files, NEW c \in Load(file)
    PROVE  c \in ManagerConfig
BY DEF Load, Files, DefaultConfig, ManagerConfig

\* Every command turns a valid configuration into a valid one: the only
\* input that could break it, the nil account, is refused by bind.
LEMMA EditedByType ==
    ASSUME NEW c \in ManagerConfig, NEW e \in EditedBy(c)
    PROVE  e \in ManagerConfig
<1>1. CASE \E f \in Profiles : e = set_active_profile(c, f)
  BY <1>1 DEF set_active_profile, ManagerConfig
<1>2. CASE \E f \in Profiles, a \in Accounts \cup {Nil} : e \in bind_profile_account(c, f, a)
  BY <1>2 DEF bind_profile_account, is_nil, ManagerConfig
<1>3. CASE \E f \in Profiles : e = unbind_profile_account(c, f)
  BY <1>3 DEF unbind_profile_account, ManagerConfig
<1>4. CASE \E f \in Profiles : e = forget_profile(c, f)
  BY <1>4 DEF forget_profile, ManagerConfig
<1>5. CASE \E r \in Projects : e = register_project(c, r)
  BY <1>5 DEF register_project, ManagerConfig
<1>6. CASE \E r \in Projects, k \in SUBSET Projects : e = forget_project(c, r, k)
  BY <1>6 DEF forget_project, ManagerConfig
<1> QED BY <1>1, <1>2, <1>3, <1>4, <1>5, <1>6 DEF EditedBy

\* A write leaves the old content or the new one.
LEMMA AtomicWriteFile ==
    ASSUME NEW old, NEW new, NEW o \in atomic_write(old, new)
    PROVE  o.file = old \/ o.file = new
BY DEF atomic_write, Outcome

LEMMA IdleType == Idle \in [pc : PCs, edited : ManagerConfig, original : Files]
BY DEF Idle, PCs, Files, ManagerConfig, DefaultConfig

LEMMA InitIInv == Init => IInv
<1> SUFFICES ASSUME Init PROVE IInv
  OBVIOUS
<1>1. TypeOK
  BY IdleType DEF Init, TypeOK, Files
<1>2. LockMutex /\ PublishesOverSnapshot
  BY DEF Init, LockMutex, PublishesOverSnapshot, Holding, Idle
<1> QED BY <1>1, <1>2 DEF IInv

\* One step per action of Next, and the step that changes nothing.
LEMMA NextIInv == IInv /\ [Next]_vars => IInv'
<1> SUFFICES ASSUME IInv, [Next]_vars PROVE IInv'
  OBVIOUS
<1> USE DEF IInv
<1>1. ASSUME NEW p \in Procs, LoadAndEdit(p) PROVE IInv'
  <2>1. PICK loaded \in Load(disk) : \E c \in EditedBy(loaded) :
          proc' = [proc EXCEPT ![p] = [Idle EXCEPT !.pc = "loaded", !.edited = c]]
    BY <1>1 DEF LoadAndEdit
  <2>2. PICK c \in EditedBy(loaded) :
          proc' = [proc EXCEPT ![p] = [Idle EXCEPT !.pc = "loaded", !.edited = c]]
    BY <2>1
  <2>3. c \in ManagerConfig
    BY <2>1, <2>2, LoadType, EditedByType DEF TypeOK
  <2>4. TypeOK'
    BY <1>1, <2>2, <2>3, IdleType DEF LoadAndEdit, TypeOK, PCs
  <2>5. LockMutex' /\ PublishesOverSnapshot'
    BY <1>1, <2>2, IdleType DEF LoadAndEdit, TypeOK, LockMutex, PublishesOverSnapshot, Holding
  <2> QED BY <2>4, <2>5
<1>2. ASSUME NEW p \in Procs, TakeSnapshot(p) PROVE IInv'
  <2>1. TypeOK'
    BY <1>2 DEF TakeSnapshot, TypeOK, PCs
  <2>2. LockMutex' /\ PublishesOverSnapshot'
    BY <1>2 DEF TakeSnapshot, TypeOK, LockMutex, PublishesOverSnapshot, Holding
  <2> QED BY <2>1, <2>2
<1>3. ASSUME NEW p \in Procs, AcquireLock(p) PROVE IInv'
  <2>1. TypeOK'
    BY <1>3, IdleType DEF AcquireLock, TypeOK, PCs
  <2>2. LockMutex'
    BY <1>3, IdleType, ConfigAssumption DEF AcquireLock, TypeOK, LockMutex, Holding, Idle
  <2>3. PublishesOverSnapshot'
    BY <1>3, IdleType DEF AcquireLock, TypeOK, PublishesOverSnapshot, Idle
  <2> QED BY <2>1, <2>2, <2>3
<1>4. ASSUME NEW p \in Procs, AssertUnchanged(p) PROVE IInv'
  <2>1. TypeOK'
    BY <1>4 DEF AssertUnchanged, TypeOK, PCs
  <2>2. LockMutex' /\ PublishesOverSnapshot'
    BY <1>4 DEF AssertUnchanged, TypeOK, LockMutex, PublishesOverSnapshot, Holding
  <2> QED BY <2>1, <2>2
<1>5. ASSUME NEW p \in Procs, Publish(p) PROVE IInv'
  <2>1. disk' = disk \/ disk' = proc[p].edited
    BY <1>5, AtomicWriteFile DEF Publish
  <2>2. TypeOK'
    BY <1>5, <2>1 DEF Publish, TypeOK, PCs, Files
  <2>3. LockMutex'
    BY <1>5 DEF Publish, TypeOK, LockMutex, Holding
  <2>4. ASSUME NEW q \in Procs, proc'[q].pc = "checked" PROVE FALSE
    <3>1. q # p /\ proc[q].pc = "checked" /\ proc[p].pc = "checked"
      BY <1>5, <2>4 DEF Publish, TypeOK
    <3> QED BY <3>1 DEF LockMutex, Holding
  <2> QED BY <2>2, <2>3, <2>4 DEF PublishesOverSnapshot
<1>6. ASSUME NEW p \in Procs, DropLock(p) PROVE IInv'
  <2>1. TypeOK'
    BY <1>6, IdleType DEF DropLock, TypeOK
  <2>2. LockMutex' /\ PublishesOverSnapshot'
    BY <1>6 DEF DropLock, TypeOK, LockMutex, PublishesOverSnapshot, Holding, Idle
  <2> QED BY <2>1, <2>2
<1>7. ASSUME NEW p \in Procs, Crash(p) PROVE IInv'
  <2>1. TypeOK'
    BY <1>7, IdleType DEF Crash, TypeOK
  <2>2. LockMutex' /\ PublishesOverSnapshot'
    BY <1>7 DEF Crash, TypeOK, LockMutex, PublishesOverSnapshot, Holding, Idle
  <2> QED BY <2>1, <2>2
<1>8. CASE ClearStaleLock
  BY <1>8, ConfigAssumption DEF ClearStaleLock, TypeOK, LockMutex, PublishesOverSnapshot, Holding
<1>9. CASE UNCHANGED vars
  BY <1>9 DEF vars, TypeOK, LockMutex, PublishesOverSnapshot, Holding
<1> QED BY <1>1, <1>2, <1>3, <1>4, <1>5, <1>6, <1>7, <1>8, <1>9 DEF Next, Step

LEMMA Inductive == Spec => []IInv
BY InitIInv, NextIInv, PTL DEF Spec

\* Whatever manager.json holds, load accepts: no sequence of commands, crashes
\* and failed writes leaves a file the manager then refuses to read.
THEOREM ConfigStaysReadable == Spec => []TypeOK
<1>1. IInv => TypeOK
  BY DEF IInv
<1> QED BY Inductive, <1>1, PTL

\* At most one process is between FileLock::acquire and the drop of its guard.
THEOREM OneWriter == Spec => []LockMutex
<1>1. IInv => LockMutex
  BY DEF IInv
<1> QED BY Inductive, <1>1, PTL

\* What save replaces is exactly what it read before it took the lock.
THEOREM SaveReplacesItsSnapshot == Spec => []PublishesOverSnapshot
<1>1. IInv => PublishesOverSnapshot
  BY DEF IInv
<1> QED BY Inductive, <1>1, PTL

=============================================================================

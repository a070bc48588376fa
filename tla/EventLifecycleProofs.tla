------------------------ MODULE EventLifecycleProofs -------------------------
(* Theorems about EventLifecycle, for any sets of events and requests: its
   types, and that archiving a tenant binds every request that arrives later. *)
EXTENDS EventLifecycle, TLAPS

----------------------------------------------------------------------------
(* The inductive invariant *)

\* Which requests are at which statement, and what they carry.
StepOK(p) ==
    /\ pc[p] # "idle" => req[p].op \in {"create", "transition", "archive"}
    /\ pc[p] \in {"insert", "fk"} => req[p].op = "create"
    /\ pc[p] = "update" => req[p].op = "transition"
    /\ pc[p] = "tenant" => req[p].op = "archive"
    /\ req[p].op \in {"create", "transition"} => req[p].event \in Events
    /\ req[p].op = "transition" => req[p].to \in Statuses

TypeInv == TypeOK /\ \A p \in Procs : StepOK(p)

\* A late request is at a statement that has yet to look at the tenant, and will
\* find it archived: archiving is never undone.
LateOK == \A p \in late : archived /\ pc[p] \in {"update", "tenant"}

IInv == TypeInv /\ LateOK

----------------------------------------------------------------------------
(* Types *)

\* What the lock operations do to a row's lock.
LEMMA LockTypes ==
    ASSUME NEW lock \in [Procs -> LockLevels], NEW p \in Procs, NEW m \in LockLevels
    PROVE  Granted(lock, p, m) \in [Procs -> LockLevels] /\ Released(lock, p) \in [Procs -> LockLevels]
  BY DEF Granted, Released, LockLevels, Unlocked, Update

LEMMA EndType ==
    ASSUME TypeInv, NEW p \in Procs, End(p), archived' \in BOOLEAN,
           status' \in [Events -> Statuses \cup {"absent"}]
    PROVE  TypeInv'
<1>1. tenantLock' \in [Procs -> LockLevels]
  BY LockTypes DEF End, TypeInv, TypeOK, LockLevels, Update
<1>2. TypeOK'
  BY <1>1 DEF TypeInv, TypeOK, End, Goto
<1>3. \A q \in Procs : StepOK(q)'
  BY DEF TypeInv, TypeOK, StepOK, End, Goto, NoReq
<1> QED BY <1>2, <1>3 DEF TypeInv

LEMMA ArrivalType ==
    ASSUME TypeInv, NEW p \in Procs, Arrival(p)
    PROVE  TypeInv'
<1>a. ASSUME NEW r \in Requests, NEW first \in {"insert", "update", "tenant"}, Arrive(p, r, first),
             r.op \in {"create", "transition", "archive"},
             first = "insert" => r.op = "create",
             first = "update" => r.op = "transition",
             first = "tenant" => r.op = "archive",
             r.op \in {"create", "transition"} => r.event \in Events,
             r.op = "transition" => r.to \in Statuses
      PROVE  TypeInv'
  <2>1. TypeOK'
    BY <1>a DEF Arrive, Goto, TypeInv, TypeOK
  <2>2. \A q \in Procs : StepOK(q)'
    BY <1>a DEF Arrive, Goto, TypeInv, TypeOK, StepOK
  <2> QED BY <2>1, <2>2 DEF TypeInv
<1>1. CASE CreateEvent(p)
  <2>1. PICK e \in Events : Arrive(p, [op |-> "create", event |-> e], "insert")
    BY <1>1 DEF CreateEvent
  <2> DEFINE r == [op |-> "create", event |-> e]
  <2>2. r \in Requests /\ r.op = "create" /\ r.event = e
    BY DEF Requests
  <2> QED BY <1>a, <2>1, <2>2
<1>2. CASE TransitionEventStatus(p)
  <2>1. PICK e \in Events, to \in Statuses :
           Arrive(p, [op |-> "transition", event |-> e, to |-> to], "update")
    BY <1>2 DEF TransitionEventStatus
  <2> DEFINE r == [op |-> "transition", event |-> e, to |-> to]
  <2>2. r \in Requests /\ r.op = "transition" /\ r.event = e /\ r.to = to
    BY DEF Requests
  <2> QED BY <1>a, <2>1, <2>2
<1>3. CASE ArchiveTenant(p)
  <2> DEFINE r == [op |-> "archive"]
  <2>1. r \in Requests /\ r.op = "archive"
    BY DEF Requests
  <2> QED BY <1>3, <1>a, <2>1 DEF ArchiveTenant
<1> QED BY <1>1, <1>2, <1>3 DEF Arrival

LEMMA StatementType ==
    ASSUME TypeInv, NEW p \in Procs, Statement(p)
    PROVE  TypeInv'
<1>a. /\ status \in [Events -> Statuses \cup {"absent"}] /\ archived \in BOOLEAN
      /\ tenantLock \in [Procs -> LockLevels] /\ StepOK(p)
  BY DEF TypeInv, TypeOK
<1>b. ASSUME End(p), UNCHANGED <<status, archived>> PROVE TypeInv'
  <2>1. archived' \in BOOLEAN /\ status' \in [Events -> Statuses \cup {"absent"}]
    BY <1>a, <1>b, Zenon
  <2> QED BY <1>b, <2>1, EndType
<1>c. ASSUME NEW step \in {"fk", "commit"}, Goto(p, step), UNCHANGED <<status, archived, req, late>>,
             tenantLock' \in [Procs -> LockLevels], pc[p] # "idle",
             step = "fk" => req[p].op = "create"
      PROVE  TypeInv'
  <2>1. TypeOK'
    BY <1>c DEF Goto, TypeInv, TypeOK
  <2>2. \A q \in Procs : StepOK(q)'
    BY <1>c DEF Goto, TypeInv, TypeOK, StepOK
  <2> QED BY <2>1, <2>2 DEF TypeInv
<1>d. ASSUME NEW m \in {KeyShare, Update}
      PROVE  Granted(tenantLock, p, m) \in [Procs -> LockLevels]
  BY <1>a, <1>d, LockTypes DEF LockLevels, KeyShare, Update, Unlocked
<1>1. CASE InsertEvent(p)
  BY <1>1, <1>a, <1>b, <1>c DEF InsertEvent, StepOK
<1>2. CASE CheckTenantKey(p)
  BY <1>2, <1>a, <1>c, <1>d DEF CheckTenantKey, StepOK
<1>3. CASE UpdateEvent(p)
  BY <1>3, <1>a, <1>b, <1>c DEF UpdateEvent, StepOK
<1>4. CASE FindTenantForUpdate(p)
  BY <1>4, <1>a, <1>b, <1>c, <1>d DEF FindTenantForUpdate, StepOK
<1>5. CASE Commit(p)
  <2>1. archived' \in BOOLEAN
    BY <1>5, <1>a, Zenon DEF Commit
  <2>2. status' \in [Events -> Statuses \cup {"absent"}]
    BY <1>5, <1>a DEF Commit, StatusAfter, StepOK, Statuses
  <2> QED BY <1>5, <2>1, <2>2, EndType DEF Commit
<1> QED BY <1>1, <1>2, <1>3, <1>4, <1>5 DEF Statement

LEMMA TypeInit == Init => TypeInv
<1> SUFFICES ASSUME Init PROVE TypeInv
  OBVIOUS
<1>1. archived \in BOOLEAN
  BY Zenon DEF Init
<1>2. TypeOK
  BY <1>1 DEF Init, TypeOK, LockLevels, Unlocked, Update
<1>3. ASSUME NEW p \in Procs PROVE pc[p] = "idle" /\ req[p].op = "none"
  BY <1>3 DEF Init, NoReq
<1>4. \A p \in Procs : StepOK(p)
  BY <1>3 DEF StepOK
<1> QED BY <1>2, <1>4 DEF TypeInv

LEMMA TypeStep == TypeInv /\ [Next]_vars => TypeInv'
<1> SUFFICES ASSUME TypeInv, [Next]_vars PROVE TypeInv'
  OBVIOUS
<1>1. ASSUME NEW p \in Procs, Rollback(p) PROVE TypeInv'
  <2>1. archived' \in BOOLEAN /\ status' \in [Events -> Statuses \cup {"absent"}]
    BY <1>1, Zenon DEF Rollback, TypeInv, TypeOK
  <2> QED BY <1>1, <2>1, EndType DEF Rollback
<1>2. CASE UNCHANGED vars
  BY <1>2 DEF vars, local, TypeInv, TypeOK, StepOK
<1> QED BY <1>1, <1>2, ArrivalType, StatementType DEF Next

\* Statuses, locks and requests keep their types: what a commit stores in an
\* event is one of the five statuses.
THEOREM TypeCorrect == Spec => []TypeOK
<1>1. TypeInv => TypeOK
  BY DEF TypeInv
<1> QED BY <1>1, TypeInit, TypeStep, PTL DEF Spec

----------------------------------------------------------------------------
(* Safety *)

LEMMA LateStep == IInv /\ [Next]_vars => LateOK'
<1> SUFFICES ASSUME IInv, [Next]_vars PROVE LateOK'
  OBVIOUS
<1>1. late \subseteq Procs /\ pc \in [Procs -> {"idle", "insert", "fk", "update", "tenant", "commit"}]
  BY DEF IInv, TypeInv, TypeOK
<1>a. ASSUME NEW p \in Procs, End(p), archived => archived' PROVE LateOK'
  BY <1>1, <1>a DEF End, Goto, IInv, LateOK
<1>b. ASSUME NEW p \in Procs, NEW step, Goto(p, step), UNCHANGED <<archived, late>>, p \notin late
      PROVE  LateOK'
  BY <1>1, <1>b DEF Goto, IInv, LateOK
<1>2. ASSUME NEW p \in Procs, CreateEvent(p) PROVE LateOK'
  BY <1>1, <1>2 DEF CreateEvent, Arrive, Goto, IInv, LateOK
<1>3. ASSUME NEW p \in Procs, TransitionEventStatus(p) \/ ArchiveTenant(p) PROVE LateOK'
  BY <1>1, <1>3 DEF TransitionEventStatus, ArchiveTenant, Arrive, Goto, IInv, LateOK
<1>4. ASSUME NEW p \in Procs, Statement(p) PROVE LateOK'
  <2>1. CASE Commit(p)
    BY <2>1, <1>a DEF Commit
  <2>2. CASE InsertEvent(p) \/ UpdateEvent(p) \/ FindTenantForUpdate(p)
    BY <2>2, <1>a, <1>b DEF InsertEvent, UpdateEvent, FindTenantForUpdate, IInv, LateOK
  <2>3. CASE CheckTenantKey(p)
    BY <2>3, <1>b DEF CheckTenantKey, IInv, LateOK
  <2> QED BY <1>4, <2>1, <2>2, <2>3 DEF Statement
<1>5. ASSUME NEW p \in Procs, Rollback(p) PROVE LateOK'
  BY <1>5, <1>a DEF Rollback
<1>6. CASE UNCHANGED vars
  BY <1>6 DEF vars, local, IInv, LateOK
<1> QED BY <1>2, <1>3, <1>4, <1>5, <1>6 DEF Next, Arrival

LEMMA Safe == Spec => []IInv
<1>1. Init => IInv
  BY TypeInit DEF Init, IInv, LateOK
<1>2. IInv /\ [Next]_vars => IInv'
  BY TypeStep, LateStep DEF IInv
<1> QED BY <1>1, <1>2, PTL DEF Spec

\* No request that arrives once the tenant is archived reaches its commit: the
\* UPDATE of TransitionEventStatus and the SELECT FOR UPDATE of ArchiveTenant
\* find the tenant archived, although neither handler checked it on arrival.
THEOREM ArchiveBinds == Spec => []ArchiveBindsLaterRequests
<1>1. IInv => ArchiveBindsLaterRequests
  BY DEF IInv, LateOK, ArchiveBindsLaterRequests
<1> QED BY <1>1, Safe, PTL
=============================================================================

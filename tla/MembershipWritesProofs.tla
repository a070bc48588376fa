----------------------- MODULE MembershipWritesProofs ------------------------
(* Theorems about MembershipWrites, for any sets of users, events and requests. *)
EXTENDS MembershipWrites, TLAPS

----------------------------------------------------------------------------
(* Types, and which requests are at which statement *)

\* The request a process serves, and the RPCs that reach each statement.
StepOK ==
    \A p \in Procs :
       /\ pc[p] = "idle" <=> req[p] = NoReq
       /\ pc[p] # "idle" => req[p] \in Requests
       /\ pc[p] \in {"lock", "write"} => req[p].op \in RelationOps
       /\ pc[p] \in {"keep", "count"} => req[p].op \in {"ChangeTenantRole", "RevokeTenantRole"}
       /\ pc[p] = "require" => req[p].op \in RelationOps \cup AdministerOps
       /\ pc[p] \in {"tenant", "mutate"} => req[p].op \in AdministerOps
       /\ pc[p] \in {"creator", "insertEvent", "grantCreator"} => req[p].op = "CreateEvent"
       /\ pc[p] = "insert" => req[p].op = "AddTenantMember"
       /\ pc[p] = "fk" => req[p].op \in {"AddTenantMember", "CreateEvent"}
       /\ req[p].op \in {"AddTenantMember", "ChangeTenantRole"} => req[p].role \in GrantableRoles
       /\ req[p].op \in {"RevokeTenantRole", "RevokeEventRole"} => req[p].role = NoRole
       /\ req[p].op \in {"GrantEventRole", "RevokeEventRole", "CreateEvent"}
             => req[p].event \in Events

TypeInv == TypeOK /\ StepOK

LEMMA GrantedType ==
    ASSUME NEW lock \in [Procs -> LockLevels], NEW p \in Procs, NEW m \in LockLevels
    PROVE  /\ Granted(lock, p, m) \in [Procs -> LockLevels]
           /\ Granted(lock, p, m)[p] >= m
           /\ Granted(lock, p, m)[p] >= lock[p]
           /\ Granted(lock, p, m)[p] \in {m, lock[p]}
           /\ \A q \in Procs \ {p} : Granted(lock, p, m)[q] = lock[q]
  BY DEF Granted, LockLevels, Unlocked, Update

LEMMA ReleasedType ==
    ASSUME NEW lock \in [Procs -> LockLevels], NEW p \in Procs
    PROVE  /\ Released(lock, p) \in [Procs -> LockLevels]
           /\ Released(lock, p)[p] = 0
           /\ \A q \in Procs \ {p} : Released(lock, p)[q] = lock[q]
  BY DEF Released, LockLevels, Unlocked, Update

\* Ending a transaction, in either way, leaves typed locals behind.
LEMMA EndType ==
    ASSUME TypeInv, NEW p \in Procs, End(p),
           role' \in [Users -> RoleOrNone],
           eventRole' \in [Events -> [Users -> RoleOrNone]],
           events' \subseteq Events, tenant' \in TenantRows
    PROVE  TypeInv'
<1>1. rowLock' \in [Users -> [Procs -> LockLevels]] /\ tenantLock' \in [Procs -> LockLevels]
  BY ReleasedType DEF TypeInv, TypeOK, End
<1>2. held' \in [Procs -> RoleOrNone] /\ copy' \in [Procs -> TenantRows]
  BY ConstantsAssumption DEF TypeInv, TypeOK, End, NewTenant, TenantRows, RoleOrNone
<1>3. /\ pc' \in [Procs -> Steps] /\ req' \in [Procs -> Requests \cup {NoReq}]
      /\ advisory' \in Procs \cup {NoProc}
  BY DEF TypeInv, TypeOK, End, Steps
<1>4. StepOK'
  BY DEF TypeInv, TypeOK, StepOK, End, NoReq, Requests
<1> QED
  BY <1>1, <1>2, <1>3, <1>4 DEF TypeInv, TypeOK

\* A request arrives with the fields its RPC puts into it.
LEMMA ArriveType ==
    ASSUME TypeInv, NEW p \in Procs, NEW op \in AllOps, NEW c \in Users, NEW u \in Users,
           NEW r \in RoleOrNone, NEW e \in Events \cup {NoEvent},
           op \in {"AddTenantMember", "ChangeTenantRole"} => r \in GrantableRoles,
           op \in {"RevokeTenantRole", "RevokeEventRole"} => r = NoRole,
           op \in {"GrantEventRole", "RevokeEventRole", "CreateEvent"} => e \in Events,
           Arrive(p, op, c, u, r, e)
    PROVE  TypeInv'
<1> DEFINE new == [op |-> op, caller |-> c, user |-> u, role |-> r, event |-> e]
<1>1. /\ new \in Requests /\ new # NoReq
      /\ req' = [req EXCEPT ![p] = new] /\ pc' = [pc EXCEPT ![p] = FirstStep(op)]
      /\ pc[p] = "idle" /\ UNCHANGED <<db, locks, held, copy>>
  BY DEF Arrive, Goto, Requests, NoReq
<1>2. /\ op = "AddTenantMember" => FirstStep(op) = "insert"
      /\ op \in RelationOps => FirstStep(op) = "lock"
      /\ op = "CreateEvent" => FirstStep(op) = "creator"
      /\ op \in AdministerOps => FirstStep(op) = "tenant"
  BY DEF FirstStep, RelationOps, AdministerOps
<1>3. op = "AddTenantMember" \/ op \in RelationOps \/ op = "CreateEvent" \/ op \in AdministerOps
  BY DEF AllOps, RelationOps, AdministerOps
<1>4. TypeOK'
  BY <1>1, <1>2, <1>3 DEF TypeInv, TypeOK, Steps, db, locks
<1>5. StepOK'
  BY <1>1, <1>2, <1>3 DEF TypeInv, TypeOK, StepOK, RelationOps, AdministerOps
<1> QED
  BY <1>4, <1>5 DEF TypeInv

\* Inside a transaction, what a statement reads and locks is typed.
LEMMA StatementType ==
    ASSUME TypeInv, NEW p \in Procs, Statement(p)
    PROVE  TypeInv'
<1> USE DEF TypeInv
<1>a. role \in [Users -> RoleOrNone] /\ eventRole \in [Events -> [Users -> RoleOrNone]]
      /\ events \subseteq Events /\ tenant \in TenantRows
  BY DEF TypeOK
<1>b. ASSUME End(p), UNCHANGED db PROVE TypeInv'
  BY <1>a, <1>b, EndType DEF db
<1>c. ASSUME NEW u \in Users, NEW m \in LockLevels, LockRow(p, u, m)
      PROVE  rowLock' \in [Users -> [Procs -> LockLevels]]
  BY <1>c, GrantedType DEF TypeOK, LockRow
<1>d. pc[p] # "idle" => req[p].caller \in Users /\ req[p].user \in Users /\ req[p].op \in Ops
  BY DEF StepOK, Requests
<1>e. /\ KeyShare \in LockLevels /\ Share \in LockLevels /\ Update \in LockLevels
      /\ pc[p] = "write" /\ req[p].op # "RevokeEventRole" => WriteLevel(req[p].op) \in LockLevels
  BY DEF KeyShare, Share, Update, NoKeyUpdate, LockLevels, Unlocked, WriteLevel, StepOK, RelationOps
<1>1. CASE LockTenantMemberships(p)
  <2>t. TypeOK'
    BY <1>1 DEF LockTenantMemberships, Goto, local, TypeOK, Steps, db
  <2>s. StepOK'
    BY <1>1 DEF LockTenantMemberships, Goto, local, TypeOK, StepOK, RelationOps
  <2> QED BY <2>t, <2>s
<1>2. CASE Require(p)
  <2>1. /\ AfterRequire(req[p]) \in {"mutate", "keep", "write"}
        /\ pc[p] = "require" => 
             /\ AfterRequire(req[p]) = "mutate" => req[p].op \in AdministerOps
             /\ AfterRequire(req[p]) = "keep" => req[p].op \in {"ChangeTenantRole", "RevokeTenantRole"}
             /\ AfterRequire(req[p]) = "write" => req[p].op \in RelationOps
    BY DEF AfterRequire, StepOK, RelationOps, AdministerOps
  <2>2. CASE End(p)
    BY <1>2, <2>2, <1>b DEF Require
  <2>3. CASE ~End(p)
    <3>1. rowLock' \in [Users -> [Procs -> LockLevels]]
      BY <1>2, <2>3, <1>c, <1>d, <1>e DEF Require
    <3>2. TypeOK'
      BY <1>2, <2>1, <2>3, <3>1 DEF Require, Goto, local, TypeOK, Steps, db
    <3>3. StepOK'
      BY <1>2, <2>1, <2>3 DEF Require, Goto, local, TypeOK, StepOK, db
    <3> QED BY <3>2, <3>3
  <2> QED BY <2>2, <2>3
<1>3. CASE KeepAnotherOwner(p)
  <2>1. rowLock' \in [Users -> [Procs -> LockLevels]]
    BY <1>3, <1>c, <1>d, <1>e DEF KeepAnotherOwner, TypeOK
  <2> QED
    <3>t. TypeOK'
      BY <1>3, <2>1 DEF KeepAnotherOwner, Goto, local, TypeOK, Steps, db
    <3>s. StepOK'
      BY <1>3, <2>1 DEF KeepAnotherOwner, Goto, local, TypeOK, StepOK, RelationOps
    <3> QED BY <3>t, <3>s
<1>4. CASE CountTenantOwners(p)
  <2>1. CASE ~End(p)
    <3>t. TypeOK'
      BY <1>4, <2>1 DEF CountTenantOwners, Goto, local, TypeOK, Steps, db, locks
    <3>s. StepOK'
      BY <1>4, <2>1 DEF CountTenantOwners, Goto, local, TypeOK, StepOK, RelationOps
    <3> QED BY <3>t, <3>s
  <2> QED BY <1>4, <2>1, <1>b DEF CountTenantOwners
<1>5. CASE WriteMembership(p)
  <2>1. CASE ~End(p)
    <3>1. rowLock' \in [Users -> [Procs -> LockLevels]]
      BY <1>5, <2>1, <1>c, <1>d, <1>e DEF WriteMembership
    <3> QED
      <4>t. TypeOK'
        BY <1>5, <2>1, <3>1 DEF WriteMembership, Goto, local, TypeOK, Steps, db
      <4>s. StepOK'
        BY <1>5, <2>1, <3>1 DEF WriteMembership, Goto, local, TypeOK, StepOK
      <4> QED BY <4>t, <4>s
  <2> QED BY <1>5, <2>1, <1>b DEF WriteMembership
<1>6. CASE DeleteEventRole(p)
  <2>1. CASE ~End(p)
    <3>t. TypeOK'
      BY <1>6, <2>1 DEF DeleteEventRole, Goto, local, TypeOK, Steps, db, locks
    <3>s. StepOK'
      BY <1>6, <2>1 DEF DeleteEventRole, Goto, local, TypeOK, StepOK
    <3> QED BY <3>t, <3>s
  <2> QED BY <1>6, <2>1, <1>b DEF DeleteEventRole
<1>7. CASE InsertMembership(p)
  <2>1. CASE ~End(p)
    <3>1. rowLock' \in [Users -> [Procs -> LockLevels]]
      BY <1>7, <2>1, <1>c, <1>d, <1>e DEF InsertMembership
    <3>2. TypeOK'
      BY <1>7, <2>1, <3>1 DEF InsertMembership, Goto, local, TypeOK, Steps, db
    <3>3. StepOK'
      BY <1>7, <2>1 DEF InsertMembership, Goto, local, TypeOK, StepOK
    <3> QED BY <3>2, <3>3
  <2> QED BY <1>7, <2>1, <1>b DEF InsertMembership
<1>8. CASE CheckTenantKey(p)
  <2>1. tenantLock' \in [Procs -> LockLevels]
    BY <1>8, <1>e, GrantedType DEF CheckTenantKey, TypeOK
  <2> QED
    <3>t. TypeOK'
      BY <1>8, <2>1 DEF CheckTenantKey, Goto, local, TypeOK, Steps, db
    <3>s. StepOK'
      BY <1>8, <2>1 DEF CheckTenantKey, Goto, local, TypeOK, StepOK
    <3> QED BY <3>t, <3>s
<1>9. CASE ReadCreatorRole(p)
  <2>1. CASE ~End(p)
    <3>1. rowLock' \in [Users -> [Procs -> LockLevels]]
      BY <1>9, <2>1, <1>c, <1>d, <1>e DEF ReadCreatorRole
    <3>2. held' \in [Procs -> RoleOrNone]
      BY <1>9, <2>1, <1>d DEF ReadCreatorRole, TypeOK
    <3>3. TypeOK'
      BY <1>9, <2>1, <3>1, <3>2 DEF ReadCreatorRole, Goto, TypeOK, Steps, db
    <3>4. StepOK'
      BY <1>9, <2>1 DEF ReadCreatorRole, Goto, TypeOK, StepOK
    <3> QED BY <3>3, <3>4
  <2> QED BY <1>9, <2>1, <1>b DEF ReadCreatorRole
<1>10. CASE InsertEvent(p)
  <2>1. CASE ~End(p)
    <3>t. TypeOK'
      BY <1>10, <2>1 DEF InsertEvent, Goto, local, TypeOK, Steps, db, locks
    <3>s. StepOK'
      BY <1>10, <2>1 DEF InsertEvent, Goto, local, TypeOK, StepOK
    <3> QED BY <3>t, <3>s
  <2> QED BY <1>10, <2>1, <1>b DEF InsertEvent
<1>11. CASE GrantCreatorRole(p)
  <2>1. CASE ~End(p)
    <3>1. rowLock' \in [Users -> [Procs -> LockLevels]]
      BY <1>11, <2>1, <1>c, <1>d, <1>e DEF GrantCreatorRole
    <3> QED
      <4>t. TypeOK'
        BY <1>11, <2>1, <3>1 DEF GrantCreatorRole, Goto, local, TypeOK, Steps, db
      <4>s. StepOK'
        BY <1>11, <2>1, <3>1 DEF GrantCreatorRole, Goto, local, TypeOK, StepOK
      <4> QED BY <4>t, <4>s
  <2> QED BY <1>11, <2>1, <1>b DEF GrantCreatorRole
<1>12. CASE FindTenantForUpdate(p)
  <2>1. CASE ~End(p)
    <3>1. tenantLock' \in [Procs -> LockLevels]
      BY <1>12, <2>1, <1>e, GrantedType DEF FindTenantForUpdate, TypeOK
    <3>2. copy' \in [Procs -> TenantRows]
      BY <1>12, <2>1 DEF FindTenantForUpdate, TypeOK
    <3> QED
      <4>t. TypeOK'
        BY <1>12, <2>1, <3>1, <3>2 DEF FindTenantForUpdate, Goto, local, TypeOK, Steps, db
      <4>s. StepOK'
        BY <1>12, <2>1, <3>1, <3>2 DEF FindTenantForUpdate, Goto, local, TypeOK, StepOK, AdministerOps
      <4> QED BY <4>t, <4>s
  <2> QED BY <1>12, <2>1, <1>b DEF FindTenantForUpdate
<1>13. CASE MutateTenant(p)
  <2>1. copy' \in [Procs -> TenantRows]
    <3>1. copy[p].plan \in Plans /\ copy[p].archived \in BOOLEAN
      BY DEF TypeOK, TenantRows
    <3>2. CASE req[p].op = "ArchiveTenant"
      <4>1. [archived |-> TRUE, plan |-> copy[p].plan] \in TenantRows
        BY <3>1 DEF TenantRows
      <4> QED BY <1>13, <3>2, <4>1 DEF MutateTenant, TypeOK
    <3>3. CASE req[p].op # "ArchiveTenant"
      <4>1. PICK plan \in Plans :
               copy' = [copy EXCEPT ![p] = [archived |-> copy[p].archived, plan |-> plan]]
        BY <1>13, <3>3 DEF MutateTenant
      <4>2. [archived |-> copy[p].archived, plan |-> plan] \in TenantRows
        BY <3>1 DEF TenantRows
      <4> QED BY <4>1, <4>2 DEF TypeOK
    <3> QED BY <3>2, <3>3
  <2> QED
    <3>t. TypeOK'
      BY <1>13, <2>1 DEF MutateTenant, Goto, local, TypeOK, Steps, db, locks
    <3>s. StepOK'
      BY <1>13, <2>1 DEF MutateTenant, Goto, local, TypeOK, StepOK
    <3> QED BY <3>t, <3>s
<1>14. CASE Commit(p)
  <2>1. req[p] \in Requests /\ held[p] \in RoleOrNone /\ copy[p] \in TenantRows
    BY <1>14 DEF Commit, TypeOK, StepOK
  <2>2. role' \in [Users -> RoleOrNone]
    BY <1>14, <1>a, <2>1 DEF Commit, RolesAfter, Requests
  <2>3. eventRole' \in [Events -> [Users -> RoleOrNone]]
    BY <1>14, <1>a, <2>1 DEF Commit, EventRolesAfter, Requests, StepOK, RoleOrNone
  <2>4. events' \subseteq Events /\ tenant' \in TenantRows
    BY <1>14, <1>a, <2>1 DEF Commit, StepOK
  <2> QED BY <1>14, <2>2, <2>3, <2>4, EndType DEF Commit
<1> QED
  BY <1>1, <1>2, <1>3, <1>4, <1>5, <1>6, <1>7, <1>8, <1>9, <1>10, <1>11, <1>12, <1>13, <1>14
  DEF Statement

LEMMA ArrivalType ==
    ASSUME TypeInv, NEW p \in Procs, Arrival(p)
    PROVE  TypeInv'
<1>a. GrantableRoles \subseteq RoleOrNone /\ NoRole \in RoleOrNone
  BY DEF GrantableRoles, RoleOrNone, Roles
<1>1. CASE AddTenantMember(p)
  BY <1>1, <1>a, ArriveType DEF AddTenantMember, AllOps
<1>2. CASE ChangeTenantRole(p)
  BY <1>2, <1>a, ArriveType DEF ChangeTenantRole, AllOps
<1>3. CASE RevokeTenantRole(p)
  BY <1>3, <1>a, ArriveType DEF RevokeTenantRole, AllOps
<1>4. CASE GrantEventRole(p)
  BY <1>4, <1>a, ArriveType DEF GrantEventRole, AllOps
<1>5. CASE RevokeEventRole(p)
  BY <1>5, <1>a, ArriveType DEF RevokeEventRole, AllOps
<1>6. CASE CreateEvent(p)
  BY <1>6, <1>a, ArriveType DEF CreateEvent, AllOps
<1>7. CASE AdministerTenant(p)
  BY <1>7, <1>a, ArriveType DEF AdministerTenant, AdministerOps, AllOps
<1> QED
  BY <1>1, <1>2, <1>3, <1>4, <1>5, <1>6, <1>7 DEF Arrival

LEMMA InitType == Init => TypeInv
<1> SUFFICES ASSUME Init PROVE TypeInv
  OBVIOUS
<1>1. NewTenant \in TenantRows
  BY ConstantsAssumption DEF NewTenant, TenantRows
<1>2. NoLock \in [Procs -> LockLevels]
  BY DEF NoLock, LockLevels, Unlocked, Update
<1>3. TypeOK
  BY <1>1, <1>2 DEF Init, Idle, TypeOK, Steps, RoleOrNone, Roles
<1>4. StepOK
  BY DEF Init, Idle, StepOK, NoReq
<1> QED BY <1>3, <1>4 DEF TypeInv

LEMMA NextType == TypeInv /\ [Next]_vars => TypeInv'
<1> SUFFICES ASSUME TypeInv, [Next]_vars PROVE TypeInv'
  OBVIOUS
<1>1. CASE UNCHANGED vars
  BY <1>1 DEF vars, db, locks, local, TypeInv, TypeOK, StepOK
<1>2. ASSUME NEW p \in Procs, Rollback(p) PROVE TypeInv'
  BY <1>2, EndType DEF Rollback, db, TypeInv, TypeOK
<1> QED
  BY <1>1, <1>2, ArrivalType, StatementType DEF Next

\* Every request of every mix of RPCs keeps the types, and each statement is
\* only ever reached by the RPCs whose handler contains it.
THEOREM TypeCorrect == Spec => []TypeOK
<1>1. Spec => []TypeInv
  BY InitType, NextType, PTL DEF Spec
<1>2. TypeInv => TypeOK
  BY DEF TypeInv
<1> QED BY <1>1, <1>2, PTL
=============================================================================

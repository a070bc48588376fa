----------------------------- MODULE OwnerProofs -----------------------------
(* Why concurrent administration of a tenant is safe: the inductive invariant
   that ties each open transaction to the locks it holds and to the facts it
   read under them, and the theorems that follow from it.                     *)
EXTENDS MembershipWritesProofs, FiniteSetTheorems

----------------------------------------------------------------------------
(* The inductive invariant *)

\* Two transactions never hold conflicting locks on one membership row.
LocksCompatible ==
    \A u \in Users : \A p, q \in Procs :
       p # q => ~Conflicts(rowLock[u][p], rowLock[u][q])

\* A lock is on a committed row, or belongs to the insert of that row.
LockedRowExists ==
    \A u \in Users, p \in Procs :
       rowLock[u][p] \in {KeyShare, Share, NoKeyUpdate} => role[u] # NoRole

\* A relation write holds the advisory lock from its first statement on.
AdvisoryHeld(p) ==
    pc[p] \in {"require", "keep", "count", "write", "commit"} /\ req[p].op \in RelationOps
       => advisory = p

\* A write that is ready to commit has locked the row it changes, which is there
\* (or, for an insert, is not).
WriterLocked(p) ==
    /\ pc[p] = "commit" /\ req[p].op = "ChangeTenantRole"
         => rowLock[req[p].user][p] >= NoKeyUpdate /\ role[req[p].user] # NoRole
    /\ pc[p] = "commit" /\ req[p].op = "RevokeTenantRole"
         => rowLock[req[p].user][p] = Update /\ role[req[p].user] # NoRole
    /\ pc[p] = "commit" /\ req[p].op = "GrantEventRole"
         => rowLock[req[p].user][p] >= KeyShare /\ role[req[p].user] # NoRole
    /\ pc[p] \in {"fk", "commit"} /\ req[p].op = "AddTenantMember"
         => rowLock[req[p].user][p] = Update /\ role[req[p].user] = NoRole

\* The permission that was checked is still there, under a share lock.
PermissionLocked(p) ==
    /\ pc[p] \in {"keep", "count", "write", "mutate", "commit"}
    /\ req[p].op \in RelationOps \cup AdministerOps
    => rowLock[req[p].caller][p] >= Share /\ Grants(role[req[p].caller], ScopeTenantWrite)

\* The creator's role that was read is still there, under a share lock.
CreatorLocked(p) ==
    /\ pc[p] \in {"insertEvent", "fk", "grantCreator", "commit"}
    /\ req[p].op = "CreateEvent"
    => /\ rowLock[req[p].caller][p] >= Share
       /\ role[req[p].caller] # NoRole
       /\ held[p] = role[req[p].caller]

\* Whoever is about to take a role away leaves another owner behind.
AnotherOwner(p) ==
    /\ pc[p] \in {"write", "commit"}
    /\ req[p].op = "RevokeTenantRole" \/ (req[p].op = "ChangeTenantRole" /\ req[p].role # "owner")
    => \E v \in Users \ {req[p].user} : role[v] = "owner"

\* An event role is written for an event that exists.
EventThere(p) ==
    pc[p] # "idle" /\ req[p].op \in {"GrantEventRole", "RevokeEventRole"} => req[p].event \in events

ProcInv(p) ==
    /\ AdvisoryHeld(p) /\ WriterLocked(p) /\ PermissionLocked(p)
    /\ CreatorLocked(p) /\ AnotherOwner(p) /\ EventThere(p)

SafeInv ==
    /\ TypeInv
    /\ LocksCompatible
    /\ LockedRowExists
    /\ \A p \in Procs : ProcInv(p)
    /\ OwnerRemains
    /\ EventRoleNeedsMembership
----------------------------------------------------------------------------
(* Steps that leave the database alone *)

\* A lock granted on a committed row conflicts with no other, and leaves the
\* locks of the other transactions as they were.
LEMMA LockRowKeeps ==
    ASSUME TypeInv, LocksCompatible, LockedRowExists, UNCHANGED db,
           NEW p \in Procs, NEW u \in Users, NEW m \in LockLevels,
           role[u] # NoRole, RowFree(p, u, m), LockRow(p, u, m)
    PROVE  /\ LocksCompatible' /\ LockedRowExists'
           /\ rowLock'[u][p] >= m
           /\ \A v \in Users : /\ rowLock'[v][p] >= rowLock[v][p]
                               /\ \A q \in Procs \ {p} : rowLock'[v][q] = rowLock[v][q]
<1>1. rowLock \in [Users -> [Procs -> LockLevels]]
  BY DEF TypeInv, TypeOK
<1> DEFINE new == Granted(rowLock[u], p, m)
<1>2. rowLock' = [rowLock EXCEPT ![u] = new]
  BY DEF LockRow
<1>3. /\ new \in [Procs -> LockLevels] /\ new[p] >= m /\ new[p] >= rowLock[u][p]
      /\ new[p] \in {m, rowLock[u][p]} /\ \A q \in Procs \ {p} : new[q] = rowLock[u][q]
  BY <1>1, GrantedType
<1>4. \A q \in Procs \ {p} : ~Conflicts(m, rowLock[u][q])
  BY <1>1 DEF RowFree, RowBlockers, Blockers
<1> HIDE DEF new
<1>5. /\ rowLock'[u] = new /\ \A v \in Users \ {u} : rowLock'[v] = rowLock[v]
  BY <1>1, <1>2
<1>6. \A q, r \in Procs : q # r => ~Conflicts(new[q], new[r])
  BY <1>1, <1>3, <1>4 DEF LocksCompatible, Conflicts, LockLevels, Unlocked, Update
<1>7. LocksCompatible'
  BY <1>5, <1>6 DEF LocksCompatible
<1>8. LockedRowExists'
  BY <1>5 DEF LockedRowExists, db
<1> QED BY <1>1, <1>3, <1>5, <1>7, <1>8 DEF LockLevels, Unlocked, Update

\* What a step of p leaves alone.
Frame(p) ==
    \A q \in Procs \ {p} :
       /\ pc'[q] = pc[q] /\ req'[q] = req[q] /\ held'[q] = held[q]
       /\ advisory = q => advisory' = q
       /\ \A u \in Users : rowLock'[u][q] = rowLock[u][q]

LEMMA OthersKeep ==
    ASSUME TypeInv, UNCHANGED db, NEW p \in Procs, Frame(p), \A q \in Procs : ProcInv(q)
    PROVE  \A q \in Procs \ {p} : ProcInv(q)'
<1> SUFFICES ASSUME NEW q \in Procs \ {p} PROVE ProcInv(q)'
  OBVIOUS
<1>1. /\ pc'[q] = pc[q] /\ req'[q] = req[q] /\ held'[q] = held[q] /\ role' = role /\ events' = events
      /\ advisory = q => advisory' = q
      /\ \A u \in Users : rowLock'[u][q] = rowLock[u][q]
      /\ pc[q] # "idle" => req[q] \in Requests
  BY DEF Frame, db, TypeInv, StepOK
<1>2. pc[q] # "idle" => req[q].user \in Users /\ req[q].caller \in Users
  BY <1>1 DEF Requests
<1>3. ProcInv(q)
  OBVIOUS
<1>4. AdvisoryHeld(q)' /\ EventThere(q)'
  BY <1>1, <1>3 DEF ProcInv, AdvisoryHeld, EventThere
<1>5. WriterLocked(q)'
  BY <1>1, <1>2, <1>3 DEF ProcInv, WriterLocked
<1>6. PermissionLocked(q)' /\ CreatorLocked(q)'
  BY <1>1, <1>2, <1>3 DEF ProcInv, PermissionLocked, CreatorLocked
<1>7. AnotherOwner(q)'
  BY <1>1, <1>3 DEF ProcInv, AnotherOwner
<1> QED BY <1>4, <1>5, <1>6, <1>7 DEF ProcInv

\* A step that leaves the database alone keeps the invariant if it keeps the
\* locks compatible and what p itself relies on.
LEMMA QuietStep ==
    ASSUME SafeInv, TypeInv', UNCHANGED db, NEW p \in Procs, Frame(p),
           LocksCompatible', LockedRowExists', ProcInv(p)'
    PROVE  SafeInv'
<1>1. \A q \in Procs : ProcInv(q)'
  BY OthersKeep DEF SafeInv
<1>2. OwnerRemains' /\ EventRoleNeedsMembership'
  BY DEF SafeInv, OwnerRemains, Owners, EventRoleNeedsMembership, db
<1> QED BY <1>1, <1>2 DEF SafeInv

\* The end of a transaction only gives locks back.
LEMMA EndFrame ==
    ASSUME SafeInv, NEW p \in Procs, End(p)
    PROVE  /\ Frame(p) /\ ProcInv(p)' /\ LocksCompatible'
           /\ \A u \in Users : rowLock'[u][p] = Unlocked
<1>1. rowLock \in [Users -> [Procs -> LockLevels]] /\ pc'[p] = "idle"
  BY DEF SafeInv, TypeInv, TypeOK, End
<1>2. \A u \in Users : /\ rowLock'[u][p] = 0
                       /\ \A q \in Procs \ {p} : rowLock'[u][q] = rowLock[u][q]
  BY <1>1, ReleasedType DEF End
<1>3. Frame(p)
  BY <1>2 DEF Frame, End, SafeInv, TypeInv, TypeOK
<1>4. ProcInv(p)'
  BY <1>1 DEF ProcInv, AdvisoryHeld, WriterLocked, PermissionLocked, CreatorLocked,
              AnotherOwner, EventThere
<1>5. LocksCompatible'
  BY <1>1, <1>2 DEF SafeInv, LocksCompatible, Conflicts, LockLevels, Unlocked, Update
<1> QED BY <1>2, <1>3, <1>4, <1>5 DEF Unlocked

LEMMA EndKeeps ==
    ASSUME SafeInv, TypeInv', UNCHANGED db, NEW p \in Procs, End(p)
    PROVE  SafeInv'
<1>1. Frame(p) /\ ProcInv(p)' /\ LocksCompatible' /\ \A u \in Users : rowLock'[u][p] = Unlocked
  BY EndFrame
<1>2. LockedRowExists'
  BY <1>1 DEF SafeInv, LockedRowExists, Frame, db, Unlocked, KeyShare, Share, NoKeyUpdate
<1> QED BY <1>1, <1>2, QuietStep
\* Moving on without a new row lock.
LEMMA MoveFrame ==
    ASSUME SafeInv, UNCHANGED db, NEW p \in Procs, NEW step, Goto(p, step),
           rowLock' = rowLock, req' = req, held' = held, advisory' \in {advisory, p},
           advisory = NoProc \/ advisory' = advisory
    PROVE  Frame(p) /\ LocksCompatible' /\ LockedRowExists' /\ pc'[p] = step
<1>1. Frame(p) /\ pc'[p] = step
  BY ConstantsAssumption DEF SafeInv, TypeInv, TypeOK, Frame, Goto
<1>2. LocksCompatible' /\ LockedRowExists'
  BY DEF SafeInv, LocksCompatible, LockedRowExists, db
<1> QED BY <1>1, <1>2

\* Moving on with a lock on a committed row.
LEMMA LockFrame ==
    ASSUME SafeInv, UNCHANGED db, NEW p \in Procs, NEW step, Goto(p, step),
           NEW u \in Users, NEW m \in LockLevels,
           role[u] # NoRole, RowFree(p, u, m), LockRow(p, u, m),
           req' = req, \A q \in Procs \ {p} : held'[q] = held[q], advisory' = advisory
    PROVE  /\ Frame(p) /\ LocksCompatible' /\ LockedRowExists' /\ pc'[p] = step
           /\ rowLock'[u][p] >= m
           /\ \A v \in Users : rowLock'[v][p] >= rowLock[v][p] /\ rowLock'[v][p] \in LockLevels
<1>1. /\ LocksCompatible' /\ LockedRowExists'
      /\ rowLock'[u][p] >= m
      /\ \A v \in Users : /\ rowLock'[v][p] >= rowLock[v][p]
                          /\ \A q \in Procs \ {p} : rowLock'[v][q] = rowLock[v][q]
  BY LockRowKeeps DEF SafeInv
<1>2. Frame(p) /\ pc'[p] = step
  BY <1>1 DEF SafeInv, TypeInv, TypeOK, Frame, Goto
<1>3. \A v \in Users : rowLock'[v][p] \in LockLevels
  BY GrantedType DEF SafeInv, TypeInv, TypeOK, LockRow
<1> QED BY <1>1, <1>2, <1>3

\* Two or more owners: whoever loses the role, another one is left.
LEMMA SecondOwner ==
    ASSUME TypeInv, NEW u \in Users, ~(Cardinality(Owners) <= 1)
    PROVE  \E v \in Users \ {u} : role[v] = "owner"
<1> SUFFICES ASSUME \A v \in Users \ {u} : role[v] # "owner" PROVE FALSE
  OBVIOUS
<1>1. Owners \subseteq {u}
  BY DEF Owners
<1>2. IsFiniteSet({u}) /\ Cardinality({u}) = 1
  BY FS_Singleton
<1>3. Cardinality(Owners) <= Cardinality({u}) /\ Cardinality(Owners) \in Nat
  BY <1>1, <1>2, FS_Subset, FS_CardinalityType
<1> QED BY <1>2, <1>3

\* The statements of the relation side.
LEMMA RelationStatementKeeps ==
    ASSUME SafeInv, TypeInv', NEW p \in Procs,
           \/ LockTenantMemberships(p) \/ Require(p) \/ KeepAnotherOwner(p)
           \/ CountTenantOwners(p) \/ WriteMembership(p) \/ DeleteEventRole(p)
    PROVE  SafeInv'
<1>a. TypeInv /\ ProcInv(p)
  BY DEF SafeInv
<1>b. pc[p] # "idle" => req[p].caller \in Users /\ req[p].user \in Users
  BY <1>a DEF TypeInv, StepOK, Requests
<1>c. \A u \in Users : rowLock[u][p] \in LockLevels
  BY <1>a DEF TypeInv, TypeOK
<1>d. Share \in LockLevels
  BY DEF Share, LockLevels, Unlocked, Update
<1>1. CASE LockTenantMemberships(p)
  <2>1. Frame(p) /\ LocksCompatible' /\ LockedRowExists' /\ pc'[p] = "require"
    BY <1>1, MoveFrame DEF LockTenantMemberships, local
  <2>2. ProcInv(p)'
    BY <1>1, <1>a, <2>1 DEF LockTenantMemberships, local, db, ProcInv, AdvisoryHeld, WriterLocked,
       PermissionLocked, CreatorLocked, AnotherOwner, EventThere
  <2> QED BY <1>1, <2>1, <2>2, QuietStep DEF LockTenantMemberships
<1>2. CASE Require(p)
  <2>1. CASE End(p)
    BY <1>2, <2>1, EndKeeps DEF Require
  <2>2. CASE ~End(p)
    <3> DEFINE step == AfterRequire(req[p])
    <3>1. /\ Grants(role[req[p].caller], ScopeTenantWrite) /\ pc[p] = "require"
          /\ RowFree(p, req[p].caller, Share) /\ LockRow(p, req[p].caller, Share)
          /\ Goto(p, step) /\ UNCHANGED <<db, advisory, req, held>>
      BY <1>2, <2>2 DEF Require, local
    <3>2. role[req[p].caller] # NoRole
      BY <3>1 DEF Grants, NoRole
    <3>3. /\ Frame(p) /\ LocksCompatible' /\ LockedRowExists' /\ pc'[p] = step
          /\ rowLock'[req[p].caller][p] >= Share
      BY <3>1, <3>2, <1>b, <1>d, LockFrame
    <3>4. /\ req[p].op \in AdministerOps => step = "mutate"
          /\ req[p].op \in RelationOps => step \in {"keep", "write"}
          /\ req[p].op = "RevokeTenantRole" \/ (req[p].op = "ChangeTenantRole" /\ req[p].role # "owner")
                => step = "keep"
          /\ req[p].op \in RelationOps \cup AdministerOps
      BY <1>a, <3>1 DEF AfterRequire, TypeInv, StepOK, RelationOps, AdministerOps
    <3> HIDE DEF step
    <3>5. ProcInv(p)'
      BY <1>a, <3>1, <3>3, <3>4 DEF ProcInv, AdvisoryHeld, WriterLocked, PermissionLocked,
         CreatorLocked, AnotherOwner, EventThere, RelationOps, AdministerOps, db
    <3> QED BY <3>1, <3>3, <3>5, QuietStep
  <2> QED BY <2>1, <2>2
<1>3. CASE KeepAnotherOwner(p)
  <2> DEFINE step == IF role[req[p].user] = "owner" THEN "count" ELSE "write"
  <2>1. /\ pc[p] = "keep" /\ RowFree(p, req[p].user, Share) /\ Goto(p, step)
        /\ UNCHANGED <<db, advisory, req, held>>
    BY <1>3 DEF KeepAnotherOwner, local
  <2>2. /\ Frame(p) /\ LocksCompatible' /\ LockedRowExists' /\ pc'[p] = step
        /\ rowLock'[req[p].caller][p] >= rowLock[req[p].caller][p]
        /\ rowLock'[req[p].caller][p] \in LockLevels
    <3>1. CASE role[req[p].user] = NoRole
      <4>1. rowLock' = rowLock
        BY <1>3, <3>1 DEF KeepAnotherOwner
      <4>2. Frame(p) /\ LocksCompatible' /\ LockedRowExists' /\ pc'[p] = step
        BY <2>1, <4>1, MoveFrame
      <4> QED BY <1>b, <1>c, <2>1, <4>1, <4>2 DEF LockLevels, Unlocked, Update
    <3>2. CASE role[req[p].user] # NoRole
      <4>1. LockRow(p, req[p].user, Share)
        BY <1>3, <3>2 DEF KeepAnotherOwner
      <4> QED BY <1>b, <1>d, <2>1, <3>2, <4>1, LockFrame
    <3> QED BY <3>1, <3>2
  <2>3. pc'[p] = "write" => \E v \in Users \ {req[p].user} : role[v] = "owner"
    BY <2>2 DEF SafeInv, OwnerRemains, Owners
  <2>4. pc'[p] \in {"count", "write"}
    BY <2>2
  <2>5. PermissionLocked(p)'
    BY <1>a, <1>b, <1>c, <2>1, <2>2, <2>4 DEF ProcInv, PermissionLocked, db, LockLevels, Unlocked,
       Update, Share
  <2>6. AnotherOwner(p)'
    BY <2>1, <2>3, <2>4 DEF AnotherOwner, db
  <2>7. ProcInv(p)'
    BY <1>a, <2>1, <2>4, <2>5, <2>6 DEF ProcInv, AdvisoryHeld, WriterLocked, CreatorLocked,
       EventThere, db
  <2> QED BY <2>1, <2>2, <2>7, QuietStep
<1>4. CASE CountTenantOwners(p)
  <2>1. CASE End(p)
    BY <1>4, <2>1, EndKeeps DEF CountTenantOwners
  <2>2. CASE ~End(p)
    <3>1. /\ pc[p] = "count" /\ ~(Cardinality(Owners) <= 1) /\ Goto(p, "write")
          /\ UNCHANGED <<db, advisory, rowLock, req, held>>
      BY <1>4, <2>2 DEF CountTenantOwners, local, locks
    <3>2. Frame(p) /\ LocksCompatible' /\ LockedRowExists' /\ pc'[p] = "write"
      BY <3>1, MoveFrame
    <3>3. \E v \in Users \ {req[p].user} : role[v] = "owner"
      BY <1>a, <1>b, <3>1, SecondOwner
    <3>4. ProcInv(p)'
      BY <1>a, <3>1, <3>2, <3>3 DEF ProcInv, AdvisoryHeld, WriterLocked, PermissionLocked,
         CreatorLocked, AnotherOwner, EventThere, db
    <3> QED BY <3>1, <3>2, <3>4, QuietStep
  <2> QED BY <2>1, <2>2
<1>5. CASE WriteMembership(p)
  <2>1. CASE End(p)
    BY <1>5, <2>1, EndKeeps DEF WriteMembership
  <2>2. CASE ~End(p)
    <3> DEFINE level == WriteLevel(req[p].op)
    <3>1. /\ pc[p] = "write" /\ role[req[p].user] # NoRole /\ req[p].op # "RevokeEventRole"
          /\ RowFree(p, req[p].user, level) /\ LockRow(p, req[p].user, level)
          /\ Goto(p, "commit") /\ UNCHANGED <<db, advisory, req, held>>
      BY <1>5, <2>2 DEF WriteMembership, local
    <3>2. /\ req[p].op \in RelationOps
          /\ req[p].op = "ChangeTenantRole" => level = NoKeyUpdate
          /\ req[p].op = "RevokeTenantRole" => level = Update
          /\ req[p].op = "GrantEventRole" => level = KeyShare
      BY <1>a, <3>1 DEF WriteLevel, TypeInv, StepOK
    <3>3. level \in LockLevels
      BY <3>1, <3>2 DEF RelationOps, LockLevels, Unlocked, KeyShare, NoKeyUpdate, Update
    <3> HIDE DEF level
    <3>4. /\ Frame(p) /\ LocksCompatible' /\ LockedRowExists' /\ pc'[p] = "commit"
          /\ rowLock'[req[p].user][p] >= level
          /\ \A v \in Users : rowLock'[v][p] >= rowLock[v][p] /\ rowLock'[v][p] \in LockLevels
      BY <3>1, <3>3, <1>b, LockFrame
    <3>5. WriterLocked(p)'
      BY <1>b, <3>1, <3>2, <3>4 DEF WriterLocked, RelationOps, LockLevels, Unlocked, KeyShare,
         NoKeyUpdate, Update, db
    <3>6. PermissionLocked(p)'
      BY <1>a, <1>b, <1>c, <3>1, <3>2, <3>4 DEF ProcInv, PermissionLocked, LockLevels, Unlocked,
         Update, Share, db
    <3>7. AdvisoryHeld(p)' /\ CreatorLocked(p)' /\ AnotherOwner(p)' /\ EventThere(p)'
      BY <1>a, <3>1, <3>2, <3>4 DEF ProcInv, AdvisoryHeld, CreatorLocked, AnotherOwner, EventThere,
         RelationOps, db
    <3> QED BY <3>1, <3>4, <3>5, <3>6, <3>7, QuietStep DEF ProcInv
  <2> QED BY <2>1, <2>2
<1>6. CASE DeleteEventRole(p)
  <2>1. CASE End(p)
    BY <1>6, <2>1, EndKeeps DEF DeleteEventRole
  <2>2. CASE ~End(p)
    <3>1. /\ pc[p] = "write" /\ req[p].op = "RevokeEventRole" /\ Goto(p, "commit")
          /\ UNCHANGED <<db, advisory, rowLock, req, held>>
      BY <1>6, <2>2 DEF DeleteEventRole, local, locks
    <3>2. Frame(p) /\ LocksCompatible' /\ LockedRowExists' /\ pc'[p] = "commit"
      BY <3>1, MoveFrame
    <3>3. ProcInv(p)'
      BY <1>a, <3>1, <3>2 DEF ProcInv, AdvisoryHeld, WriterLocked, PermissionLocked, CreatorLocked,
         AnotherOwner, EventThere, db
    <3> QED BY <3>1, <3>2, <3>3, QuietStep
  <2> QED BY <2>1, <2>2
<1> QED BY <1>1, <1>2, <1>3, <1>4, <1>5, <1>6
\* The insert of a membership, and the statements of the tenant side.
LEMMA TenantStatementKeeps ==
    ASSUME SafeInv, TypeInv', NEW p \in Procs,
           \/ InsertMembership(p) \/ CheckTenantKey(p) \/ ReadCreatorRole(p) \/ InsertEvent(p)
           \/ GrantCreatorRole(p) \/ FindTenantForUpdate(p) \/ MutateTenant(p)
    PROVE  SafeInv'
<1>a. TypeInv /\ ProcInv(p)
  BY DEF SafeInv
<1>b. pc[p] # "idle" => req[p].caller \in Users /\ req[p].user \in Users
  BY <1>a DEF TypeInv, StepOK, Requests
<1>c. rowLock \in [Users -> [Procs -> LockLevels]]
  BY <1>a DEF TypeInv, TypeOK
<1>d. KeyShare \in LockLevels /\ Share \in LockLevels /\ Update \in LockLevels
  BY DEF KeyShare, Share, LockLevels, Unlocked, Update
<1>1. CASE InsertMembership(p)
  <2>1. CASE End(p)
    BY <1>1, <2>1, EndKeeps DEF InsertMembership
  <2>2. CASE ~End(p)
    <3> DEFINE u == req[p].user
               new == Granted(rowLock[u], p, Update)
    <3>1. /\ pc[p] = "insert" /\ role[u] = NoRole /\ Goto(p, "fk")
          /\ Blockers(rowLock[u], p, Share) = {} /\ rowLock' = [rowLock EXCEPT ![u] = new]
          /\ UNCHANGED <<db, advisory, req, held>> /\ req[p].op = "AddTenantMember"
      BY <1>1, <1>a, <2>2 DEF InsertMembership, local, LockRow, TypeInv, StepOK
    <3>2. u \in Users
      BY <1>b, <3>1
    <3>3. /\ new \in [Procs -> LockLevels] /\ new[p] >= Update
          /\ \A q \in Procs \ {p} : new[q] = rowLock[u][q]
      BY <1>c, <1>d, <3>2, GrantedType
    <3>4. \A q \in Procs \ {p} : rowLock[u][q] = Unlocked
      BY <1>c, <3>1, <3>2 DEF Blockers, SafeInv, LockedRowExists, Conflicts, LockLevels, Unlocked,
         KeyShare, Share, NoKeyUpdate, Update
    <3> HIDE DEF u, new
    <3>5. rowLock'[u] = new /\ \A v \in Users \ {u} : rowLock'[v] = rowLock[v]
      BY <1>c, <3>1, <3>2
    <3>6. new[p] = Update
      BY <3>3 DEF LockLevels, Unlocked, Update
    <3>7. LocksCompatible' /\ LockedRowExists'
      <4>1. \A q, r \in Procs : q # r => ~Conflicts(new[q], new[r])
        BY <3>3, <3>4, <3>6 DEF Conflicts, Unlocked, Update
      <4>2. \A q \in Procs : new[q] \notin {KeyShare, Share, NoKeyUpdate}
        BY <3>3, <3>4, <3>6 DEF Unlocked, Update, KeyShare, Share, NoKeyUpdate
      <4> QED BY <3>1, <3>5, <4>1, <4>2 DEF SafeInv, LocksCompatible, LockedRowExists, db
    <3>8. Frame(p) /\ pc'[p] = "fk"
      BY <1>a, <3>1, <3>3, <3>5 DEF Frame, Goto, TypeInv, TypeOK
    <3>9. ProcInv(p)'
      BY <3>1, <3>2, <3>5, <3>6, <3>8 DEF ProcInv, AdvisoryHeld, WriterLocked, PermissionLocked,
         CreatorLocked, AnotherOwner, EventThere, u, db
    <3> QED BY <3>1, <3>7, <3>8, <3>9, QuietStep
  <2> QED BY <2>1, <2>2
<1>2. CASE CheckTenantKey(p)
  <2> DEFINE step == IF req[p].op = "CreateEvent" THEN "grantCreator" ELSE "commit"
  <2>1. /\ pc[p] = "fk" /\ req[p].op \in {"AddTenantMember", "CreateEvent"} /\ Goto(p, step)
        /\ UNCHANGED <<db, advisory, rowLock, req, held>>
    BY <1>2, <1>a DEF CheckTenantKey, local, TypeInv, StepOK
  <2>2. Frame(p) /\ LocksCompatible' /\ LockedRowExists' /\ pc'[p] = step
    BY <2>1, MoveFrame
  <2>3. ProcInv(p)'
    BY <1>a, <2>1, <2>2 DEF ProcInv, AdvisoryHeld, WriterLocked, PermissionLocked, CreatorLocked,
       AnotherOwner, EventThere, RelationOps, AdministerOps, db
  <2> QED BY <2>1, <2>2, <2>3, QuietStep
<1>3. CASE ReadCreatorRole(p)
  <2>1. CASE End(p)
    BY <1>3, <2>1, EndKeeps DEF ReadCreatorRole
  <2>2. CASE ~End(p)
    <3>1. /\ pc[p] = "creator" /\ role[req[p].caller] # NoRole
          /\ held' = [held EXCEPT ![p] = role[req[p].caller]]
          /\ RowFree(p, req[p].caller, Share) /\ LockRow(p, req[p].caller, Share)
          /\ Goto(p, "insertEvent") /\ UNCHANGED <<db, advisory, req>>
          /\ req[p].op = "CreateEvent"
      BY <1>3, <1>a, <2>2 DEF ReadCreatorRole, TypeInv, StepOK
    <3>2. held'[p] = role[req[p].caller] /\ \A q \in Procs \ {p} : held'[q] = held[q]
      BY <1>a, <3>1 DEF TypeInv, TypeOK
    <3>3. /\ Frame(p) /\ LocksCompatible' /\ LockedRowExists' /\ pc'[p] = "insertEvent"
          /\ rowLock'[req[p].caller][p] >= Share
      BY <1>b, <1>d, <3>1, <3>2, LockFrame
    <3>4. ProcInv(p)'
      BY <3>1, <3>2, <3>3 DEF ProcInv, AdvisoryHeld, WriterLocked, PermissionLocked, CreatorLocked,
         AnotherOwner, EventThere, db
    <3> QED BY <3>1, <3>3, <3>4, QuietStep
  <2> QED BY <2>1, <2>2
<1>4. CASE InsertEvent(p)
  <2>1. CASE End(p)
    BY <1>4, <2>1, EndKeeps DEF InsertEvent
  <2>2. CASE ~End(p)
    <3>1. /\ pc[p] = "insertEvent" /\ req[p].op = "CreateEvent" /\ Goto(p, "fk")
          /\ UNCHANGED <<db, advisory, rowLock, req, held>>
      BY <1>4, <1>a, <2>2 DEF InsertEvent, local, locks, TypeInv, StepOK
    <3>2. Frame(p) /\ LocksCompatible' /\ LockedRowExists' /\ pc'[p] = "fk"
      BY <3>1, MoveFrame
    <3>3. ProcInv(p)'
      BY <1>a, <3>1, <3>2 DEF ProcInv, AdvisoryHeld, WriterLocked, PermissionLocked, CreatorLocked,
         AnotherOwner, EventThere, db
    <3> QED BY <3>1, <3>2, <3>3, QuietStep
  <2> QED BY <2>1, <2>2
<1>5. CASE GrantCreatorRole(p)
  <2>1. CASE End(p)
    BY <1>5, <2>1, EndKeeps DEF GrantCreatorRole
  <2>2. CASE ~End(p)
    <3>1. /\ pc[p] = "grantCreator" /\ role[req[p].caller] # NoRole /\ req[p].op = "CreateEvent"
          /\ RowFree(p, req[p].caller, KeyShare) /\ LockRow(p, req[p].caller, KeyShare)
          /\ Goto(p, "commit") /\ UNCHANGED <<db, advisory, req, held>>
      BY <1>5, <1>a, <2>2 DEF GrantCreatorRole, local, TypeInv, StepOK
    <3>2. /\ Frame(p) /\ LocksCompatible' /\ LockedRowExists' /\ pc'[p] = "commit"
          /\ rowLock'[req[p].caller][p] >= rowLock[req[p].caller][p]
          /\ rowLock'[req[p].caller][p] \in LockLevels
      BY <1>b, <1>d, <3>1, LockFrame
    <3>3. CreatorLocked(p)'
      BY <1>a, <1>b, <1>c, <3>1, <3>2 DEF ProcInv, CreatorLocked, LockLevels, Unlocked, Update,
         Share, db
    <3>4. ProcInv(p)'
      BY <3>1, <3>2, <3>3 DEF ProcInv, AdvisoryHeld, WriterLocked, PermissionLocked,
         AnotherOwner, EventThere, RelationOps, AdministerOps
    <3> QED BY <3>1, <3>2, <3>4, QuietStep
  <2> QED BY <2>1, <2>2
<1>6. CASE FindTenantForUpdate(p)
  <2>1. CASE End(p)
    BY <1>6, <2>1, EndKeeps DEF FindTenantForUpdate
  <2>2. CASE ~End(p)
    <3>1. /\ pc[p] = "tenant" /\ req[p].op \in AdministerOps /\ Goto(p, "require")
          /\ UNCHANGED <<db, advisory, rowLock, req, held>>
      BY <1>6, <1>a, <2>2 DEF FindTenantForUpdate, TypeInv, StepOK
    <3>2. Frame(p) /\ LocksCompatible' /\ LockedRowExists' /\ pc'[p] = "require"
      BY <3>1, MoveFrame
    <3>3. ProcInv(p)'
      BY <3>1, <3>2 DEF ProcInv, AdvisoryHeld, WriterLocked, PermissionLocked, CreatorLocked,
         AnotherOwner, EventThere, RelationOps, AdministerOps
    <3> QED BY <3>1, <3>2, <3>3, QuietStep
  <2> QED BY <2>1, <2>2
<1>7. CASE MutateTenant(p)
  <2>1. /\ pc[p] = "mutate" /\ req[p].op \in AdministerOps /\ Goto(p, "commit")
        /\ UNCHANGED <<db, advisory, rowLock, req, held>>
    BY <1>7, <1>a DEF MutateTenant, locks, TypeInv, StepOK
  <2>2. Frame(p) /\ LocksCompatible' /\ LockedRowExists' /\ pc'[p] = "commit"
    BY <2>1, MoveFrame
  <2>3. ProcInv(p)'
    BY <1>a, <2>1, <2>2 DEF ProcInv, AdvisoryHeld, WriterLocked, PermissionLocked, CreatorLocked,
       AnotherOwner, EventThere, RelationOps, AdministerOps, db
  <2> QED BY <2>1, <2>2, <2>3, QuietStep
<1> QED BY <1>1, <1>2, <1>3, <1>4, <1>5, <1>6, <1>7

\* The arrival of a request: it holds nothing yet, and has read only that its
\* event is there.
LEMMA ArriveKeeps ==
    ASSUME SafeInv, TypeInv', NEW p \in Procs, NEW op \in AllOps, NEW c, NEW u, NEW r, NEW e,
           op \in {"GrantEventRole", "RevokeEventRole"} => e \in events,
           Arrive(p, op, c, u, r, e)
    PROVE  SafeInv'
<1> DEFINE new == [op |-> op, caller |-> c, user |-> u, role |-> r, event |-> e]
<1>1. /\ req' = [req EXCEPT ![p] = new] /\ pc' = [pc EXCEPT ![p] = FirstStep(op)]
      /\ UNCHANGED <<db, advisory, rowLock, held>>
  BY DEF Arrive, Goto, locks
<1>2. FirstStep(op) \in {"insert", "lock", "creator", "tenant"}
  BY DEF FirstStep, AllOps, RelationOps, AdministerOps
<1>3. Frame(p) /\ pc'[p] = FirstStep(op) /\ req'[p] = new
  BY <1>1 DEF Frame, SafeInv, TypeInv, TypeOK
<1>4. LocksCompatible' /\ LockedRowExists'
  BY <1>1 DEF SafeInv, LocksCompatible, LockedRowExists, db
<1>5. ProcInv(p)'
  BY <1>1, <1>2, <1>3 DEF ProcInv, AdvisoryHeld, WriterLocked, PermissionLocked, CreatorLocked,
     AnotherOwner, EventThere, db
<1> QED BY <1>1, <1>3, <1>4, <1>5, QuietStep

LEMMA ArrivalKeeps ==
    ASSUME SafeInv, NEW p \in Procs, Arrival(p)
    PROVE  SafeInv'
<1>0. TypeInv'
  BY ArrivalType DEF SafeInv
<1>1. CASE AddTenantMember(p)
  BY <1>0, <1>1, ArriveKeeps DEF AddTenantMember, AllOps
<1>2. CASE ChangeTenantRole(p)
  BY <1>0, <1>2, ArriveKeeps DEF ChangeTenantRole, AllOps
<1>3. CASE RevokeTenantRole(p)
  BY <1>0, <1>3, ArriveKeeps DEF RevokeTenantRole, AllOps
<1>4. CASE GrantEventRole(p)
  BY <1>0, <1>4, ArriveKeeps DEF GrantEventRole, WritableEvent, AllOps
<1>5. CASE RevokeEventRole(p)
  BY <1>0, <1>5, ArriveKeeps DEF RevokeEventRole, WritableEvent, AllOps
<1>6. CASE CreateEvent(p)
  BY <1>0, <1>6, ArriveKeeps DEF CreateEvent, AllOps
<1>7. CASE AdministerTenant(p)
  BY <1>0, <1>7, ArriveKeeps DEF AdministerTenant, AdministerOps, AllOps
<1> QED BY <1>1, <1>2, <1>3, <1>4, <1>5, <1>6, <1>7 DEF Arrival
----------------------------------------------------------------------------
(* The commit *)

\* What a commit does to the roles: it changes the one row it has locked, and
\* an owner's only while another owner is there.
LEMMA CommitRoles ==
    ASSUME SafeInv, NEW p \in Procs, Commit(p)
    PROVE  /\ \A v \in Users : role'[v] # role[v] =>
                 /\ v = req[p].user
                 /\ rowLock[v][p] >= NoKeyUpdate
                 /\ role'[v] = NoRole => rowLock[v][p] = Update
                 /\ role[v] # NoRole => req[p].op \in {"ChangeTenantRole", "RevokeTenantRole"}
           /\ \E v \in Users : role'[v] = "owner"
<1>a. /\ TypeInv /\ ProcInv(p) /\ pc[p] = "commit" /\ role' = RolesAfter(req[p])
      /\ role \in [Users -> RoleOrNone]
      /\ \A v \in Users : rowLock[v][p] \in LockLevels
      /\ req[p].user \in Users
  BY DEF SafeInv, Commit, TypeInv, TypeOK, StepOK, Requests
<1>b. PICK o \in Users : role[o] = "owner"
  BY DEF SafeInv, OwnerRemains, Owners
<1>1. CASE req[p].op \notin MembershipOps
  BY <1>a, <1>b, <1>1 DEF RolesAfter
<1>2. CASE req[p].op \in MembershipOps
  <2>1. role'[req[p].user] = req[p].role /\ \A v \in Users \ {req[p].user} : role'[v] = role[v]
    BY <1>a, <1>2 DEF RolesAfter
  <2>2. CASE req[p].op = "AddTenantMember"
    <3>1. /\ rowLock[req[p].user][p] = Update /\ role[req[p].user] = NoRole
          /\ req[p].role \in GrantableRoles
      BY <1>a, <2>2 DEF ProcInv, WriterLocked, TypeInv, StepOK
    <3> QED BY <1>b, <2>1, <3>1 DEF GrantableRoles, NoRole, Update, NoKeyUpdate
  <2>3. CASE req[p].op = "ChangeTenantRole"
    <3>1. /\ rowLock[req[p].user][p] >= NoKeyUpdate /\ req[p].role \in GrantableRoles
          /\ req[p].role # "owner" => \E v \in Users \ {req[p].user} : role[v] = "owner"
      BY <1>a, <2>3 DEF ProcInv, WriterLocked, AnotherOwner, TypeInv, StepOK
    <3> QED BY <1>a, <2>1, <2>3, <3>1 DEF GrantableRoles, NoRole
  <2>4. CASE req[p].op = "RevokeTenantRole"
    <3>1. /\ rowLock[req[p].user][p] = Update
          /\ \E v \in Users \ {req[p].user} : role[v] = "owner"
      BY <1>a, <2>4 DEF ProcInv, WriterLocked, AnotherOwner
    <3> QED BY <2>1, <2>4, <3>1 DEF Update, NoKeyUpdate
  <2> QED BY <1>2, <2>2, <2>3, <2>4 DEF MembershipOps
<1> QED BY <1>1, <1>2

\* A row that another transaction has locked: a share lock keeps its role, any
\* lock keeps the row.
LEMMA CommitRespectsLocks ==
    ASSUME SafeInv, NEW p \in Procs, Commit(p), NEW q \in Procs \ {p}, NEW u \in Users
    PROVE  /\ rowLock[u][q] >= Share => role'[u] = role[u]
           /\ rowLock[u][q] >= KeyShare /\ role[u] # NoRole => role'[u] # NoRole
<1>1. rowLock[u][p] \in LockLevels /\ rowLock[u][q] \in LockLevels
  BY DEF SafeInv, TypeInv, TypeOK
<1>2. rowLock[u][p] + rowLock[u][q] <= Update
  BY <1>1 DEF SafeInv, LocksCompatible, Conflicts, LockLevels, Unlocked, Update
<1>3. role'[u] # role[u] => /\ rowLock[u][p] >= NoKeyUpdate
                            /\ role'[u] = NoRole => rowLock[u][p] = Update
  BY CommitRoles
<1> QED BY <1>1, <1>2, <1>3 DEF LockLevels, Unlocked, KeyShare, Share, NoKeyUpdate, Update

\* The commit of p leaves the other transactions what they rely on.
LEMMA CommitOthers ==
    ASSUME SafeInv, NEW p \in Procs, Commit(p), Frame(p), NEW q \in Procs \ {p}
    PROVE  ProcInv(q)'
<1>1. /\ pc'[q] = pc[q] /\ req'[q] = req[q] /\ held'[q] = held[q] /\ events \subseteq events'
      /\ advisory = q => advisory' = q
      /\ \A u \in Users : rowLock'[u][q] = rowLock[u][q]
      /\ pc[q] # "idle" => req[q] \in Requests
      /\ ProcInv(q)
  BY DEF Frame, Commit, SafeInv, TypeInv, StepOK
<1>2. pc[q] # "idle" => req[q].user \in Users /\ req[q].caller \in Users
  BY <1>1 DEF Requests
<1>3. \A u \in Users : rowLock[u][q] \in LockLevels
  BY DEF SafeInv, TypeInv, TypeOK
<1>4. \A u \in Users : /\ rowLock[u][q] >= Share => role'[u] = role[u]
                       /\ rowLock[u][q] >= KeyShare /\ role[u] # NoRole => role'[u] # NoRole
  BY CommitRespectsLocks
<1>5. AdvisoryHeld(q)' /\ EventThere(q)'
  BY <1>1 DEF ProcInv, AdvisoryHeld, EventThere
<1>6. WriterLocked(q)'
  BY <1>1, <1>2, <1>3, <1>4
  DEF ProcInv, WriterLocked, LockLevels, Unlocked, KeyShare, Share, NoKeyUpdate, Update
<1>7. PermissionLocked(q)' /\ CreatorLocked(q)'
  BY <1>1, <1>2, <1>4 DEF ProcInv, PermissionLocked, CreatorLocked
<1>8. AnotherOwner(q)'
  <2> SUFFICES ASSUME pc[q] \in {"write", "commit"},
                      req[q].op \in {"RevokeTenantRole", "ChangeTenantRole"},
                      NEW v \in Users \ {req[q].user}, role[v] = "owner"
               PROVE  role'[v] = "owner"
    BY <1>1 DEF ProcInv, AnotherOwner
  <2>1. advisory = q
    BY <1>1 DEF ProcInv, AdvisoryHeld, RelationOps
  <2>2. req[p].op \notin RelationOps
    BY <2>1 DEF SafeInv, ProcInv, AdvisoryHeld, Commit
  <2> QED BY <2>2, CommitRoles DEF RelationOps, NoRole
<1> QED BY <1>5, <1>6, <1>7, <1>8 DEF ProcInv

\* Event roles: the row that is written has a member and an event to refer to,
\* and a membership that goes takes its event roles along.
LEMMA CommitEventRoles ==
    ASSUME SafeInv, TypeInv', NEW p \in Procs, Commit(p)
    PROVE  EventRoleNeedsMembership'
<1> SUFFICES ASSUME NEW e \in Events, NEW u \in Users, eventRole'[e][u] # NoRole
             PROVE  role'[u] # NoRole /\ e \in events'
  BY DEF EventRoleNeedsMembership
<1>a. /\ TypeInv /\ ProcInv(p) /\ pc[p] = "commit" /\ req[p] \in Requests
      /\ role' = RolesAfter(req[p]) /\ eventRole' = EventRolesAfter(req[p], held[p])
      /\ events' = IF req[p].op = "CreateEvent" THEN events \cup {req[p].event} ELSE events
      /\ role \in [Users -> RoleOrNone] /\ eventRole \in [Events -> [Users -> RoleOrNone]]
  BY DEF SafeInv, Commit, TypeInv, TypeOK, StepOK
<1>b. req[p].op \in AllOps /\ req[p].user \in Users /\ req[p].caller \in Users
  BY <1>a, ConstantsAssumption DEF Requests
<1>c. eventRole[e][u] # NoRole => role[u] # NoRole /\ e \in events
  BY DEF SafeInv, EventRoleNeedsMembership
<1>1. CASE req[p].op \in {"GrantEventRole", "RevokeEventRole"}
  <2>1. eventRole' = [eventRole EXCEPT ![req[p].event][req[p].user] = req[p].role]
    BY <1>a, <1>1 DEF EventRolesAfter
  <2>2. req[p].event \in events /\ (req[p].op = "GrantEventRole" => role[req[p].user] # NoRole)
    BY <1>a, <1>1 DEF ProcInv, EventThere, WriterLocked
  <2>3. req[p].op = "RevokeEventRole" => req[p].role = NoRole
    BY <1>a DEF TypeInv, StepOK
  <2>4. role' = role /\ events' = events
    BY <1>a, <1>1 DEF RolesAfter, MembershipOps
  <2>5. CASE e = req[p].event /\ u = req[p].user
    <3>1. eventRole'[e][u] = req[p].role
      BY <1>a, <2>1, <2>5
    <3> QED BY <1>1, <2>2, <2>3, <2>4, <2>5, <3>1
  <2>6. CASE ~(e = req[p].event /\ u = req[p].user)
    <3>1. eventRole'[e][u] = eventRole[e][u]
      BY <1>a, <2>1, <2>6
    <3> QED BY <1>c, <2>4, <3>1
  <2> QED BY <2>5, <2>6
<1>2. CASE req[p].op = "RevokeTenantRole"
  <2>1. eventRole' = [f \in Events |-> [eventRole[f] EXCEPT ![req[p].user] = NoRole]]
    BY <1>a, <1>2 DEF EventRolesAfter
  <2>2. u # req[p].user /\ eventRole'[e][u] = eventRole[e][u]
    BY <1>a, <1>b, <2>1
  <2>3. role'[u] = role[u] /\ events' = events
    BY <1>a, <1>2, <2>2 DEF RolesAfter
  <2> QED BY <1>c, <2>2, <2>3
<1>3. CASE req[p].op = "CreateEvent"
  <2>1. eventRole' = [eventRole EXCEPT ![req[p].event][req[p].caller] = held[p]]
    BY <1>a, <1>3 DEF EventRolesAfter
  <2>2. role[req[p].caller] # NoRole
    BY <1>a, <1>3 DEF ProcInv, CreatorLocked
  <2>3. role' = role /\ events' = events \cup {req[p].event}
    BY <1>a, <1>3 DEF RolesAfter, MembershipOps
  <2>4. CASE e = req[p].event /\ u = req[p].caller
    BY <2>2, <2>3, <2>4
  <2>5. CASE ~(e = req[p].event /\ u = req[p].caller)
    <3>1. eventRole'[e][u] = eventRole[e][u]
      BY <1>a, <2>1, <2>5
    <3> QED BY <1>c, <2>3, <3>1
  <2> QED BY <2>4, <2>5
<1>4. CASE req[p].op \in {"AddTenantMember", "ChangeTenantRole", "ArchiveTenant",
                          "ChangeTenantContract"}
  <2>1. eventRole' = eventRole /\ events' = events
    BY <1>a, <1>4 DEF EventRolesAfter
  <2>2. req[p].op \in MembershipOps => req[p].role \in GrantableRoles
    BY <1>a, <1>4 DEF TypeInv, StepOK, MembershipOps
  <2>3. role'[u] # role[u] => role'[u] \in GrantableRoles
    BY <1>a, <1>b, <2>2 DEF RolesAfter
  <2> QED BY <1>c, <2>1, <2>3 DEF GrantableRoles, NoRole
<1> QED BY <1>b, <1>1, <1>2, <1>3, <1>4 DEF AllOps

LEMMA CommitKeeps ==
    ASSUME SafeInv, TypeInv', NEW p \in Procs, Commit(p)
    PROVE  SafeInv'
<1>1. Frame(p) /\ ProcInv(p)' /\ LocksCompatible' /\ \A u \in Users : rowLock'[u][p] = Unlocked
  BY EndFrame DEF Commit
<1>2. \A q \in Procs : ProcInv(q)'
  BY <1>1, CommitOthers
<1>3. LockedRowExists'
  <2> SUFFICES ASSUME NEW u \in Users, NEW q \in Procs,
                      rowLock'[u][q] \in {KeyShare, Share, NoKeyUpdate}
               PROVE  role'[u] # NoRole
    BY DEF LockedRowExists
  <2>1. q # p
    BY <1>1 DEF Unlocked, KeyShare, Share, NoKeyUpdate
  <2>2. rowLock[u][q] \in {KeyShare, Share, NoKeyUpdate}
    BY <1>1, <2>1 DEF Frame
  <2>3. role[u] # NoRole /\ rowLock[u][q] >= KeyShare
    BY <2>2 DEF SafeInv, LockedRowExists, KeyShare, Share, NoKeyUpdate
  <2> QED BY <2>1, <2>3, CommitRespectsLocks
<1>4. OwnerRemains'
  BY CommitRoles DEF OwnerRemains, Owners
<1>5. EventRoleNeedsMembership'
  BY CommitEventRoles
<1> QED BY <1>1, <1>2, <1>3, <1>4, <1>5 DEF SafeInv

----------------------------------------------------------------------------
(* The theorems *)

LEMMA InitSafe == Init => SafeInv
<1> SUFFICES ASSUME Init PROVE SafeInv
  OBVIOUS
<1>1. TypeInv
  BY InitType
<1>2. rowLock = [u \in Users |-> [p \in Procs |-> 0]] /\ pc = [p \in Procs |-> "idle"]
  BY DEF Init, Idle, NoLock, Unlocked
<1>3. LocksCompatible /\ LockedRowExists
  BY <1>2 DEF LocksCompatible, LockedRowExists, Conflicts, KeyShare, Share, NoKeyUpdate, Update
<1>4. \A p \in Procs : ProcInv(p)
  BY <1>2 DEF ProcInv, AdvisoryHeld, WriterLocked, PermissionLocked, CreatorLocked,
     AnotherOwner, EventThere
<1>5. OwnerRemains /\ EventRoleNeedsMembership
  BY DEF Init, OwnerRemains, Owners, EventRoleNeedsMembership
<1> QED BY <1>1, <1>3, <1>4, <1>5 DEF SafeInv

LEMMA NextSafe == SafeInv /\ [Next]_vars => SafeInv'
<1> SUFFICES ASSUME SafeInv, [Next]_vars PROVE SafeInv'
  OBVIOUS
<1>0. TypeInv'
  BY NextType DEF SafeInv
<1>1. CASE UNCHANGED vars
  <2>1. UNCHANGED <<role, eventRole, events, advisory, rowLock, pc, req, held>>
    BY <1>1 DEF vars, db, locks, local
  <2>2. LocksCompatible' /\ LockedRowExists' /\ OwnerRemains' /\ EventRoleNeedsMembership'
    BY <2>1 DEF SafeInv, LocksCompatible, LockedRowExists, OwnerRemains, Owners,
                EventRoleNeedsMembership
  <2>3. \A p \in Procs : ProcInv(p)'
    BY <2>1 DEF SafeInv, ProcInv, AdvisoryHeld, WriterLocked, PermissionLocked, CreatorLocked,
                AnotherOwner, EventThere
  <2> QED BY <1>0, <2>2, <2>3 DEF SafeInv
<1>2. ASSUME NEW p \in Procs, Statement(p) PROVE SafeInv'
  BY <1>0, <1>2, RelationStatementKeeps, TenantStatementKeeps, CommitKeeps DEF Statement
<1>3. ASSUME NEW p \in Procs, Rollback(p) PROVE SafeInv'
  BY <1>0, <1>3, EndKeeps DEF Rollback
<1> QED BY <1>1, <1>2, <1>3, ArrivalKeeps DEF Next

LEMMA Safe == Spec => []SafeInv
  BY InitSafe, NextSafe, PTL DEF Spec

\* However many revocations, demotions and other writes run at once, among any
\* users: keepAnotherOwner's count is still good when its transaction commits,
\* and an owned tenant keeps an owner.
THEOREM OwnerAlwaysRemains == Spec => []OwnerRemains
<1>1. SafeInv => OwnerRemains
  BY DEF SafeInv
<1> QED BY <1>1, Safe, PTL

\* Whoever passed Authorizer.Require still holds the permission when the write
\* commits, on the relation side and in administerTenant alike.
THEOREM PermissionAlwaysHeld == Spec => []PermissionHeldToCommit
<1>1. SafeInv => PermissionHeldToCommit
  BY DEF SafeInv, ProcInv, PermissionLocked, PermissionHeldToCommit
<1> QED BY <1>1, Safe, PTL

\* CreateEvent commits the event role that its creator holds in the tenant.
THEOREM CreatorRoleAlwaysCurrent == Spec => []CreatorRoleCurrent
<1>1. SafeInv => CreatorRoleCurrent
  BY DEF SafeInv, ProcInv, CreatorLocked, CreatorRoleCurrent
<1> QED BY <1>1, Safe, PTL

\* No interleaving of grants, event creations and revocations leaves an event
\* role without a membership, or on an event that does not exist.
THEOREM EventRolesAlwaysRooted == Spec => []EventRoleNeedsMembership
<1>1. SafeInv => EventRoleNeedsMembership
  BY DEF SafeInv
<1> QED BY <1>1, Safe, PTL
=============================================================================

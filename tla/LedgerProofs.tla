---------------------------- MODULE LedgerProofs -----------------------------
(* That every request takes effect atomically or not at all (MembershipWrites
   implements MembershipLedger), that no update of the tenant row is lost, and
   that the locks of the handlers are taken in an order that excludes deadlock. *)
EXTENDS OwnerProofs

----------------------------------------------------------------------------
(* The inductive invariant, on top of SafeInv *)

\* Two transactions never hold conflicting locks on the tenant row.
TenantLocksCompatible ==
    \A p, q \in Procs : p # q => ~Conflicts(tenantLock[p], tenantLock[q])

\* administerTenant holds the tenant row from the moment it read it, and the row
\* is what it read: its copy differs from it by the one column it changed.
CopyCurrent(p) ==
    req[p].op \in AdministerOps =>
       /\ pc[p] \in {"require", "mutate", "commit"} => tenantLock[p] = Update /\ ~tenant.archived
       /\ pc[p] \in {"require", "mutate"} => copy[p] = tenant
       /\ pc[p] = "commit" /\ req[p].op = "ArchiveTenant"
             => copy[p] = [archived |-> TRUE, plan |-> tenant.plan]
       /\ pc[p] = "commit" /\ req[p].op = "ChangeTenantContract"
             => \E plan \in Plans : copy[p] = [archived |-> FALSE, plan |-> plan]

\* The event that is being created is not there yet.
EventFresh(p) == req[p].op = "CreateEvent" => req[p].event \notin events

\* The event role whose DELETE found a row is still there.
EventRoleThere(p) ==
    pc[p] = "commit" /\ req[p].op = "RevokeEventRole" => eventRole[req[p].event][req[p].user] # NoRole

\* At which statements a transaction holds locks, and where strong row locks.
HoldsAt(p) ==
    /\ \A u \in Users :
          /\ rowLock[u][p] # Unlocked => pc[p] \in {"keep", "count", "write", "mutate", "insertEvent",
                                                    "fk", "grantCreator", "commit"}
          /\ rowLock[u][p] >= NoKeyUpdate => \/ pc[p] = "commit"
                                             \/ /\ pc[p] = "fk" /\ req[p].op = "AddTenantMember"
                                                /\ role[u] = NoRole
    /\ tenantLock[p] # Unlocked => /\ pc[p] \in {"require", "mutate", "grantCreator", "commit"}
                                   /\ pc[p] = "require" => req[p].op \in AdministerOps
    /\ advisory = p => /\ pc[p] \in {"require", "keep", "count", "write", "commit"}
                       /\ req[p].op \in RelationOps

\* No two requests create one event.
EventPair(p, q) ==
    p # q /\ req[p].op = "CreateEvent" /\ req[q].op = "CreateEvent" => req[p].event # req[q].event

EffectInv(p) == CopyCurrent(p) /\ EventFresh(p) /\ EventRoleThere(p) /\ HoldsAt(p)

LedgerInv ==
    /\ SafeInv
    /\ TenantLocksCompatible
    /\ \A p \in Procs : EffectInv(p)
    /\ \A p, q \in Procs : EventPair(p, q)

----------------------------------------------------------------------------
(* Steps and what they leave alone *)

\* What a step of p leaves alone.
StepFrame(p) ==
    \A q \in Procs \ {p} :
       /\ pc'[q] = pc[q] /\ req'[q] = req[q] /\ copy'[q] = copy[q]
       /\ tenantLock'[q] = tenantLock[q]
       /\ advisory' = q => advisory = q
       /\ \A u \in Users : rowLock'[u][q] = rowLock[u][q]

LEMMA EndStepFrame ==
    ASSUME LedgerInv, NEW p \in Procs, End(p)
    PROVE  /\ StepFrame(p) /\ pc'[p] = "idle" /\ req'[p] = NoReq
           /\ tenantLock'[p] = Unlocked /\ advisory' # p
           /\ \A u \in Users : rowLock'[u][p] = Unlocked
<1>1. TypeOK
  BY DEF LedgerInv, SafeInv, TypeInv
<1>2. /\ \A u \in Users : /\ rowLock'[u][p] = Unlocked
                          /\ \A q \in Procs \ {p} : rowLock'[u][q] = rowLock[u][q]
      /\ tenantLock'[p] = Unlocked
      /\ \A q \in Procs \ {p} : tenantLock'[q] = tenantLock[q]
  <2>1. ASSUME NEW u \in Users
        PROVE  rowLock'[u][p] = Unlocked /\ \A q \in Procs \ {p} : rowLock'[u][q] = rowLock[u][q]
    BY <1>1, <2>1, ReleasedType DEF End, TypeOK, Unlocked
  <2>2. tenantLock'[p] = Unlocked /\ \A q \in Procs \ {p} : tenantLock'[q] = tenantLock[q]
    BY <1>1, ReleasedType DEF End, TypeOK, Unlocked
  <2> QED BY <2>1, <2>2
<1>3. pc'[p] = "idle" /\ req'[p] = NoReq /\ advisory' # p
  BY <1>1, ConstantsAssumption DEF End, TypeOK
<1>4. StepFrame(p)
  BY <1>1, <1>2, ConstantsAssumption DEF End, TypeOK, StepFrame
<1> QED BY <1>2, <1>3, <1>4

LEMMA EndCompatible ==
    ASSUME LedgerInv, NEW p \in Procs, StepFrame(p), tenantLock'[p] = Unlocked
    PROVE  TenantLocksCompatible'
<1>1. \A q \in Procs : tenantLock[q] \in LockLevels
  BY DEF LedgerInv, SafeInv, TypeInv, TypeOK
<1> QED BY <1>1 DEF LedgerInv, TenantLocksCompatible, StepFrame, Conflicts, LockLevels, Unlocked, Update

LEMMA EndEffect ==
    ASSUME NEW p \in Procs, pc'[p] = "idle", req'[p] = NoReq, tenantLock'[p] = Unlocked,
           advisory' # p, \A u \in Users : rowLock'[u][p] = Unlocked
    PROVE  EffectInv(p)' /\ \A q \in Procs : EventPair(p, q)' /\ EventPair(q, p)'
<1>1. req'[p].op = "none"
  BY DEF NoReq
<1>2. HoldsAt(p)'
  BY DEF HoldsAt, Unlocked, NoKeyUpdate
<1>3. CopyCurrent(p)' /\ EventFresh(p)' /\ EventRoleThere(p)'
  BY <1>1 DEF CopyCurrent, EventFresh, EventRoleThere, AdministerOps
<1>4. \A q \in Procs : EventPair(p, q)' /\ EventPair(q, p)'
  BY <1>1 DEF EventPair
<1> QED BY <1>2, <1>3, <1>4 DEF EffectInv

\* A step of p that leaves the database alone keeps what the others rely on.
LEMMA QuietEffect ==
    ASSUME LedgerInv, SafeInv', UNCHANGED db, NEW p \in Procs, StepFrame(p),
           TenantLocksCompatible', EffectInv(p)',
           \A q \in Procs : EventPair(p, q)' /\ EventPair(q, p)'
    PROVE  LedgerInv'
<1>1. ASSUME NEW q \in Procs \ {p} PROVE EffectInv(q)'
  <2>1. /\ pc'[q] = pc[q] /\ req'[q] = req[q] /\ copy'[q] = copy[q]
        /\ tenantLock'[q] = tenantLock[q] /\ (advisory' = q => advisory = q)
        /\ \A u \in Users : rowLock'[u][q] = rowLock[u][q]
        /\ role' = role /\ eventRole' = eventRole /\ events' = events /\ tenant' = tenant
    BY DEF StepFrame, db
  <2>2. EffectInv(q)
    BY DEF LedgerInv
  <2>3. CopyCurrent(q)'
    BY <2>1, <2>2 DEF EffectInv, CopyCurrent
  <2>4. EventFresh(q)' /\ EventRoleThere(q)'
    BY <2>1, <2>2 DEF EffectInv, EventFresh, EventRoleThere
  <2>5. HoldsAt(q)'
    BY <2>1, <2>2 DEF EffectInv, HoldsAt
  <2> QED BY <2>3, <2>4, <2>5 DEF EffectInv
<1>2. ASSUME NEW q \in Procs, NEW s \in Procs PROVE EventPair(q, s)'
  BY <1>2 DEF LedgerInv, EventPair, StepFrame
<1> QED BY <1>1, <1>2 DEF LedgerInv

LEMMA EndKeepsLedger ==
    ASSUME LedgerInv, SafeInv', UNCHANGED db, NEW p \in Procs, End(p)
    PROVE  LedgerInv'
  BY EndStepFrame, EndCompatible, EndEffect, QuietEffect

\* The arrival of a request: it holds nothing yet.
LEMMA ArriveKeepsLedger ==
    ASSUME LedgerInv, SafeInv', NEW p \in Procs, NEW op \in AllOps, NEW c, NEW u, NEW r, NEW e,
           op = "CreateEvent" => /\ e \notin events
                                 /\ \A q \in Procs : pc[q] # "idle" => req[q].event # e,
           Arrive(p, op, c, u, r, e)
    PROVE  LedgerInv'
<1> DEFINE new == [op |-> op, caller |-> c, user |-> u, role |-> r, event |-> e]
<1>1. /\ req' = [req EXCEPT ![p] = new] /\ pc' = [pc EXCEPT ![p] = FirstStep(op)]
      /\ pc[p] = "idle" /\ UNCHANGED <<db, advisory, rowLock, tenantLock, held, copy>>
  BY DEF Arrive, Goto, locks
<1>2. FirstStep(op) \in {"insert", "lock", "creator", "tenant"}
  BY DEF FirstStep, AllOps, RelationOps, AdministerOps
<1>3. /\ StepFrame(p) /\ pc'[p] = FirstStep(op) /\ req'[p] = new
      /\ req'[p].op = op /\ req'[p].event = e
  BY <1>1 DEF StepFrame, LedgerInv, SafeInv, TypeInv, TypeOK
<1>4. TenantLocksCompatible'
  BY <1>1 DEF LedgerInv, TenantLocksCompatible
<1>5. HoldsAt(p)'
  <2>1. /\ \A v \in Users : rowLock[v][p] = Unlocked
        /\ tenantLock[p] = Unlocked /\ advisory # p
    BY <1>1 DEF LedgerInv, EffectInv, HoldsAt
  <2> QED BY <1>1, <2>1 DEF HoldsAt, Unlocked, NoKeyUpdate
<1>6. CopyCurrent(p)' /\ EventFresh(p)' /\ EventRoleThere(p)'
  BY <1>1, <1>2, <1>3 DEF CopyCurrent, EventFresh, EventRoleThere, db
<1>7. ASSUME NEW q \in Procs PROVE EventPair(p, q)' /\ EventPair(q, p)'
  <2>1. pc[q] = "idle" => req[q].op # "CreateEvent"
    BY DEF LedgerInv, SafeInv, TypeInv, StepOK, NoReq
  <2> QED BY <1>3, <2>1 DEF EventPair, StepFrame
<1> QED BY <1>1, <1>3, <1>4, <1>5, <1>6, <1>7, QuietEffect DEF EffectInv

LEMMA ArrivalKeepsLedger ==
    ASSUME LedgerInv, SafeInv', NEW p \in Procs, Arrival(p)
    PROVE  LedgerInv'
<1>1. CASE AddTenantMember(p)
  BY <1>1, ArriveKeepsLedger DEF AddTenantMember, AllOps
<1>2. CASE ChangeTenantRole(p)
  BY <1>2, ArriveKeepsLedger DEF ChangeTenantRole, AllOps
<1>3. CASE RevokeTenantRole(p)
  BY <1>3, ArriveKeepsLedger DEF RevokeTenantRole, AllOps
<1>4. CASE GrantEventRole(p)
  BY <1>4, ArriveKeepsLedger DEF GrantEventRole, AllOps
<1>5. CASE RevokeEventRole(p)
  BY <1>5, ArriveKeepsLedger DEF RevokeEventRole, AllOps
<1>6. CASE CreateEvent(p)
  BY <1>6, ArriveKeepsLedger DEF CreateEvent, AllOps
<1>7. CASE AdministerTenant(p)
  BY <1>7, ArriveKeepsLedger DEF AdministerTenant, AdministerOps, AllOps
<1> QED BY <1>1, <1>2, <1>3, <1>4, <1>5, <1>6, <1>7 DEF Arrival

\* A statement that moves on without touching the tenant row.
LEMMA MoveLedger ==
    ASSUME LedgerInv, SafeInv', UNCHANGED <<db, req, copy, tenantLock>>, NEW p \in Procs,
           NEW step, Goto(p, step),
           \A u \in Users, q \in Procs \ {p} : rowLock'[u][q] = rowLock[u][q],
           \A q \in Procs \ {p} : advisory' = q => advisory = q,
           req[p].op \in AdministerOps => pc[p] = "require" /\ step = "mutate",
           step = "commit" /\ req[p].op = "RevokeEventRole"
              => eventRole[req[p].event][req[p].user] # NoRole,
           HoldsAt(p)'
    PROVE  LedgerInv'
<1>1. StepFrame(p) /\ pc'[p] = step
  BY DEF StepFrame, Goto, LedgerInv, SafeInv, TypeInv, TypeOK
<1>2. TenantLocksCompatible' /\ \A q \in Procs : EventPair(p, q)' /\ EventPair(q, p)'
  BY DEF LedgerInv, TenantLocksCompatible, EventPair
<1>3. EffectInv(p)
  BY DEF LedgerInv
<1>4. CopyCurrent(p)'
  BY <1>1, <1>3 DEF EffectInv, CopyCurrent, db
<1>5. EventFresh(p)' /\ EventRoleThere(p)'
  BY <1>1, <1>3 DEF EffectInv, EventFresh, EventRoleThere, db
<1> QED BY <1>1, <1>2, <1>4, <1>5, QuietEffect DEF EffectInv

\* Where the locks of p are once it was granted a row lock, or none.
LEMMA LockHolds ==
    ASSUME LedgerInv, UNCHANGED <<db, req, tenantLock>>, advisory' = advisory,
           NEW p \in Procs, NEW u \in Users, NEW m \in LockLevels,
           LockRow(p, u, m) \/ rowLock' = rowLock, NEW step, Goto(p, step), pc[p] \notin {"fk", "commit"},
           step \in {"keep", "count", "write", "mutate", "insertEvent", "fk", "grantCreator", "commit"},
           \/ m < NoKeyUpdate \/ step = "commit"
           \/ step = "fk" /\ req[p].op = "AddTenantMember" /\ role[u] = NoRole,
           tenantLock[p] # Unlocked => step \in {"mutate", "grantCreator", "commit"},
           advisory = p => step \in {"keep", "count", "write", "commit"}
    PROVE  HoldsAt(p)' /\ \A v \in Users, q \in Procs \ {p} : rowLock'[v][q] = rowLock[v][q]
<1>1. rowLock \in [Users -> [Procs -> LockLevels]] /\ pc'[p] = step
  BY DEF LedgerInv, SafeInv, TypeInv, TypeOK, Goto
<1>2. ASSUME NEW v \in Users
      PROVE  /\ rowLock'[v][p] \in {m, rowLock[v][p]}
             /\ v # u => rowLock'[v][p] = rowLock[v][p]
             /\ \A q \in Procs \ {p} : rowLock'[v][q] = rowLock[v][q]
  <2>1. CASE LockRow(p, u, m)
    <3> DEFINE new == Granted(rowLock[u], p, m)
    <3>1. new[p] \in {m, rowLock[u][p]} /\ \A q \in Procs \ {p} : new[q] = rowLock[u][q]
      BY <1>1, GrantedType
    <3>2. rowLock' = [rowLock EXCEPT ![u] = new]
      BY <2>1 DEF LockRow
    <3> HIDE DEF new
    <3> QED BY <1>1, <1>2, <3>1, <3>2
  <2>2. CASE rowLock' = rowLock
    BY <2>2
  <2> QED BY <2>1, <2>2
<1>3. HoldsAt(p)
  BY DEF LedgerInv, EffectInv
<1>4. ASSUME NEW v \in Users, rowLock'[v][p] >= NoKeyUpdate
      PROVE  step = "commit" \/ (step = "fk" /\ req[p].op = "AddTenantMember" /\ role'[v] = NoRole)
  <2>1. CASE rowLock'[v][p] = rowLock[v][p]
    BY <1>3, <1>4, <2>1 DEF HoldsAt, db
  <2>2. CASE v = u /\ rowLock'[v][p] = m
    BY <1>4, <2>2 DEF db, NoKeyUpdate, LockLevels, Unlocked, Update
  <2> QED BY <1>2, <2>1, <2>2
<1>5. HoldsAt(p)'
  BY <1>1, <1>3, <1>4 DEF HoldsAt
<1> QED BY <1>2, <1>5

\* The statements that leave the tenant row alone.
LEMMA RowStatementKeepsLedger ==
    ASSUME LedgerInv, SafeInv', NEW p \in Procs,
           \/ LockTenantMemberships(p) \/ Require(p) \/ KeepAnotherOwner(p)
           \/ CountTenantOwners(p) \/ WriteMembership(p) \/ DeleteEventRole(p)
           \/ InsertMembership(p) \/ ReadCreatorRole(p) \/ InsertEvent(p) \/ GrantCreatorRole(p)
    PROVE  LedgerInv'
<1>a. StepOK /\ HoldsAt(p) /\ EffectInv(p)
  BY DEF LedgerInv, SafeInv, TypeInv, EffectInv
<1>b. pc[p] # "idle" => /\ req[p].caller \in Users /\ req[p].user \in Users
                        /\ req[p].op \in Ops
  BY <1>a DEF StepOK, Requests
<1>c. KeyShare \in LockLevels /\ Share \in LockLevels /\ NoKeyUpdate \in LockLevels /\ Update \in LockLevels
      /\ KeyShare < NoKeyUpdate /\ Share < NoKeyUpdate
  BY DEF KeyShare, Share, NoKeyUpdate, LockLevels, Unlocked, Update
<1>d. ASSUME End(p), UNCHANGED db PROVE LedgerInv'
  BY <1>d, EndKeepsLedger
<1>1. CASE LockTenantMemberships(p)
  <2>1. HoldsAt(p)'
    <3>1. pc'[p] = "require" /\ pc[p] = "lock" /\ rowLock' = rowLock /\ tenantLock' = tenantLock
          /\ req' = req /\ role' = role
      BY <1>1 DEF LockTenantMemberships, Goto, LedgerInv, SafeInv, TypeInv, TypeOK, local, db
    <3>2. /\ \A u \in Users : rowLock[u][p] = Unlocked
          /\ tenantLock[p] = Unlocked /\ req[p].op \in RelationOps
      BY <1>a, <3>1 DEF HoldsAt, StepOK
    <3> QED BY <3>1, <3>2 DEF HoldsAt, Unlocked, NoKeyUpdate
  <2>2. req[p].op \notin AdministerOps
    BY <1>1, <1>a DEF LockTenantMemberships, StepOK, RelationOps, AdministerOps
  <2> QED BY <1>1, <2>1, <2>2, MoveLedger DEF LockTenantMemberships, local
<1>2. CASE Require(p)
  <2>1. CASE ~End(p)
    <3> DEFINE step == AfterRequire(req[p])
    <3>1. /\ pc[p] = "require" /\ Goto(p, step) /\ LockRow(p, req[p].caller, Share)
          /\ UNCHANGED <<db, advisory, tenantLock, req, copy>>
      BY <1>2, <2>1 DEF Require, local
    <3>2. /\ req[p].op \in AdministerOps => step = "mutate" /\ req[p].op \notin RelationOps
          /\ req[p].op \notin AdministerOps => step \in {"keep", "write"}
      BY <1>a, <3>1 DEF AfterRequire, StepOK, RelationOps, AdministerOps
    <3> HIDE DEF step
    <3>3. /\ tenantLock[p] # Unlocked => step = "mutate"
          /\ advisory = p => step \in {"keep", "write"}
      BY <1>a, <3>1, <3>2 DEF HoldsAt, RelationOps, AdministerOps
    <3>4. HoldsAt(p)' /\ \A v \in Users, q \in Procs \ {p} : rowLock'[v][q] = rowLock[v][q]
      BY <1>b, <1>c, <3>1, <3>2, <3>3, LockHolds
    <3> QED BY <3>1, <3>2, <3>4, MoveLedger
  <2> QED BY <1>2, <2>1, <1>d DEF Require
<1>3. CASE KeepAnotherOwner(p)
  <2> DEFINE step == IF role[req[p].user] = "owner" THEN "count" ELSE "write"
  <2>1. /\ pc[p] = "keep" /\ Goto(p, step) /\ step \in {"count", "write"}
        /\ LockRow(p, req[p].user, Share) \/ rowLock' = rowLock
        /\ UNCHANGED <<db, advisory, tenantLock, req, copy>>
    BY <1>3 DEF KeepAnotherOwner, local
  <2> HIDE DEF step
  <2>2. req[p].op \notin AdministerOps /\ tenantLock[p] = Unlocked
    BY <1>a, <2>1 DEF HoldsAt, StepOK, AdministerOps
  <2>3. HoldsAt(p)' /\ \A v \in Users, q \in Procs \ {p} : rowLock'[v][q] = rowLock[v][q]
    BY <1>b, <1>c, <2>1, <2>2, LockHolds
  <2> QED BY <2>1, <2>2, <2>3, MoveLedger
<1>4. CASE CountTenantOwners(p)
  <2>1. CASE ~End(p)
    <3>1. /\ pc[p] = "count" /\ Goto(p, "write")
          /\ UNCHANGED <<db, advisory, rowLock, tenantLock, req, copy>>
      BY <1>4, <2>1 DEF CountTenantOwners, local, locks
    <3>2. req[p].op \notin AdministerOps /\ tenantLock[p] = Unlocked
      BY <1>a, <3>1 DEF HoldsAt, StepOK, AdministerOps
    <3>3. HoldsAt(p)'
      BY <1>b, <1>c, <3>1, <3>2, LockHolds
    <3> QED BY <3>1, <3>2, <3>3, MoveLedger
  <2> QED BY <1>4, <2>1, <1>d DEF CountTenantOwners
<1>5. CASE WriteMembership(p)
  <2>1. CASE ~End(p)
    <3> DEFINE level == WriteLevel(req[p].op)
    <3>1. /\ pc[p] = "write" /\ req[p].op # "RevokeEventRole" /\ Goto(p, "commit")
          /\ LockRow(p, req[p].user, level) /\ UNCHANGED <<db, advisory, tenantLock, req, copy>>
      BY <1>5, <2>1 DEF WriteMembership, local
    <3>2. req[p].op \notin AdministerOps /\ tenantLock[p] = Unlocked /\ level \in LockLevels
      BY <1>a, <1>c, <3>1 DEF HoldsAt, StepOK, AdministerOps, RelationOps, WriteLevel
    <3> HIDE DEF level
    <3>3. HoldsAt(p)' /\ \A v \in Users, q \in Procs \ {p} : rowLock'[v][q] = rowLock[v][q]
      BY <1>b, <3>1, <3>2, LockHolds
    <3> QED BY <3>1, <3>2, <3>3, MoveLedger
  <2> QED BY <1>5, <2>1, <1>d DEF WriteMembership
<1>6. CASE DeleteEventRole(p)
  <2>1. CASE ~End(p)
    <3>1. /\ pc[p] = "write" /\ req[p].op = "RevokeEventRole" /\ Goto(p, "commit")
          /\ eventRole[req[p].event][req[p].user] # NoRole
          /\ UNCHANGED <<db, advisory, rowLock, tenantLock, req, copy>>
      BY <1>6, <2>1 DEF DeleteEventRole, local, locks
    <3>2. req[p].op \notin AdministerOps /\ tenantLock[p] = Unlocked
      BY <1>a, <3>1 DEF HoldsAt, AdministerOps
    <3>3. HoldsAt(p)'
      BY <1>b, <1>c, <3>1, <3>2, LockHolds
    <3> QED BY <3>1, <3>2, <3>3, MoveLedger
  <2> QED BY <1>6, <2>1, <1>d DEF DeleteEventRole
<1>7. CASE InsertMembership(p)
  <2>1. CASE ~End(p)
    <3>1. /\ pc[p] = "insert" /\ role[req[p].user] = NoRole /\ Goto(p, "fk")
          /\ LockRow(p, req[p].user, Update) /\ UNCHANGED <<db, advisory, tenantLock, req, copy>>
      BY <1>7, <2>1 DEF InsertMembership, local
    <3>2. req[p].op = "AddTenantMember" /\ req[p].op \notin AdministerOps
          /\ tenantLock[p] = Unlocked /\ advisory # p
      BY <1>a, <3>1 DEF HoldsAt, StepOK, AdministerOps
    <3>3. HoldsAt(p)' /\ \A v \in Users, q \in Procs \ {p} : rowLock'[v][q] = rowLock[v][q]
      BY <1>b, <1>c, <3>1, <3>2, LockHolds
    <3> QED BY <3>1, <3>2, <3>3, MoveLedger
  <2> QED BY <1>7, <2>1, <1>d DEF InsertMembership
<1>8. CASE ReadCreatorRole(p)
  <2>1. CASE ~End(p)
    <3>1. /\ pc[p] = "creator" /\ Goto(p, "insertEvent")
          /\ LockRow(p, req[p].caller, Share) /\ UNCHANGED <<db, advisory, tenantLock, req, copy>>
      BY <1>8, <2>1 DEF ReadCreatorRole
    <3>2. req[p].op \notin AdministerOps /\ tenantLock[p] = Unlocked /\ advisory # p
          /\ req[p].op # "RevokeEventRole"
      BY <1>a, <3>1 DEF HoldsAt, StepOK, AdministerOps
    <3>3. HoldsAt(p)' /\ \A v \in Users, q \in Procs \ {p} : rowLock'[v][q] = rowLock[v][q]
      BY <1>b, <1>c, <3>1, <3>2, LockHolds
    <3> QED BY <3>1, <3>2, <3>3, MoveLedger
  <2> QED BY <1>8, <2>1, <1>d DEF ReadCreatorRole
<1>9. CASE InsertEvent(p)
  <2>1. CASE ~End(p)
    <3>1. /\ pc[p] = "insertEvent" /\ Goto(p, "fk")
          /\ UNCHANGED <<db, advisory, rowLock, tenantLock, req, copy>>
      BY <1>9, <2>1 DEF InsertEvent, local, locks
    <3>2. req[p].op \notin AdministerOps /\ tenantLock[p] = Unlocked /\ advisory # p
      BY <1>a, <3>1 DEF HoldsAt, StepOK, AdministerOps
    <3>3. HoldsAt(p)'
      BY <1>b, <1>c, <3>1, <3>2, LockHolds
    <3> QED BY <3>1, <3>2, <3>3, MoveLedger
  <2> QED BY <1>9, <2>1, <1>d DEF InsertEvent
<1>10. CASE GrantCreatorRole(p)
  <2>1. CASE ~End(p)
    <3>1. /\ pc[p] = "grantCreator" /\ Goto(p, "commit")
          /\ LockRow(p, req[p].caller, KeyShare) /\ UNCHANGED <<db, advisory, tenantLock, req, copy>>
      BY <1>10, <2>1 DEF GrantCreatorRole, local
    <3>2. req[p].op \notin AdministerOps /\ advisory # p /\ req[p].op # "RevokeEventRole"
      BY <1>a, <3>1 DEF HoldsAt, StepOK, AdministerOps
    <3>3. HoldsAt(p)' /\ \A v \in Users, q \in Procs \ {p} : rowLock'[v][q] = rowLock[v][q]
      BY <1>b, <1>c, <3>1, <3>2, LockHolds
    <3> QED BY <3>1, <3>2, <3>3, MoveLedger
  <2> QED BY <1>10, <2>1, <1>d DEF GrantCreatorRole
<1> QED BY <1>1, <1>2, <1>3, <1>4, <1>5, <1>6, <1>7, <1>8, <1>9, <1>10

\* A lock granted on the tenant row conflicts with no other.
LEMMA TenantLockGranted ==
    ASSUME LedgerInv, NEW p \in Procs, NEW m \in {KeyShare, Update},
           Blockers(tenantLock, p, m) = {}, tenantLock' = Granted(tenantLock, p, m)
    PROVE  /\ TenantLocksCompatible' /\ tenantLock'[p] >= m /\ tenantLock'[p] \in LockLevels
           /\ \A q \in Procs \ {p} : tenantLock'[q] = tenantLock[q]
<1>1. tenantLock \in [Procs -> LockLevels] /\ m \in LockLevels
  BY DEF LedgerInv, SafeInv, TypeInv, TypeOK, KeyShare, Update, LockLevels, Unlocked
<1>2. /\ tenantLock' \in [Procs -> LockLevels] /\ tenantLock'[p] >= m
      /\ tenantLock'[p] \in {m, tenantLock[p]}
      /\ \A q \in Procs \ {p} : tenantLock'[q] = tenantLock[q]
  BY <1>1, GrantedType
<1>3. \A q \in Procs \ {p} : ~Conflicts(m, tenantLock[q])
  BY <1>1 DEF Blockers
<1>4. TenantLocksCompatible'
  BY <1>1, <1>2, <1>3 DEF LedgerInv, TenantLocksCompatible, Conflicts, LockLevels, Unlocked, Update
<1> QED BY <1>2, <1>4

\* The statements that lock the tenant row or change the copy of it.
LEMMA TenantStatementKeepsLedger ==
    ASSUME LedgerInv, SafeInv', NEW p \in Procs,
           CheckTenantKey(p) \/ FindTenantForUpdate(p) \/ MutateTenant(p)
    PROVE  LedgerInv'
<1>a. /\ StepOK /\ EffectInv(p) /\ pc \in [Procs -> Steps] /\ copy \in [Procs -> TenantRows]
      /\ tenant \in TenantRows
  BY DEF LedgerInv, SafeInv, TypeInv, TypeOK
<1>b. ASSUME req' = req PROVE \A q \in Procs : EventPair(p, q)' /\ EventPair(q, p)'
  BY <1>b DEF LedgerInv, EventPair
<1>1. CASE CheckTenantKey(p)
  <2> DEFINE step == IF req[p].op = "CreateEvent" THEN "grantCreator" ELSE "commit"
  <2>1. /\ pc[p] = "fk" /\ pc'[p] = step /\ step \in {"grantCreator", "commit"}
        /\ req[p].op \in {"AddTenantMember", "CreateEvent"}
        /\ UNCHANGED <<db, advisory, rowLock, req, copy>>
        /\ \A q \in Procs \ {p} : pc'[q] = pc[q]
    BY <1>1, <1>a DEF CheckTenantKey, Goto, local, StepOK
  <2>0. step # "commit" => req[p].op = "CreateEvent"
    OBVIOUS
  <2> HIDE DEF step
  <2>2. TenantLocksCompatible' /\ \A q \in Procs \ {p} : tenantLock'[q] = tenantLock[q]
    BY <1>1, TenantLockGranted DEF CheckTenantKey
  <2>3. StepFrame(p)
    BY <2>1, <2>2 DEF StepFrame
  <2>4. HoldsAt(p)'
    BY <1>a, <2>0, <2>1 DEF EffectInv, HoldsAt, db
  <2>5. CopyCurrent(p)' /\ EventFresh(p)' /\ EventRoleThere(p)'
    BY <1>a, <2>1 DEF EffectInv, CopyCurrent, EventFresh, EventRoleThere, AdministerOps, db
  <2> QED BY <1>b, <2>1, <2>2, <2>3, <2>4, <2>5, QuietEffect DEF EffectInv
<1>2. CASE FindTenantForUpdate(p)
  <2>1. CASE ~End(p)
    <3>1. /\ pc[p] = "tenant" /\ pc'[p] = "require" /\ req[p].op \in AdministerOps
          /\ ~tenant.archived /\ copy'[p] = tenant
          /\ UNCHANGED <<db, advisory, rowLock, req>>
          /\ \A q \in Procs \ {p} : pc'[q] = pc[q] /\ copy'[q] = copy[q]
      BY <1>2, <1>a, <2>1 DEF FindTenantForUpdate, Goto, StepOK
    <3>2. /\ TenantLocksCompatible' /\ tenantLock'[p] = Update
          /\ \A q \in Procs \ {p} : tenantLock'[q] = tenantLock[q]
      <4>1. /\ TenantLocksCompatible' /\ tenantLock'[p] >= Update /\ tenantLock'[p] \in LockLevels
            /\ \A q \in Procs \ {p} : tenantLock'[q] = tenantLock[q]
        BY <1>2, <2>1, TenantLockGranted DEF FindTenantForUpdate
      <4> QED BY <4>1 DEF LockLevels, Unlocked, Update
    <3>3. StepFrame(p)
      BY <3>1, <3>2 DEF StepFrame
    <3>4. HoldsAt(p)'
      <4>1. advisory # p /\ \A u \in Users : rowLock[u][p] = Unlocked
        BY <1>a, <3>1 DEF EffectInv, HoldsAt
      <4> QED BY <3>1, <4>1 DEF HoldsAt, Unlocked, NoKeyUpdate
    <3>5. CopyCurrent(p)'
      BY <3>1, <3>2 DEF CopyCurrent, db
    <3>6. EventFresh(p)' /\ EventRoleThere(p)'
      BY <1>a, <3>1 DEF EffectInv, EventFresh, EventRoleThere, AdministerOps, db
    <3> QED BY <1>b, <3>1, <3>2, <3>3, <3>4, <3>5, <3>6, QuietEffect DEF EffectInv
  <2> QED BY <1>2, <2>1, EndKeepsLedger DEF FindTenantForUpdate
<1>3. CASE MutateTenant(p)
  <2>1. /\ pc[p] = "mutate" /\ pc'[p] = "commit" /\ req[p].op \in AdministerOps
        /\ UNCHANGED <<db, advisory, rowLock, tenantLock, req>>
        /\ \A q \in Procs \ {p} : pc'[q] = pc[q]
    BY <1>3, <1>a DEF MutateTenant, Goto, StepOK, locks
  <2>2. tenantLock[p] = Update /\ ~tenant.archived /\ copy[p] = tenant
    BY <1>a, <2>1 DEF EffectInv, CopyCurrent
  <2>4. /\ req[p].op = "ArchiveTenant" => copy'[p] = [archived |-> TRUE, plan |-> tenant.plan]
        /\ req[p].op = "ChangeTenantContract"
              => \E plan \in Plans : copy'[p] = [archived |-> FALSE, plan |-> plan]
        /\ \A q \in Procs \ {p} : copy'[q] = copy[q]
    <3>1. CASE req[p].op = "ArchiveTenant"
      BY <1>3, <1>a, <2>2, <3>1 DEF MutateTenant
    <3>2. CASE req[p].op = "ChangeTenantContract"
      <4>1. PICK plan \in Plans :
               copy' = [copy EXCEPT ![p] = [archived |-> copy[p].archived, plan |-> plan]]
        BY <1>3, <3>2 DEF MutateTenant
      <4>2. copy'[p] = [archived |-> copy[p].archived, plan |-> plan]
            /\ \A q \in Procs \ {p} : copy'[q] = copy[q]
        BY <1>a, <4>1
      <4>3. copy[p].archived = FALSE
        <5>1. tenant.archived \in BOOLEAN
          BY <1>a DEF TenantRows
        <5> QED BY <2>2, <5>1, Zenon
      <4> QED BY <3>2, <4>2, <4>3
    <3> QED BY <2>1, <3>1, <3>2 DEF AdministerOps
  <2>5. StepFrame(p)
    BY <2>1, <2>4 DEF StepFrame
  <2>6. CopyCurrent(p)'
    BY <2>1, <2>2, <2>4 DEF CopyCurrent, db
  <2>7. EventFresh(p)' /\ EventRoleThere(p)' /\ TenantLocksCompatible'
    BY <1>a, <2>1 DEF EffectInv, EventFresh, EventRoleThere, AdministerOps, db,
                      LedgerInv, TenantLocksCompatible
  <2>8. HoldsAt(p)'
    BY <1>a, <2>1 DEF EffectInv, HoldsAt, AdministerOps, RelationOps, db
  <2> QED BY <1>b, <2>1, <2>5, <2>6, <2>7, <2>8, QuietEffect DEF EffectInv
<1> QED BY <1>1, <1>2, <1>3

----------------------------------------------------------------------------
(* The commit *)

\* The commit of p leaves the other transactions what they rely on.
LEMMA CommitOthersEffect ==
    ASSUME LedgerInv, NEW p \in Procs, Commit(p), StepFrame(p), NEW q \in Procs \ {p}
    PROVE  EffectInv(q)'
<1>1. /\ pc'[q] = pc[q] /\ req'[q] = req[q] /\ copy'[q] = copy[q]
      /\ tenantLock'[q] = tenantLock[q] /\ (advisory' = q => advisory = q)
      /\ \A u \in Users : rowLock'[u][q] = rowLock[u][q]
  BY DEF StepFrame
<1>2. /\ EffectInv(q) /\ EffectInv(p) /\ ProcInv(q) /\ ProcInv(p) /\ EventPair(p, q)
      /\ StepOK /\ SafeInv /\ pc[p] = "commit"
  BY DEF LedgerInv, SafeInv, TypeInv, Commit
<1>3. CopyCurrent(q)'
  <2>1. CASE req[p].op \notin AdministerOps
    <3>1. tenant' = tenant
      BY <2>1 DEF Commit
    <3> QED BY <1>1, <1>2, <3>1 DEF EffectInv, CopyCurrent
  <2>2. CASE req[p].op \in AdministerOps
    <3>1. tenantLock[p] = Update /\ ~Conflicts(tenantLock[p], tenantLock[q])
      BY <1>2, <2>2 DEF EffectInv, CopyCurrent, LedgerInv, TenantLocksCompatible
    <3>2. tenantLock[q] # Update
      BY <3>1 DEF Conflicts, Update
    <3>3. req[q].op \in AdministerOps => pc[q] \notin {"require", "mutate", "commit"}
      BY <1>2, <3>2 DEF EffectInv, CopyCurrent
    <3> QED BY <1>1, <3>3 DEF CopyCurrent
  <2> QED BY <2>1, <2>2
<1>4. EventFresh(q)'
  BY <1>1, <1>2 DEF EffectInv, EventFresh, EventPair, Commit
<1>5. EventRoleThere(q)'
  <2> SUFFICES ASSUME pc[q] = "commit", req[q].op = "RevokeEventRole"
               PROVE  eventRole'[req[q].event] = eventRole[req[q].event]
    BY <1>1, <1>2 DEF EffectInv, EventRoleThere
  <2>1. advisory = q /\ req[q].event \in events /\ req[q].event \in Events
    BY <1>2 DEF ProcInv, AdvisoryHeld, EventThere, RelationOps, StepOK
  <2>2. req[p].op \notin RelationOps
    BY <1>2, <2>1 DEF ProcInv, AdvisoryHeld
  <2>3. eventRole \in [Events -> [Users -> RoleOrNone]]
    BY <1>2 DEF SafeInv, TypeInv, TypeOK
  <2>4. CASE req[p].op = "CreateEvent"
    <3>1. eventRole' = [eventRole EXCEPT ![req[p].event][req[p].caller] = held[p]]
      BY <2>4 DEF Commit, EventRolesAfter
    <3>2. req[p].event # req[q].event
      BY <1>2, <2>1, <2>4 DEF EffectInv, EventFresh
    <3> QED BY <2>1, <2>3, <3>1, <3>2
  <2>5. CASE req[p].op # "CreateEvent"
    BY <2>2, <2>5 DEF Commit, EventRolesAfter, RelationOps
  <2> QED BY <2>4, <2>5
<1>6. HoldsAt(q)'
  <2>1. ASSUME NEW u \in Users, rowLock[u][q] >= NoKeyUpdate PROVE role'[u] = role[u]
    <3>1. rowLock[u][q] \in LockLevels
      BY <1>2 DEF SafeInv, TypeInv, TypeOK
    <3>2. rowLock[u][q] >= Share
      BY <2>1, <3>1 DEF NoKeyUpdate, Share, LockLevels, Unlocked, Update
    <3> QED BY <1>2, <3>2, CommitRespectsLocks
  <2> QED BY <1>1, <1>2, <2>1 DEF EffectInv, HoldsAt
<1> QED BY <1>3, <1>4, <1>5, <1>6 DEF EffectInv

LEMMA CommitKeepsLedger ==
    ASSUME LedgerInv, SafeInv', NEW p \in Procs, Commit(p)
    PROVE  LedgerInv'
<1>1. /\ StepFrame(p) /\ TenantLocksCompatible' /\ EffectInv(p)'
      /\ \A q \in Procs : EventPair(p, q)' /\ EventPair(q, p)'
  BY EndStepFrame, EndCompatible, EndEffect DEF Commit
<1>2. \A q \in Procs : EffectInv(q)'
  BY <1>1, CommitOthersEffect
<1>3. ASSUME NEW q \in Procs, NEW s \in Procs PROVE EventPair(q, s)'
  BY <1>1, <1>3 DEF LedgerInv, EventPair, StepFrame
<1> QED BY <1>1, <1>2, <1>3 DEF LedgerInv

LEMMA InitLedger == Init => LedgerInv
<1> SUFFICES ASSUME Init PROVE LedgerInv
  OBVIOUS
<1>1. SafeInv
  BY InitSafe
<1>2. ASSUME NEW p \in Procs
      PROVE  /\ pc[p] = "idle" /\ req[p].op = "none" /\ tenantLock[p] = Unlocked /\ advisory # p
             /\ \A u \in Users : rowLock[u][p] = Unlocked
  BY <1>2, ConstantsAssumption DEF Init, Idle, NoLock, NoReq
<1>3. ASSUME NEW p \in Procs PROVE EffectInv(p)
  <2>1. HoldsAt(p)
    BY <1>2, <1>3 DEF HoldsAt, Unlocked, NoKeyUpdate
  <2>2. CopyCurrent(p) /\ EventFresh(p) /\ EventRoleThere(p)
    BY <1>2, <1>3 DEF CopyCurrent, EventFresh, EventRoleThere, AdministerOps
  <2> QED BY <2>1, <2>2 DEF EffectInv
<1>4. TenantLocksCompatible
  BY <1>2 DEF TenantLocksCompatible, Conflicts, Unlocked, Update
<1>5. \A p, q \in Procs : EventPair(p, q)
  BY <1>2 DEF EventPair
<1> QED BY <1>1, <1>3, <1>4, <1>5 DEF LedgerInv

LEMMA NextLedger == LedgerInv /\ [Next]_vars => LedgerInv'
<1> SUFFICES ASSUME LedgerInv, [Next]_vars PROVE LedgerInv'
  OBVIOUS
<1>0. SafeInv'
  BY NextSafe DEF LedgerInv
<1>1. CASE UNCHANGED vars
  <2>1. UNCHANGED <<role, eventRole, events, tenant, advisory, rowLock, tenantLock, pc, req, copy>>
    BY <1>1 DEF vars, db, locks, local
  <2>2. ASSUME NEW p \in Procs PROVE EffectInv(p)'
    <3>1. EffectInv(p)
      BY DEF LedgerInv
    <3>2. CopyCurrent(p)' /\ EventFresh(p)' /\ EventRoleThere(p)'
      BY <2>1, <3>1 DEF EffectInv, CopyCurrent, EventFresh, EventRoleThere
    <3>3. HoldsAt(p)'
      BY <2>1, <3>1 DEF EffectInv, HoldsAt
    <3> QED BY <3>2, <3>3 DEF EffectInv
  <2>3. TenantLocksCompatible' /\ \A p, q \in Procs : EventPair(p, q)'
    BY <2>1 DEF LedgerInv, TenantLocksCompatible, EventPair
  <2> QED BY <1>0, <2>2, <2>3 DEF LedgerInv
<1>2. ASSUME NEW p \in Procs, Statement(p) PROVE LedgerInv'
  BY <1>0, <1>2, RowStatementKeepsLedger, TenantStatementKeepsLedger, CommitKeepsLedger DEF Statement
<1>3. ASSUME NEW p \in Procs, Rollback(p) PROVE LedgerInv'
  BY <1>0, <1>3, EndKeepsLedger DEF Rollback
<1> QED BY <1>0, <1>1, <1>2, <1>3, ArrivalKeepsLedger DEF Next

LEMMA LedgerSafe == Spec => []LedgerInv
  BY InitLedger, NextLedger, PTL DEF Spec

----------------------------------------------------------------------------
(* Every request takes effect atomically *)

\* The roles of the abstract specification are those of this one.
LEMMA SameRoles ==
    /\ Ledger!NoRole = NoRole /\ Ledger!RoleOrNone = RoleOrNone
    /\ \A r : Grants(r, ScopeTenantWrite) => Ledger!Grants(r, Ledger!ScopeTenantWrite)
  BY DEF Ledger!NoRole, NoRole, Ledger!RoleOrNone, RoleOrNone, Ledger!Roles, Roles,
         Ledger!Grants, Grants, Ledger!ScopeTenantWrite, ScopeTenantWrite,
         Ledger!MemberScopes, MemberScopes, Ledger!AdminScopes, AdminScopes

\* A commit is the effect of its request, at a moment at which everything the
\* handler checked on the way is true.
LEMMA CommitApplies ==
    ASSUME LedgerInv, NEW p \in Procs, Commit(p)
    PROVE  Ledger!Apply(p)
<1>a. /\ StepOK /\ ProcInv(p) /\ EffectInv(p) /\ pc[p] = "commit" /\ req[p] \in Requests
      /\ role' = RolesAfter(req[p]) /\ eventRole' = EventRolesAfter(req[p], held[p])
      /\ events' = IF req[p].op = "CreateEvent" THEN events \cup {req[p].event} ELSE events
      /\ tenant' = IF req[p].op \in AdministerOps THEN copy[p] ELSE tenant
      /\ req' = [req EXCEPT ![p] = NoReq]
  BY DEF LedgerInv, SafeInv, TypeInv, StepOK, Commit, End
<1>b. req[p].op \in AllOps /\ req[p].user \in Users /\ req[p].caller \in Users
  BY <1>a, ConstantsAssumption DEF Requests
<1>c. Ledger!Return(p)
  BY <1>a DEF Ledger!Return, Ledger!NoCall, NoReq, Requests
<1>d. req[p].op \in RelationOps \cup AdministerOps => Ledger!MayAdminister(req[p].caller)
  BY <1>a, SameRoles DEF ProcInv, PermissionLocked, Ledger!MayAdminister
<1>1. CASE req[p].op = "AddTenantMember"
  <2>1. role[req[p].user] = NoRole
    BY <1>a, <1>1 DEF ProcInv, WriterLocked
  <2>2. /\ role' = [role EXCEPT ![req[p].user] = req[p].role] /\ eventRole' = eventRole
        /\ events' = events /\ tenant' = tenant
    BY <1>a, <1>1 DEF RolesAfter, EventRolesAfter, MembershipOps, AdministerOps
  <2> QED BY <1>1, <1>c, <2>1, <2>2, SameRoles DEF Ledger!Apply, Ledger!Effect, Ledger!Add
<1>2. CASE req[p].op = "ChangeTenantRole"
  <2>1. /\ role[req[p].user] # NoRole
        /\ req[p].role = "owner" \/ Ledger!OwnedWithout(req[p].user)
    BY <1>a, <1>2 DEF ProcInv, WriterLocked, AnotherOwner, Ledger!OwnedWithout
  <2>2. /\ role' = [role EXCEPT ![req[p].user] = req[p].role] /\ eventRole' = eventRole
        /\ events' = events /\ tenant' = tenant
    BY <1>a, <1>2 DEF RolesAfter, EventRolesAfter, MembershipOps, AdministerOps
  <2>3. Ledger!MayAdminister(req[p].caller)
    BY <1>2, <1>d DEF RelationOps
  <2> QED BY <1>2, <1>c, <2>1, <2>2, <2>3, SameRoles DEF Ledger!Apply, Ledger!Effect, Ledger!Change
<1>3. CASE req[p].op = "RevokeTenantRole"
  <2>1. role[req[p].user] # NoRole /\ Ledger!OwnedWithout(req[p].user) /\ req[p].role = NoRole
    BY <1>a, <1>3 DEF ProcInv, WriterLocked, AnotherOwner, Ledger!OwnedWithout, StepOK
  <2>2. /\ role' = [role EXCEPT ![req[p].user] = NoRole] /\ events' = events /\ tenant' = tenant
        /\ eventRole' = [e \in Events |-> [eventRole[e] EXCEPT ![req[p].user] = NoRole]]
    BY <1>a, <1>3, <2>1 DEF RolesAfter, EventRolesAfter, MembershipOps, AdministerOps
  <2>3. Ledger!MayAdminister(req[p].caller)
    BY <1>3, <1>d DEF RelationOps
  <2> QED BY <1>3, <1>c, <2>1, <2>2, <2>3, SameRoles DEF Ledger!Apply, Ledger!Effect, Ledger!Revoke
<1>4. CASE req[p].op = "GrantEventRole"
  <2>1. role[req[p].user] # NoRole /\ req[p].event \in events
    BY <1>a, <1>4 DEF ProcInv, WriterLocked, EventThere
  <2>2. /\ eventRole' = [eventRole EXCEPT ![req[p].event][req[p].user] = req[p].role]
        /\ role' = role /\ events' = events /\ tenant' = tenant
    BY <1>a, <1>4 DEF RolesAfter, EventRolesAfter, MembershipOps, AdministerOps
  <2>3. Ledger!MayAdminister(req[p].caller)
    BY <1>4, <1>d DEF RelationOps
  <2> QED BY <1>4, <1>c, <2>1, <2>2, <2>3, SameRoles DEF Ledger!Apply, Ledger!Effect, Ledger!GrantOnEvent
<1>5. CASE req[p].op = "RevokeEventRole"
  <2>1. eventRole[req[p].event][req[p].user] # NoRole /\ req[p].role = NoRole
    BY <1>a, <1>5 DEF EffectInv, EventRoleThere, StepOK
  <2>2. /\ eventRole' = [eventRole EXCEPT ![req[p].event][req[p].user] = NoRole]
        /\ role' = role /\ events' = events /\ tenant' = tenant
    BY <1>a, <1>5, <2>1 DEF RolesAfter, EventRolesAfter, MembershipOps, AdministerOps
  <2>3. Ledger!MayAdminister(req[p].caller)
    BY <1>5, <1>d DEF RelationOps
  <2> QED BY <1>5, <1>c, <2>1, <2>2, <2>3, SameRoles DEF Ledger!Apply, Ledger!Effect, Ledger!RevokeOnEvent
<1>6. CASE req[p].op = "CreateEvent"
  <2>1. role[req[p].caller] # NoRole /\ held[p] = role[req[p].caller] /\ req[p].event \notin events
    BY <1>a, <1>6 DEF ProcInv, CreatorLocked, EffectInv, EventFresh
  <2>2. /\ eventRole' = [eventRole EXCEPT ![req[p].event][req[p].caller] = role[req[p].caller]]
        /\ role' = role /\ events' = events \cup {req[p].event} /\ tenant' = tenant
    BY <1>a, <1>6, <2>1 DEF RolesAfter, EventRolesAfter, MembershipOps, AdministerOps
  <2> QED BY <1>6, <1>c, <2>1, <2>2, SameRoles DEF Ledger!Apply, Ledger!Effect, Ledger!Create
<1>7. CASE req[p].op \in AdministerOps
  <2>1. /\ ~tenant.archived
        /\ req[p].op = "ArchiveTenant" => copy[p] = [archived |-> TRUE, plan |-> tenant.plan]
        /\ req[p].op = "ChangeTenantContract"
              => \E plan \in Plans : copy[p] = [archived |-> FALSE, plan |-> plan]
    BY <1>a, <1>7 DEF EffectInv, CopyCurrent
  <2>2. role' = role /\ eventRole' = eventRole /\ events' = events /\ tenant' = copy[p]
    BY <1>a, <1>7 DEF RolesAfter, EventRolesAfter, MembershipOps, AdministerOps
  <2>3. Ledger!MayAdminister(req[p].caller)
    BY <1>7, <1>d
  <2>4. Ledger!Administer(req[p])
    BY <1>7, <2>1, <2>2, <2>3 DEF Ledger!Administer, Ledger!AdministerOps, AdministerOps
  <2> QED BY <1>c, <2>4 DEF Ledger!Apply, Ledger!Effect
<1> QED BY <1>b, <1>1, <1>2, <1>3, <1>4, <1>5, <1>6, <1>7 DEF AllOps, AdministerOps

\* The arrival of a request is its call.
LEMMA ArriveCalls ==
    ASSUME LedgerInv, NEW p \in Procs, NEW op \in AllOps, NEW c \in Users, NEW u \in Users,
           NEW r \in RoleOrNone, NEW e \in Events \cup {NoEvent}, Arrive(p, op, c, u, r, e),
           op \notin AdministerOps => ~tenant.archived
    PROVE  Ledger!Call(p)
<1> DEFINE new == [op |-> op, caller |-> c, user |-> u, role |-> r, event |-> e]
<1>1. /\ new \in Ledger!Requests /\ new.op = op /\ req' = [req EXCEPT ![p] = new]
      /\ pc[p] = "idle" /\ UNCHANGED <<role, eventRole, events, tenant>>
  BY SameRoles DEF Arrive, Ledger!Requests, db
<1>2. req[p] = Ledger!NoCall
  BY <1>1 DEF LedgerInv, SafeInv, TypeInv, StepOK, NoReq, Ledger!NoCall
<1>3. new.op \notin Ledger!AdministerOps => ~tenant.archived
  BY <1>1 DEF AdministerOps, Ledger!AdministerOps
<1> QED BY <1>1, <1>2, <1>3 DEF Ledger!Call

LEMMA ArrivalCalls ==
    ASSUME LedgerInv, NEW p \in Procs, Arrival(p)
    PROVE  Ledger!Call(p)
<1>a. GrantableRoles \subseteq RoleOrNone /\ NoRole \in RoleOrNone
  BY DEF GrantableRoles, RoleOrNone, Roles
<1>1. CASE AddTenantMember(p)
  BY <1>1, <1>a, ArriveCalls DEF AddTenantMember, WritableTenant, AllOps
<1>2. CASE ChangeTenantRole(p)
  BY <1>2, <1>a, ArriveCalls DEF ChangeTenantRole, WritableTenant, AllOps
<1>3. CASE RevokeTenantRole(p)
  BY <1>3, <1>a, ArriveCalls DEF RevokeTenantRole, WritableTenant, AllOps
<1>4. CASE GrantEventRole(p)
  BY <1>4, <1>a, ArriveCalls DEF GrantEventRole, WritableEvent, WritableTenant, AllOps
<1>5. CASE RevokeEventRole(p)
  BY <1>5, <1>a, ArriveCalls DEF RevokeEventRole, WritableEvent, WritableTenant, AllOps
<1>6. CASE CreateEvent(p)
  BY <1>6, <1>a, ArriveCalls DEF CreateEvent, WritableTenant, AllOps
<1>7. CASE AdministerTenant(p)
  BY <1>7, <1>a, ArriveCalls DEF AdministerTenant, AdministerOps, AllOps
<1> QED BY <1>1, <1>2, <1>3, <1>4, <1>5, <1>6, <1>7 DEF Arrival

\* Every other statement either goes on, which nobody sees, or ends the request
\* without an effect.
LEMMA StatementRefuses ==
    ASSUME LedgerInv, NEW p \in Procs, (Statement(p) /\ ~Commit(p)) \/ Rollback(p)
    PROVE  Ledger!Refuse(p) \/ UNCHANGED Ledger!vars
<1>1. pc[p] # "idle" /\ UNCHANGED db /\ (End(p) \/ req' = req)
  BY DEF Statement, Rollback, LockTenantMemberships, Require, KeepAnotherOwner, CountTenantOwners,
         WriteMembership, DeleteEventRole, InsertMembership, CheckTenantKey, ReadCreatorRole,
         InsertEvent, GrantCreatorRole, FindTenantForUpdate, MutateTenant, local
<1>2. req[p] # NoReq
  BY <1>1 DEF LedgerInv, SafeInv, TypeInv, StepOK
<1>3. CASE End(p)
  BY <1>1, <1>2, <1>3 DEF End, db, Ledger!Refuse, Ledger!Return, Ledger!NoCall, NoReq
<1>4. CASE req' = req
  BY <1>1, <1>4 DEF db, Ledger!vars
<1> QED BY <1>1, <1>3, <1>4

\* Statements, locks and rollbacks implement atomic requests: each one takes
\* effect in a single step that finds its permission, the remaining owner and
\* the rows it needs in place, or returns without any effect.
THEOREM ImplementsLedger == Spec => LedgerSpec
<1>1. Init => Ledger!Init
  BY SameRoles DEF Init, Idle, Ledger!Init, Ledger!NoCall, NoReq, NewTenant
<1>2. LedgerInv /\ [Next]_vars => [Ledger!Next]_Ledger!vars
  <2> SUFFICES ASSUME LedgerInv, [Next]_vars PROVE [Ledger!Next]_Ledger!vars
    OBVIOUS
  <2>1. CASE UNCHANGED vars
    BY <2>1 DEF vars, db, local, Ledger!vars
  <2> QED BY <2>1, ArrivalCalls, CommitApplies, StatementRefuses DEF Next, Ledger!Next
<1> QED BY <1>1, <1>2, LedgerSafe, PTL DEF Spec, LedgerSpec, Ledger!Spec

\* UpdateTenant writes both columns from a copy; the copy is still the row, so
\* an archived tenant stays as it is and archiving does not revert the contract.
THEOREM NoTenantUpdateLost == Spec => NoLostTenantUpdate
<1> DEFINE Kept == /\ tenant.archived => tenant' = tenant
                   /\ tenant'.archived # tenant.archived => tenant'.plan = tenant.plan
<1>1. ASSUME LedgerInv, [Next]_vars PROVE [Kept]_vars
  <2>1. ASSUME tenant' = tenant PROVE Kept
    BY <2>1
  <2>2. ASSUME NEW p \in Procs, Commit(p), tenant' # tenant PROVE Kept
    <3>1. req[p].op \in AdministerOps /\ tenant' = copy[p] /\ pc[p] = "commit"
      BY <2>2 DEF Commit
    <3>2. /\ ~tenant.archived
          /\ req[p].op = "ArchiveTenant" => copy[p] = [archived |-> TRUE, plan |-> tenant.plan]
          /\ req[p].op = "ChangeTenantContract"
                => \E plan \in Plans : copy[p] = [archived |-> FALSE, plan |-> plan]
      BY <1>1, <3>1 DEF LedgerInv, EffectInv, CopyCurrent
    <3>3. tenant.archived = FALSE
      <4>1. tenant.archived \in BOOLEAN
        BY <1>1 DEF LedgerInv, SafeInv, TypeInv, TypeOK, TenantRows
      <4> QED BY <3>2, <4>1, Zenon
    <3>4. CASE req[p].op = "ArchiveTenant"
      <4>1. tenant'.plan = tenant.plan
        BY <3>1, <3>2, <3>4
      <4> QED BY <3>2, <4>1, Zenon
    <3>5. CASE req[p].op = "ChangeTenantContract"
      <4>1. tenant'.archived = FALSE
        <5>1. PICK plan \in Plans : tenant' = [archived |-> FALSE, plan |-> plan]
          BY <3>1, <3>2, <3>5
        <5> QED BY <5>1, Zenon
      <4> QED BY <3>2, <3>3, <4>1, Zenon
    <3> QED BY <3>1, <3>4, <3>5 DEF AdministerOps
  <2>3. ASSUME NEW p \in Procs, Arrival(p) \/ (Statement(p) /\ ~Commit(p)) \/ Rollback(p)
        PROVE  tenant' = tenant
    BY <1>1, <2>3, ArrivalCalls, StatementRefuses DEF Ledger!Call, Ledger!Refuse, Ledger!vars
  <2> QED BY <1>1, <2>1, <2>2, <2>3 DEF Next
<1> QED BY <1>1, LedgerSafe, PTL DEF Spec, NoLostTenantUpdate

----------------------------------------------------------------------------
(* No deadlock *)

\* The order in which the handlers take their locks, read off the statement a
\* transaction is at: it only waits for transactions further on.
Rank(step) ==
    CASE step = "lock" -> 1
      [] step \in {"insert", "write"} -> 2
      [] step \in {"fk", "tenant"} -> 3
      [] step \in {"require", "creator", "keep", "grantCreator"} -> 4
      [] OTHER -> 5

\* What a statement waits for on a membership row: a share lock only for a write
\* that is about to commit, any other lock for a transaction that holds one.
LEMMA RowWaits ==
    ASSUME LedgerInv, NEW p \in Procs, NEW u \in Users, NEW m \in LockLevels,
           NEW q \in RowBlockers(p, u, m)
    PROVE  /\ q \in Procs \ {p}
           /\ m <= Share => pc[q] = "commit"
           /\ pc[q] \in {"keep", "count", "write", "mutate", "insertEvent", "fk",
                         "grantCreator", "commit"}
<1>1. rowLock \in [Users -> [Procs -> LockLevels]]
  BY DEF LedgerInv, SafeInv, TypeInv, TypeOK
<1>2. /\ q \in Procs \ {p} /\ Conflicts(m, rowLock[u][q]) /\ role[u] # NoRole
      /\ rowLock[u][q] \in LockLevels
  BY <1>1 DEF RowBlockers, Blockers
<1>3. rowLock[u][q] # Unlocked /\ (m <= Share => rowLock[u][q] >= NoKeyUpdate)
  BY <1>2 DEF Conflicts, LockLevels, Unlocked, Share, NoKeyUpdate, Update
<1>4. HoldsAt(q)
  BY <1>2 DEF LedgerInv, EffectInv
<1> QED BY <1>2, <1>3, <1>4 DEF HoldsAt

LEMMA WaitsForward ==
    ASSUME LedgerInv, NEW p \in Procs, NEW q \in WaitsFor(p)
    PROVE  q \in Procs /\ Rank(pc[p]) < Rank(pc[q])
<1>a. /\ StepOK /\ pc[p] \in Steps /\ advisory \in Procs \cup {NoProc}
      /\ tenantLock \in [Procs -> LockLevels] /\ rowLock \in [Users -> [Procs -> LockLevels]]
  BY DEF LedgerInv, SafeInv, TypeInv, TypeOK
<1>b. pc[p] # "idle" => req[p].caller \in Users /\ req[p].user \in Users
  BY <1>a DEF StepOK, Requests
<1>c. /\ KeyShare \in LockLevels /\ Share \in LockLevels /\ KeyShare <= Share /\ Share <= Share
  BY DEF KeyShare, Share, LockLevels, Unlocked, Update
<1>1. CASE pc[p] = "lock"
  <2>1. q = advisory /\ q \in Procs
    BY <1>1, <1>a DEF WaitsFor
  <2>2. pc[q] \in {"require", "keep", "count", "write", "commit"}
    BY <2>1 DEF LedgerInv, EffectInv, HoldsAt
  <2> QED BY <1>1, <2>1, <2>2 DEF Rank
<1>2. CASE pc[p] \in {"require", "creator"}
  <2>1. q \in RowBlockers(p, req[p].caller, Share)
    BY <1>2 DEF WaitsFor
  <2>2. q \in Procs /\ pc[q] = "commit"
    BY <1>2, <1>b, <1>c, <2>1, RowWaits
  <2> QED BY <1>2, <2>2 DEF Rank
<1>3. CASE pc[p] = "grantCreator"
  <2>1. q \in RowBlockers(p, req[p].caller, KeyShare)
    BY <1>3 DEF WaitsFor
  <2>2. q \in Procs /\ pc[q] = "commit"
    BY <1>3, <1>b, <1>c, <2>1, RowWaits
  <2> QED BY <1>3, <2>2 DEF Rank
<1>4. CASE pc[p] = "keep"
  <2>1. q \in RowBlockers(p, req[p].user, Share)
    BY <1>4 DEF WaitsFor
  <2>2. q \in Procs /\ pc[q] = "commit"
    BY <1>4, <1>b, <1>c, <2>1, RowWaits
  <2> QED BY <1>4, <2>2 DEF Rank
<1>5. CASE pc[p] = "write"
  <2>1. req[p].op # "RevokeEventRole" /\ q \in RowBlockers(p, req[p].user, WriteLevel(req[p].op))
    BY <1>5 DEF WaitsFor
  <2>2. WriteLevel(req[p].op) \in LockLevels /\ req[p].op \in RelationOps
    BY <1>5, <1>a, <2>1 DEF StepOK, RelationOps, WriteLevel, LockLevels, Unlocked, KeyShare,
                            NoKeyUpdate, Update
  <2>3. q \in Procs \ {p} /\ pc[q] \in {"keep", "count", "write", "mutate", "insertEvent", "fk",
                                        "grantCreator", "commit"}
    BY <1>5, <1>b, <2>1, <2>2, RowWaits
  <2>4. advisory = p
    BY <1>5, <2>2 DEF LedgerInv, SafeInv, ProcInv, AdvisoryHeld
  <2>5. pc[q] \notin {"keep", "count", "write"}
    <3>1. req[q].op \in RelationOps /\ pc[q] \in {"keep", "count", "write"} => advisory = q
      BY <2>3 DEF LedgerInv, SafeInv, ProcInv, AdvisoryHeld
    <3>2. pc[q] \in {"keep", "count", "write"} => req[q].op \in RelationOps
      BY <1>a, <2>3 DEF StepOK, RelationOps
    <3> QED BY <2>3, <2>4, <3>1, <3>2
  <2> QED BY <1>5, <2>3, <2>5 DEF Rank
<1>6. CASE pc[p] = "insert"
  <2>1. q \in Blockers(rowLock[req[p].user], p, Share)
    BY <1>6 DEF WaitsFor
  <2>2. q \in Procs /\ rowLock[req[p].user][q] \in LockLevels /\ Conflicts(Share, rowLock[req[p].user][q])
    BY <1>6, <1>a, <1>b, <2>1 DEF Blockers
  <2>3. rowLock[req[p].user][q] # Unlocked /\ rowLock[req[p].user][q] >= NoKeyUpdate
    BY <2>2 DEF Conflicts, LockLevels, Unlocked, Share, NoKeyUpdate, Update
  <2>4. pc[q] \in {"fk", "commit"}
    BY <1>6, <1>b, <2>2, <2>3 DEF LedgerInv, EffectInv, HoldsAt
  <2> QED BY <1>6, <2>2, <2>4 DEF Rank
<1>7. CASE pc[p] \in {"fk", "tenant"}
  <2>1. \E m \in {KeyShare, Update} : q \in Blockers(tenantLock, p, m)
    BY <1>7 DEF WaitsFor
  <2>2. q \in Procs /\ tenantLock[q] # Unlocked
    BY <1>a, <2>1 DEF Blockers, Conflicts, Unlocked, KeyShare, Update, LockLevels
  <2>3. pc[q] \in {"require", "mutate", "grantCreator", "commit"}
    BY <2>2 DEF LedgerInv, EffectInv, HoldsAt
  <2> QED BY <1>7, <2>2, <2>3 DEF Rank
<1>8. CASE pc[p] \in {"idle", "count", "mutate", "insertEvent", "commit"}
  BY <1>8 DEF WaitsFor
<1> QED BY <1>a, <1>1, <1>2, <1>3, <1>4, <1>5, <1>6, <1>7, <1>8 DEF Steps

\* Whatever administrators revoke, demote, grant, create and archive at once, no
\* set of transactions waits only for its own members: a statement waits only
\* for transactions of a higher rank, so of any set those of the highest rank
\* wait for none of it.
THEOREM NeverDeadlocked == Spec => []NoLockCycle
<1>1. ASSUME LedgerInv PROVE NoLockCycle
  <2> SUFFICES ASSUME NEW S \in (SUBSET Procs) \ {{}}
               PROVE  \E p \in S : WaitsFor(p) \cap S = {}
    BY DEF NoLockCycle
  <2>1. \A p \in S : Rank(pc[p]) \in 1 .. 5
    BY DEF Rank
  <2>2. PICK p \in S : \A q \in S : Rank(pc[q]) <= Rank(pc[p])
    <3> DEFINE At(n) == \E p \in S : Rank(pc[p]) = n
    <3>1. At(1) \/ At(2) \/ At(3) \/ At(4) \/ At(5)
      BY <2>1
    <3>2. CASE At(5)
      BY <2>1, <3>2
    <3>3. CASE At(4) /\ ~At(5)
      BY <2>1, <3>3
    <3>4. CASE At(3) /\ ~At(4) /\ ~At(5)
      BY <2>1, <3>4
    <3>5. CASE At(2) /\ ~At(3) /\ ~At(4) /\ ~At(5)
      BY <2>1, <3>5
    <3>6. CASE At(1) /\ ~At(2) /\ ~At(3) /\ ~At(4) /\ ~At(5)
      BY <2>1, <3>6
    <3> QED BY <3>1, <3>2, <3>3, <3>4, <3>5, <3>6
  <2>3. ASSUME NEW q \in WaitsFor(p) \cap S PROVE FALSE
    <3>1. p \in Procs /\ q \in WaitsFor(p) /\ q \in S
      OBVIOUS
    <3>2. Rank(pc[p]) < Rank(pc[q])
      BY <1>1, <3>1, WaitsForward
    <3> QED BY <2>1, <2>2, <3>1, <3>2
  <2> QED BY <2>2, <2>3
<1> QED BY <1>1, LedgerSafe, PTL
=============================================================================

-------------------------- MODULE InvitationsProofs --------------------------
(* Theorems about Invitations, for any sets of users, invitations and requests:
   an invitation admits at most one person, is spent only by joining, is closed
   for good, and is issued only by somebody who may write the tenant.         *)
EXTENDS Invitations, TLAPS

----------------------------------------------------------------------------
(* The inductive invariant *)

\* Which requests are at which statement, and what they carry.
StepOK(p) ==
    /\ pc[p] = "idle" => req[p] = NoReq
    /\ pc[p] # "idle" => req[p].op \in {"create", "revoke", "accept"} /\ req[p].invite \in Invites
    /\ pc[p] = "lock" => req[p].op \in {"create", "accept"}
    /\ pc[p] = "require" => req[p].op = "create"
    /\ pc[p] \in {"find", "close", "mark"} => req[p].op \in {"revoke", "accept"}
    /\ pc[p] = "join" => req[p].op = "accept"
    /\ pc[p] = "fk" => req[p].op \in {"create", "accept"}
    /\ req[p].op \in {"create", "accept"} => req[p].user \in Users
    /\ req[p].op = "create" => req[p].expires \in 0 .. MaxTime + TTL

TypeInv == TypeOK /\ \A p \in Procs : StepOK(p)

Closed(i) == invitations[i].acceptedBy # NoUser \/ invitations[i].revoked

\* The history agrees with the rows; no row is accepted and revoked, and a row
\* that does not exist is neither.
RowsOK ==
    \A i \in Invites :
       /\ admitted[i] = {invitations[i].acceptedBy} \ {NoUser}
       /\ invitations[i].revoked => invitations[i].acceptedBy = NoUser
       /\ ~invitations[i].exists => ~Closed(i)

\* Creating and accepting transactions hold the advisory lock.
AdvisoryOK(p) ==
    pc[p] \notin {"idle", "lock"} /\ req[p].op \in {"create", "accept"} => advisory = p

\* The id of an invitation that is being issued is still free.
FreshOK(p) == req[p].op = "create" => ~invitations[req[p].invite].exists

\* The inviter whose permission was read still has it.
InviterOK(p) ==
    req[p].op = "create" /\ pc[p] \in {"fk", "commit"}
       => Grants(role[req[p].user], ScopeTenantWrite)

\* Whoever closes an invitation holds its row, and having found it open knows
\* that it is.
CloserOK(p) ==
    /\ req[p].op \in {"revoke", "accept"} /\ pc[p] \in {"close", "join", "fk", "mark", "commit"}
         => inviteLock[req[p].invite] = p /\ invitations[req[p].invite].exists
    /\ req[p].op \in {"revoke", "accept"} /\ pc[p] \in {"join", "fk", "mark", "commit"}
         => ~Closed(req[p].invite)

\* Whoever is about to join has not joined yet.
JoinerOK(p) ==
    req[p].op = "accept" /\ pc[p] \in {"fk", "mark", "commit"} => role[req[p].user] = NoRole

ProcInv(p) == AdvisoryOK(p) /\ FreshOK(p) /\ InviterOK(p) /\ CloserOK(p) /\ JoinerOK(p)

\* No two requests issue one id.
PairOK(p, q) ==
    p # q /\ req[p].op = "create" /\ req[q].op = "create" => req[p].invite # req[q].invite

IInv ==
    /\ TypeInv /\ RowsOK
    /\ \A p \in Procs : ProcInv(p)
    /\ \A p, q \in Procs : PairOK(p, q)

----------------------------------------------------------------------------
(* Types *)

LEMMA RowFields ==
    ASSUME NEW r
    PROVE  /\ NoInvite = [exists |-> FALSE, expires |-> 0, acceptedBy |-> NoUser, revoked |-> FALSE]
           /\ r.op = "create" => RowAfter(r) = [exists |-> TRUE, expires |-> r.expires,
                                                acceptedBy |-> NoUser, revoked |-> FALSE]
           /\ r.op = "revoke" => RowAfter(r) = [invitations[r.invite] EXCEPT !.revoked = TRUE]
           /\ r.op = "accept" => RowAfter(r) = [invitations[r.invite] EXCEPT !.acceptedBy = r.user]
<1>1. NoInvite = [exists |-> FALSE, expires |-> 0, acceptedBy |-> NoUser, revoked |-> FALSE]
  BY DEF NoInvite
<1>2. ASSUME r.op = "create" PROVE RowAfter(r) = [NoInvite EXCEPT !.exists = TRUE, !.expires = r.expires]
  BY <1>2 DEF RowAfter
<1>3. ASSUME r.op = "create"
      PROVE  RowAfter(r) = [exists |-> TRUE, expires |-> r.expires,
                            acceptedBy |-> NoUser, revoked |-> FALSE]
  BY <1>1, <1>2, <1>3
<1>4. /\ r.op = "revoke" => RowAfter(r) = [invitations[r.invite] EXCEPT !.revoked = TRUE]
      /\ r.op = "accept" => RowAfter(r) = [invitations[r.invite] EXCEPT !.acceptedBy = r.user]
  BY DEF RowAfter
<1> QED BY <1>1, <1>3, <1>4

\* What a commit leaves in the row it writes, field by field.
RowWritten(r, old, row) ==
    /\ row \in Rows
    /\ r.op = "create" => row.exists /\ row.acceptedBy = NoUser /\ ~row.revoked
    /\ r.op = "revoke" => row.exists = old.exists /\ row.acceptedBy = old.acceptedBy /\ row.revoked
    /\ r.op = "accept" => row.exists = old.exists /\ row.acceptedBy = r.user /\ row.revoked = old.revoked

LEMMA RowCreated ==
    ASSUME NEW e \in 0 .. MaxTime + TTL, NEW row,
           row = [exists |-> TRUE, expires |-> e, acceptedBy |-> NoUser, revoked |-> FALSE]
    PROVE  row \in Rows /\ row.exists /\ row.acceptedBy = NoUser /\ ~row.revoked
  BY DEF Rows

LEMMA RowRevoked ==
    ASSUME NEW old \in Rows, NEW row, row = [old EXCEPT !.revoked = TRUE]
    PROVE  /\ row \in Rows /\ row.exists = old.exists
           /\ row.acceptedBy = old.acceptedBy /\ row.revoked
  BY Zenon DEF Rows

LEMMA RowAccepted ==
    ASSUME NEW old \in Rows, NEW u \in Users, NEW row, row = [old EXCEPT !.acceptedBy = u]
    PROVE  /\ row \in Rows /\ row.exists = old.exists
           /\ row.acceptedBy = u /\ row.revoked = old.revoked
  BY Zenon DEF Rows

LEMMA RowAfterType ==
    ASSUME TypeInv, NEW p \in Procs, pc[p] = "commit"
    PROVE  /\ req[p].op \in {"create", "revoke", "accept"} /\ req[p].invite \in Invites
           /\ RowWritten(req[p], invitations[req[p].invite], RowAfter(req[p]))
<1>1. /\ req[p].op \in {"create", "revoke", "accept"} /\ req[p].invite \in Invites
      /\ req[p].op = "create" => req[p].expires \in 0 .. MaxTime + TTL
      /\ req[p].op = "accept" => req[p].user \in Users
      /\ invitations[req[p].invite] \in Rows
  BY DEF TypeInv, TypeOK, StepOK
<1>2. CASE req[p].op = "create"
  <2>1. /\ RowAfter(req[p]) \in Rows /\ RowAfter(req[p]).exists
        /\ RowAfter(req[p]).acceptedBy = NoUser /\ ~RowAfter(req[p]).revoked
    BY <1>1, <1>2, RowFields, RowCreated, Zenon
  <2>2. req[p].op # "revoke" /\ req[p].op # "accept"
    BY <1>2
  <2> QED BY <1>1, <2>1, <2>2, Zenon DEF RowWritten
<1>3. CASE req[p].op = "revoke"
  <2>1. RowAfter(req[p]) = [invitations[req[p].invite] EXCEPT !.revoked = TRUE]
    BY <1>3, RowFields
  <2>2. /\ RowAfter(req[p]) \in Rows /\ RowAfter(req[p]).exists = invitations[req[p].invite].exists
        /\ RowAfter(req[p]).acceptedBy = invitations[req[p].invite].acceptedBy
        /\ RowAfter(req[p]).revoked
    BY <1>1, <2>1, RowRevoked, Zenon
  <2>3. req[p].op # "create" /\ req[p].op # "accept"
    BY <1>3
  <2> QED BY <1>1, <2>2, <2>3, Zenon DEF RowWritten
<1>4. CASE req[p].op = "accept"
  <2>1. RowAfter(req[p]) = [invitations[req[p].invite] EXCEPT !.acceptedBy = req[p].user]
    BY <1>4, RowFields
  <2>2. /\ RowAfter(req[p]) \in Rows /\ RowAfter(req[p]).exists = invitations[req[p].invite].exists
        /\ RowAfter(req[p]).acceptedBy = req[p].user
        /\ RowAfter(req[p]).revoked = invitations[req[p].invite].revoked
    <3>1. req[p].user \in Users
      BY <1>1, <1>4
    <3> DEFINE old == invitations[req[p].invite]
               u   == req[p].user
               row == RowAfter(req[p])
    <3>2. old \in Rows /\ u \in Users /\ row = [old EXCEPT !.acceptedBy = u]
      BY <1>1, <2>1, <3>1, Zenon
    <3> HIDE DEF old, u, row
    <3>3. /\ row \in Rows /\ row.exists = old.exists
          /\ row.acceptedBy = u /\ row.revoked = old.revoked
      BY <3>2, RowAccepted, Zenon
    <3> QED BY <3>3, Zenon DEF old, u, row
  <2>3. req[p].op # "create" /\ req[p].op # "revoke"
    BY <1>4
  <2> QED BY <1>1, <2>2, <2>3, Zenon DEF RowWritten
<1> QED BY <1>1, <1>2, <1>3, <1>4

LEMMA EndType ==
    ASSUME TypeInv, NEW p \in Procs, End(p), UNCHANGED <<archived, clock>>,
           invitations' \in [Invites -> Rows], role' \in [Users -> RoleOrNone],
           admitted' \in [Invites -> SUBSET Users]
    PROVE  TypeInv'
<1>1. TypeOK'
  BY DEF TypeInv, TypeOK, End, Goto, Steps
<1>2. \A q \in Procs : StepOK(q)'
  BY DEF TypeInv, TypeOK, StepOK, End, Goto, NoReq
<1> QED BY <1>1, <1>2 DEF TypeInv

LEMMA ArrivalType ==
    ASSUME TypeInv, NEW p \in Procs, Arrival(p)
    PROVE  TypeInv'
<1>1. CASE CreateTenantInvitation(p)
  <2>1. clock + TTL \in 0 .. MaxTime + TTL
    BY InvitationsAssumption DEF TypeInv, TypeOK
  <2>2. TypeOK'
    BY <1>1, <2>1 DEF CreateTenantInvitation, Goto, TypeInv, TypeOK, Steps, Requests
  <2>3. \A q \in Procs : StepOK(q)'
    BY <1>1, <2>1 DEF CreateTenantInvitation, Goto, TypeInv, TypeOK, StepOK
  <2> QED BY <2>2, <2>3 DEF TypeInv
<1>2. CASE RevokeTenantInvitation(p)
  <2>1. TypeOK'
    BY <1>2 DEF RevokeTenantInvitation, Goto, TypeInv, TypeOK, Steps, Requests
  <2>2. \A q \in Procs : StepOK(q)'
    BY <1>2 DEF RevokeTenantInvitation, Goto, TypeInv, TypeOK, StepOK
  <2> QED BY <2>1, <2>2 DEF TypeInv
<1>3. CASE AcceptTenantInvitation(p)
  <2>1. TypeOK'
    BY <1>3 DEF AcceptTenantInvitation, Goto, TypeInv, TypeOK, Steps, Requests
  <2>2. \A q \in Procs : StepOK(q)'
    BY <1>3 DEF AcceptTenantInvitation, Goto, TypeInv, TypeOK, StepOK
  <2> QED BY <2>1, <2>2 DEF TypeInv
<1> QED BY <1>1, <1>2, <1>3 DEF Arrival

\* A statement moves its own request on, or ends it.
LEMMA StatementType ==
    ASSUME TypeInv, NEW p \in Procs, Statement(p)
    PROVE  TypeInv'
<1>a. /\ invitations \in [Invites -> Rows] /\ role \in [Users -> RoleOrNone]
      /\ admitted \in [Invites -> SUBSET Users] /\ StepOK(p)
  BY DEF TypeInv, TypeOK
<1>b. ASSUME End(p), UNCHANGED <<invitations, role, archived, clock, admitted>> PROVE TypeInv'
  BY <1>a, <1>b, EndType
<1>c. ASSUME NEW step \in Steps \ {"idle"}, Goto(p, step), pc[p] # "idle",
             UNCHANGED <<invitations, role, archived, clock, admitted, req>>,
             advisory' \in Procs \cup {NoProc},
             inviteLock' \in [Invites -> Procs \cup {NoProc}],
             step = "lock" => req[p].op \in {"create", "accept"},
             step = "require" => req[p].op = "create",
             step \in {"find", "close", "mark"} => req[p].op \in {"revoke", "accept"},
             step = "join" => req[p].op = "accept",
             step = "fk" => req[p].op \in {"create", "accept"}
      PROVE  TypeInv'
  <2>1. TypeOK'
    BY <1>c DEF Goto, TypeInv, TypeOK
  <2>2. \A q \in Procs : StepOK(q)'
    BY <1>c DEF Goto, TypeInv, TypeOK, StepOK
  <2> QED BY <2>1, <2>2 DEF TypeInv
<1>d. advisory \in Procs \cup {NoProc} /\ inviteLock \in [Invites -> Procs \cup {NoProc}]
  BY DEF TypeInv, TypeOK
<1>1. CASE LockTenantMemberships(p)
  BY <1>1, <1>a, <1>c, <1>d DEF LockTenantMemberships, StepOK, Steps
<1>2. CASE Require(p)
  BY <1>2, <1>a, <1>b, <1>c, <1>d DEF Require, StepOK, Steps
<1>3. CASE FindInvitation(p)
  <2>1. CASE ~End(p)
    <3>1. inviteLock' \in [Invites -> Procs \cup {NoProc}]
      BY <1>3, <2>1, <1>d DEF FindInvitation
    <3> QED BY <1>3, <2>1, <3>1, <1>a, <1>c, <1>d DEF FindInvitation, StepOK, Steps
  <2> QED BY <1>3, <2>1, <1>b DEF FindInvitation
<1>4. CASE CloseInvitation(p)
  BY <1>4, <1>a, <1>b, <1>c, <1>d DEF CloseInvitation, StepOK, Steps
<1>5. CASE InsertMembership(p)
  BY <1>5, <1>a, <1>b, <1>c, <1>d DEF InsertMembership, StepOK, Steps
<1>6. CASE CheckTenantKey(p)
  BY <1>6, <1>a, <1>c, <1>d DEF CheckTenantKey, StepOK, Steps
<1>7. CASE MarkInvitation(p)
  BY <1>7, <1>a, <1>b, <1>c, <1>d DEF MarkInvitation, StepOK, Steps
<1>8. CASE Commit(p)
  <2>1. RowAfter(req[p]) \in Rows /\ req[p].invite \in Invites
    BY <1>8, RowAfterType DEF Commit, RowWritten
  <2>2. invitations' \in [Invites -> Rows]
    BY <1>8, <1>a, <2>1 DEF Commit
  <2>3. role' \in [Users -> RoleOrNone] /\ admitted' \in [Invites -> SUBSET Users]
    BY <1>8, <1>a, <2>1 DEF Commit, StepOK, RoleOrNone, Roles
  <2> QED BY <1>8, <2>2, <2>3, EndType DEF Commit
<1> QED BY <1>1, <1>2, <1>3, <1>4, <1>5, <1>6, <1>7, <1>8 DEF Statement

LEMMA TypeStep == TypeInv /\ [Next]_vars => TypeInv'
<1> SUFFICES ASSUME TypeInv, [Next]_vars PROVE TypeInv'
  OBVIOUS
<1>a. ASSUME UNCHANGED <<invitations, advisory, inviteLock, local, admitted>>,
             role' \in [Users -> RoleOrNone], archived' \in BOOLEAN, clock' \in 0 .. MaxTime
      PROVE  TypeInv'
  BY <1>a DEF TypeInv, TypeOK, StepOK, local
<1>1. ASSUME NEW u \in Users, RemoveOrDemote(u) \/ AddMember(u) PROVE TypeInv'
  <2>1. role' \in [Users -> RoleOrNone]
    BY <1>1 DEF RemoveOrDemote, AddMember, TypeInv, TypeOK, RoleOrNone, Roles, GrantableRoles
  <2> QED BY <1>1, <1>a, <2>1 DEF RemoveOrDemote, AddMember, TypeInv, TypeOK
<1>2. CASE ArchiveTenant
  BY <1>2, <1>a DEF ArchiveTenant, TypeInv, TypeOK
<1>3. CASE Tick
  BY <1>3, <1>a, InvitationsAssumption DEF Tick, TypeInv, TypeOK
<1>4. ASSUME NEW p \in Procs, Rollback(p) PROVE TypeInv'
  BY <1>4, EndType DEF Rollback, TypeInv, TypeOK
<1>5. CASE UNCHANGED vars
  BY <1>5, <1>a DEF vars, TypeInv, TypeOK
<1> QED BY <1>1, <1>2, <1>3, <1>4, <1>5, ArrivalType, StatementType DEF Next, Environment

LEMMA TypeInit == Init => TypeInv
<1> SUFFICES ASSUME Init PROVE TypeInv
  OBVIOUS
<1>1. NoInvite \in Rows
  BY InvitationsAssumption DEF NoInvite, Rows
<1>2. role \in [Users -> RoleOrNone]
  <2>1. PICK owner \in Users : role = [u \in Users |-> IF u = owner THEN "owner" ELSE NoRole]
    BY DEF Init
  <2> QED BY <2>1 DEF RoleOrNone, Roles
<1>3. clock \in 0 .. MaxTime /\ archived \in BOOLEAN
  <2>1. clock = 0 /\ archived = FALSE
    BY Zenon DEF Init
  <2>2. clock \in 0 .. MaxTime
    BY <2>1, InvitationsAssumption
  <2> QED BY <2>1, <2>2, Zenon
<1>4. invitations \in [Invites -> Rows] /\ admitted \in [Invites -> SUBSET Users]
  BY <1>1 DEF Init
<1>5. /\ advisory \in Procs \cup {NoProc} /\ inviteLock \in [Invites -> Procs \cup {NoProc}]
      /\ pc \in [Procs -> Steps] /\ req \in [Procs -> Requests \cup {NoReq}]
  BY DEF Init, Steps
<1>6. TypeOK
  BY <1>2, <1>3, <1>4, <1>5 DEF TypeOK
<1>7. ASSUME NEW p \in Procs PROVE StepOK(p)
  <2>1. pc[p] = "idle" /\ req[p] = NoReq
    BY DEF Init
  <2>2. NoReq.op = "none"
    BY DEF NoReq
  <2> QED BY <2>1, <2>2 DEF StepOK
<1> QED BY <1>6, <1>7 DEF TypeInv

\* Rows, locks and requests keep their types; the deadline of a row stays within
\* the time to live.
THEOREM TypeCorrect == Spec => []TypeOK
<1>1. TypeInv => TypeOK
  BY DEF TypeInv
<1> QED BY <1>1, TypeInit, TypeStep, PTL DEF Spec

----------------------------------------------------------------------------
(* Safety *)

\* What a step of p leaves alone: the other requests and the locks they hold.
Frame(p) ==
    \A q \in Procs \ {p} :
       /\ pc'[q] = pc[q] /\ req'[q] = req[q]
       /\ advisory = q => advisory' = q
       /\ \A i \in Invites : inviteLock[i] = q => inviteLock'[i] = q

LEMMA EndFrame ==
    ASSUME TypeInv, NEW p \in Procs, End(p)
    PROVE  Frame(p) /\ pc'[p] = "idle" /\ req'[p] = NoReq /\ req'[p].op = "none"
<1>1. Frame(p)
  BY DEF TypeInv, TypeOK, End, Goto, Frame
<1>2. pc'[p] = "idle" /\ req'[p] = NoReq
  BY DEF TypeInv, TypeOK, End, Goto
<1>3. NoReq.op = "none"
  BY DEF NoReq
<1> QED BY <1>1, <1>2, <1>3

\* A finished request is about nothing.
LEMMA Finished ==
    ASSUME NEW p \in Procs, pc'[p] = "idle", req'[p].op = "none"
    PROVE  ProcInv(p)' /\ \A q \in Procs : PairOK(p, q)' /\ PairOK(q, p)'
  BY DEF ProcInv, AdvisoryOK, FreshOK, InviterOK, CloserOK, JoinerOK, PairOK

\* A step of p that writes no table keeps what the others rely on.
LEMMA QuietStep ==
    ASSUME IInv, TypeInv', NEW p \in Procs, Frame(p),
           UNCHANGED <<invitations, role, admitted>>, ProcInv(p)',
           \A q \in Procs : PairOK(p, q)' /\ PairOK(q, p)'
    PROVE  IInv'
<1>1. RowsOK'
  BY DEF IInv, RowsOK, Closed
<1>2. ASSUME NEW q \in Procs, q # p PROVE ProcInv(q)'
  <2>1. /\ pc'[q] = pc[q] /\ req'[q] = req[q] /\ ProcInv(q) /\ StepOK(q)
        /\ advisory = q => advisory' = q
        /\ \A i \in Invites : inviteLock[i] = q => inviteLock'[i] = q
    BY <1>2 DEF IInv, Frame, TypeInv
  <2>2. AdvisoryOK(q)' /\ FreshOK(q)' /\ InviterOK(q)' /\ JoinerOK(q)'
    BY <2>1 DEF ProcInv, AdvisoryOK, FreshOK, InviterOK, JoinerOK
  <2>3. CloserOK(q)'
    BY <2>1 DEF ProcInv, CloserOK, Closed, StepOK
  <2> QED BY <2>2, <2>3 DEF ProcInv
<1>3. ASSUME NEW q \in Procs, NEW s \in Procs PROVE PairOK(q, s)'
  BY <1>3 DEF IInv, PairOK, Frame
<1> QED BY <1>1, <1>2, <1>3 DEF IInv

\* A transaction that ends without a commit.
LEMMA EndStep ==
    ASSUME IInv, TypeInv', NEW p \in Procs, End(p), UNCHANGED <<invitations, role, admitted>>
    PROVE  IInv'
  BY EndFrame, Finished, QuietStep DEF IInv

LEMMA ArrivalSafe ==
    ASSUME IInv, TypeInv', NEW p \in Procs, Arrival(p)
    PROVE  IInv'
<1>1. UNCHANGED <<invitations, role, admitted>> /\ Frame(p)
  BY DEF Arrival, CreateTenantInvitation, RevokeTenantInvitation, AcceptTenantInvitation,
         Goto, Frame, IInv, TypeInv, TypeOK
<1>2. CASE CreateTenantInvitation(p)
  <2>1. PICK i \in Invites, c \in Users :
           /\ ~invitations[i].exists
           /\ \A q \in Procs : req[q].op = "create" => req[q].invite # i
           /\ req' = [req EXCEPT ![p] = [op |-> "create", invite |-> i, user |-> c,
                                         expires |-> clock + TTL]]
    BY <1>2 DEF CreateTenantInvitation
  <2>2. pc'[p] = "lock" /\ req'[p].op = "create" /\ req'[p].invite = i
    BY <1>2, <2>1 DEF CreateTenantInvitation, Goto, IInv, TypeInv, TypeOK
  <2>3. ProcInv(p)'
    <3>1. FreshOK(p)'
      BY <1>1, <2>1, <2>2, Zenon DEF FreshOK
    <3>2. AdvisoryOK(p)' /\ InviterOK(p)' /\ CloserOK(p)' /\ JoinerOK(p)'
      BY <2>2 DEF AdvisoryOK, InviterOK, CloserOK, JoinerOK
    <3> QED BY <3>1, <3>2 DEF ProcInv
  <2>4. \A q \in Procs : PairOK(p, q)' /\ PairOK(q, p)'
    BY <1>1, <2>1, <2>2 DEF PairOK, Frame
  <2> QED BY <1>1, <2>3, <2>4, QuietStep
<1>3. CASE RevokeTenantInvitation(p) \/ AcceptTenantInvitation(p)
  <2>1. pc'[p] \in {"find", "lock"} /\ req'[p].op \in {"revoke", "accept"}
        /\ (req'[p].op = "accept" => pc'[p] = "lock")
    BY <1>3 DEF RevokeTenantInvitation, AcceptTenantInvitation, Goto, IInv, TypeInv, TypeOK
  <2>2. ProcInv(p)' /\ \A q \in Procs : PairOK(p, q)' /\ PairOK(q, p)'
    BY <2>1 DEF ProcInv, AdvisoryOK, FreshOK, InviterOK, CloserOK, JoinerOK, PairOK
  <2> QED BY <1>1, <2>2, QuietStep
<1> QED BY <1>2, <1>3 DEF Arrival

\* A statement that keeps its request and writes no table.
LEMMA StepOn ==
    ASSUME IInv, TypeInv', NEW p \in Procs, NEW step, Goto(p, step),
           UNCHANGED <<invitations, role, admitted, req>>, ProcInv(p)',
           \A q \in Procs \ {p} : /\ advisory = q => advisory' = q
                                  /\ \A i \in Invites : inviteLock[i] = q => inviteLock'[i] = q
    PROVE  IInv'
<1>1. Frame(p)
  BY DEF IInv, TypeInv, TypeOK, Goto, Frame
<1>2. \A q \in Procs : PairOK(p, q)' /\ PairOK(q, p)'
  BY DEF IInv, PairOK
<1> QED BY <1>1, <1>2, QuietStep

LEMMA StatementSafe ==
    ASSUME IInv, TypeInv', NEW p \in Procs, Statement(p), ~Commit(p)
    PROVE  IInv'
<1>a. /\ ProcInv(p) /\ StepOK(p) /\ pc \in [Procs -> Steps]
      /\ inviteLock \in [Invites -> Procs \cup {NoProc}]
  BY DEF IInv, TypeInv, TypeOK
<1>b. ASSUME End(p), UNCHANGED <<invitations, role, admitted>> PROVE IInv'
  BY <1>b, EndStep
<1>c. ASSUME NEW step, Goto(p, step) PROVE pc'[p] = step
  BY <1>a, <1>c DEF Goto
<1> USE DEF AdvisoryOK, FreshOK, InviterOK, CloserOK, JoinerOK, StepOK
<1>1. CASE LockTenantMemberships(p)
  <2>1. /\ pc'[p] = (IF req[p].op = "create" THEN "require" ELSE "find") /\ advisory' = p
        /\ UNCHANGED <<invitations, role, admitted, req, inviteLock>> /\ advisory = NoProc
    BY <1>1, <1>c DEF LockTenantMemberships
  <2>2. ProcInv(p)'
    BY <2>1, <1>a DEF ProcInv
  <2> QED BY <1>1, <2>1, <2>2, StepOn, InvitationsAssumption DEF LockTenantMemberships
<1>2. CASE Require(p)
  <2>1. CASE Goto(p, "fk") /\ Grants(role[req[p].user], ScopeTenantWrite)
               /\ UNCHANGED <<req, advisory, inviteLock>>
    <3>1. /\ pc[p] = "require" /\ pc'[p] = "fk"
          /\ UNCHANGED <<invitations, role, admitted, req, advisory, inviteLock>>
      BY <1>2, <2>1, <1>c DEF Require
    <3>2. ProcInv(p)'
      BY <3>1, <2>1, <1>a DEF ProcInv
    <3> QED BY <2>1, <3>1, <3>2, StepOn
  <2> QED BY <1>2, <2>1, <1>b DEF Require
<1>3. CASE FindInvitation(p)
  <2>1. CASE invitations[req[p].invite].exists
    <3>1. /\ pc[p] = "find" /\ pc'[p] = "close" /\ req[p].invite \in Invites
          /\ inviteLock[req[p].invite] \in {NoProc, p}
          /\ inviteLock' = [inviteLock EXCEPT ![req[p].invite] = p]
          /\ UNCHANGED <<invitations, role, admitted, req, advisory>>
      BY <1>3, <2>1, <1>a, <1>c DEF FindInvitation
    <3>2. ProcInv(p)'
      BY <3>1, <2>1, <1>a DEF ProcInv, Closed
    <3>3. \A q \in Procs \ {p} : \A i \in Invites : inviteLock[i] = q => inviteLock'[i] = q
      BY <3>1, <1>a, InvitationsAssumption
    <3> QED BY <1>3, <2>1, <3>1, <3>2, <3>3, StepOn DEF FindInvitation
  <2> QED BY <1>3, <2>1, <1>b DEF FindInvitation
<1>4. CASE CloseInvitation(p)
  <2>1. CASE End(p)
    BY <1>4, <2>1, <1>b DEF CloseInvitation
  <2>2. CASE ~End(p)
    <3>1. /\ pc[p] = "close" /\ pc'[p] = (IF req[p].op = "accept" THEN "join" ELSE "mark")
          /\ Open(req[p].invite, clock)
          /\ UNCHANGED <<invitations, role, admitted, req, advisory, inviteLock>>
      BY <1>4, <2>2, <1>c DEF CloseInvitation
    <3>2. ~Closed(req[p].invite)
      BY <3>1 DEF Open, Closed
    <3>3. ProcInv(p)'
      BY <3>1, <3>2, <1>a DEF ProcInv, Closed
    <3> QED BY <1>4, <2>2, <3>1, <3>3, StepOn DEF CloseInvitation
  <2> QED BY <2>1, <2>2
<1>5. CASE InsertMembership(p)
  <2>1. CASE role[req[p].user] = NoRole
    <3>1. /\ pc[p] = "join" /\ pc'[p] = "fk"
          /\ UNCHANGED <<invitations, role, admitted, req, advisory, inviteLock>>
      BY <1>5, <2>1, <1>c DEF InsertMembership
    <3>2. ProcInv(p)'
      BY <3>1, <2>1, <1>a DEF ProcInv, Closed
    <3> QED BY <1>5, <2>1, <3>1, <3>2, StepOn DEF InsertMembership
  <2> QED BY <1>5, <2>1, <1>b DEF InsertMembership
<1>6. CASE CheckTenantKey(p)
  <2>1. /\ pc[p] = "fk" /\ pc'[p] = (IF req[p].op = "accept" THEN "mark" ELSE "commit")
        /\ UNCHANGED <<invitations, role, admitted, req, advisory, inviteLock>>
    BY <1>6, <1>c DEF CheckTenantKey
  <2>2. ProcInv(p)'
    BY <2>1, <1>a DEF ProcInv, Closed
  <2> QED BY <1>6, <2>1, <2>2, StepOn DEF CheckTenantKey
<1>7. CASE MarkInvitation(p)
  <2>1. CASE ~End(p)
    <3>1. /\ pc[p] = "mark" /\ pc'[p] = "commit" /\ Goto(p, "commit")
          /\ UNCHANGED <<invitations, role, admitted, req, advisory, inviteLock>>
      BY <1>7, <2>1, <1>c DEF MarkInvitation
    <3>2. ProcInv(p)'
      BY <3>1, <1>a DEF ProcInv, Closed
    <3> QED BY <3>1, <3>2, StepOn
  <2> QED BY <1>7, <2>1, <1>b DEF MarkInvitation
<1> QED BY <1>1, <1>2, <1>3, <1>4, <1>5, <1>6, <1>7 DEF Statement

\* What a commit does to the tables: one row, and for an acceptance the bearer's
\* role and the history of that row.
LEMMA Committed ==
    ASSUME IInv, NEW p \in Procs, Commit(p)
    PROVE  /\ req[p].invite \in Invites
           /\ RowWritten(req[p], invitations[req[p].invite], invitations'[req[p].invite])
           /\ \A i \in Invites \ {req[p].invite} : invitations'[i] = invitations[i]
                                                   /\ admitted'[i] = admitted[i]
           /\ req[p].op # "accept" => UNCHANGED <<role, admitted>>
           /\ req[p].op = "accept" =>
                 /\ req[p].user \in Users /\ role'[req[p].user] = "staff"
                 /\ \A u \in Users \ {req[p].user} : role'[u] = role[u]
                 /\ admitted'[req[p].invite] = admitted[req[p].invite] \cup {req[p].user}
<1>1. TypeInv /\ pc[p] = "commit" /\ StepOK(p)
  BY DEF IInv, Commit, TypeInv
<1>2. /\ req[p].invite \in Invites
      /\ RowWritten(req[p], invitations[req[p].invite], RowAfter(req[p]))
  BY <1>1, RowAfterType
<1>3. invitations'[req[p].invite] = RowAfter(req[p])
  BY <1>1, <1>2 DEF Commit, TypeInv, TypeOK
<1>4. RowWritten(req[p], invitations[req[p].invite], invitations'[req[p].invite])
  BY <1>2, <1>3, Zenon
<1>5. \A i \in Invites \ {req[p].invite} : invitations'[i] = invitations[i]
                                           /\ admitted'[i] = admitted[i]
  BY <1>1, <1>2 DEF Commit, TypeInv, TypeOK
<1>6. req[p].op # "accept" => UNCHANGED <<role, admitted>>
  BY DEF Commit
<1>7. ASSUME req[p].op = "accept"
      PROVE  /\ req[p].user \in Users /\ role'[req[p].user] = "staff"
             /\ \A u \in Users \ {req[p].user} : role'[u] = role[u]
             /\ admitted'[req[p].invite] = admitted[req[p].invite] \cup {req[p].user}
  BY <1>1, <1>2, <1>7 DEF Commit, TypeInv, TypeOK, StepOK
<1> QED BY <1>2, <1>4, <1>5, <1>6, <1>7

\* A request that issues an id and a transaction that closes a row, or two
\* transactions that close one, are never about the same row; and of those that
\* hold the advisory lock there is one.
LEMMA CommitOfOthers ==
    ASSUME IInv, NEW p \in Procs, NEW q \in Procs, q # p, pc[p] = "commit"
    PROVE  /\ req[q].op = "create" => req[q].invite # req[p].invite
           /\ req[q].op \in {"revoke", "accept"}
                /\ pc[q] \in {"close", "join", "fk", "mark", "commit"}
                 => req[q].invite # req[p].invite
           /\ req[p].op = "accept" /\ req[q].op \in {"create", "accept"}
                 => pc[q] \in {"idle", "lock"}
<1>1. ProcInv(p) /\ ProcInv(q) /\ PairOK(p, q) /\ StepOK(p)
  BY DEF IInv, TypeInv
<1>2. /\ req[p].op \in {"create", "revoke", "accept"}
      /\ req[p].op = "create" => ~invitations[req[p].invite].exists
      /\ req[p].op # "create" => /\ invitations[req[p].invite].exists
                                 /\ inviteLock[req[p].invite] = p
  BY <1>1 DEF ProcInv, FreshOK, CloserOK, StepOK
<1>3. req[q].op = "create" => req[q].invite # req[p].invite
  BY <1>1, <1>2 DEF ProcInv, FreshOK, PairOK
<1>4. req[q].op \in {"revoke", "accept"} /\ pc[q] \in {"close", "join", "fk", "mark", "commit"}
        => req[q].invite # req[p].invite
  BY <1>1, <1>2 DEF ProcInv, CloserOK
<1>5. req[p].op = "accept" /\ req[q].op \in {"create", "accept"} => pc[q] \in {"idle", "lock"}
  BY <1>1 DEF ProcInv, AdvisoryOK
<1> QED BY <1>3, <1>4, <1>5

LEMMA CommitSafe ==
    ASSUME IInv, TypeInv', NEW p \in Procs, Commit(p)
    PROVE  IInv'
<1> DEFINE i == req[p].invite
<1>1. /\ TypeInv /\ RowsOK /\ ProcInv(p) /\ StepOK(p) /\ pc[p] = "commit" /\ End(p)
  BY DEF IInv, TypeInv, Commit
<1>2. Frame(p) /\ pc'[p] = "idle" /\ req'[p] = NoReq /\ req'[p].op = "none"
  BY <1>1, EndFrame
<1>3. RowsOK'
  <2>1. i \in Invites /\ admitted[i] = {invitations[i].acceptedBy} \ {NoUser}
    BY <1>1, Committed DEF RowsOK
  <2>a. ASSUME admitted'[i] = {invitations'[i].acceptedBy} \ {NoUser}, invitations'[i].exists,
               ~invitations'[i].revoked \/ invitations'[i].acceptedBy = NoUser
        PROVE  RowsOK'
    BY <1>1, <2>1, <2>a, Committed DEF RowsOK, Closed
  <2>2. CASE req[p].op = "create"
    <3>1. /\ invitations'[i].exists /\ invitations'[i].acceptedBy = NoUser
          /\ ~invitations'[i].revoked /\ admitted'[i] = admitted[i]
      BY <2>1, <2>2, Committed DEF RowWritten
    <3>2. invitations[i].acceptedBy = NoUser
      BY <1>1, <2>1, <2>2 DEF RowsOK, ProcInv, FreshOK, Closed
    <3> QED BY <2>1, <2>a, <3>1, <3>2
  <2>3. CASE req[p].op = "revoke"
    <3>1. /\ invitations'[i].exists = invitations[i].exists
          /\ invitations'[i].acceptedBy = invitations[i].acceptedBy /\ admitted'[i] = admitted[i]
      BY <2>1, <2>3, Committed DEF RowWritten
    <3>2. invitations[i].exists /\ invitations[i].acceptedBy = NoUser
      BY <1>1, <2>3 DEF ProcInv, CloserOK, Closed
    <3>3. invitations'[i].exists
      BY <3>1, <3>2, Zenon
    <3> QED BY <2>1, <2>a, <3>1, <3>2, <3>3
  <2>4. CASE req[p].op = "accept"
    <3>1. /\ invitations'[i].exists = invitations[i].exists
          /\ invitations'[i].acceptedBy = req[p].user /\ req[p].user \in Users
          /\ invitations'[i].revoked = invitations[i].revoked
          /\ admitted'[i] = admitted[i] \cup {req[p].user}
      BY <2>1, <2>4, Committed DEF RowWritten
    <3>2. invitations[i].exists /\ invitations[i].acceptedBy = NoUser /\ ~invitations[i].revoked
      BY <1>1, <2>4 DEF ProcInv, CloserOK, Closed
    <3>3. invitations'[i].exists /\ ~invitations'[i].revoked
      BY <3>1, <3>2, Zenon
    <3>4. admitted'[i] = {invitations'[i].acceptedBy} \ {NoUser}
      BY <2>1, <3>1, <3>2, InvitationsAssumption
    <3> QED BY <2>a, <3>3, <3>4
  <2> QED BY <1>1, <2>2, <2>3, <2>4 DEF StepOK
<1>4. ASSUME NEW q \in Procs, q # p PROVE ProcInv(q)'
  <2>1. /\ pc'[q] = pc[q] /\ req'[q] = req[q] /\ ProcInv(q) /\ StepOK(q)
        /\ advisory = q => advisory' = q
        /\ \A j \in Invites : inviteLock[j] = q => inviteLock'[j] = q
    BY <1>2, <1>4 DEF IInv, Frame, TypeInv
  <2>2. AdvisoryOK(q)'
    BY <2>1 DEF ProcInv, AdvisoryOK
  <2>3. FreshOK(q)'
    BY <1>1, <1>4, <2>1, Committed, CommitOfOthers DEF ProcInv, FreshOK, StepOK, NoReq
  <2>4. InviterOK(q)' /\ JoinerOK(q)'
    BY <1>1, <1>4, <2>1, Committed, CommitOfOthers DEF ProcInv, InviterOK, JoinerOK
  <2>5. CloserOK(q)'
    BY <1>1, <1>4, <2>1, Committed, CommitOfOthers DEF ProcInv, CloserOK, Closed, StepOK
  <2> QED BY <2>2, <2>3, <2>4, <2>5 DEF ProcInv
<1>5. ProcInv(p)' /\ \A q \in Procs : PairOK(p, q)' /\ PairOK(q, p)'
  BY <1>2, Finished
<1>6. ASSUME NEW q \in Procs, NEW s \in Procs PROVE PairOK(q, s)'
  BY <1>2, <1>5, <1>6 DEF IInv, PairOK, Frame
<1> QED BY <1>3, <1>4, <1>5, <1>6 DEF IInv

\* The other writes of the tenant change roles, but not those an open
\* transaction has read.
LEMMA EnvironmentSafe ==
    ASSUME IInv, TypeInv', Environment \/ UNCHANGED vars
    PROVE  IInv'
<1>a. ASSUME UNCHANGED <<invitations, advisory, inviteLock, local, admitted>>,
             \A p \in Procs : InviterOK(p)' /\ JoinerOK(p)'
      PROVE  IInv'
  <2>1. RowsOK' /\ \A p, q \in Procs : PairOK(p, q)'
    BY <1>a DEF IInv, RowsOK, Closed, PairOK, local
  <2>2. ASSUME NEW p \in Procs PROVE AdvisoryOK(p)' /\ FreshOK(p)' /\ CloserOK(p)'
    BY <1>a, <2>2 DEF IInv, ProcInv, AdvisoryOK, FreshOK, CloserOK, Closed, local
  <2> QED BY <1>a, <2>1, <2>2 DEF IInv, ProcInv
<1>1. ASSUME NEW u \in Users, RemoveOrDemote(u) PROVE IInv'
  <2>1. ASSUME NEW p \in Procs PROVE InviterOK(p)' /\ JoinerOK(p)'
    <3>1. /\ ProcInv(p) /\ StepOK(p) /\ advisory = NoProc /\ ~InviterLocked(u)
          /\ UNCHANGED <<pc, req>> /\ \A v \in Users \ {u} : role'[v] = role[v]
      BY <1>1, <2>1 DEF RemoveOrDemote, local, IInv, TypeInv, TypeOK
    <3>2. InviterOK(p)'
      BY <3>1 DEF ProcInv, InviterOK, InviterLocked, StepOK
    <3>3. JoinerOK(p)'
      BY <3>1, InvitationsAssumption DEF ProcInv, JoinerOK, AdvisoryOK
    <3> QED BY <3>2, <3>3
  <2> QED BY <1>1, <1>a, <2>1 DEF RemoveOrDemote
<1>2. ASSUME NEW u \in Users, AddMember(u) PROVE IInv'
  <2>1. ASSUME NEW p \in Procs PROVE InviterOK(p)' /\ JoinerOK(p)'
    <3>1. /\ ProcInv(p) /\ StepOK(p) /\ role[u] = NoRole /\ ~JoiningUser(u)
          /\ UNCHANGED <<pc, req>> /\ \A v \in Users \ {u} : role'[v] = role[v]
      BY <1>2, <2>1 DEF AddMember, local, IInv, TypeInv, TypeOK
    <3>2. ~Grants(role[u], ScopeTenantWrite)
      BY <3>1 DEF Grants, NoRole
    <3>3. InviterOK(p)'
      BY <3>1, <3>2 DEF ProcInv, InviterOK, StepOK
    <3>4. JoinerOK(p)'
      BY <3>1 DEF ProcInv, JoinerOK, JoiningUser, StepOK
    <3> QED BY <3>3, <3>4
  <2> QED BY <1>2, <1>a, <2>1 DEF AddMember
<1>3. CASE ArchiveTenant \/ Tick \/ UNCHANGED vars
  <2>1. UNCHANGED <<invitations, role, advisory, inviteLock, local, admitted>>
    BY <1>3 DEF ArchiveTenant, Tick, vars
  <2>2. \A p \in Procs : InviterOK(p)' /\ JoinerOK(p)'
    BY <2>1 DEF IInv, ProcInv, InviterOK, JoinerOK, local
  <2> QED BY <2>1, <2>2, <1>a
<1> QED BY <1>1, <1>2, <1>3 DEF Environment

LEMMA SafeInit == Init => IInv
<1> SUFFICES ASSUME Init PROVE IInv
  OBVIOUS
<1>1. TypeInv
  BY TypeInit
<1>2. ASSUME NEW p \in Procs PROVE pc[p] = "idle" /\ req[p].op = "none"
  BY <1>2 DEF Init, NoReq
<1>3. ASSUME NEW p \in Procs PROVE ProcInv(p) /\ \A q \in Procs : PairOK(p, q)
  BY <1>2, <1>3 DEF ProcInv, AdvisoryOK, FreshOK, InviterOK, CloserOK, JoinerOK, PairOK
<1>4. ASSUME NEW i \in Invites
      PROVE  invitations[i].acceptedBy = NoUser /\ ~invitations[i].revoked /\ admitted[i] = {}
  <2>1. invitations[i] = NoInvite /\ admitted[i] = {}
    BY <1>4 DEF Init
  <2> QED BY <2>1 DEF NoInvite
<1>5. RowsOK
  BY <1>4 DEF RowsOK, Closed
<1> QED BY <1>1, <1>3, <1>5 DEF IInv

LEMMA SafeStep == IInv /\ [Next]_vars => IInv'
<1> SUFFICES ASSUME IInv, [Next]_vars PROVE IInv'
  OBVIOUS
<1>1. TypeInv'
  BY TypeStep DEF IInv
<1>2. ASSUME NEW p \in Procs, Rollback(p) PROVE IInv'
  BY <1>1, <1>2, EndStep DEF Rollback
<1>3. ASSUME NEW p \in Procs, Statement(p) PROVE IInv'
  BY <1>1, <1>3, StatementSafe, CommitSafe
<1> QED BY <1>1, <1>2, <1>3, ArrivalSafe, EnvironmentSafe DEF Next

LEMMA Safe == Spec => []IInv
  BY SafeInit, SafeStep, PTL DEF Spec

\* Acceptances, revocations and a bearer who left and tries the token again race,
\* and still an invitation brings in at most the person its row names; a revoked
\* one brings in nobody (AcceptTenantInvitation, RevokeTenantInvitation).
THEOREM AdmitsOnceAlways == Spec => []AdmitsOnce
<1>1. IInv => AdmitsOnce
  BY DEF IInv, RowsOK, AdmitsOnce
<1> QED BY <1>1, Safe, PTL

\* When CreateTenantInvitation commits its inviter may write the tenant: the
\* membership Authorizer.Require read is still there and still grants it.
THEOREM InviterMayWriteAlways == Spec => []InviterMayWrite
<1>1. IInv => InviterMayWrite
  BY DEF IInv, ProcInv, InviterOK, InviterMayWrite
<1> QED BY <1>1, Safe, PTL

\* Nobody but a commit writes a row, and it writes its own.
LEMMA OnlyCommitWrites ==
    ASSUME Next, NEW i \in Invites, invitations'[i] # invitations[i]
    PROVE  \E p \in Procs : Commit(p)
<1>1. ASSUME Environment PROVE FALSE
  BY <1>1 DEF Environment, RemoveOrDemote, AddMember, ArchiveTenant, Tick
<1>2. ASSUME NEW p \in Procs, Arrival(p) \/ Rollback(p) PROVE FALSE
  BY <1>2 DEF Arrival, CreateTenantInvitation, RevokeTenantInvitation,
              AcceptTenantInvitation, Rollback
<1>3. ASSUME NEW p \in Procs, Statement(p) PROVE Commit(p)
  BY <1>3 DEF Statement, LockTenantMemberships, Require, FindInvitation, CloseInvitation,
              InsertMembership, CheckTenantKey, MarkInvitation
<1> QED BY <1>1, <1>2, <1>3 DEF Next

\* A token is spent by the commit that makes its bearer a member and by nothing
\* else: a bearer who belongs to the tenant already does not spend it.
THEOREM SpentByJoining == Spec => SpentOnlyByJoining
<1> DEFINE Spent == \A i \in Invites :
                       LET u == invitations'[i].acceptedBy IN
                       u # invitations[i].acceptedBy => role[u] = NoRole /\ role'[u] = "staff"
<1>1. ASSUME IInv, [Next]_vars PROVE [Spent]_vars
  <2> SUFFICES ASSUME Next, NEW i \in Invites,
                      invitations'[i].acceptedBy # invitations[i].acceptedBy
               PROVE  /\ role[invitations'[i].acceptedBy] = NoRole
                      /\ role'[invitations'[i].acceptedBy] = "staff"
    BY <1>1
  <2>1. PICK p \in Procs : Commit(p)
    BY OnlyCommitWrites
  <2>2. i = req[p].invite /\ RowWritten(req[p], invitations[i], invitations'[i])
    BY <1>1, <2>1, Committed
  <2>3. ProcInv(p) /\ StepOK(p) /\ pc[p] = "commit"
    BY <1>1, <2>1 DEF IInv, TypeInv, Commit
  <2>4. req[p].op # "revoke"
    BY <2>2 DEF RowWritten
  <2>5. req[p].op # "create"
    BY <1>1, <2>2, <2>3 DEF RowWritten, ProcInv, FreshOK, IInv, RowsOK, Closed
  <2>6. req[p].op = "accept" /\ invitations'[i].acceptedBy = req[p].user
    BY <2>2, <2>3, <2>4, <2>5 DEF RowWritten, StepOK
  <2>7. role[req[p].user] = NoRole
    BY <2>3, <2>6 DEF ProcInv, JoinerOK
  <2>8. role'[req[p].user] = "staff"
    BY <1>1, <2>1, <2>6, Committed
  <2> QED BY <2>6, <2>7, <2>8
<1> QED BY <1>1, Safe, PTL DEF Spec, SpentOnlyByJoining

\* Nothing writes to an accepted or revoked invitation again, and one that left
\* the list ListOpenInvitations returns never comes back to it.
THEOREM ClosedStaysClosed == Spec => ClosedForGood
<1> DEFINE Kept == \A i \in Invites : invitations[i].exists =>
                      /\ invitations[i].acceptedBy # NoUser \/ invitations[i].revoked
                            => invitations'[i] = invitations[i]
                      /\ i \notin ListTenantInvitations => i \notin ListTenantInvitations'
<1>1. ASSUME IInv, [Next]_vars PROVE [Kept]_vars
  <2> SUFFICES ASSUME Next, NEW i \in Invites, invitations[i].exists
               PROVE  /\ Closed(i) => invitations'[i] = invitations[i]
                      /\ i \notin ListTenantInvitations => i \notin ListTenantInvitations'
    BY <1>1 DEF Closed
  <2>1. clock' >= clock /\ clock \in Nat /\ clock' \in Nat
    <3>1. clock \in Nat /\ clock' \in Nat
      BY <1>1, SafeStep DEF IInv, TypeInv, TypeOK
    <3>2. clock' = clock \/ clock' = clock + 1
      BY DEF Next, Environment, RemoveOrDemote, AddMember, ArchiveTenant, Tick, Arrival,
             CreateTenantInvitation, RevokeTenantInvitation, AcceptTenantInvitation, Rollback,
             Statement, LockTenantMemberships, Require, FindInvitation, CloseInvitation,
             InsertMembership, CheckTenantKey, MarkInvitation, Commit
    <3> QED BY <3>1, <3>2
  <2>2. CASE invitations'[i] = invitations[i]
    <3>1. invitations[i].expires \in Nat
      BY <1>1, InvitationsAssumption DEF IInv, TypeInv, TypeOK, Rows
    <3> QED BY <2>1, <2>2, <3>1 DEF ListTenantInvitations
  <2>3. CASE invitations'[i] # invitations[i]
    <3>1. PICK p \in Procs : Commit(p)
      BY <2>3, OnlyCommitWrites
    <3>2. i = req[p].invite /\ RowWritten(req[p], invitations[i], invitations'[i])
      BY <1>1, <2>3, <3>1, Committed
    <3>3. ProcInv(p) /\ StepOK(p) /\ pc[p] = "commit"
      BY <1>1, <3>1 DEF IInv, TypeInv, Commit
    <3>4. req[p].op \in {"revoke", "accept"}
      BY <3>2, <3>3 DEF ProcInv, FreshOK, StepOK
    <3>5. ~Closed(i)
      BY <3>2, <3>3, <3>4 DEF ProcInv, CloserOK
    <3>6. invitations'[i].acceptedBy # NoUser \/ invitations'[i].revoked
      <4>1. CASE req[p].op = "accept"
        BY <3>2, <3>3, <4>1, InvitationsAssumption DEF RowWritten, StepOK
      <4>2. CASE req[p].op = "revoke"
        BY <3>2, <4>2 DEF RowWritten
      <4> QED BY <3>4, <4>1, <4>2
    <3> QED BY <3>5, <3>6 DEF ListTenantInvitations
  <2> QED BY <2>2, <2>3
<1> QED BY <1>1, Safe, PTL DEF Spec, ClosedForGood
=============================================================================

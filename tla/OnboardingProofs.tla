-------------------------- MODULE OnboardingProofs ---------------------------
(* Theorems about Onboarding, for any sets of tenants, users, names and
   requests: each tenant has one owner or none, names are unique and stay where
   they are, no registration is swept before its deadline, and the statements
   implement the atomic TenantRegistry.                                       *)
EXTENDS Onboarding, FiniteSetTheorems, TLAPS

----------------------------------------------------------------------------
(* The inductive invariant *)

StartSteps == {"sweep", "visit", "insert"}
ClaimSteps == {"find", "verify", "addOwner", "mark", "commit"}

\* Which requests are at which statement.
StepOK(p) ==
    /\ pc[p] \in StartSteps => req[p].op = "start" /\ req[p].tenant \in Tenants
    /\ pc[p] \in ClaimSteps =>
          /\ req[p].op = "claim" /\ req[p].tenant \in Tenants
          /\ req[p].user \in Users /\ req[p].subdomain \in Subdomains
    /\ pc[p] = "idle" => req[p] = NoReq

TypeInv == TypeOK /\ \A p \in Procs : StepOK(p)

\* An owned tenant has one owner, and only an owned tenant has a name.
RowsOK ==
    \A t \in Tenants :
       /\ tenants[t].state = "owned" => \E u \in Users : owners[t] = {u}
       /\ tenants[t].state # "owned" => owners[t] = {} /\ tenants[t].subdomain = NoSubdomain

NamesUnique ==
    \A t, k \in Tenants :
       tenants[t].subdomain = tenants[k].subdomain =>
          t = k \/ tenants[t].subdomain = NoSubdomain

\* The id of a registration is still free, and its time is not ahead.
StartOK(p) ==
    /\ pc[p] \in StartSteps => tenants[req[p].tenant] = Absent
    /\ now[p] <= clock

\* What a sweep is about to delete is locked, pending and past its deadline.
DoomedOK(p) ==
    \A t \in doomed[p] :
       /\ pc[p] = "visit" /\ rowLock[t] = p
       /\ tenants[t].state = "pending" /\ tenants[t].expires <= now[p]

\* A claim holds the row it was judged on, and the name it wrote is free.
ClaimOK(p) ==
    /\ pc[p] \in {"verify", "addOwner", "mark", "commit"} => rowLock[req[p].tenant] = p
    /\ pc[p] \in {"addOwner", "mark", "commit"} => tenants[req[p].tenant].state = "pending"
    /\ pc[p] = "commit" => \A t \in Tenants : tenants[t].subdomain # req[p].subdomain

\* No two registrations have one id, and no two claims about to commit one name.
PairOK(p, q) ==
    p # q =>
       /\ pc[p] \in StartSteps /\ pc[q] \in StartSteps => req[p].tenant # req[q].tenant
       /\ pc[p] = "commit" /\ pc[q] = "commit" => req[p].subdomain # req[q].subdomain

IInv ==
    /\ TypeInv /\ RowsOK /\ NamesUnique
    /\ \A p \in Procs : StartOK(p) /\ DoomedOK(p) /\ ClaimOK(p)
    /\ \A p, q \in Procs : PairOK(p, q)

----------------------------------------------------------------------------
(* Types *)

\* The end of a request, in either way, leaves typed locals behind.
LEMMA EndType ==
    ASSUME TypeInv, NEW p \in Procs, End(p),
           tenants' \in [Tenants -> Rows], owners' \in [Tenants -> SUBSET Users],
           clock' \in 0 .. MaxTime
    PROVE  TypeInv'
<1>1. TypeOK'
  BY OnboardingAssumption DEF TypeInv, TypeOK, End, Goto, Steps
<1>2. \A q \in Procs : StepOK(q)'
  BY DEF TypeInv, TypeOK, StepOK, End, Goto, StartSteps, ClaimSteps
<1> QED BY <1>1, <1>2 DEF TypeInv

LEMMA ArrivalType ==
    ASSUME TypeInv, NEW p \in Procs, Arrival(p)
    PROVE  TypeInv'
<1>1. CASE StartTenantRegistration(p)
  <2>1. TypeOK'
    BY <1>1 DEF StartTenantRegistration, Goto, TypeInv, TypeOK, Steps, Requests
  <2>2. \A q \in Procs : StepOK(q)'
    BY <1>1 DEF StartTenantRegistration, Goto, TypeInv, TypeOK, StepOK, StartSteps, ClaimSteps
  <2> QED BY <2>1, <2>2 DEF TypeInv
<1>2. CASE ClaimTenantOwnership(p)
  <2>1. TypeOK'
    BY <1>2 DEF ClaimTenantOwnership, Goto, TypeInv, TypeOK, Steps, Requests
  <2>2. \A q \in Procs : StepOK(q)'
    BY <1>2 DEF ClaimTenantOwnership, Goto, TypeInv, TypeOK, StepOK, StartSteps, ClaimSteps
  <2> QED BY <2>1, <2>2 DEF TypeInv
<1> QED BY <1>1, <1>2 DEF Arrival

\* A statement moves its own request on, or ends it.
LEMMA StatementType ==
    ASSUME TypeInv, NEW p \in Procs, Statement(p)
    PROVE  TypeInv'
<1>a. /\ tenants \in [Tenants -> Rows] /\ owners \in [Tenants -> SUBSET Users]
      /\ clock \in 0 .. MaxTime /\ StepOK(p)
  BY DEF TypeInv, TypeOK
<1>b. ASSUME End(p), UNCHANGED <<tenants, owners, clock>> PROVE TypeInv'
  BY <1>a, <1>b, EndType
<1>c. ASSUME NEW step \in ClaimSteps, pc[p] \in ClaimSteps, Goto(p, step),
             UNCHANGED <<tenants, owners, clock, req, now, todo, doomed>>,
             rowLock' \in [Tenants -> Procs \cup {NoProc}]
      PROVE  TypeInv'
  <2>1. TypeOK'
    BY <1>c DEF Goto, TypeInv, TypeOK, Steps, ClaimSteps
  <2>2. \A q \in Procs : StepOK(q)'
    BY <1>c DEF Goto, TypeInv, TypeOK, StepOK, StartSteps, ClaimSteps
  <2> QED BY <2>1, <2>2 DEF TypeInv
<1>1. CASE DeleteExpiredPendingTenants(p)
  <2>1. TypeOK'
    BY <1>1 DEF DeleteExpiredPendingTenants, Goto, TypeInv, TypeOK, Steps
  <2>2. \A q \in Procs : StepOK(q)'
    BY <1>1 DEF DeleteExpiredPendingTenants, Goto, TypeInv, TypeOK, StepOK, StartSteps, ClaimSteps
  <2> QED BY <2>1, <2>2 DEF TypeInv
<1>2. CASE VisitRow(p)
  <2>1. TypeOK'
    BY <1>2 DEF VisitRow, TypeInv, TypeOK
  <2>2. \A q \in Procs : StepOK(q)'
    BY <1>2 DEF VisitRow, TypeInv, TypeOK, StepOK
  <2> QED BY <2>1, <2>2 DEF TypeInv
<1>3. CASE CommitSweep(p)
  <2>1. Gone \in Rows
    BY OnboardingAssumption DEF Gone, Absent, Rows
  <2>2. TypeOK'
    BY <1>3, <2>1 DEF CommitSweep, Goto, TypeInv, TypeOK, Steps
  <2>3. \A q \in Procs : StepOK(q)'
    BY <1>3 DEF CommitSweep, Goto, TypeInv, TypeOK, StepOK, StartSteps, ClaimSteps
  <2> QED BY <2>2, <2>3 DEF TypeInv
<1>4. CASE CreatePendingTenant(p)
  <2>1. now[p] + TTL \in 0 .. MaxTime + TTL
    BY OnboardingAssumption DEF TypeInv, TypeOK
  <2>2. [state |-> "pending", expires |-> now[p] + TTL, subdomain |-> NoSubdomain] \in Rows
    BY <2>1 DEF Rows
  <2>3. tenants' \in [Tenants -> Rows]
    BY <1>4, <1>a, <2>2 DEF CreatePendingTenant
  <2> QED BY <1>4, <1>a, <2>3, EndType DEF CreatePendingTenant
<1>5. CASE FindTenantForUpdate(p)
  <2>1. CASE Exists(req[p].tenant)
    <3>1. rowLock' \in [Tenants -> Procs \cup {NoProc}]
      BY <1>5, <2>1 DEF FindTenantForUpdate, TypeInv, TypeOK
    <3> QED BY <1>5, <2>1, <3>1, <1>c DEF FindTenantForUpdate, ClaimSteps
  <2> QED BY <1>5, <2>1, <1>b DEF FindTenantForUpdate
<1>6. CASE VerifyClaim(p)
  <2>1. CASE ~End(p)
    BY <1>6, <2>1, <1>c DEF VerifyClaim, ClaimSteps, TypeInv, TypeOK
  <2> QED BY <1>6, <2>1, <1>b DEF VerifyClaim
<1>7. CASE AddOwner(p)
  <2>1. CASE ~End(p)
    BY <1>7, <2>1, <1>c DEF AddOwner, ClaimSteps, TypeInv, TypeOK
  <2> QED BY <1>7, <2>1, <1>b DEF AddOwner
<1>8. CASE MarkTenantOwned(p)
  <2>1. CASE ~End(p)
    <3>1. rowLock' \in [Tenants -> Procs \cup {NoProc}]
      BY <1>8, <2>1 DEF MarkTenantOwned, TypeInv, TypeOK
    <3> QED BY <1>8, <2>1, <3>1, <1>c DEF MarkTenantOwned, ClaimSteps
  <2> QED BY <1>8, <2>1, <1>b DEF MarkTenantOwned
<1>9. CASE CommitClaim(p)
  <2>1. /\ req[p].subdomain \in Subdomains /\ req[p].user \in Users
    BY <1>9, <1>a DEF CommitClaim, StepOK, ClaimSteps
  <2>2. [state |-> "owned", expires |-> 0, subdomain |-> req[p].subdomain] \in Rows
    BY <2>1, OnboardingAssumption DEF Rows
  <2>3. tenants' \in [Tenants -> Rows] /\ owners' \in [Tenants -> SUBSET Users]
    BY <1>9, <1>a, <2>1, <2>2 DEF CommitClaim
  <2> QED BY <1>9, <1>a, <2>3, EndType DEF CommitClaim
<1> QED
  BY <1>1, <1>2, <1>3, <1>4, <1>5, <1>6, <1>7, <1>8, <1>9 DEF Statement

LEMMA TypeStep == TypeInv /\ [Next]_vars => TypeInv'
<1> SUFFICES ASSUME TypeInv, [Next]_vars PROVE TypeInv'
  OBVIOUS
<1>1. CASE Tick
  <2>1. TypeOK'
    BY <1>1, OnboardingAssumption DEF Tick, local, TypeInv, TypeOK
  <2>2. \A p \in Procs : StepOK(p)'
    BY <1>1 DEF Tick, local, TypeInv, StepOK
  <2> QED BY <2>1, <2>2 DEF TypeInv
<1>2. ASSUME NEW p \in Procs, Abort(p) PROVE TypeInv'
  BY <1>2, EndType DEF Abort, TypeInv, TypeOK
<1>3. CASE UNCHANGED vars
  BY <1>3 DEF vars, local, TypeInv, TypeOK, StepOK
<1> QED BY <1>1, <1>2, <1>3, ArrivalType, StatementType DEF Next

LEMMA TypeInit == Init => TypeInv
<1> SUFFICES ASSUME Init PROVE TypeInv
  OBVIOUS
<1>1. Absent \in Rows
  BY OnboardingAssumption DEF Absent, Rows
<1>2. TypeOK
  BY <1>1, OnboardingAssumption DEF Init, TypeOK, Steps
<1>3. \A p \in Procs : StepOK(p)
  BY DEF Init, StepOK, StartSteps, ClaimSteps
<1> QED BY <1>2, <1>3 DEF TypeInv

\* Rows, locks and the locals of every request keep their types.
THEOREM TypeCorrect == Spec => []TypeOK
<1>1. TypeInv => TypeOK
  BY DEF TypeInv
<1> QED BY <1>1, TypeInit, TypeStep, PTL DEF Spec

----------------------------------------------------------------------------
(* Safety *)

LEMMA EmptyRows ==
    /\ Absent.state = "absent" /\ Absent.expires = 0 /\ Absent.subdomain = NoSubdomain
    /\ Gone.state = "gone" /\ Gone.expires = 0 /\ Gone.subdomain = NoSubdomain
<1>1. Absent.state = "absent" /\ Absent.expires = 0 /\ Absent.subdomain = NoSubdomain
  BY DEF Absent
<1>2. Gone = [Absent EXCEPT !.state = "gone"]
  BY DEF Gone
<1>3. Gone = [state |-> "gone", expires |-> 0, subdomain |-> NoSubdomain]
  BY <1>2, Zenon DEF Absent
<1> QED BY <1>1, <1>3

\* What a step of p leaves to the other requests.
Frame(p) ==
    \A q \in Procs \ {p} :
       /\ pc'[q] = pc[q] /\ req'[q] = req[q] /\ now'[q] = now[q] /\ doomed'[q] = doomed[q]
       /\ \A t \in Tenants : rowLock[t] = q => rowLock'[t] = q

ProcInv(p) == StartOK(p) /\ DoomedOK(p) /\ ClaimOK(p)

LEMMA EndFrame ==
    ASSUME TypeInv, NEW p \in Procs, End(p), clock' \in Nat
    PROVE  Frame(p) /\ ProcInv(p)' /\ pc'[p] = "idle"
<1>1. Frame(p) /\ pc'[p] = "idle" /\ doomed'[p] = {} /\ now'[p] = 0
  BY OnboardingAssumption DEF Frame, End, Goto, TypeInv, TypeOK
<1>2. ProcInv(p)'
  BY <1>1 DEF ProcInv, StartOK, DoomedOK, ClaimOK, StartSteps
<1> QED BY <1>1, <1>2

\* A request that is at no new commit and no new registration disturbs no pair.
LEMMA PairsKept ==
    ASSUME IInv, NEW p \in Procs, Frame(p),
           pc'[p] \in StartSteps => pc[p] \in StartSteps /\ req'[p] = req[p],
           pc'[p] # "commit"
    PROVE  \A q, r \in Procs : PairOK(q, r)'
  BY DEF IInv, PairOK, Frame

\* Steps that leave the tables alone.
LEMMA QuietStep ==
    ASSUME IInv, TypeInv', UNCHANGED <<tenants, owners, clock>>, NEW p \in Procs,
           Frame(p), ProcInv(p)', \A q, r \in Procs : PairOK(q, r)'
    PROVE  IInv'
<1>1. RowsOK' /\ NamesUnique'
  BY DEF IInv, RowsOK, NamesUnique
<1>2. ASSUME NEW q \in Procs \ {p} PROVE StartOK(q)' /\ ClaimOK(q)' /\ DoomedOK(q)'
  <2>1. /\ StartOK(q) /\ ClaimOK(q) /\ DoomedOK(q) /\ StepOK(q)
        /\ doomed[q] \subseteq Tenants
    BY DEF IInv, TypeInv, TypeOK
  <2>2. /\ pc'[q] = pc[q] /\ req'[q] = req[q] /\ now'[q] = now[q] /\ doomed'[q] = doomed[q]
        /\ \A t \in Tenants : rowLock[t] = q => rowLock'[t] = q
    BY DEF Frame
  <2>3. StartOK(q)'
    BY <2>1, <2>2 DEF StartOK
  <2>4. ClaimOK(q)'
    BY <2>1, <2>2 DEF ClaimOK, StepOK, ClaimSteps
  <2>5. DoomedOK(q)'
    BY <2>1, <2>2 DEF DoomedOK
  <2> QED BY <2>3, <2>4, <2>5
<1> QED BY <1>1, <1>2 DEF IInv, ProcInv

LEMMA EndKeeps ==
    ASSUME IInv, TypeInv', NEW p \in Procs, End(p), UNCHANGED <<tenants, owners, clock>>
    PROVE  IInv'
<1>1. TypeInv /\ clock' \in Nat
  BY DEF IInv, TypeInv, TypeOK
<1>2. Frame(p) /\ ProcInv(p)' /\ pc'[p] = "idle"
  BY <1>1, EndFrame
<1>3. \A q, r \in Procs : PairOK(q, r)'
  BY <1>2, PairsKept DEF StartSteps
<1> QED BY <1>2, <1>3, QuietStep

LEMMA StartStep ==
    ASSUME IInv, TypeInv', NEW p \in Procs, StartTenantRegistration(p)
    PROVE  IInv'
<1> USE DEF StartTenantRegistration, Goto
<1>1. PICK t \in Tenants :
        /\ tenants[t] = Absent
        /\ \A q \in Procs : req[q] # [op |-> "start", tenant |-> t]
        /\ req' = [req EXCEPT ![p] = [op |-> "start", tenant |-> t]]
  OBVIOUS
<1>2. /\ Frame(p) /\ pc'[p] = "sweep" /\ req'[p].tenant = t /\ now'[p] = clock
      /\ doomed'[p] = doomed[p] /\ pc[p] = "idle"
  BY <1>1 DEF Frame, IInv, TypeInv, TypeOK
<1>3. ASSUME NEW q \in Procs, pc[q] \in StartSteps PROVE req[q].tenant # t
  <2>1. req[q] \in Requests \cup {NoReq} /\ req[q].op = "start"
    BY <1>3 DEF IInv, TypeInv, TypeOK, StepOK
  <2>2. req[q] = [op |-> "start", tenant |-> req[q].tenant]
    BY <2>1 DEF Requests, NoReq
  <2> QED BY <1>1, <2>2
<1>4. \A q, r \in Procs : PairOK(q, r)'
  BY <1>2, <1>3 DEF Frame, PairOK, IInv
<1>5. ProcInv(p)'
  <2>1. DoomedOK(p)'
    BY <1>2 DEF DoomedOK, IInv
  <2>2. StartOK(p)'
    BY <1>1, <1>2 DEF StartOK, IInv, TypeInv, TypeOK
  <2> QED BY <1>2, <2>1, <2>2 DEF ProcInv, ClaimOK
<1> QED BY <1>2, <1>4, <1>5, QuietStep

LEMMA ClaimStep ==
    ASSUME IInv, TypeInv', NEW p \in Procs, ClaimTenantOwnership(p)
    PROVE  IInv'
<1>1. /\ Frame(p) /\ pc'[p] = "find" /\ pc[p] = "idle"
      /\ doomed'[p] = doomed[p] /\ now'[p] = now[p] /\ UNCHANGED <<tenants, owners, clock>>
  BY DEF ClaimTenantOwnership, Goto, Frame, IInv, TypeInv, TypeOK
<1>2. \A q, r \in Procs : PairOK(q, r)'
  BY <1>1, PairsKept DEF StartSteps
<1>3. ProcInv(p)'
  BY <1>1 DEF ProcInv, StartOK, DoomedOK, ClaimOK, StartSteps, IInv
<1> QED BY <1>1, <1>2, <1>3, QuietStep

----------------------------------------------------------------------------
(* The statements that change no table *)

LEMMA SweepStep ==
    ASSUME IInv, TypeInv', NEW p \in Procs, DeleteExpiredPendingTenants(p) \/ VisitRow(p)
    PROVE  IInv'
<1>1. CASE DeleteExpiredPendingTenants(p)
  <2>1. /\ Frame(p) /\ pc'[p] = "visit" /\ pc[p] = "sweep"
        /\ UNCHANGED <<tenants, owners, clock, rowLock, req, doomed, now>>
    BY <1>1 DEF DeleteExpiredPendingTenants, Goto, Frame, IInv, TypeInv, TypeOK
  <2>2. \A q, r \in Procs : PairOK(q, r)'
    BY <2>1, PairsKept DEF StartSteps
  <2>3. ProcInv(p)'
    BY <2>1 DEF ProcInv, StartOK, DoomedOK, ClaimOK, StartSteps, IInv
  <2> QED BY <2>1, <2>2, <2>3, QuietStep
<1>2. CASE VisitRow(p)
  <2>1. PICK t \in todo[p] :
          /\ RowFree(p, t)
          /\ IF tenants[t].state = "pending" /\ Expired(t, now[p])
               THEN /\ rowLock' = [rowLock EXCEPT ![t] = p]
                    /\ doomed' = [doomed EXCEPT ![p] = @ \cup {t}]
               ELSE UNCHANGED <<rowLock, doomed>>
    BY <1>2 DEF VisitRow
  <2>2. /\ UNCHANGED <<tenants, owners, clock, pc, req, now>> /\ pc[p] = "visit" /\ t \in Tenants
    BY <1>2 DEF VisitRow, IInv, TypeInv, TypeOK
  <2>3. Frame(p)
    BY <2>1, <2>2, OnboardingAssumption DEF Frame, RowFree, IInv, TypeInv, TypeOK
  <2>4. \A q, r \in Procs : PairOK(q, r)'
    BY <2>2, <2>3, PairsKept DEF StartSteps
  <2>5. DoomedOK(p)'
    BY <2>1, <2>2 DEF DoomedOK, Expired, IInv, TypeInv, TypeOK
  <2>6. StartOK(p)' /\ ClaimOK(p)'
    BY <2>2 DEF StartOK, ClaimOK, IInv
  <2> QED BY <2>2, <2>3, <2>4, <2>5, <2>6, QuietStep DEF ProcInv
<1> QED BY <1>1, <1>2

\* A claim that goes on has locked its row, then found it pending, and at last
\* has a name that no committed row and no other claim has.
LEMMA ClaimStatement ==
    ASSUME IInv, TypeInv', NEW p \in Procs,
           \/ FindTenantForUpdate(p) \/ VerifyClaim(p) \/ AddOwner(p) \/ MarkTenantOwned(p)
    PROVE  IInv'
<1>a. /\ UNCHANGED <<tenants, owners, clock>> /\ pc[p] \in ClaimSteps \ {"commit"}
  BY DEF FindTenantForUpdate, VerifyClaim, AddOwner, MarkTenantOwned, ClaimSteps
<1>b. /\ req[p].tenant \in Tenants /\ ProcInv(p) /\ pc[p] \notin StartSteps
  BY <1>a DEF IInv, TypeInv, StepOK, ProcInv, ClaimSteps, StartSteps
<1>1. CASE End(p)
  BY <1>1, <1>a, EndKeeps
<1>2. CASE ~End(p)
  <2>1. /\ Frame(p) /\ rowLock'[req[p].tenant] = p
        /\ UNCHANGED <<req, now, doomed>>
    BY <1>2, <1>a, <1>b, OnboardingAssumption
       DEF FindTenantForUpdate, VerifyClaim, AddOwner, MarkTenantOwned, RowFree, Goto,
           Frame, IInv, TypeInv, TypeOK, ProcInv, ClaimOK
  <2>2. /\ pc[p] = "find" => pc'[p] = "verify"
        /\ pc[p] = "verify" => pc'[p] = "addOwner" /\ tenants[req[p].tenant].state = "pending"
        /\ pc[p] = "addOwner" => pc'[p] = "mark"
        /\ pc[p] = "mark" =>
              /\ pc'[p] = "commit"
              /\ \A t \in Tenants : tenants[t].subdomain # req[p].subdomain
              /\ \A q \in Procs \ {p} : pc[q] = "commit" => req[q].subdomain # req[p].subdomain
    BY <1>2 DEF FindTenantForUpdate, VerifyClaim, AddOwner, MarkTenantOwned, Goto,
           IInv, TypeInv, TypeOK
  <2>3. ProcInv(p)'
    BY <1>a, <1>b, <2>1, <2>2 DEF ProcInv, StartOK, DoomedOK, ClaimOK, StartSteps, ClaimSteps
  <2>4. \A q, r \in Procs : PairOK(q, r)'
    BY <1>a, <2>1, <2>2 DEF PairOK, Frame, IInv, StartSteps, ClaimSteps
  <2> QED BY <1>a, <2>1, <2>3, <2>4, QuietStep
<1> QED BY <1>1, <1>2

----------------------------------------------------------------------------
(* The three writes *)

\* A write of rows that no other request has reserved or locked while pending, and
\* which gives
\* away no name but the one p has written, leaves the others what they rely on.
LEMMA OthersKeep ==
    ASSUME IInv, clock' = clock, NEW p \in Procs, Frame(p), NEW W \in SUBSET Tenants,
           \A t \in Tenants \ W : tenants'[t] = tenants[t],
           \A t \in W, q \in Procs \ {p} :
              /\ rowLock[t] = q => tenants[t].state # "pending"
              /\ pc[q] \in StartSteps => req[q].tenant # t,
           \A t \in W : \/ tenants'[t].subdomain = NoSubdomain
                        \/ pc[p] = "commit" /\ tenants'[t].subdomain = req[p].subdomain
    PROVE  \A q \in Procs \ {p} : ProcInv(q)'
<1> SUFFICES ASSUME NEW q \in Procs \ {p} PROVE ProcInv(q)'
  OBVIOUS
<1>1. /\ StartOK(q) /\ ClaimOK(q) /\ DoomedOK(q) /\ StepOK(q) /\ PairOK(p, q)
      /\ doomed[q] \subseteq Tenants
  BY DEF IInv, TypeInv, TypeOK
<1>2. /\ pc'[q] = pc[q] /\ req'[q] = req[q] /\ now'[q] = now[q] /\ doomed'[q] = doomed[q]
      /\ \A t \in Tenants : rowLock[t] = q => rowLock'[t] = q
  BY DEF Frame
<1>3. StartOK(q)'
  BY <1>1, <1>2 DEF StartOK, StepOK, StartSteps
<1>4. DoomedOK(q)'
  BY <1>1, <1>2 DEF DoomedOK
<1>5. ClaimOK(q)'
  <2>1. pc[q] \in ClaimSteps => req[q].tenant \in Tenants /\ req[q].subdomain \in Subdomains
    BY <1>1 DEF StepOK
  <2>2. pc[q] = "commit" => \A t \in Tenants : tenants'[t].subdomain # req[q].subdomain
    BY <1>1, <2>1, OnboardingAssumption DEF ClaimOK, PairOK, ClaimSteps
  <2> QED BY <1>1, <1>2, <2>1, <2>2 DEF ClaimOK, ClaimSteps
<1> QED BY <1>3, <1>4, <1>5 DEF ProcInv

LEMMA CreateStep ==
    ASSUME IInv, TypeInv', NEW p \in Procs, CreatePendingTenant(p)
    PROVE  IInv'
<1> DEFINE k == req[p].tenant
<1>1. /\ k \in Tenants /\ tenants[k] = Absent /\ pc[p] \in StartSteps
      /\ UNCHANGED <<owners, clock>> /\ End(p)
      /\ tenants' = [tenants EXCEPT ![k] = [state |-> "pending", expires |-> now[p] + TTL,
                                            subdomain |-> NoSubdomain]]
  BY DEF CreatePendingTenant, IInv, TypeInv, StepOK, StartOK, StartSteps
<1>2. /\ tenants'[k].state = "pending" /\ tenants'[k].subdomain = NoSubdomain
      /\ \A t \in Tenants \ {k} : tenants'[t] = tenants[t]
  BY <1>1 DEF IInv, TypeInv, TypeOK
<1>3. Frame(p) /\ ProcInv(p)' /\ pc'[p] = "idle"
  BY <1>1, EndFrame DEF IInv, TypeInv, TypeOK
<1>4. \A q, r \in Procs : PairOK(q, r)'
  BY <1>3, PairsKept DEF StartSteps
<1>5. /\ tenants[k].state # "pending" /\ tenants[k].state # "owned"
      /\ \A q \in Procs \ {p} : pc[q] \in StartSteps => req[q].tenant # k
  BY <1>1, EmptyRows DEF IInv, PairOK
<1>6. \A q \in Procs \ {p} : ProcInv(q)'
  <2> DEFINE W == {k}
  <2>1. W \in SUBSET Tenants /\ \A t \in W : t = k
    BY <1>1
  <2>2. \A t \in Tenants \ W : tenants'[t] = tenants[t]
    BY <1>2
  <2> HIDE DEF W
  <2> QED BY <1>1, <1>2, <1>3, <1>5, <2>1, <2>2, OthersKeep
<1>7. RowsOK'
  BY <1>1, <1>2, <1>5 DEF IInv, RowsOK
<1>8. NamesUnique'
  BY <1>2 DEF IInv, NamesUnique
<1> QED BY <1>3, <1>4, <1>6, <1>7, <1>8 DEF IInv, ProcInv

LEMMA CommitSweepStep ==
    ASSUME IInv, TypeInv', NEW p \in Procs, CommitSweep(p)
    PROVE  IInv'
<1> DEFINE W == doomed[p]
<1>1. /\ W \in SUBSET Tenants /\ pc[p] = "visit" /\ DoomedOK(p) /\ StartOK(p) /\ StepOK(p)
      /\ UNCHANGED <<clock, req, now>> /\ pc'[p] = "insert" /\ doomed'[p] = {}
      /\ \A t \in W : tenants'[t] = Gone /\ owners'[t] = {}
      /\ \A t \in Tenants \ W : tenants'[t] = tenants[t] /\ owners'[t] = owners[t]
  BY DEF CommitSweep, Goto, IInv, TypeInv, TypeOK
<1>2. Frame(p)
  BY OnboardingAssumption DEF CommitSweep, Goto, Frame, IInv, TypeInv, TypeOK
<1>3. \A q, r \in Procs : PairOK(q, r)'
  BY <1>1, <1>2, PairsKept DEF StartSteps
<1>4. \A t \in W : /\ rowLock[t] = p /\ tenants[t].state = "pending" /\ tenants[t] # Absent
                   /\ tenants'[t].subdomain = NoSubdomain /\ tenants'[t].state = "gone"
  BY <1>1, EmptyRows DEF DoomedOK
<1>5. \A q \in Procs \ {p} : pc[q] \in StartSteps => req[q].tenant \notin W
  BY <1>4 DEF IInv, StartOK
<1>6. \A q \in Procs \ {p} : ProcInv(q)'
  <2>1. /\ W \in SUBSET Tenants /\ clock' = clock
        /\ \A t \in Tenants \ W : tenants'[t] = tenants[t]
    BY <1>1
  <2>2. \A t \in W, q \in Procs \ {p} :
           /\ rowLock[t] = q => tenants[t].state # "pending"
           /\ pc[q] \in StartSteps => req[q].tenant # t
    BY <1>4, <1>5
  <2>3. \A t \in W : tenants'[t].subdomain = NoSubdomain
    BY <1>4
  <2> HIDE DEF W
  <2> QED BY <1>2, <2>1, <2>2, <2>3, OthersKeep
<1>7. ProcInv(p)'
  <2>1. req[p].tenant \in Tenants /\ tenants[req[p].tenant] = Absent
    BY <1>1 DEF StartOK, StepOK, StartSteps
  <2>2. tenants'[req[p].tenant] = Absent
    BY <1>1, <1>4, <2>1
  <2> QED BY <1>1, <2>2 DEF ProcInv, StartOK, DoomedOK, ClaimOK
<1>8. RowsOK'
  BY <1>1, <1>4 DEF IInv, RowsOK
<1>9. NamesUnique'
  BY <1>1, <1>4 DEF IInv, NamesUnique
<1> QED BY <1>3, <1>6, <1>7, <1>8, <1>9 DEF IInv, ProcInv

LEMMA CommitClaimStep ==
    ASSUME IInv, TypeInv', NEW p \in Procs, CommitClaim(p)
    PROVE  IInv'
<1> DEFINE k == req[p].tenant
           s == req[p].subdomain
           u == req[p].user
<1>1. /\ k \in Tenants /\ s \in Subdomains /\ u \in Users /\ pc[p] = "commit"
      /\ rowLock[k] = p /\ tenants[k].state = "pending" /\ owners[k] = {}
      /\ \A t \in Tenants : tenants[t].subdomain # s
      /\ clock' = clock /\ End(p)
  BY DEF CommitClaim, IInv, TypeInv, StepOK, ClaimOK, RowsOK, ClaimSteps
<1>2. /\ tenants'[k].state = "owned" /\ tenants'[k].subdomain = s /\ owners'[k] = {u}
      /\ \A t \in Tenants \ {k} : tenants'[t] = tenants[t] /\ owners'[t] = owners[t]
  BY <1>1 DEF CommitClaim, IInv, TypeInv, TypeOK
<1>3. Frame(p) /\ ProcInv(p)' /\ pc'[p] = "idle"
  BY <1>1, EndFrame DEF IInv, TypeInv, TypeOK
<1>4. \A q, r \in Procs : PairOK(q, r)'
  BY <1>3, PairsKept DEF StartSteps
<1>5. \A q \in Procs \ {p} : pc[q] \in StartSteps => req[q].tenant # k
  BY <1>1, EmptyRows DEF IInv, StartOK
<1>6. \A q \in Procs \ {p} : ProcInv(q)'
  <2> DEFINE W == {k}
  <2>1. W \in SUBSET Tenants /\ \A t \in W : t = k
    BY <1>1
  <2>2. \A t \in Tenants \ W : tenants'[t] = tenants[t]
    BY <1>2
  <2> HIDE DEF W
  <2> QED BY <1>1, <1>2, <1>3, <1>5, <2>1, <2>2, OthersKeep
<1>7. RowsOK'
  BY <1>1, <1>2 DEF IInv, RowsOK
<1>8. NamesUnique'
  BY <1>1, <1>2 DEF IInv, NamesUnique
<1> QED BY <1>3, <1>4, <1>6, <1>7, <1>8 DEF IInv, ProcInv

LEMMA SafeStep == IInv /\ [Next]_vars => IInv'
<1> SUFFICES ASSUME IInv, [Next]_vars PROVE IInv'
  OBVIOUS
<1>t. TypeInv'
  BY TypeStep DEF IInv
<1>1. CASE Tick
  <2>1. UNCHANGED <<tenants, owners, rowLock, pc, req, now, doomed>> /\ clock' = clock + 1
    BY <1>1 DEF Tick, local
  <2>2. \A p \in Procs : StartOK(p)'
    BY <2>1, <1>t DEF StartOK, IInv, TypeInv, TypeOK
  <2>3. RowsOK' /\ NamesUnique' /\ \A p \in Procs : DoomedOK(p)' /\ ClaimOK(p)'
    BY <2>1 DEF IInv, RowsOK, NamesUnique, DoomedOK, ClaimOK
  <2>4. \A p, q \in Procs : PairOK(p, q)'
    BY <2>1 DEF IInv, PairOK
  <2> QED BY <1>t, <2>2, <2>3, <2>4 DEF IInv
<1>2. ASSUME NEW p \in Procs, Arrival(p) PROVE IInv'
  BY <1>2, <1>t, StartStep, ClaimStep DEF Arrival
<1>3. ASSUME NEW p \in Procs, Statement(p) PROVE IInv'
  BY <1>3, <1>t, SweepStep, ClaimStatement, CreateStep, CommitSweepStep, CommitClaimStep DEF Statement
<1>4. ASSUME NEW p \in Procs, Abort(p) PROVE IInv'
  BY <1>4, <1>t, EndKeeps DEF Abort
<1>5. CASE UNCHANGED vars
  <2>1. UNCHANGED <<tenants, owners, rowLock, clock, pc, req, now, doomed>>
    BY <1>5 DEF vars, local
  <2>2. RowsOK' /\ NamesUnique' /\ \A p \in Procs : StartOK(p)' /\ DoomedOK(p)' /\ ClaimOK(p)'
    BY <2>1 DEF IInv, RowsOK, NamesUnique, StartOK, DoomedOK, ClaimOK
  <2>3. \A p, q \in Procs : PairOK(p, q)'
    BY <2>1 DEF IInv, PairOK
  <2> QED BY <1>t, <2>2, <2>3 DEF IInv
<1> QED BY <1>1, <1>2, <1>3, <1>4, <1>5 DEF Next

LEMMA SafeInit == Init => IInv
<1> SUFFICES ASSUME Init PROVE IInv
  OBVIOUS
<1>1. \A t \in Tenants : tenants[t] = Absent /\ owners[t] = {}
  BY DEF Init
<1>2. RowsOK /\ NamesUnique
  BY <1>1, EmptyRows DEF RowsOK, NamesUnique
<1>3. \A p \in Procs : StartOK(p) /\ DoomedOK(p) /\ ClaimOK(p)
  BY DEF Init, StartOK, DoomedOK, ClaimOK, StartSteps
<1>4. \A p, q \in Procs : PairOK(p, q)
  BY DEF Init, PairOK, StartSteps
<1> QED BY <1>2, <1>3, <1>4, TypeInit DEF IInv

LEMMA Safe == Spec => []IInv
  BY SafeInit, SafeStep, PTL DEF Spec

----------------------------------------------------------------------------
(* What follows for the state *)

\* ClaimTenantOwnership: an owned tenant has exactly one owner and every other
\* tenant none, however claims, sweeps and failures interleave.
THEOREM OwnedByExactlyOneAlways == Spec => []OwnedByExactlyOne
<1>1. ASSUME IInv PROVE OwnedByExactlyOne
  <2> SUFFICES ASSUME NEW t \in Tenants
               PROVE  Cardinality(owners[t]) = IF tenants[t].state = "owned" THEN 1 ELSE 0
    BY DEF OwnedByExactlyOne
  <2>1. CASE tenants[t].state = "owned"
    <3>1. PICK u \in Users : owners[t] = {u}
      BY <1>1, <2>1 DEF IInv, RowsOK
    <3>2. Cardinality({u}) = 1
      BY FS_Singleton
    <3> QED BY <2>1, <3>1, <3>2
  <2>2. CASE tenants[t].state # "owned"
    <3>1. owners[t] = {}
      BY <1>1, <2>2 DEF IInv, RowsOK
    <3> QED BY <2>2, <3>1, FS_EmptySet
  <2> QED BY <2>1, <2>2
<1> QED BY <1>1, Safe, PTL

\* The unique key on subdomain: a name resolves to one tenant at most.
THEOREM SubdomainsAlwaysUnique == Spec => []SubdomainsUnique
<1>1. ASSUME IInv PROVE SubdomainsUnique
  <2> SUFFICES ASSUME NEW s \in Subdomains
               PROVE  Cardinality(ResolveTenantSubdomain(s)) <= 1
    BY DEF SubdomainsUnique
  <2>1. CASE ResolveTenantSubdomain(s) = {}
    BY <2>1, FS_EmptySet
  <2>2. CASE ResolveTenantSubdomain(s) # {}
    <3>1. PICK t \in ResolveTenantSubdomain(s) : TRUE
      BY <2>2
    <3>2. ResolveTenantSubdomain(s) = {t}
      BY <1>1, <3>1, OnboardingAssumption DEF ResolveTenantSubdomain, IInv, NamesUnique
    <3>3. Cardinality({t}) = 1
      BY FS_Singleton
    <3> QED BY <3>2, <3>3
  <2> QED BY <2>1, <2>2
<1> QED BY <1>1, Safe, PTL

----------------------------------------------------------------------------
(* What a step does to the tables *)

\* A registration, a sweep of expired pending tenants, the claim of a pending
\* tenant under a free name, or nothing.
LEMMA TableStep ==
    ASSUME IInv, [Next]_vars
    PROVE  \/ UNCHANGED <<tenants, owners>> /\ (clock' = clock \/ clock' = clock + 1)
           \/ /\ \E p \in Procs : CreatePendingTenant(p)
              /\ clock' = clock
           \/ /\ \E p \in Procs : CommitSweep(p)
              /\ clock' = clock
           \/ /\ \E p \in Procs : CommitClaim(p)
              /\ clock' = clock
<1>1. CASE Tick
  BY <1>1 DEF Tick
<1>2. ASSUME NEW p \in Procs, Arrival(p) PROVE UNCHANGED <<tenants, owners, clock>>
  BY <1>2 DEF Arrival, StartTenantRegistration, ClaimTenantOwnership
<1>3. ASSUME NEW p \in Procs, Abort(p) PROVE UNCHANGED <<tenants, owners, clock>>
  BY <1>3 DEF Abort
<1>4. ASSUME NEW p \in Procs, Statement(p)
      PROVE  \/ UNCHANGED <<tenants, owners, clock>>
             \/ (CreatePendingTenant(p) \/ CommitSweep(p) \/ CommitClaim(p)) /\ clock' = clock
  BY <1>4 DEF Statement, DeleteExpiredPendingTenants, VisitRow, CreatePendingTenant, CommitSweep,
              CommitClaim, FindTenantForUpdate, VerifyClaim, AddOwner, MarkTenantOwned
<1>5. CASE UNCHANGED vars
  BY <1>5 DEF vars
<1> QED BY <1>1, <1>2, <1>3, <1>4, <1>5 DEF Next

LEMMA Created ==
    ASSUME IInv, NEW p \in Procs, CreatePendingTenant(p)
    PROVE  Registry!Register(req[p].tenant) /\ req[p].tenant \in Tenants
<1>1. /\ req[p].tenant \in Tenants /\ tenants[req[p].tenant] = Absent /\ now[p] <= clock
      /\ now[p] \in Nat /\ clock \in Nat
  BY DEF CreatePendingTenant, IInv, TypeInv, TypeOK, StepOK, StartOK, StartSteps
<1>2. now[p] + TTL \in TTL .. clock + TTL
  BY <1>1, OnboardingAssumption
<1> QED BY <1>1, <1>2 DEF CreatePendingTenant, Registry!Register, Registry!Absent, Absent

LEMMA Swept ==
    ASSUME IInv, NEW p \in Procs, CommitSweep(p)
    PROVE  Registry!Expire(doomed[p]) /\ doomed[p] \in SUBSET Tenants
<1>1. /\ doomed[p] \subseteq Tenants /\ clock' = clock /\ now[p] <= clock /\ now[p] \in Nat /\ clock \in Nat
      /\ \A t \in doomed[p] : tenants[t].state = "pending" /\ tenants[t].expires <= now[p]
  BY DEF CommitSweep, IInv, TypeInv, TypeOK, DoomedOK, StartOK
<1>2. \A t \in doomed[p] : tenants[t].expires \in Nat /\ owners[t] = {}
  BY <1>1, OnboardingAssumption DEF IInv, TypeInv, TypeOK, Rows, RowsOK
<1>3. \A t \in doomed[p] : tenants[t].state = "pending" /\ tenants[t].expires <= clock
  BY <1>1, <1>2
<1>4. owners' = owners
  <2>1. owners = [t \in Tenants |-> owners[t]]
    BY DEF IInv, TypeInv, TypeOK
  <2> QED BY <1>2, <2>1 DEF CommitSweep
<1>5. tenants' = [t \in Tenants |-> IF t \in doomed[p] THEN Registry!Gone ELSE tenants[t]]
  <2>1. Registry!Gone = Gone
    BY DEF Registry!Gone, Gone, Registry!Absent, Absent
  <2> QED BY <2>1 DEF CommitSweep
<1> QED BY <1>1, <1>3, <1>4, <1>5 DEF Registry!Expire

LEMMA Claimed ==
    ASSUME IInv, NEW p \in Procs, CommitClaim(p)
    PROVE  /\ Registry!Claim(req[p].tenant, req[p].user, req[p].subdomain)
           /\ req[p].tenant \in Tenants /\ req[p].user \in Users /\ req[p].subdomain \in Subdomains
<1>1. /\ req[p].tenant \in Tenants /\ req[p].user \in Users /\ req[p].subdomain \in Subdomains
      /\ tenants[req[p].tenant].state = "pending"
      /\ \A t \in Tenants : tenants[t].subdomain # req[p].subdomain
  BY DEF CommitClaim, IInv, TypeInv, StepOK, ClaimOK, ClaimSteps
<1>2. owners[req[p].tenant] = {} /\ owners \in [Tenants -> SUBSET Users]
  BY <1>1 DEF IInv, RowsOK, TypeInv, TypeOK
<1>3. owners' = [owners EXCEPT ![req[p].tenant] = {req[p].user}]
  BY <1>1, <1>2 DEF CommitClaim
<1> QED BY <1>1, <1>2, <1>3 DEF CommitClaim, Registry!Claim

\* Registration, sweep and claim look atomic from outside: what Onboarding does
\* in several statements and under locks is a step of TenantRegistry or nothing.
THEOREM ImplementsRegistry == Spec => RegistrySpec
<1>1. Init => Registry!Init
  BY DEF Init, Registry!Init, Absent, Registry!Absent
<1>2. ASSUME IInv, [Next]_vars PROVE [Registry!Next]_(Registry!vars)
  <2>1. CASE UNCHANGED <<tenants, owners>> /\ (clock' = clock \/ clock' = clock + 1)
    BY <2>1 DEF Registry!Next, Registry!Tick, Registry!vars
  <2>2. ASSUME NEW p \in Procs, CreatePendingTenant(p) PROVE Registry!Next
    BY <1>2, <2>2, Created DEF Registry!Next
  <2>3. ASSUME NEW p \in Procs, CommitSweep(p) PROVE Registry!Next
    BY <1>2, <2>3, Swept DEF Registry!Next
  <2>4. ASSUME NEW p \in Procs, CommitClaim(p) PROVE Registry!Next
    BY <1>2, <2>4, Claimed DEF Registry!Next
  <2> QED BY <1>2, <2>1, <2>2, <2>3, <2>4, TableStep
<1> QED BY <1>1, <1>2, Safe, PTL DEF Spec, RegistrySpec, Registry!Spec

\* A name that resolves keeps resolving to the same tenant: owned tenants are
\* not deleted, and no later claim takes a name that is given away.
THEOREM SubdomainsStay == Spec => SubdomainsPermanent
<1>1. ASSUME IInv, [Next]_vars, NEW s \in Subdomains, ResolveTenantSubdomain(s) # {}
      PROVE  ResolveTenantSubdomain(s)' = ResolveTenantSubdomain(s)
  <2>1. PICK k \in Tenants : tenants[k].subdomain = s /\ tenants[k].state = "owned"
    BY <1>1, OnboardingAssumption DEF ResolveTenantSubdomain, IInv, RowsOK
  <2> SUFFICES ASSUME NEW t \in Tenants
               PROVE  tenants'[t].subdomain = s <=> tenants[t].subdomain = s
    BY DEF ResolveTenantSubdomain
  <2>2. CASE UNCHANGED <<tenants, owners>>
    BY <2>2
  <2>t. tenants \in [Tenants -> Rows]
    BY <1>1 DEF IInv, TypeInv, TypeOK
  <2>3. ASSUME NEW p \in Procs, CreatePendingTenant(p)
        PROVE  tenants'[t].subdomain = s <=> tenants[t].subdomain = s
    <3>1. req[p].tenant \in Tenants /\ tenants[req[p].tenant] = Absent
      BY <1>1, <2>3 DEF CreatePendingTenant, IInv, TypeInv, StepOK, StartOK, StartSteps
    <3>2. /\ tenants'[req[p].tenant].subdomain = NoSubdomain
          /\ t # req[p].tenant => tenants'[t] = tenants[t]
      BY <2>3, <2>t, <3>1 DEF CreatePendingTenant
    <3>3. NoSubdomain # s /\ Absent.subdomain = NoSubdomain
      BY OnboardingAssumption, EmptyRows
    <3>4. CASE t = req[p].tenant
      BY <3>1, <3>2, <3>3, <3>4
    <3>5. CASE t # req[p].tenant
      BY <3>2, <3>5
    <3> QED BY <3>4, <3>5
  <2>4. ASSUME NEW p \in Procs, CommitSweep(p)
        PROVE  tenants'[t].subdomain = s <=> tenants[t].subdomain = s
    <3>1. CASE t \in doomed[p]
      <4>1. tenants[t].subdomain = NoSubdomain
        BY <1>1, <3>1 DEF IInv, DoomedOK, RowsOK
      <4>2. tenants'[t].subdomain = NoSubdomain
        BY <2>4, <3>1, EmptyRows DEF CommitSweep
      <4> QED BY <4>1, <4>2
    <3>2. CASE t \notin doomed[p]
      BY <2>4, <3>2 DEF CommitSweep
    <3> QED BY <3>1, <3>2
  <2>5. ASSUME NEW p \in Procs, CommitClaim(p)
        PROVE  tenants'[t].subdomain = s <=> tenants[t].subdomain = s
    <3>1. /\ req[p].tenant \in Tenants /\ tenants[req[p].tenant].state = "pending"
          /\ req[p].subdomain # s
      BY <1>1, <2>1, <2>5 DEF CommitClaim, IInv, TypeInv, StepOK, ClaimOK, ClaimSteps
    <3>2. tenants[req[p].tenant].subdomain # s
      BY <1>1, <3>1, OnboardingAssumption DEF IInv, RowsOK
    <3> QED BY <2>5, <2>t, <3>1, <3>2 DEF CommitClaim
  <2> QED BY <1>1, <2>2, <2>3, <2>4, <2>5, TableStep
<1>2. ASSUME IInv, [Next]_vars
      PROVE  [\A s \in Subdomains :
                 ResolveTenantSubdomain(s) # {} =>
                    ResolveTenantSubdomain(s)' = ResolveTenantSubdomain(s)]_vars
  BY <1>1, <1>2
<1> QED BY <1>2, Safe, PTL DEF Spec, SubdomainsPermanent

\* The deadline handed out with a token is kept: a row is removed only if it is
\* pending when it is removed, and its deadline has passed by then.
THEOREM DeadlinesKept == Spec => SweptOnlyAfterDeadline
<1>1. ASSUME IInv, [Next]_vars, NEW t \in Tenants, Exists(t), tenants'[t] = Gone
      PROVE  tenants[t].state = "pending" /\ tenants[t].expires <= clock
  <2>1. tenants[t] # Gone /\ tenants \in [Tenants -> Rows]
    BY <1>1, EmptyRows DEF Exists, IInv, TypeInv, TypeOK
  <2>2. ASSUME NEW p \in Procs, CreatePendingTenant(p) PROVE FALSE
    <3>1. tenants'[t] = tenants[t] \/ tenants'[t].state = "pending"
      BY <2>1, <2>2 DEF CreatePendingTenant
    <3> QED BY <1>1, <2>1, <3>1, EmptyRows
  <2>3. ASSUME NEW p \in Procs, CommitClaim(p) PROVE FALSE
    <3>1. tenants'[t] = tenants[t] \/ tenants'[t].state = "owned"
      BY <2>1, <2>3 DEF CommitClaim
    <3> QED BY <1>1, <2>1, <3>1, EmptyRows
  <2>4. ASSUME NEW p \in Procs, CommitSweep(p)
        PROVE  tenants[t].state = "pending" /\ tenants[t].expires <= clock
    <3>1. t \in doomed[p]
      BY <1>1, <2>1, <2>4 DEF CommitSweep
    <3> QED BY <1>1, <2>4, <3>1, Swept DEF Registry!Expire
  <2> QED BY <1>1, <2>1, <2>2, <2>3, <2>4, TableStep
<1>2. ASSUME IInv, [Next]_vars
      PROVE  [\A t \in Tenants :
                 Exists(t) /\ tenants'[t] = Gone =>
                    tenants[t].state = "pending" /\ tenants[t].expires <= clock]_vars
  BY <1>1, <1>2
<1> QED BY <1>2, Safe, PTL DEF Spec, SweptOnlyAfterDeadline
=============================================================================

--------------------------- MODULE MembershipDrain ---------------------------
(* A finite load on MembershipWrites: every process serves one request, from any
   roster a tenant can have, with one event already there.  Under it every
   request ends, however the requests wait for one another.                   *)
EXTENDS MembershipWrites

VARIABLE started    \* the processes whose request has arrived

drainVars == <<vars, started>>

DrainInit ==
    /\ role \in [Users -> GrantableRoles \cup {NoRole}]
    /\ Owners # {}
    /\ eventRole = [e \in Events |-> [u \in Users |-> NoRole]]
    /\ \E e \in Events : events = Events \ {e}
    /\ tenant = NewTenant
    /\ Idle
    /\ started = {}

Start(p) == p \notin started /\ Arrival(p) /\ started' = started \cup {p}

Proceed(p) == Statement(p) /\ UNCHANGED started

Abandon(p) == Rollback(p) /\ UNCHANGED started

\* Everybody has been served.
Done == started = Procs /\ (\A p \in Procs : pc[p] = "idle") /\ UNCHANGED drainVars

DrainNext == (\E p \in Procs : Start(p) \/ Proceed(p) \/ Abandon(p)) \/ Done

\* The server and the database keep executing the statements of an open
\* request that do not wait for a lock; a failure may happen, but need not.
DrainSpec ==
    /\ DrainInit
    /\ [][DrainNext]_drainVars
    /\ \A p \in Procs : WF_drainVars(Proceed(p))

\* Every request ends: no set of concurrent writes, event creations and tenant
\* administrations can leave one of them waiting for ever.
EveryRequestEnds == \A p \in Procs : pc[p] # "idle" ~> pc[p] = "idle"
=============================================================================

--------------------------- MODULE TenantRegistry ----------------------------
(* What onboarding promises: a tenant is registered once, then claimed once by
   one owner under one subdomain name that nobody else has, or removed after
   its deadline.  Onboarding implements this with transactions and a sweep.   *)
EXTENDS Naturals

CONSTANTS Tenants, Users, Subdomains, TTL, NoSubdomain

VARIABLES
    tenants,  \* the row of each tenant: state, deadline of the claim, subdomain
    owners,   \* the owner memberships of each tenant
    clock

vars == <<tenants, owners, clock>>

Absent == [state |-> "absent", expires |-> 0, subdomain |-> NoSubdomain]
Gone   == [Absent EXCEPT !.state = "gone"]

Init ==
    /\ tenants = [t \in Tenants |-> Absent]
    /\ owners = [t \in Tenants |-> {}]
    /\ clock = 0

\* A registration that took a while may hand out a deadline that is near, or
\* even past, but never one beyond the full time to live.
Register(t) ==
    /\ tenants[t] = Absent
    /\ \E deadline \in TTL .. clock + TTL :
          tenants' = [tenants EXCEPT ![t] = [state |-> "pending", expires |-> deadline,
                                             subdomain |-> NoSubdomain]]
    /\ UNCHANGED <<owners, clock>>

Claim(t, u, s) ==
    /\ tenants[t].state = "pending"
    /\ owners[t] = {}
    /\ \A k \in Tenants : tenants[k].subdomain # s
    /\ tenants' = [tenants EXCEPT ![t] = [state |-> "owned", expires |-> 0, subdomain |-> s]]
    /\ owners' = [owners EXCEPT ![t] = {u}]
    /\ UNCHANGED clock

Expire(S) ==
    /\ \A t \in S : tenants[t].state = "pending" /\ tenants[t].expires <= clock
    /\ tenants' = [t \in Tenants |-> IF t \in S THEN Gone ELSE tenants[t]]
    /\ UNCHANGED <<owners, clock>>

Tick == clock' = clock + 1 /\ UNCHANGED <<tenants, owners>>

Next ==
    \/ \E t \in Tenants : Register(t)
    \/ \E t \in Tenants, u \in Users, s \in Subdomains : Claim(t, u, s)
    \/ \E S \in SUBSET Tenants : Expire(S)
    \/ Tick

Spec == Init /\ [][Next]_vars
=============================================================================

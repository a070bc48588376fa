------------------------------- MODULE MCDrain -------------------------------
(* MembershipDrain for TLC: the RPCs that hold one lock and wait for another. *)
EXTENDS MembershipDrain

DrainOps == {"AddTenantMember", "RevokeTenantRole", "CreateEvent",
             "ArchiveTenant"}
=============================================================================

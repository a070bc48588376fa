------------------------- MODULE MCMembershipWrites --------------------------
(* Instances of MembershipWrites for TLC. *)
EXTENDS MembershipWrites, TLC

Symmetry == Permutations(Users) \cup Permutations(Procs)

OwnerOps == {"AddTenantMember", "ChangeTenantRole", "RevokeTenantRole"}

FrozenOps == OwnerOps \cup {"ArchiveTenant"}
=============================================================================

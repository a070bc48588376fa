---------------------------- MODULE MCInvitations ----------------------------
(* Invitations for TLC. *)
EXTENDS Invitations, TLC

Symmetry == Permutations(Users) \cup Permutations(Procs)
=============================================================================

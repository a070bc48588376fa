---------------------------- MODULE MCOnboarding -----------------------------
(* Onboarding for TLC, which checks termination here as well: no symmetry. *)
EXTENDS Onboarding
=============================================================================

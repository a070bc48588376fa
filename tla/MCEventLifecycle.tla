-------------------------- MODULE MCEventLifecycle ---------------------------
(* EventLifecycle for TLC. *)
EXTENDS EventLifecycle, TLC

Symmetry == Permutations(Events) \cup Permutations(Procs)
=============================================================================

-------------------------- MODULE MCRequestBoundary --------------------------
(* RequestBoundary for TLC. *)
EXTENDS RequestBoundary

Symmetry == Permutations(Users)
=============================================================================

---------------------------- MODULE MCGroupStore ----------------------------
(* A small instance of GroupStore for TLC. *)
EXTENDS GroupStore, TLC

\* Users are interchangeable.
Symmetry == Permutations(Users)
=============================================================================

--------------------------- MODULE MCContactSync ---------------------------
(* A small instance of ContactSync for TLC. *)
EXTENDS ContactSync, TLC

\* Users are interchangeable.
Symmetry == Permutations(Users)
=============================================================================

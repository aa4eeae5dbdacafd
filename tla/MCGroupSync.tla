---------------------------- MODULE MCGroupSync ----------------------------
(* A small instance of GroupSync for TLC. *)
EXTENDS GroupSync, TLC

\* Users are interchangeable, and so are the names of groups.
Symmetry == Permutations(Users) \cup Permutations(Names)
=============================================================================

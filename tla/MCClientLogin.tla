--------------------------- MODULE MCClientLogin ---------------------------
(* A small instance of ClientLogin for TLC. *)
EXTENDS ClientLogin, TLC

\* Clients, with their threads, are interchangeable.
Symmetry == Permutations(Threads)
=============================================================================

--------------------------- MODULE MCContactStore ---------------------------
(* Small instances of ContactStore for TLC. *)
EXTENDS ContactStore, TLC

CONSTANTS u1, u2

OneWay == {<<u1, u2>>}
BothWays == {<<u1, u2>>, <<u2, u1>>}

\* Worker threads are interchangeable.
Symmetry == Permutations(Threads)
=============================================================================

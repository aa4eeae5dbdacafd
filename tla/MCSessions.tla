----------------------------- MODULE MCSessions -----------------------------
(* Small instances of Sessions for TLC. *)
EXTENDS Sessions, FiniteSets, TLC

\* Connections and users are interchangeable.
Symmetry == Permutations(Conns) \cup Permutations(Users)

\* Bound: a second notification is sent while there were at most two logins, of
\* two connections, or of one under two names.
FewLoginsForTwoNotes == notes = 2 => Cardinality(ever) <= 2
=============================================================================

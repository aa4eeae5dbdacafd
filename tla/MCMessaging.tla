---------------------------- MODULE MCMessaging ----------------------------
(* Small instances of Messaging for TLC. *)
EXTENDS Messaging, TLC

\* Users are interchangeable.
Symmetry == Permutations(Users)
=============================================================================

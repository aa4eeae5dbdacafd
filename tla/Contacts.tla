------------------------------ MODULE Contacts ------------------------------
(***************************************************************************)
(* What the contact tables promise: friend requests and friendships change *)
(* by whole operations only, and a friendship comes from an acceptance.    *)
(* ContactStore implements this with one worker thread.                    *)
(***************************************************************************)
CONSTANT Rows    \* the pairs <<from, to>> of users

VARIABLES
  tables,        \* friend requests by row, and the set of friendships
  owed           \* acceptances whose friendship is not there yet

vars == <<tables, owed>>

Init == tables = [requests |-> [p \in Rows |-> "none"], friends |-> {}] /\ owed = {}

SetRequest(p, s) ==
  tables' = [requests |-> [tables.requests EXCEPT ![p] = s], friends |-> tables.friends]
SetFriends(fs) == tables' = [requests |-> tables.requests, friends |-> fs]

Ask(p) == SetRequest(p, "pending") /\ UNCHANGED owed

Withdraw(p) ==
  /\ tables.requests[p] # "none"
  /\ SetRequest(p, "cancelled")
  /\ UNCHANGED owed

\* An answered request is gone; an accepted one leaves a friendship to make.
Settle(p, accepted) ==
  /\ SetRequest(p, "none")
  /\ owed' = IF accepted THEN owed \cup {p} ELSE owed

\* The friendship is made, or cannot be made.
Befriend(p) ==
  /\ p \in owed
  /\ owed' = owed \ {p}
  /\ SetFriends(tables.friends \cup {p}) \/ UNCHANGED tables

Unfriend(p) == SetFriends(tables.friends \ {p, <<p[2], p[1]>>}) /\ UNCHANGED owed

\* A process that ends forgets what it owed.
Forget == owed' = {} /\ UNCHANGED tables

Next ==
  \/ \E p \in Rows : Ask(p) \/ Withdraw(p) \/ Befriend(p) \/ Unfriend(p)
  \/ \E p \in Rows, accepted \in BOOLEAN : Settle(p, accepted)
  \/ Forget

Spec == Init /\ [][Next]_vars
=============================================================================

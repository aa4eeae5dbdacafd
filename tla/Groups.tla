------------------------------- MODULE Groups -------------------------------
(***************************************************************************)
(* What the group tables promise each request, which is served for the     *)
(* user who made it and once.  A deletion and an invitation happen in one  *)
(* step: only the creator of a group dissolves it, only a member invites.  *)
(* A creation and an acceptance happen in two: the name is taken, or the   *)
(* invitation, and then the user becomes a member.  When the second step   *)
(* does not happen the first one stays, and the answer is a failure.       *)
(* Nothing is promised about who may accept (nobody looks for the          *)
(* invitation), about the members of a group that is deleted, nor about    *)
(* members across a start of the server.  GroupStore implements this.      *)
(***************************************************************************)
CONSTANTS Users, Names, Nobody

VARIABLES
  creator,     \* of each group name, Nobody while there is no such group
  members,     \* pairs <<group, user>>
  invited,     \* pairs <<group, user>>
  asked,       \* the request each user is waiting for
  stage        \* how far it is: "none", "asked", "owed" a membership, "done", "failed"

vars == <<creator, members, invited, asked, stage>>

Request ==
  [op : {"create", "delete", "accept", "reject"}, group : Names]
    \cup [op : {"invite"}, group : Names, invitee : Users]

Init ==
  /\ creator = [g \in Names |-> Nobody]
  /\ members = {}
  /\ invited = {}
  /\ asked = [u \in Users |-> Nobody]
  /\ stage = [u \in Users |-> "none"]

Group(u) == asked[u].group
Row(u) == <<Group(u), u>>

\* The request of u goes on.
Goes(u, from, to) == stage[u] = from /\ stage' = [stage EXCEPT ![u] = to] /\ UNCHANGED asked
Asks(u, op) == stage[u] = "asked" /\ asked[u].op = op

Ask(u, r) ==
  /\ stage[u] = "none"
  /\ asked' = [asked EXCEPT ![u] = r]
  /\ stage' = [stage EXCEPT ![u] = "asked"]
  /\ UNCHANGED <<creator, members, invited>>

Found(u) ==
  /\ Asks(u, "create")
  /\ creator[Group(u)] = Nobody
  /\ creator' = [creator EXCEPT ![Group(u)] = u]
  /\ Goes(u, "asked", "owed")
  /\ UNCHANGED <<members, invited>>

\* The second step of a creation or an acceptance.
Join(u) ==
  /\ Goes(u, "owed", "done")
  /\ asked[u].op = "create" => creator[Group(u)] = u
  /\ Row(u) \notin members
  /\ members' = members \cup {Row(u)}
  /\ UNCHANGED <<creator, invited>>

Dissolve(u) ==
  /\ Asks(u, "delete")
  /\ creator[Group(u)] = u
  /\ creator' = [creator EXCEPT ![Group(u)] = Nobody]
  /\ Goes(u, "asked", "done")
  /\ UNCHANGED <<members, invited>>

Invite(u) ==
  /\ Asks(u, "invite")
  /\ Row(u) \in members
  /\ <<Group(u), asked[u].invitee>> \notin invited
  /\ invited' = invited \cup {<<Group(u), asked[u].invitee>>}
  /\ Goes(u, "asked", "done")
  /\ UNCHANGED <<creator, members>>

Settle(u) ==
  /\ \/ Asks(u, "accept") /\ Goes(u, "asked", "owed")
     \/ Asks(u, "reject") /\ Goes(u, "asked", "done")
  /\ invited' = invited \ {Row(u)}
  /\ UNCHANGED <<creator, members>>

Fail(u) ==
  /\ Goes(u, "asked", "failed") \/ Goes(u, "owed", "failed")
  /\ UNCHANGED <<creator, members, invited>>

Answer(u) ==
  /\ stage[u] \in {"done", "failed"}
  /\ asked' = [asked EXCEPT ![u] = Nobody]
  /\ stage' = [stage EXCEPT ![u] = "none"]
  /\ UNCHANGED <<creator, members, invited>>

\* The server starts again, and may lose the members.
Start ==
  /\ members' \in {{}, members}
  /\ asked' = [u \in Users |-> Nobody]
  /\ stage' = [u \in Users |-> "none"]
  /\ UNCHANGED <<creator, invited>>

Next ==
  \/ \E u \in Users :
       \/ Found(u) \/ Join(u) \/ Dissolve(u) \/ Invite(u) \/ Settle(u) \/ Fail(u) \/ Answer(u)
       \/ \E r \in Request : Ask(u, r)
  \/ Start

Spec == Init /\ [][Next]_vars
=============================================================================

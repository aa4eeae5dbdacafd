----------------------------- MODULE GroupStore -----------------------------
(***************************************************************************)
(* GroupHandler and GroupRepository: the tables groups, group_members and  *)
(* group_invitations, and a worker thread for each user, who has one       *)
(* session; the requests that change the tables, one SQL statement at a    *)
(* time.  Statements commit by themselves here; what a transaction of      *)
(* another thread does to them is in Accounts.                             *)
(***************************************************************************)
CONSTANTS
  Users,
  Names,    \* names of groups
  Nobody    \* no creator, no request

ASSUME NobodyIsNoUser == Nobody \notin Users

VARIABLES
  creator,  \* groups: the creator of each name, Nobody without a row
  members,  \* group_members: pairs <<group, user>>
  invited,  \* group_invitations: pairs <<group, user>>, one for each
  asked,    \* the request each thread serves
  step      \* its next statement, or its answer

vars == <<creator, members, invited, asked, step>>
tables == <<creator, members, invited>>

\* delete, accept and reject are served but never sent by this client.
Request ==
  [op : {"create", "delete", "accept", "reject"}, group : Names]
    \cup [op : {"invite"}, group : Names, invitee : Users]
ASSUME NobodyIsNoRequest == Nobody \notin Request

Steps == {"idle", "create", "enrol", "find", "drop", "member", "invite", "take", "done", "failed"}

TypeOK ==
  /\ creator \in [Names -> Users \cup {Nobody}]
  /\ members \subseteq Names \X Users
  /\ invited \subseteq Names \X Users
  /\ asked \in [Users -> Request \cup {Nobody}]
  /\ step \in [Users -> Steps]
  /\ \A u \in Users : asked[u] = Nobody <=> step[u] = "idle"

Init ==
  /\ creator = [g \in Names |-> Nobody]
  /\ members = {}
  /\ invited = {}
  /\ asked = [u \in Users |-> Nobody]
  /\ step = [u \in Users |-> "idle"]

-----------------------------------------------------------------------------
Goto(u, s) == step' = [step EXCEPT ![u] = s] /\ UNCHANGED asked
Group(u) == asked[u].group
Row(u) == <<Group(u), u>>

FirstStep(op) ==
  CASE op = "create" -> "create" [] op = "delete" -> "find" [] op = "invite" -> "member"
    [] OTHER -> "take"

\* A request arrives.
Receive(u, r) ==
  /\ step[u] = "idle"
  /\ asked' = [asked EXCEPT ![u] = r]
  /\ step' = [step EXCEPT ![u] = FirstStep(r.op)]
  /\ UNCHANGED tables

\* The failure of the statement of step s, or of what it asks for.
Fails(u, s) == step[u] = s /\ Goto(u, "failed") /\ UNCHANGED tables

\* Mutant: the name bound in the place of the creator.
Create_BoundWrong(u) ==
  /\ step[u] = "create"
  /\ creator[Group(u)] = Nobody
  /\ creator' = [creator EXCEPT ![Group(u)] = Group(u)]
  /\ Goto(u, "enrol")
  /\ UNCHANGED <<members, invited>>

\* createGroupChat: PRIMARY KEY(group_name).
Create(u) ==
  /\ step[u] = "create"
  /\ creator[Group(u)] = Nobody
  /\ creator' = [creator EXCEPT ![Group(u)] = u]
  /\ Goto(u, "enrol")
  /\ UNCHANGED <<members, invited>>

\* addMember, of a creator or an invitee: PRIMARY KEY(group_name, member).
Enrol(u) ==
  /\ step[u] = "enrol"
  /\ Row(u) \notin members
  /\ members' = members \cup {Row(u)}
  /\ Goto(u, "done")
  /\ UNCHANGED <<creator, invited>>

\* Mutant: the creator is not compared with the sender.
FindCreator_Anyone(u) ==
  /\ step[u] = "find"
  /\ Goto(u, "drop")
  /\ UNCHANGED tables

\* deleteGroupChat: getGroupCreator is the sender.
FindCreator(u) ==
  /\ step[u] = "find"
  /\ creator[Group(u)] = u
  /\ Goto(u, "drop")
  /\ UNCHANGED tables

\* DELETE FROM groups: foreign keys are off in SQLite unless a PRAGMA turns them
\* on, so nothing cascades.  The responses after it go to the sender.
Drop(u) ==
  /\ step[u] = "drop"
  /\ creator' = [creator EXCEPT ![Group(u)] = Nobody]
  /\ Goto(u, "done")
  /\ UNCHANGED <<members, invited>>

\* inviteMember: isMember.
CheckMember(u) ==
  /\ step[u] = "member"
  /\ Row(u) \in members
  /\ Goto(u, "invite")
  /\ UNCHANGED tables

\* INSERT INTO group_invitations: PRIMARY KEY(group_name, invitee).
Invite(u) ==
  LET row == <<Group(u), asked[u].invitee>> IN
  /\ step[u] = "invite"
  /\ row \notin invited
  /\ invited' = invited \cup {row}
  /\ Goto(u, "done")
  /\ UNCHANGED <<creator, members>>

\* Mutant: acceptGroupInvitation ends like rejectGroupInvitation.
Take_NotEnrolled(u) ==
  /\ step[u] = "take"
  /\ invited' = invited \ {Row(u)}
  /\ Goto(u, "done")
  /\ UNCHANGED <<creator, members>>

\* DELETE FROM group_invitations succeeds without a row, too; an acceptance
\* then adds the member.
Take(u) ==
  /\ step[u] = "take"
  /\ invited' = invited \ {Row(u)}
  /\ Goto(u, IF asked[u].op = "accept" THEN "enrol" ELSE "done")
  /\ UNCHANGED <<creator, members>>

\* The response is sent.
Reply(u) ==
  /\ step[u] \in {"done", "failed"}
  /\ step' = [step EXCEPT ![u] = "idle"]
  /\ asked' = [asked EXCEPT ![u] = Nobody]
  /\ UNCHANGED tables

\* The process ends and is started again.  schema.sql drops group_members, in a
\* transaction that is rolled back when one of its statements fails; the server
\* runs all the same, for startServer ignores the result of init.
Restart ==
  /\ members' \in {{}, members}
  /\ asked' = [u \in Users |-> Nobody]
  /\ step' = [u \in Users |-> "idle"]
  /\ UNCHANGED <<creator, invited>>

Serve(u) ==
  \/ Create(u) \/ Enrol(u) \/ FindCreator(u) \/ Drop(u) \/ CheckMember(u) \/ Invite(u)
  \/ Take(u) \/ Reply(u)
  \/ \E s \in Steps \ {"idle", "done", "failed"} : Fails(u, s)

Next ==
  \/ \E u \in Users : Serve(u) \/ \E r \in Request : Receive(u, r)
  \/ Restart

Spec == Init /\ [][Next]_vars

-----------------------------------------------------------------------------
\* How far the request of each user is, of the five stages of module Groups.
Stage(s) ==
  CASE s = "idle" -> "none" [] s = "enrol" -> "owed" [] s \in {"done", "failed"} -> s
    [] OTHER -> "asked"

\* Checking in one statement and acting in another, while other users' requests
\* run, is as good as doing both at once: only its creator deletes a group, and
\* only members invite.  A request is carried out once, and success is answered
\* when both steps of a creation or an acceptance are done.
Promise == INSTANCE Groups WITH stage <- [u \in Users |-> Stage(step[u])]
PromiseKept == Promise!Spec

\* A success response is true when it is sent: the group is its creator's and
\* has her as a member, the acceptance has made a member.
AnswerIsTrue ==
  \A u \in Users : step[u] = "done" =>
    /\ asked[u].op = "create" => creator[Group(u)] = u /\ Row(u) \in members
    /\ asked[u].op = "accept" => Row(u) \in members

\* GroupRepository.cpp:55, "Due to ON DELETE CASCADE, related records in
\* group_members and group_invitations are deleted automatically".  TLC refutes
\* it, so a new group of an old name starts with the members of the old one.
NoOrphans ==
  \A g \in Names : creator[g] = Nobody => \A u \in Users : <<g, u>> \notin members

\* GroupRepository.cpp:33, "Add creator as a member": a group whose creation is
\* over has its creator as a member.  TLC refutes it: a start of the server
\* empties group_members, and then nobody can invite.
CreatorIsMember ==
  \A g \in Names : LET u == creator[g] IN
    u # Nobody /\ (step[u] # "enrol" \/ Group(u) # g) => <<g, u>> \in members
=============================================================================

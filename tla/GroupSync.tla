----------------------------- MODULE GroupSync -----------------------------
(***************************************************************************)
(* The groups page of each client and the tables behind it:                *)
(* GroupViewModel and its controllers, the connection, and the server's    *)
(* GroupHandler and GroupRepository, which are module GroupStore, one SQL  *)
(* statement at a time.                                                    *)
(*                                                                         *)
(* A user has one client at a time: she starts the next one when the       *)
(* server is through with the last.  The server may stop and be started    *)
(* again; clients never reconnect.  Only creations and invitations are     *)
(* sent: no button of the client deletes a group, and the buttons that     *)
(* answer an invitation are beside the invitations shown, which are none   *)
(* (NewInvitations).  A request is not lost on an open connection, which   *)
(* Framing is about.                                                       *)
(***************************************************************************)
EXTENDS Naturals, Sequences

CONSTANTS
  Users,
  Names,       \* names of groups
  Nobody,      \* no creator, no request
  Empty,       \* the empty string
  MaxPresses,  \* bound: buttons pressed
  MaxLogins    \* bound: clients started

ASSUME EmptyIsNoName == Empty \notin Names \cup Users
ASSUME NobodyIsNoUser == Nobody \notin Users
ASSUME Bounds == MaxPresses \in Nat /\ MaxLogins \in Nat

VARIABLES
  creator, members, invited, asked, step,  \* the server, as in GroupStore
  session,      \* client of each user: "none", "on" (logged in), "cut" (its
                \* connection is gone), "closed" (the server still reads)
  groups,       \* m_groups
  invitations,  \* m_receivedInvitations
  up,           \* requests on their way to the server
  down,         \* responses and notifications on their way to the client
  inbox,        \* notifications in the event queue of the user's thread
  presses, logins,  \* counters for the bounds
  founded       \* history: the groups the open client of each user has created

Store == INSTANCE GroupStore
ASSUME NobodyIsNoRequest == Nobody \notin Store!Request

server == <<creator, members, invited, asked, step>>
client == <<session, groups, invitations>>
counters == <<presses, logins>>
vars == <<creator, members, invited, asked, step, session, groups, invitations, up, down, inbox,
          presses, logins, founded>>

\* createGroupCreateRequest and createGroupInviteRequest are among the requests
\* of GroupStore; createGroupFetchRequest changes nothing there.
Fetch == [op |-> "fetch"]
Sent == {r \in Store!Request : r.op \in {"create", "invite"}} \cup {Fetch}

\* A row of the answer to a fetch is an object, the payloads have these fields.
Row == [groupName : Names, creator : Users]
ASSUME RowIsNoString == Row \cap (Names \cup Users) = {}
Response ==
  [type : {"GROUP_CREATE_RESPONSE", "GROUP_INVITE_RESPONSE"}, success : BOOLEAN, groupName : Names]
Fetched == [type : {"GROUP_FETCH_RESPONSE"}, groups : SUBSET Row]
Notification ==
  [type : {"GROUP_INVITE_NOTIFICATION"}, groupName : Names, inviter : Users, invitee : Users]

TypeOK ==
  /\ Store!TypeOK
  /\ session \in [Users -> {"none", "on", "cut", "closed"}]
  /\ groups \in [Users -> SUBSET (Names \cup {Empty})]
  /\ invitations \in [Users -> SUBSET Names]
  /\ up \in [Users -> Seq(Sent)]
  /\ down \in [Users -> Seq(Response \cup Fetched \cup Notification)]
  /\ inbox \in [Users -> Seq(Notification)]
  /\ presses \in 0 .. MaxPresses
  /\ logins \in 0 .. MaxLogins
  /\ founded \in [Users -> SUBSET Names]

NoLists == [u \in Users |-> {}]
NoMessages == [u \in Users |-> <<>>]

Init ==
  /\ Store!Init
  /\ session = [u \in Users |-> "none"]
  /\ groups = NoLists /\ invitations = NoLists /\ founded = NoLists
  /\ up = NoMessages /\ down = NoMessages /\ inbox = NoMessages
  /\ presses = 0 /\ logins = 0

-----------------------------------------------------------------------------
\* The client logs in, and the main window is made: ManageGroupsPage fetches
\* the groups, once.  (It asks for the invitations by a name that GroupViewModel
\* does not have, and no such request is sent.)
Login(u) ==
  /\ session[u] = "none"
  /\ logins < MaxLogins
  /\ logins' = logins + 1
  /\ session' = [session EXCEPT ![u] = "on"]
  /\ up' = [up EXCEPT ![u] = <<Fetch>>]
  /\ UNCHANGED <<server, groups, invitations, down, inbox, presses, founded>>

\* Mutant: sendGroupInvitation does not look whether the group is in the list.
MayAsk_AnyGroup(u, r) == r.op = "create" => r.group \notin groups[u]

\* sendGroupCreateRequest takes a name that is not in the list, and
\* sendGroupInvitation one that is; the invitee is whatever was typed.
MayAsk(u, r) ==
  \/ r.op = "create" /\ r.group \notin groups[u]
  \/ r.op = "invite" /\ r.group \in groups[u]

\* A button.  sendData writes nothing when the connection is gone.
Press(u, r) ==
  /\ session[u] \in {"on", "cut"}
  /\ MayAsk(u, r)
  /\ presses < MaxPresses
  /\ presses' = presses + 1
  /\ up' = IF session[u] = "on" THEN [up EXCEPT ![u] = Append(@, r)] ELSE up
  /\ UNCHANGED <<server, client, down, inbox, logins, founded>>

-----------------------------------------------------------------------------
Tell(u, message) == down' = [down EXCEPT ![u] = Append(@, message)]

\* Mutant: an invitation enrols the invitee at once.
Statement_InviteEnrols(u) ==
  /\ \/ Store!Create(u) \/ Store!CheckMember(u)
     \/ /\ step[u] = "invite"
        /\ members' = members \cup {<<Store!Group(u), asked[u].invitee>>}
        /\ Store!Goto(u, "done")
        /\ UNCHANGED <<creator, invited>>
     \/ \E s \in {"create", "enrol", "member", "invite"} : Store!Fails(u, s)
  /\ UNCHANGED <<client, counters, up, down, inbox, founded>>

\* The next request of u's thread that changes the tables, ...
Receive(u) ==
  /\ up[u] # <<>> /\ Head(up[u]) # Fetch
  /\ Store!Receive(u, Head(up[u]))
  /\ up' = [up EXCEPT ![u] = Tail(@)]
  /\ UNCHANGED <<client, counters, down, inbox, founded>>

\* ... its statements (of a creation, and of an invitation), or their failures, ...
Statement(u) ==
  /\ \/ Store!Create(u) \/ Store!CheckMember(u) \/ Store!Invite(u)
     \/ \E s \in {"create", "enrol", "member", "invite"} : Store!Fails(u, s)
  /\ UNCHANGED <<client, counters, up, down, inbox, founded>>

Enrol(u) ==
  /\ Store!Enrol(u)
  /\ founded' = IF session[u] = "on" THEN [founded EXCEPT ![u] = @ \cup {Store!Group(u)}] ELSE founded
  /\ UNCHANGED <<client, counters, up, down, inbox>>

\* ... and its response.  The invitee is notified after it, if she has a session;
\* the client has no handler for the response in between, so this is one step.
Answer(u) ==
  LET r == asked[u]
      ok == step[u] = "done"
  IN
  /\ Store!Reply(u)
  /\ \/ /\ r.op = "create"
        /\ Tell(u, [type |-> "GROUP_CREATE_RESPONSE", success |-> ok, groupName |-> r.group])
        /\ UNCHANGED inbox
     \/ /\ r.op = "invite"
        /\ Tell(u, [type |-> "GROUP_INVITE_RESPONSE", success |-> ok, groupName |-> r.group])
        /\ inbox' = IF ok /\ session[r.invitee] \in {"on", "closed"}
                      THEN [inbox EXCEPT ![r.invitee] =
                              Append(@, [type |-> "GROUP_INVITE_NOTIFICATION", groupName |-> r.group,
                                         inviter |-> u, invitee |-> r.invitee])]
                      ELSE inbox
  /\ UNCHANGED <<client, counters, up, founded>>

\* Mutant: the groups of anybody.
UserGroups_NoWhere(u) ==
  {row \in Row : creator[row.groupName] = row.creator /\ \E v \in Users : <<row.groupName, v>> \in members}

\* getUserGroups: groups JOIN group_members WHERE member = u.
UserGroups(u) == {row \in Row : creator[row.groupName] = row.creator /\ <<row.groupName, u>> \in members}

\* handleFetchGroup answers with an empty list when the query fails.
ServeFetch(u) ==
  /\ step[u] = "idle"
  /\ up[u] # <<>> /\ Head(up[u]) = Fetch
  /\ up' = [up EXCEPT ![u] = Tail(@)]
  /\ \E rows \in {UserGroups(u), {}} : Tell(u, [type |-> "GROUP_FETCH_RESPONSE", groups |-> rows])
  /\ UNCHANGED <<server, client, counters, inbox, founded>>

\* handleMessage, between two requests.
Deliver(u) ==
  /\ step[u] = "idle"
  /\ inbox[u] # <<>>
  /\ Tell(u, Head(inbox[u]))
  /\ inbox' = [inbox EXCEPT ![u] = Tail(@)]
  /\ UNCHANGED <<server, client, counters, up, founded>>

-----------------------------------------------------------------------------
\* Mutant: a row is taken as it is.
AsString_AsIs(v) == v

\* QJsonObject::value of a field that is not there, and QJsonValue::toString of
\* what is no string, are empty.
Value(payload, field) == IF field \in DOMAIN payload THEN payload[field] ELSE Empty
AsString(v) == IF v \in Names \cup Users THEN v ELSE Empty

\* Mutant: "success" is not looked at.
NewGroups_AnyAnswer(a) ==
  CASE a.type = "GROUP_CREATE_RESPONSE" -> {a.groupName}
    [] a.type = "GROUP_FETCH_RESPONSE" -> {AsString(row) : row \in a.groups}
    [] OTHER -> {}

\* Mutant: no handler for GROUP_CREATE_RESPONSE.
NewGroups_FetchedOnly(a) ==
  IF a.type = "GROUP_FETCH_RESPONSE" THEN {AsString(row) : row \in a.groups} ELSE {}

\* handleCreateGroupResponse and handleFetchGroupsResponse, which reads each row
\* as a string.
NewGroups(a) ==
  CASE a.type = "GROUP_CREATE_RESPONSE" /\ a.success -> {a.groupName}
    [] a.type = "GROUP_FETCH_RESPONSE" -> {AsString(row) : row \in a.groups}
    [] OTHER -> {}

\* handleGroupInvitationReceivedNotification: for this user?
NewInvitations(u, a) ==
  IF a.type = "GROUP_INVITE_NOTIFICATION" /\ Value(a, "to") = u THEN {a.groupName} ELSE {}

Show(u) ==
  /\ session[u] = "on"
  /\ down[u] # <<>>
  /\ LET a == Head(down[u]) IN
       /\ groups' = [groups EXCEPT ![u] = @ \cup NewGroups(a)]
       /\ invitations' = [invitations EXCEPT ![u] = @ \cup NewInvitations(u, a)]
  /\ down' = [down EXCEPT ![u] = Tail(@)]
  /\ UNCHANGED <<server, session, counters, up, inbox, founded>>

\* The client is closed.  The server reads the requests that have arrived, or
\* loses them; what is for the client is lost.
Close(u) ==
  /\ session[u] \in {"on", "cut"}
  /\ session' = [session EXCEPT ![u] = IF @ = "on" THEN "closed" ELSE "none"]
  /\ groups' = [groups EXCEPT ![u] = {}]
  /\ invitations' = [invitations EXCEPT ![u] = {}]
  /\ founded' = [founded EXCEPT ![u] = {}]
  /\ \E n \in 0 .. Len(up[u]) : up' = [up EXCEPT ![u] = SubSeq(@, 1, n)]
  /\ UNCHANGED <<server, counters, down, inbox>>

\* onDisconnected, once the server has read everything.
Disconnected(u) ==
  /\ session[u] = "closed"
  /\ up[u] = <<>> /\ step[u] = "idle"
  /\ session' = [session EXCEPT ![u] = "none"]
  /\ down' = [down EXCEPT ![u] = <<>>]
  /\ inbox' = [inbox EXCEPT ![u] = <<>>]
  /\ UNCHANGED <<server, groups, invitations, counters, up, founded>>

\* The server ends and is started again.  The clients' connections are gone.
ServerRestart ==
  /\ Store!Restart
  /\ session' = [u \in Users |-> CASE session[u] = "on" -> "cut" [] session[u] = "closed" -> "none"
                                   [] OTHER -> session[u]]
  /\ up' = NoMessages /\ down' = NoMessages /\ inbox' = NoMessages
  /\ UNCHANGED <<groups, invitations, counters, founded>>

Server(u) == Receive(u) \/ Statement(u) \/ Enrol(u) \/ Answer(u) \/ ServeFetch(u) \/ Deliver(u)

Next ==
  \/ \E u \in Users :
       \/ Login(u) \/ Close(u) \/ Disconnected(u) \/ Server(u) \/ Show(u)
       \/ \E r \in Sent \ {Fetch} : Press(u, r)
  \/ ServerRestart

Spec == Init /\ [][Next]_vars

-----------------------------------------------------------------------------
\* Nothing that changes u's lists is on its way.
Quiet(u) == session[u] = "on" /\ up[u] = <<>> /\ down[u] = <<>> /\ inbox[u] = <<>> /\ step[u] = "idle"

\* A client lists only what its user has: a name stands for a group she founded,
\* and the blank entry, which the answer to the fetch leaves, for some group she
\* is a member of, as long as the server runs.
ListedIsOwn ==
  \A u \in Users :
    /\ \A g \in groups[u] \ {Empty} : creator[g] = u
    /\ session[u] = "on" /\ Empty \in groups[u] => \E g \in Names : <<g, u>> \in members

\* The check of the client is as good as the one of the server: an invitation on
\* its way to the server, or being served, comes from a member, whatever
\* restarts dropped group_members in between.
InviterIsMember ==
  \A u \in Users : \A r \in {up[u][i] : i \in DOMAIN up[u]} \cup {asked[u]} :
    r \in Sent /\ r.op = "invite" => <<r.group, u>> \in members

\* Whoever founds a group finds it in her list, unless she closes the client.
FoundedIsListed == \A u \in Users : Quiet(u) => founded[u] \subseteq groups[u]

\* With this client a group consists of its founder: nobody joins without an
\* invitation (acceptGroupInvitation does not look for one), and no member is
\* left of a group that is gone (deleteGroupChat leaves them).
MembersAreFounders == \A g \in Names, u \in Users : <<g, u>> \in members => creator[g] = u

\* README.md:16, "Accept group chat invitations": an invitation that waits at the
\* server is in the list of an invitee who waits for nothing.  TLC refutes it: the
\* notification has "inviter" and "invitee", the client looks for "from" and "to".
InvitationShown ==
  \A u \in Users : Quiet(u) => \A g \in Names : <<g, u>> \in invited => g \in invitations[u]

\* GroupsResponseHandler.cpp:29, "Groups fetched successfully": the groups of the
\* user are in the list.  TLC refutes it: the rows are objects, read as strings.
GroupsAreListed ==
  \A u \in Users : Quiet(u) => \A g \in Names : <<g, u>> \in members => g \in groups[u]
=============================================================================

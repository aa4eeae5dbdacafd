---------------------------- MODULE ContactSync ----------------------------
(***************************************************************************)
(* The contact lists of each client, and what keeps them in step with the  *)
(* tables: ContactViewModel and its controllers, the connection, one       *)
(* server thread per user with ContactHandler, and the notifications in    *)
(* the event queues of the threads.                                        *)
(*                                                                         *)
(* Every user has at most one session, which may come and go once.  All    *)
(* threads share one database connection: of two calls of                  *)
(* updateRequestStatus that overlap one finds the transaction ended by the *)
(* other, and its COMMIT fails.  No statement fails for another reason:    *)
(* ContactStore has these failures, and what they undo.  Nor is a request  *)
(* lost on an open connection, which Framing is about.  Failure responses  *)
(* are left out: the client only logs them.                                *)
(***************************************************************************)
EXTENDS Naturals, Sequences

CONSTANTS
  Users,      \* users with an account
  MaxPresses  \* bound: buttons pressed

ASSUME PressesAssumption == MaxPresses \in Nat

VARIABLES
  session,      \* client of each user: "none", "on" (logged in), "closed"
  lists,        \* m_friends, m_sentRequests and m_receivedRequests of each client
  up,           \* requests on their way to the server
  down,         \* responses and notifications on their way to the client
  busy,         \* what is left to do of the request of the user's thread
  inbox,        \* notifications in the event queue of the user's thread
  rows,         \* friend_requests: pairs <<from, to>>
  pending,      \* those with status 'pending'
  friendships,  \* friends, in either direction: sets {user1, user2}
  inTx,         \* a transaction is open on the connection
  presses,      \* counter for the bound
  deleted,      \* history: pairs of users one of whom has deleted the other
  refused,      \* history: the calls <<op, row>> whose COMMIT has failed
  consent       \* history: who has asked whom, and accepted whom

client == <<session, lists, presses, consent>>
requests == <<rows, pending, inTx, refused>>
tables == <<requests, friendships, deleted>>
vars == <<client, up, down, busy, inbox, tables>>

Kinds == {"friends", "sent", "received"}
Lists == [Kinds -> SUBSET Users]
NoLists == [k \in Kinds |-> {}]

Ops == {"send", "cancel", "accept", "reject", "delete"}
Request == [op : Ops, to : Users] \cup [op : {"fetch"}, list : Kinds]
Fetch(k) == [op |-> "fetch", list |-> k]

Response == [kind : {"response"}, op : Ops, to : Users]
Note == [kind : {"note"}, op : Ops, from : Users]
Fetched == [kind : {"fetched"}, list : Kinds, users : SUBSET Users]

Idle == [at |-> "idle"]
Steps(at, ops) == [at : {at}, op : ops, to : Users]
Busy ==
  {Idle} \cup Steps("begin", {"send"}) \cup Steps("update", Ops \ {"delete"})
    \cup Steps("delete", {"accept", "reject"}) \cup Steps("commit", Ops \ {"delete"})
    \cup Steps("befriend", {"accept"}) \cup Steps("unfriend", {"delete"}) \cup Steps("notify", Ops)

Pairs == {{u, v} : u, v \in Users}

TypeOK ==
  /\ session \in [Users -> {"none", "on", "closed"}]
  /\ lists \in [Users -> Lists]
  /\ up \in [Users -> Seq(Request)]
  /\ down \in [Users -> Seq(Response \cup Note \cup Fetched)]
  /\ busy \in [Users -> Busy]
  /\ inbox \in [Users -> Seq(Note)]
  /\ rows \subseteq Users \X Users
  /\ pending \subseteq rows
  /\ friendships \subseteq Pairs
  /\ presses \in 0 .. MaxPresses
  /\ inTx \in BOOLEAN
  /\ deleted \subseteq Pairs
  /\ refused \subseteq Ops \X (Users \X Users)
  /\ consent \subseteq {"send", "accept"} \X Users \X Users

Init ==
  /\ session = [u \in Users |-> "none"]
  /\ lists = [u \in Users |-> NoLists]
  /\ up = [u \in Users |-> <<>>]
  /\ down = [u \in Users |-> <<>>]
  /\ busy = [u \in Users |-> Idle]
  /\ inbox = [u \in Users |-> <<>>]
  /\ rows = {}
  /\ pending = {}
  /\ friendships = {}
  /\ presses = 0
  /\ inTx = FALSE
  /\ deleted = {}
  /\ refused = {}
  /\ consent = {}

-----------------------------------------------------------------------------
\* The login is over, addClient has registered the thread, and the main window
\* is made: ManageContactsPage fetches the three lists, once.
Login(u) ==
  /\ session[u] = "none"
  /\ session' = [session EXCEPT ![u] = "on"]
  /\ up' = [up EXCEPT ![u] = <<Fetch("friends"), Fetch("sent"), Fetch("received")>>]
  /\ UNCHANGED <<lists, down, busy, inbox, presses, consent, tables>>

\* Mutant: the buttons that answer are beside sent requests, too.
Offered_Sent(u, op) ==
  CASE op = "send" -> Users \ ({u} \cup UNION {lists[u][k] : k \in Kinds})
    [] op = "cancel" -> lists[u].sent
    [] op \in {"accept", "reject"} -> lists[u].received \cup lists[u].sent
    [] op = "delete" -> lists[u].friends

\* Whom each button of the page is for: the sender of a new request looks at his
\* lists, the others are next to the entries of a list.
Offered(u, op) ==
  CASE op = "send" -> Users \ ({u} \cup UNION {lists[u][k] : k \in Kinds})
    [] op = "cancel" -> lists[u].sent
    [] op \in {"accept", "reject"} -> lists[u].received
    [] op = "delete" -> lists[u].friends

\* A button: the request is written at once, the lists wait for the response.
Press(u, op, p) ==
  /\ session[u] = "on"
  /\ p \in Offered(u, op)
  /\ presses < MaxPresses
  /\ presses' = presses + 1
  /\ up' = [up EXCEPT ![u] = Append(@, [op |-> op, to |-> p])]
  /\ consent' = IF op \in {"send", "accept"} THEN consent \cup {<<op, u, p>>} ELSE consent
  /\ UNCHANGED <<session, lists, down, busy, inbox, tables>>

\* The next request of u's thread, once it is through with the last one.
Takes(u, op) ==
  /\ busy[u] = Idle
  /\ up[u] # <<>> /\ Head(up[u]).op = op
  /\ up' = [up EXCEPT ![u] = Tail(@)]
Peer(u) == Head(up[u]).to

Tell(u, answer) == down' = [down EXCEPT ![u] = Append(@, answer)]
Respond(u, op, p) == Tell(u, [kind |-> "response", op |-> op, to |-> p])
Goto(u, step, op, p) == busy' = [busy EXCEPT ![u] = [at |-> step, op |-> op, to |-> p]]

\* createFriendRequest without a row: the INSERT, and the response.
InsertRequest(u) ==
  LET r == <<u, Peer(u)>> IN
  /\ Takes(u, "send")
  /\ r \notin rows
  /\ rows' = rows \cup {r} /\ pending' = pending \cup {r}
  /\ Respond(u, "send", Peer(u))
  /\ Goto(u, "notify", "send", Peer(u))
  /\ UNCHANGED <<client, inbox, friendships, inTx, deleted, refused>>

\* createFriendRequest that finds a row, and calls updateRequestStatus.
FindRequest(u) ==
  /\ Takes(u, "send")
  /\ <<u, Peer(u)>> \in rows
  /\ Goto(u, "begin", "send", Peer(u))
  /\ UNCHANGED <<client, down, inbox, tables>>

\* updateRequestStatus: BEGIN, which fails unnoticed in an open transaction.
Begin == inTx' = TRUE /\ UNCHANGED <<rows, pending, refused>>

BeginSend(u) ==
  /\ busy[u].at = "begin"
  /\ Begin
  /\ Goto(u, "update", "send", busy[u].to)
  /\ UNCHANGED <<client, up, down, inbox, friendships, deleted>>

\* handleCancelSentRequest and handleResponseRequest begin with it.
BeginChange(u, op) ==
  /\ Takes(u, op)
  /\ Begin
  /\ Goto(u, "update", op, Peer(u))
  /\ UNCHANGED <<client, down, inbox, friendships, deleted>>

\* Mutant: an answer with from and to in the order of the other calls.
Row_NotReversed(u) == <<u, busy[u].to>>

\* The row the call is about: the one who answers it is its second user.
Row(u) == IF busy[u].op \in {"accept", "reject"} THEN <<busy[u].to, u>> ELSE <<u, busy[u].to>>

\* UPDATE friend_requests SET status, of a row that may be gone.
Update(u) ==
  LET op == busy[u].op IN
  /\ busy[u].at = "update"
  /\ pending' = IF op = "send" THEN pending \cup ({Row(u)} \cap rows) ELSE pending \ {Row(u)}
  /\ Goto(u, IF op \in {"accept", "reject"} THEN "delete" ELSE "commit", op, busy[u].to)
  /\ UNCHANGED <<client, up, down, inbox, rows, friendships, inTx, deleted, refused>>

\* DELETE FROM friend_requests, whatever the row has become.
Delete(u) ==
  /\ busy[u].at = "delete"
  /\ rows' = rows \ {Row(u)} /\ pending' = pending \ {Row(u)}
  /\ Goto(u, "commit", busy[u].op, busy[u].to)
  /\ UNCHANGED <<client, up, down, inbox, friendships, inTx, deleted, refused>>

\* return commit(): it succeeds in a transaction, whoever began it, ...
Commit(u) ==
  LET op == busy[u].op
      p == busy[u].to
  IN
  /\ busy[u].at = "commit"
  /\ inTx /\ inTx' = FALSE
  /\ \/ op = "accept" /\ Goto(u, "befriend", op, p) /\ UNCHANGED down
     \/ op # "accept" /\ Goto(u, "notify", op, p) /\ Respond(u, op, p)
  /\ UNCHANGED <<client, up, inbox, rows, pending, friendships, deleted, refused>>

\* ... and fails when another thread's COMMIT has ended it: a failure is
\* answered, although the UPDATE and the DELETE were carried out.
CommitFails(u) ==
  /\ busy[u].at = "commit"
  /\ ~inTx
  /\ busy' = [busy EXCEPT ![u] = Idle]
  /\ refused' = refused \cup {<<busy[u].op, Row(u)>>}
  /\ UNCHANGED <<client, up, down, inbox, rows, pending, inTx, friendships, deleted>>

\* addFriendship, its result ignored.
Befriend(u) ==
  /\ busy[u].at = "befriend"
  /\ LET p == busy[u].to IN
       /\ friendships' = friendships \cup {{u, p}}
       /\ Respond(u, "accept", p)
       /\ Goto(u, "notify", "accept", p)
  /\ UNCHANGED <<client, up, inbox, requests, deleted>>

\* handleDeleteFriend: areFriends, or a failure.
CheckFriends(u) ==
  /\ Takes(u, "delete")
  /\ IF {u, Peer(u)} \in friendships THEN Goto(u, "unfriend", "delete", Peer(u)) ELSE UNCHANGED busy
  /\ UNCHANGED <<client, down, inbox, tables>>

\* deleteFriendship, which succeeds without a row, too.
Unfriend(u) ==
  /\ busy[u].at = "unfriend"
  /\ LET p == busy[u].to IN
       /\ friendships' = friendships \ {{u, p}}
       /\ deleted' = deleted \cup {{u, p}}
       /\ Respond(u, "delete", p)
       /\ Goto(u, "notify", "delete", p)
  /\ UNCHANGED <<client, up, inbox, requests>>

\* Mutant: getPendingRequests selects the rows.
Table_Rows(u, k) ==
  CASE k = "friends" -> {p \in Users \ {u} : {u, p} \in friendships}
    [] k = "sent" -> {p \in Users : <<u, p>> \in pending}
    [] k = "received" -> {r \in pending : r[2] = u}

\* getFriendList, getSentRequestList, getPendingRequests.
Table(u, k) ==
  CASE k = "friends" -> {p \in Users \ {u} : {u, p} \in friendships}
    [] k = "sent" -> {p \in Users : <<u, p>> \in pending}
    [] k = "received" -> {p \in Users : <<p, u>> \in pending}

ServeFetch(u) ==
  /\ Takes(u, "fetch")
  /\ LET k == Head(up[u]).list IN
       Tell(u, [kind |-> "fetched", list |-> k, users |-> Table(u, k)])
  /\ UNCHANGED <<client, busy, inbox, tables>>

\* sendMessageToClient: queued for a user who is logged in.
Notify(u) ==
  /\ busy[u].at = "notify"
  /\ LET p == busy[u].to IN
       inbox' = IF session[p] = "on"
                  THEN [inbox EXCEPT ![p] = Append(@, [kind |-> "note", op |-> busy[u].op, from |-> u])]
                  ELSE inbox
  /\ busy' = [busy EXCEPT ![u] = Idle]
  /\ UNCHANGED <<client, up, down, tables>>

\* handleMessage, between two requests.
Deliver(u) ==
  /\ busy[u] = Idle
  /\ inbox[u] # <<>>
  /\ Tell(u, Head(inbox[u]))
  /\ inbox' = [inbox EXCEPT ![u] = Tail(@)]
  /\ UNCHANGED <<client, up, busy, tables>>

\* What the handlers of ContactsResponseHandler, ContactsNotificationHandler and
\* the three setters make of a client's lists.
With(l, k, p) == [l EXCEPT ![k] = @ \cup {p}]
Without(l, k, p) == [l EXCEPT ![k] = @ \ {p}]
OnResponse(l, op, p) ==
  CASE op = "send" -> With(l, "sent", p)
    [] op = "cancel" -> Without(l, "sent", p)
    [] op = "accept" -> With(Without(l, "received", p), "friends", p)
    [] op = "reject" -> Without(l, "received", p)
    [] op = "delete" -> Without(l, "friends", p)

\* Mutant: a rejection does not take the request out of the list.
OnNote_KeepsSent(l, op, p) ==
  CASE op = "send" -> With(l, "received", p)
    [] op = "cancel" -> Without(l, "received", p)
    [] op = "accept" -> Without(With(l, "friends", p), "sent", p)
    [] op = "reject" -> l
    [] op = "delete" -> Without(l, "friends", p)

\* Mutant: "accept" is not looked at.
OnNote_AlwaysFriends(l, op, p) ==
  CASE op = "send" -> With(l, "received", p)
    [] op = "cancel" -> Without(l, "received", p)
    [] op \in {"accept", "reject"} -> Without(With(l, "friends", p), "sent", p)
    [] op = "delete" -> Without(l, "friends", p)

OnNote(l, op, p) ==
  CASE op = "send" -> With(l, "received", p)
    [] op = "cancel" -> Without(l, "received", p)
    [] op = "accept" -> Without(With(l, "friends", p), "sent", p)
    [] op = "reject" -> Without(l, "sent", p)
    [] op = "delete" -> Without(l, "friends", p)

Show(u) ==
  /\ session[u] = "on"
  /\ down[u] # <<>>
  /\ LET answer == Head(down[u]) IN
       lists' = [lists EXCEPT ![u] =
         CASE answer.kind = "fetched" -> [@ EXCEPT ![answer.list] = answer.users]
           [] answer.kind = "response" -> OnResponse(@, answer.op, answer.to)
           [] answer.kind = "note" -> OnNote(@, answer.op, answer.from)]
  /\ down' = [down EXCEPT ![u] = Tail(@)]
  /\ UNCHANGED <<session, up, busy, inbox, presses, consent, tables>>

\* The client is closed.  The server reads the requests that have arrived, or
\* loses them; what is for the client is lost.
Close(u) ==
  /\ session[u] = "on"
  /\ session' = [session EXCEPT ![u] = "closed"]
  /\ lists' = [lists EXCEPT ![u] = NoLists]
  /\ \E n \in 0 .. Len(up[u]) : up' = [up EXCEPT ![u] = SubSeq(@, 1, n)]
  /\ UNCHANGED <<down, busy, inbox, presses, consent, tables>>

Server(u) ==
  \/ InsertRequest(u) \/ FindRequest(u) \/ BeginSend(u) \/ Update(u) \/ Delete(u)
  \/ Commit(u) \/ CommitFails(u) \/ Befriend(u) \/ CheckFriends(u) \/ Unfriend(u)
  \/ ServeFetch(u) \/ Notify(u) \/ Deliver(u)
  \/ \E op \in {"cancel", "accept", "reject"} : BeginChange(u, op)

Next ==
  \E u \in Users :
    \/ Login(u) \/ Close(u) \/ Server(u) \/ Show(u)
    \/ \E op \in Ops, p \in Users : Press(u, op, p)

Spec == Init /\ [][Next]_vars

-----------------------------------------------------------------------------
\* Nothing that changes u's lists is on its way.
Quiet(u) ==
  /\ session[u] = "on"
  /\ up[u] = <<>> /\ down[u] = <<>> /\ inbox[u] = <<>>
  /\ busy[u] = Idle
  /\ \A v \in Users : busy[v] # Idle => busy[v].to # u

\* No request is overlooked: whoever is logged in and waits for nothing has every
\* pending request to him in his list, were it stored before, during or after
\* his login, and whatever he and its sender have done before, at the same time
\* too; unless it was sent again, and that answered with a failure.
RequestsShown ==
  \A u, p \in Users : Quiet(u) /\ <<"send", <<p, u>>>> \notin refused =>
    (p \in Table(u, "received") => p \in lists[u].received)

\* Nobody waits for an answer in vain: a request in the list of sent ones is
\* pending at the server, whoever cancelled, answered or repeated it, at the same
\* time too; unless it was cancelled or answered, and that with a failure.
SentIsPending ==
  \A u, p \in Users :
    Quiet(u) /\ (\A op \in Ops \ {"send"} : <<op, <<u, p>>>> \notin refused) =>
      (p \in lists[u].sent => p \in Table(u, "sent"))

\* ContactHandler.cpp:40, "Failed to send friend request": a request answered so
\* is not pending.  TLC refutes it: an answer of the other user committed the
\* transaction in which the UPDATE was carried out.
FailedIsNotPending ==
  [][\A u \in Users : CommitFails(u) /\ busy[u].op = "send" => Row(u) \notin pending]_vars

\* ContactHandler.cpp:50, "Failed to cancel friend request": a request of which
\* this is answered stays.  TLC refutes it in the same way.
FailedIsPending ==
  [][\A u \in Users : CommitFails(u) /\ busy[u].op = "cancel" => Row(u) \in pending]_vars

\* Two users who never deleted each other agree with the table on whether they
\* are friends.
FriendsAgree ==
  \A u, p \in Users : Quiet(u) /\ {u, p} \notin deleted =>
    (p \in lists[u].friends <=> p \in Table(u, "friends"))

\* Nobody gets a friend he did not want: of two friends one pressed the button
\* that asks and the other the one that accepts, although the server carries out
\* an acceptance whatever has become of the request.
FriendsConsented ==
  \A u, p \in Users : {u, p} \in friendships =>
    \E x, y \in {u, p} : x # y /\ <<"send", x, y>> \in consent /\ <<"accept", y, x>> \in consent

\* README.md:78, "View your friends list": the list of a user who waits for
\* nothing is the one of the table.  TLC refutes it: the notification of an
\* acceptance, on its way while the new friend is deleted, makes a friend again.
FriendsAreFriends ==
  \A u \in Users : Quiet(u) => lists[u].friends = Table(u, "friends")
=============================================================================

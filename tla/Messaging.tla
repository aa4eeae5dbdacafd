----------------------------- MODULE Messaging -----------------------------
(***************************************************************************)
(* Private messages from one client's send button to the other client's    *)
(* screen: ConversationViewModel and its controllers, the connection, one  *)
(* server thread per user with MessageHandler and MessageRepository, and   *)
(* the notification on its way through the receiver's event queue.         *)
(*                                                                         *)
(* Every user has at most one session here, which may come and go once;    *)
(* Sessions is about several.  Requests may be lost on an open connection, *)
(* as Framing shows, and the queries may fail.                             *)
(***************************************************************************)
EXTENDS Naturals, Sequences

CONSTANTS
  Users,       \* users with an account
  Nobody,      \* no conversation is open
  MaxMessages, \* bound: messages sent
  MaxOpens     \* bound: conversations opened

ASSUME NobodyIsNoUser == Nobody \notin Users
ASSUME Bounds == MaxMessages \in Nat /\ MaxOpens \in Nat

VARIABLES
  session,     \* client of each user: "none", "on" (logged in), "closed"
  opened,      \* m_currentReceiver
  view,        \* m_messages
  up,          \* requests on their way to the server
  torn,        \* the read buffer of the user's thread has a request without its newline
  down,        \* responses and notifications on their way to the client
  busy,        \* the send request the user's server thread is in
  inbox,       \* notifications in the event queue of the user's thread
  messages,    \* the table, in the order of insertion
  sent, opens, \* counters for the bounds
  missed       \* history: what the last fetch of each user should have brought, and did not

vars == <<session, opened, view, up, torn, down, busy, inbox, messages, sent, opens, missed>>
client == <<session, opened, view>>

Message == [from : Users, to : Users, id : 1 .. MaxMessages]

\* What createSendMessageResponse carries in place of a message not stored.
FailedText(m) == [from |-> m.from, to |-> m.to, id |-> 0]
Entry == Message \cup [from : Users, to : Users, id : {0}]

Send(m) == [kind |-> "send", msg |-> m]
Fetch(p) == [kind |-> "fetch", peer |-> p]
Request == [kind : {"send"}, msg : Message] \cup [kind : {"fetch"}, peer : Users]

\* "success" is TRUE in every response that createSendMessageResponse makes.
Ack(e) == [kind |-> "ack", msg |-> e, success |-> TRUE]
Note(m) == [kind |-> "note", msg |-> m]
History(ms) == [kind |-> "history", msgs |-> ms]
Answer ==
  [kind : {"ack"}, msg : Entry, success : BOOLEAN] \cup [kind : {"note"}, msg : Message]
    \cup [kind : {"history"}, msgs : Seq(Message)]

Idle == [at |-> "idle"]
Busy == {Idle} \cup [at : {"notify", "ack", "failed"}, msg : Message]

TypeOK ==
  /\ session \in [Users -> {"none", "on", "closed"}]
  /\ opened \in [Users -> Users \cup {Nobody}]
  /\ view \in [Users -> Seq(Entry)]
  /\ up \in [Users -> Seq(Request)]
  /\ torn \in [Users -> BOOLEAN]
  /\ down \in [Users -> Seq(Answer)]
  /\ busy \in [Users -> Busy]
  /\ inbox \in [Users -> Seq(Message)]
  /\ messages \in Seq(Message)
  /\ sent \in 0 .. MaxMessages
  /\ opens \in 0 .. MaxOpens
  /\ missed \in [Users -> SUBSET Message]

Init ==
  /\ session = [u \in Users |-> "none"]
  /\ opened = [u \in Users |-> Nobody]
  /\ view = [u \in Users |-> <<>>]
  /\ up = [u \in Users |-> <<>>]
  /\ torn = [u \in Users |-> FALSE]
  /\ down = [u \in Users |-> <<>>]
  /\ busy = [u \in Users |-> Idle]
  /\ inbox = [u \in Users |-> <<>>]
  /\ messages = <<>>
  /\ sent = 0
  /\ opens = 0
  /\ missed = [u \in Users |-> {}]

-----------------------------------------------------------------------------
Between(m, u, p) == {m.from, m.to} = {u, p}

\* Mutant: the WHERE clause without its second direction.
Conversation_OneDirection(u, p) == SelectSeq(messages, LAMBDA m : m.from = u /\ m.to = p)

\* getMessages: ORDER BY timestamp.  One sender's timestamps do not decrease;
\* how two senders' messages mix is not looked at.
Conversation(u, p) ==
  LET upTo[n \in 0 .. Len(messages)] ==
        IF n = 0 THEN <<>>
        ELSE IF Between(messages[n], u, p) THEN Append(upTo[n - 1], messages[n])
        ELSE upTo[n - 1]
  IN upTo[Len(messages)]

Tell(u, a) == down' = [down EXCEPT ![u] = Append(@, a)]

\* The client logs in; addClient registers it (module Sessions).
Login(u) ==
  /\ session[u] = "none"
  /\ session' = [session EXCEPT ![u] = "on"]
  /\ UNCHANGED <<opened, view, up, torn, down, busy, inbox, messages, sent, opens, missed>>

\* setCurrentReceiver: another receiver, hence fetchMessages.  The messages of
\* the last conversation stay on the screen until the answer.
Open(u, p) ==
  /\ session[u] = "on"
  /\ p \notin {u, opened[u]}
  /\ opens < MaxOpens
  /\ opens' = opens + 1
  /\ opened' = [opened EXCEPT ![u] = p]
  /\ up' = [up EXCEPT ![u] = Append(@, Fetch(p))]
  /\ UNCHANGED <<session, view, torn, down, busy, inbox, messages, sent, missed>>

\* Mutant: the button works before a conversation is chosen.
Press_NobodyChosen(u) ==
  /\ session[u] = "on"
  /\ sent < MaxMessages
  /\ sent' = sent + 1
  /\ up' = [up EXCEPT ![u] = Append(@, Send([from |-> u, to |-> opened[u], id |-> sent + 1]))]
  /\ UNCHANGED <<session, opened, view, torn, down, busy, inbox, messages, opens, missed>>

\* The send button: to inConversationWith, with nothing shown yet.
Press(u) ==
  /\ session[u] = "on"
  /\ opened[u] # Nobody
  /\ sent < MaxMessages
  /\ sent' = sent + 1
  /\ up' = [up EXCEPT ![u] = Append(@, Send([from |-> u, to |-> opened[u], id |-> sent + 1]))]
  /\ UNCHANGED <<session, opened, view, torn, down, busy, inbox, messages, opens, missed>>

\* The next request of u's thread, of the kind.
Takes(u, kind) ==
  /\ busy[u] = Idle /\ ~torn[u]
  /\ up[u] # <<>> /\ Head(up[u]).kind = kind
  /\ up' = [up EXCEPT ![u] = Tail(@)]

\* handleSendMessage up to storeMessage: "store the message first".
Store(u) ==
  /\ Takes(u, "send")
  /\ LET m == Head(up[u]).msg IN
       \/ /\ messages' = Append(messages, m)
          /\ busy' = [busy EXCEPT ![u] = [at |-> "notify", msg |-> m]]
       \/ /\ busy' = [busy EXCEPT ![u] = [at |-> "failed", msg |-> m]]
          /\ UNCHANGED messages
  /\ UNCHANGED <<client, torn, down, inbox, sent, opens, missed>>

\* Mutant: messageToClient is connected to the handler twice.
Notify_Twice(u) ==
  /\ busy[u].at = "notify"
  /\ LET m == busy[u].msg IN
       /\ inbox' = IF session[m.to] = "on"
                     THEN [inbox EXCEPT ![m.to] = @ \o <<m, m>>] ELSE inbox
       /\ busy' = [busy EXCEPT ![u] = [at |-> "ack", msg |-> m]]
  /\ UNCHANGED <<client, up, torn, down, messages, sent, opens, missed>>

\* sendMessageToClient: queued for a receiver who is logged in.
Notify(u) ==
  /\ busy[u].at = "notify"
  /\ LET m == busy[u].msg IN
       /\ inbox' = IF session[m.to] = "on"
                     THEN [inbox EXCEPT ![m.to] = Append(@, m)] ELSE inbox
       /\ busy' = [busy EXCEPT ![u] = [at |-> "ack", msg |-> m]]
  /\ UNCHANGED <<client, up, torn, down, messages, sent, opens, missed>>

\* Mutant: the failure, too, is answered with the message.
Acknowledge_Echo(u) ==
  /\ busy[u].at \in {"ack", "failed"}
  /\ Tell(u, Ack(busy[u].msg))
  /\ busy' = [busy EXCEPT ![u] = Idle]
  /\ UNCHANGED <<client, up, torn, inbox, messages, sent, opens, missed>>

\* "ack sender", also after a failure, with another text.
Acknowledge(u) ==
  /\ busy[u].at \in {"ack", "failed"}
  /\ LET m == busy[u].msg IN
       Tell(u, Ack(IF busy[u].at = "ack" THEN m ELSE FailedText(m)))
  /\ busy' = [busy EXCEPT ![u] = Idle]
  /\ UNCHANGED <<client, up, torn, inbox, messages, sent, opens, missed>>

Elements(ms) == {ms[i] : i \in DOMAIN ms}

\* handleFetchMessages: one SELECT, and the answer.  When the query, or a step
\* through its rows, fails, the answer has the rows so far, or none.
ServeFetch(u) ==
  LET found == Conversation(u, Head(up[u]).peer) IN
  /\ Takes(u, "fetch")
  /\ \E n \in 0 .. Len(found) :
       LET read == SubSeq(found, 1, n) IN
       /\ Tell(u, History(read))
       /\ missed' = [missed EXCEPT ![u] = Elements(found) \ Elements(read)]
  /\ UNCHANGED <<client, torn, busy, inbox, messages, sent, opens>>

\* onReadyRead throws away a chunk of white space, the newline of a request too
\* (module Framing): this one is joined with the next, and the two are no JSON.
Lose(u) ==
  /\ busy[u] = Idle
  /\ up[u] # <<>>
  /\ up' = [up EXCEPT ![u] = Tail(@)]
  /\ \E joins \in (IF torn[u] THEN BOOLEAN ELSE {TRUE}) : torn' = [torn EXCEPT ![u] = joins]
  /\ missed' = IF Head(up[u]).kind = "fetch"
                 THEN [missed EXCEPT ![u] = Elements(Conversation(u, Head(up[u]).peer))]
                 ELSE missed
  /\ UNCHANGED <<client, down, busy, inbox, messages, sent, opens>>

\* The event loop of the receiver's thread, between two requests: handleMessage.
Deliver(u) ==
  /\ busy[u] = Idle
  /\ inbox[u] # <<>>
  /\ Tell(u, Note(Head(inbox[u])))
  /\ inbox' = [inbox EXCEPT ![u] = Tail(@)]
  /\ UNCHANGED <<client, up, torn, busy, messages, sent, opens, missed>>

\* Mutant: onMessagesFetched appends to what is shown.
Show_FetchAppends(u) ==
  /\ session[u] = "on"
  /\ down[u] # <<>>
  /\ LET a == Head(down[u]) IN
       view' = [view EXCEPT ![u] = @ \o (IF a.kind = "history" THEN a.msgs ELSE <<a.msg>>)]
  /\ down' = [down EXCEPT ![u] = Tail(@)]
  /\ UNCHANGED <<session, opened, up, torn, busy, inbox, messages, sent, opens, missed>>

\* Mutant: no handler for MESSAGE_NOTIFICATION.
Show_NotesIgnored(u) ==
  /\ session[u] = "on"
  /\ down[u] # <<>>
  /\ LET a == Head(down[u]) IN
       view' = [view EXCEPT ![u] = CASE a.kind = "history" -> a.msgs
                                     [] a.kind = "ack" -> Append(@, a.msg) [] OTHER -> @]
  /\ down' = [down EXCEPT ![u] = Tail(@)]
  /\ UNCHANGED <<session, opened, up, torn, busy, inbox, messages, sent, opens, missed>>

\* onMessageAckReceived and addMessage append to whatever is shown;
\* onMessagesFetched replaces it.
Show(u) ==
  /\ session[u] = "on"
  /\ down[u] # <<>>
  /\ LET a == Head(down[u]) IN
       view' = [view EXCEPT ![u] = IF a.kind = "history" THEN a.msgs ELSE Append(@, a.msg)]
  /\ down' = [down EXCEPT ![u] = Tail(@)]
  /\ UNCHANGED <<session, opened, up, torn, busy, inbox, messages, sent, opens, missed>>

\* The client is closed.  The server reads the requests that have arrived, or
\* loses them; what is for the client is lost.
Close(u) ==
  /\ session[u] = "on"
  /\ session' = [session EXCEPT ![u] = "closed"]
  /\ opened' = [opened EXCEPT ![u] = Nobody]
  /\ view' = [view EXCEPT ![u] = <<>>]
  /\ \E n \in 0 .. Len(up[u]) : up' = [up EXCEPT ![u] = SubSeq(@, 1, n)]
  /\ UNCHANGED <<torn, down, busy, inbox, messages, sent, opens, missed>>

Server(u) == Store(u) \/ Notify(u) \/ Acknowledge(u) \/ ServeFetch(u) \/ Lose(u) \/ Deliver(u)

Next ==
  \E u \in Users :
    \/ Login(u) \/ Press(u) \/ Close(u) \/ Server(u) \/ Show(u)
    \/ \E p \in Users : Open(u, p)

Spec == Init /\ [][Next]_vars

\* Every thread's event loop goes on: a server thread while it has a request or
\* a notification to deal with, a client while it has something to show.
FairSpec == Spec /\ \A u \in Users : WF_vars(Server(u)) /\ WF_vars(Show(u))

-----------------------------------------------------------------------------
Shown(u) == Elements(view[u])
Stored == Elements(messages)

\* Nothing about u is on its way, at the client, the server or in between.
Quiet(u) ==
  /\ session[u] = "on"
  /\ up[u] = <<>> /\ down[u] = <<>> /\ inbox[u] = <<>>
  /\ busy[u] = Idle
  /\ \A v \in Users : busy[v].at = "notify" => busy[v].msg.to # u

\* Nothing is missing on a quiet screen: every stored message of the open
\* conversation is shown, however fetches, acknowledgements, notifications and
\* logins were interleaved, but for those that were stored when its fetch was
\* lost or its query failed.
NothingMissing ==
  \A u \in Users : Quiet(u) /\ opened[u] # Nobody =>
    \A m \in Stored : Between(m, u, opened[u]) => m \in Shown(u) \cup missed[u]

\* What is shown as a message is in the table.
ShownIsStored == \A u \in Users : \A e \in Shown(u) : e.id > 0 => e \in Stored

\* A user sees his own messages in the order he sent them, and each once,
\* although they come by acknowledgements and in the answers to fetches.
OwnInOrder ==
  \A u \in Users : \A i, j \in DOMAIN view[u] :
    /\ i < j /\ view[u][i].from = u /\ view[u][j].from = u
    /\ view[u][i].id > 0 /\ view[u][j].id > 0
    => view[u][i].id < view[u][j].id

\* A received message is shown at most twice: a fetch may overtake its
\* notification once.
AtMostTwice ==
  \A u \in Users : \A i, j, k \in DOMAIN view[u] :
    i < j /\ j < k /\ view[u][i].id > 0 => ~(view[u][i] = view[u][j] /\ view[u][j] = view[u][k])

\* A message that is stored for a user who has the conversation open gets on
\* the screen, unless the conversation or the client is closed before, or the
\* fetch that should have brought it is lost or fails.
MessageShown ==
  \A u, p \in Users, i \in 1 .. MaxMessages :
    (opened[u] = p /\ \E m \in Stored : m.id = i /\ Between(m, u, p))
      ~> (opened[u] # p \/ \E m \in Shown(u) \cup missed[u] : m.id = i)

\* README.md:22, "View chat history for individual and group conversations": a
\* quiet screen shows all that is stored of the open conversation.  TLC refutes
\* it: the answer to a query that failed is an empty history, and nothing asks
\* again.
HistoryShown ==
  \A u \in Users : Quiet(u) /\ opened[u] # Nobody =>
    \A m \in Stored : Between(m, u, opened[u]) => m \in Shown(u)

\* The same line: a quiet screen shows the open conversation and nothing else.  TLC refutes it:
\* addMessage does not look at who the message is from.
OnlyThisConversation ==
  \A u \in Users : Quiet(u) => \A e \in Shown(u) : Between(e, u, opened[u])

\* MessagesResponseHandler.cpp:24, "Failed to send message" when "success" is
\* false: a message that was not stored is not acknowledged with success.  TLC
\* refutes it: the response to a failed storeMessage says success, too.
FailureIsReported ==
  \A u \in Users : \A i \in DOMAIN down[u] :
    down[u][i].kind = "ack" /\ down[u][i].success => down[u][i].msg.id > 0
=============================================================================

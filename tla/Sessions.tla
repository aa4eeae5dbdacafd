------------------------------ MODULE Sessions ------------------------------
(***************************************************************************)
(* Sessions and notification routing of the SocketChatter server:          *)
(* ConnectionManager (the m_clients registry and the messageToClient       *)
(* broadcast) and ClientHandler (one object and one worker thread per TCP  *)
(* connection).                                                            *)
(*                                                                         *)
(* A worker thread runs its event loop: it reads requests (onReadyRead),   *)
(* takes the events posted to its handler (queued handleMessage calls and  *)
(* deferred deletions), or learns that the socket is gone.  Every shared   *)
(* access to m_clients is a step of its own, because any other thread may  *)
(* run between two of them.                                                *)
(***************************************************************************)
EXTENDS Naturals, Sequences

CONSTANTS
  Conns,      \* TCP connections, one ClientHandler and one QThread each
  Users,      \* user names that have an account
  None,       \* the empty m_username, the absent registry entry
  MaxNotes    \* bound on the notifications sent in one behaviour

ASSUME NoneAssumption == None \notin Users /\ None \notin Conns
ASSUME MaxNotesAssumption == MaxNotes \in Nat

VARIABLES
  phase,      \* life of the connection's handler and socket
  username,   \* ClientHandler::m_username
  clients,    \* ConnectionManager::m_clients
  task,       \* what the worker thread is in the middle of
  queue,      \* events posted to the handler, oldest first
  wire,       \* notifications written to the socket
  notes,      \* number of notifications created so far
  up,         \* the server process is running
  ever        \* history: the logins, <<connection, user, was it connected>>

vars == <<phase, username, clients, task, queue, wire, notes, up, ever>>

Phases ==
  { "new",      \* not connected yet
    "live",     \* connected
    "closed",   \* unconnected: onDisconnected ran, deletions are posted
    "orphan",   \* the socket object is deleted, the handler is not
    "deleted" } \* the handler is deleted

\* Events: a queued handleMessage call, the deferred deletions.
Note == [kind : {"note"}, to : Users, from : Conns, id : 1 .. MaxNotes]
Deletion(what) == [kind |-> what]
Event == Note \cup [kind : {"deleteSocket", "deleteHandler"}]

\* The calls a worker thread can be in: the step it takes next, the user and
\* the notification the step is about, and where a nested cleanup returns to.
Task ==
  [at : {"idle", "reading"}, user : {None}, id : {0}, next : {"idle"}] \cup
  [at : {"respond"}, user : Users \cup {None}, id : {0}, next : {"idle"}] \cup
  [at : {"adopt", "insert"}, user : Users, id : {0}, next : {"idle"}] \cup
  [at : {"lookup", "emit"}, user : Users, id : 1 .. MaxNotes, next : {"idle"}] \cup
  [at : {"cleanup"}, user : {None}, id : {0}, next : {"idle", "reading"}] \cup
  [at : {"cleanup"}, user : Users, id : {0}, next : {"adopt"}]

\* In step s of a call about user u (and notification i).
Doing(s, u, i) == [at |-> s, user |-> u, id |-> i, next |-> "idle"]
Idle == Doing("idle", None, 0)
Reading == Doing("reading", None, 0)

TypeOK ==
  /\ phase \in [Conns -> Phases]
  /\ username \in [Conns -> Users \cup {None}]
  /\ clients \in [Users -> Conns \cup {None}]
  /\ task \in [Conns -> Task]
  /\ queue \in [Conns -> Seq(Event)]
  /\ wire \in [Conns -> Seq(Note)]
  /\ notes \in 0 .. MaxNotes
  /\ up \in BOOLEAN
  /\ ever \subseteq Conns \X Users \X BOOLEAN

Init ==
  /\ phase = [c \in Conns |-> "new"]
  /\ username = [c \in Conns |-> None]
  /\ clients = [u \in Users |-> None]
  /\ task = [c \in Conns |-> Idle]
  /\ queue = [c \in Conns |-> <<>>]
  /\ wire = [c \in Conns |-> <<>>]
  /\ notes = 0
  /\ up = TRUE
  /\ ever = {}

-----------------------------------------------------------------------------
\* The handler exists: messageToClient is connected to it.
Exists(c) == phase[c] \in {"live", "closed", "orphan"}

\* The worker thread of c is inside step s of a call.
At(c, s) == up /\ task[c].at = s

\* ConnectionManager::handleNewConnection: new thread, new handler, started.
Accept(c) ==
  /\ up
  /\ phase[c] = "new"
  /\ phase' = [phase EXCEPT ![c] = "live"]
  /\ UNCHANGED <<username, clients, task, queue, wire, notes, up, ever>>

\* onReadyRead takes the next complete request out of the buffer.  Once it is
\* in its loop it goes on even if a write has torn the connection down.
NextRequest(c) ==
  \/ At(c, "idle") /\ phase[c] = "live"
  \/ At(c, "reading")

\* handleLogin up to its response: validateUser accepts u or refuses.
HandleLogin(c, u) ==
  /\ NextRequest(c)
  /\ \E accepted \in {u, None} :
       task' = [task EXCEPT ![c] = Doing("respond", accepted, 0)]
  /\ UNCHANGED <<phase, username, clients, queue, wire, notes, up, ever>>

\* A request whose handler notifies user v through sendMessageToClient.
HandleNotify(c, v) ==
  /\ NextRequest(c)
  /\ notes < MaxNotes
  /\ notes' = notes + 1
  /\ task' = [task EXCEPT ![c] = Doing("lookup", v, notes + 1)]
  /\ UNCHANGED <<phase, username, clients, queue, wire, up, ever>>

\* The loop of onReadyRead ends; the thread is back in its event loop.
EndRead(c) ==
  /\ At(c, "reading")
  /\ task' = [task EXCEPT ![c] = Idle]
  /\ UNCHANGED <<phase, username, clients, queue, wire, notes, up, ever>>

\* Mutant: the user is not taken out of the registry.
OnDisconnected_KeepsEntry(c, user, next) ==
  /\ clients' = clients
  /\ phase' = [phase EXCEPT ![c] = "closed"]
  /\ task' = [task EXCEPT ![c] = [at |-> "cleanup", user |-> user, id |-> 0, next |-> next]]

\* ClientHandler::onDisconnected: leave the registry under the current name,
\* whoever's handler is registered there, and post the socket's deletion.
OnDisconnected(c, user, next) ==
  /\ clients' = IF username[c] = None THEN clients
                ELSE [clients EXCEPT ![username[c]] = None]
  /\ phase' = [phase EXCEPT ![c] = "closed"]
  /\ task' = [task EXCEPT ![c] = [at |-> "cleanup", user |-> user, id |-> 0, next |-> next]]

\* The event loop learns that the peer closed the connection.
Disconnect(c) ==
  /\ At(c, "idle")
  /\ phase[c] = "live"
  /\ OnDisconnected(c, None, "idle")
  /\ queue' = [queue EXCEPT ![c] = Append(@, Deletion("deleteSocket"))]
  /\ UNCHANGED <<username, wire, notes, up, ever>>

\* Mutant: finished() is not emitted.
Cleanup_WithoutFinished(c) ==
  /\ At(c, "cleanup")
  /\ task' = [task EXCEPT ![c] = Doing(task[c].next, task[c].user, 0)]
  /\ UNCHANGED <<phase, username, clients, queue, wire, notes, up, ever>>

\* ClientHandler::cleanup: finished() posts the deletion of the handler.
Cleanup(c) ==
  /\ At(c, "cleanup")
  /\ queue' = [queue EXCEPT ![c] = Append(@, Deletion("deleteHandler"))]
  /\ task' = [task EXCEPT ![c] = Doing(task[c].next, task[c].user, 0)]
  /\ UNCHANGED <<phase, username, clients, wire, notes, up, ever>>

-----------------------------------------------------------------------------
\* Mutant: loginSuccess is emitted for refused credentials too.
Respond_AlwaysLogsIn(c) ==
  /\ At(c, "respond")
  /\ task' = [task EXCEPT ![c] = Doing("adopt", task[c].user, 0)]
  /\ UNCHANGED <<phase, username, clients, queue, wire, notes, up, ever>>

\* sendResponse at the end of a request.  A write that finds the connection
\* reset aborts the socket, and the slots of disconnected() run inside it.
Respond(c) ==
  LET resume == IF task[c].user = None THEN "reading" ELSE "adopt" IN
  /\ At(c, "respond")
  /\ \/ /\ task' = [task EXCEPT ![c] = Doing(resume, task[c].user, 0)]
        /\ UNCHANGED <<phase, clients, queue>>
     \/ /\ phase[c] = "live"
        /\ OnDisconnected(c, task[c].user, resume)
        /\ queue' = [queue EXCEPT ![c] = Append(@, Deletion("deleteSocket"))]
  /\ UNCHANGED <<username, wire, notes, up, ever>>

\* Mutant: addClient inserts if the name is there already.
Adopt_CheckInverted(c) ==
  LET u == task[c].user IN
  /\ At(c, "adopt")
  /\ username' = [username EXCEPT ![c] = u]
  /\ ever' = ever \cup {<<c, u, phase[c] = "live">>}
  /\ task' = [task EXCEPT ![c] = IF clients[u] # None THEN Doing("insert", u, 0) ELSE Reading]
  /\ UNCHANGED <<phase, clients, queue, wire, notes, up>>

\* onLoginSuccess and the check of addClient: is the name registered already?
Adopt(c) ==
  LET u == task[c].user IN
  /\ At(c, "adopt")
  /\ username' = [username EXCEPT ![c] = u]
  /\ ever' = ever \cup {<<c, u, phase[c] = "live">>}
  /\ task' = [task EXCEPT ![c] = IF clients[u] = None THEN Doing("insert", u, 0) ELSE Reading]
  /\ UNCHANGED <<phase, clients, queue, wire, notes, up>>

\* The insertion of addClient, which overwrites an entry made meanwhile.
Insert(c) ==
  /\ At(c, "insert")
  /\ clients' = [clients EXCEPT ![task[c].user] = c]
  /\ task' = [task EXCEPT ![c] = Reading]
  /\ UNCHANGED <<phase, username, queue, wire, notes, up, ever>>

\* sendMessageToClient: getClientHandler decides whether to emit at all.
Lookup(c) ==
  /\ At(c, "lookup")
  /\ task' = [task EXCEPT ![c] = IF clients[task[c].user] = None
                                 THEN Doing("respond", None, 0)
                                 ELSE Doing("emit", task[c].user, task[c].id)]
  /\ UNCHANGED <<phase, username, clients, queue, wire, notes, up, ever>>

\* Mutant: the call goes before those that wait, as an event of high priority.
Emit_Ahead(c) ==
  LET note == [kind |-> "note", to |-> task[c].user, from |-> c, id |-> task[c].id] IN
  /\ At(c, "emit")
  /\ queue' = [d \in Conns |-> IF Exists(d) THEN <<note>> \o queue[d] ELSE queue[d]]
  /\ task' = [task EXCEPT ![c] = Doing("respond", None, 0)]
  /\ UNCHANGED <<phase, username, clients, wire, notes, up, ever>>

\* emit messageToClient: the call is queued for every handler there is.
Emit(c) ==
  LET note == [kind |-> "note", to |-> task[c].user, from |-> c, id |-> task[c].id] IN
  /\ At(c, "emit")
  /\ queue' = [d \in Conns |-> IF Exists(d) THEN Append(queue[d], note) ELSE queue[d]]
  /\ task' = [task EXCEPT ![c] = Doing("respond", None, 0)]
  /\ UNCHANGED <<phase, username, clients, wire, notes, up, ever>>

-----------------------------------------------------------------------------
\* The event loop of c takes an event of this kind off the handler's queue.
Takes(c, kind) ==
  /\ At(c, "idle")
  /\ Exists(c)
  /\ queue[c] # <<>>
  /\ Head(queue[c]).kind = kind

\* Mutant: handleMessage does not compare toUsername with m_username.
TakesOwn_AnyUser(c) == Takes(c, "note")

\* It is a handleMessage call for the user of this handler.
TakesOwn(c) == Takes(c, "note") /\ Head(queue[c]).to = username[c]

\* handleMessage for another user, or on a socket that is no longer connected.
Skip(c) ==
  /\ Takes(c, "note")
  /\ ~TakesOwn(c) \/ phase[c] = "closed"
  /\ queue' = [queue EXCEPT ![c] = Tail(@)]
  /\ UNCHANGED <<phase, username, clients, task, wire, notes, up, ever>>

\* handleMessage for this user: sendResponse writes the notification.
Deliver(c) ==
  /\ phase[c] = "live"
  /\ TakesOwn(c)
  /\ wire' = [wire EXCEPT ![c] = Append(@, Head(queue[c]))]
  /\ queue' = [queue EXCEPT ![c] = Tail(@)]
  /\ UNCHANGED <<phase, username, clients, task, notes, up, ever>>

\* The same write finds the connection reset: torn down inside the call.
DeliverFails(c) ==
  /\ phase[c] = "live"
  /\ TakesOwn(c)
  /\ OnDisconnected(c, None, "idle")
  /\ queue' = [queue EXCEPT ![c] = Append(Tail(@), Deletion("deleteSocket"))]
  /\ UNCHANGED <<username, wire, notes, up, ever>>

\* The same write on a socket object already deleted: undefined behaviour,
\* the process goes on or it ends.
DeliverDangling(c) ==
  /\ phase[c] = "orphan"
  /\ TakesOwn(c)
  /\ up' \in BOOLEAN
  /\ queue' = [queue EXCEPT ![c] = Tail(@)]
  /\ UNCHANGED <<phase, username, clients, task, wire, notes, ever>>

\* The deferred deletion of the socket.
DeleteSocket(c) ==
  /\ Takes(c, "deleteSocket")
  /\ phase' = [phase EXCEPT ![c] = "orphan"]
  /\ queue' = [queue EXCEPT ![c] = Tail(@)]
  /\ UNCHANGED <<username, clients, task, wire, notes, up, ever>>

\* The handler's deferred deletion, or the end of the thread's event loop
\* (finished -> quit), which deletes both and drops what is still queued.
DeleteHandler(c) ==
  /\ At(c, "idle")
  /\ \E i \in DOMAIN queue[c] : queue[c][i] = Deletion("deleteHandler")
  /\ phase' = [phase EXCEPT ![c] = "deleted"]
  /\ queue' = [queue EXCEPT ![c] = <<>>]
  /\ UNCHANGED <<username, clients, task, wire, notes, up, ever>>

-----------------------------------------------------------------------------
\* What the worker thread of c does once it is scheduled: it finishes the call
\* it is in and takes its posted events.  Requests and disconnections come
\* from the peer.
Call(c) ==
  EndRead(c) \/ Cleanup(c) \/ Respond(c) \/ Adopt(c) \/ Insert(c) \/ Lookup(c) \/ Emit(c)

TakeEvent(c) ==
  \/ Skip(c) \/ Deliver(c) \/ DeliverFails(c) \/ DeliverDangling(c)
  \/ DeleteSocket(c) \/ DeleteHandler(c)

Peer(c) ==
  \/ Accept(c) \/ Disconnect(c)
  \/ \E u \in Users : HandleLogin(c, u) \/ HandleNotify(c, u)

Next == \E c \in Conns : Call(c) \/ TakeEvent(c) \/ Peer(c)

Spec == Init /\ [][Next]_vars

\* The operating system schedules every worker thread; the loop of onReadyRead
\* ends because it only goes over what one readAll returned; and an event
\* dispatcher hands out the posted events in each round it makes, whatever
\* arrives on the socket.
FairSpec ==
  /\ Spec
  /\ \A c \in Conns :
       /\ WF_vars(Call(c))
       /\ SF_vars(EndRead(c))
       /\ SF_vars(TakeEvent(c))

-----------------------------------------------------------------------------
\* c has logged in as u at some time.
LoggedIn(c, u) == \E connected \in BOOLEAN : <<c, u, connected>> \in ever

\* d is the only connection that ever logged in as u, it is connected, and its
\* login is over.
SoleSession(d, u) ==
  /\ phase[d] = "live"
  /\ username[d] = u
  /\ task[d].at # "insert"
  /\ \A c \in Conns : LoggedIn(c, u) => c = d

\* A user with a single session is registered, whatever the other connections
\* do: sendMessageToClient will emit for her (addClient against removeClient of
\* other threads, and against other logins on the same connection).
SoleSessionReachable ==
  \A d \in Conns, u \in Users : SoleSession(d, u) => clients[u] = d

\* The registry holds the handler of a dead connection only after a connection
\* changed its name or broke in the middle of its login: onDisconnected leaves
\* under the current m_username only, and at the moment of the call.
NoGhost ==
  \A c \in Conns, u \in Users :
    /\ clients[u] = c
    /\ phase[c] # "live"
    => username[c] # u \/ <<c, u, FALSE>> \in ever

\* Nobody is sent a notification of a user he never authenticated as, although
\* messageToClient reaches every handler and a connection may change its name
\* while notifications wait in its queue (handleMessage compares on delivery).
OwnerOnly ==
  \A c \in Conns : \A i \in DOMAIN wire[c] : LoggedIn(c, wire[c][i].to)

\* Of one sender's notifications a connection gets each at most once, and in the
\* order in which they were sent, although messageToClient is a broadcast that
\* waits in one queue for each handler while connections change names and break.
NotesInOrder ==
  \A c \in Conns : \A i, j \in DOMAIN wire[c] :
    i < j /\ wire[c][i].from = wire[c][j].from => wire[c][i].id < wire[c][j].id

\* A notification whose sending has begun while its receiver has exactly one
\* session is written to that session, unless the session ends or stops being
\* the only one, or the process ends.
SoleSessionNotified ==
  \A c, d \in Conns, u \in Users, i \in 1 .. MaxNotes :
    (At(c, "lookup") /\ task[c].user = u /\ task[c].id = i /\ SoleSession(d, u))
      ~> \/ \E k \in DOMAIN wire[d] : wire[d][k].id = i
         \/ ~SoleSession(d, u)
         \/ ~up

\* The handler of a lost connection is freed in the end, even if its thread was
\* in the middle of a request (cleanup, finished, deleteLater, quit).
HandlerFreed ==
  \A c \in Conns : (phase[c] = "closed") ~> (phase[c] = "deleted" \/ ~up)

\* Design/Protocols.md, LOGIN_RESPONSE code 2002: a user who is logged in is
\* not logged in a second time.  handleLogin has no such check, and TLC refutes it.
OneSessionPerUser ==
  \A c, d \in Conns :
    phase[c] = "live" /\ phase[d] = "live" /\ username[c] = username[d] /\ username[c] # None
      => c = d

\* Design/Protocols.md, friend requests: if the receiver is online, the server
\* sends the request to the receiver.  getClientHandler finds nobody when
\* another connection of the receiver was closed before.  TLC refutes it.
OnlineIsReachable ==
  \A d \in Conns, u \in Users :
    phase[d] = "live" /\ username[d] = u /\ task[d].at # "insert" => clients[u] # None
=============================================================================

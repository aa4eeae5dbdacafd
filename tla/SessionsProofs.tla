--------------------------- MODULE SessionsProofs ---------------------------
(***************************************************************************)
(* Theorems about Sessions for every number of connections, users and      *)
(* notifications.                                                          *)
(***************************************************************************)
EXTENDS Sessions, TLAPS

\* A thread that changes only what it is doing keeps the types.
LEMMA TaskStep ==
  ASSUME NEW c \in Conns, NEW t \in Task, TypeOK,
         task' = [task EXCEPT ![c] = t],
         UNCHANGED <<phase, username, clients, queue, wire, up, ever>>,
         notes' \in 0 .. MaxNotes
  PROVE  TypeOK'
BY DEF TypeOK

\* Posting an event keeps the type of the queues, taking one too.
LEMMA QueueTypes ==
  ASSUME NEW c \in Conns, TypeOK
  PROVE  /\ \A e \in Event : Append(queue[c], e) \in Seq(Event)
         /\ queue[c] # <<>> =>
              /\ Head(queue[c]) \in Event
              /\ Tail(queue[c]) \in Seq(Event)
              /\ \A e \in Event : Append(Tail(queue[c]), e) \in Seq(Event)
BY DEF TypeOK

LEMMA DeletionIsEvent ==
  ASSUME NEW what \in {"deleteSocket", "deleteHandler"}
  PROVE  Deletion(what) \in Event
BY DEF Deletion, Event

\* Losing the connection keeps the types.
LEMMA LosingTypes ==
  ASSUME NEW c \in Conns, NEW u, NEW s, TypeOK, OnDisconnected(c, u, s),
         \/ u = None /\ s \in {"idle", "reading"}
         \/ u \in Users /\ s = "adopt",
         UNCHANGED <<username, wire, notes, up, ever>>,
         NEW q \in Seq(Event), queue' = [queue EXCEPT ![c] = q]
  PROVE  TypeOK'
<1>1. phase' \in [Conns -> Phases]
  BY DEF OnDisconnected, TypeOK, Phases
<1>2. clients' \in [Users -> Conns \cup {None}]
  BY DEF OnDisconnected, TypeOK
<1>3. [at |-> "cleanup", user |-> u, id |-> 0, next |-> s] \in Task
  BY DEF Task
<1>4. task' \in [Conns -> Task]
  BY <1>3 DEF OnDisconnected, TypeOK
<1> QED
  BY <1>1, <1>2, <1>4 DEF TypeOK

LEMMA TypeStep == TypeOK /\ [Next]_vars => TypeOK'
<1> SUFFICES ASSUME TypeOK, [Next]_vars PROVE TypeOK'
  OBVIOUS
<1> USE NoneAssumption, MaxNotesAssumption
<1>1. CASE UNCHANGED vars
  BY <1>1 DEF vars, TypeOK
<1>2. ASSUME NEW c \in Conns, Accept(c) PROVE TypeOK'
  BY <1>2 DEF Accept, TypeOK, Phases
<1>3. ASSUME NEW c \in Conns, NEW u \in Users, HandleLogin(c, u) PROVE TypeOK'
  <2>1. \A a \in Users \cup {None} : Doing("respond", a, 0) \in Task
    BY DEF Doing, Task
  <2>2. notes' \in 0 .. MaxNotes
    BY <1>3 DEF HandleLogin, TypeOK
  <2> QED
    BY <1>3, <2>1, <2>2, TaskStep DEF HandleLogin
<1>4. ASSUME NEW c \in Conns, NEW u \in Users, HandleNotify(c, u) PROVE TypeOK'
  <2>1. notes' \in 1 .. MaxNotes /\ notes' = notes + 1
    BY <1>4 DEF HandleNotify, TypeOK
  <2>2. Doing("lookup", u, notes + 1) \in Task /\ notes' \in 0 .. MaxNotes
    BY <2>1 DEF Doing, Task
  <2> QED
    BY <1>4, <2>2, TaskStep DEF HandleNotify
<1>5. ASSUME NEW c \in Conns, EndRead(c) PROVE TypeOK'
  <2>1. Idle \in Task
    BY DEF Idle, Doing, Task
  <2> QED
    BY <1>5, <2>1, TaskStep DEF EndRead, TypeOK
<1>6. ASSUME NEW c \in Conns, Disconnect(c) PROVE TypeOK'
  BY <1>6, LosingTypes, QueueTypes, DeletionIsEvent DEF Disconnect
<1>7. ASSUME NEW c \in Conns, Cleanup(c) PROVE TypeOK'
  <2>1. Doing(task[c].next, task[c].user, 0) \in Task
    BY <1>7 DEF Cleanup, At, Doing, Task, TypeOK
  <2>2. Append(queue[c], Deletion("deleteHandler")) \in Seq(Event)
    BY QueueTypes, DeletionIsEvent
  <2> QED
    BY <1>7, <2>1, <2>2 DEF Cleanup, TypeOK
<1>8. ASSUME NEW c \in Conns, Respond(c) PROVE TypeOK'
  <2> DEFINE resume == IF task[c].user = None THEN "reading" ELSE "adopt"
  <2>1. \/ task[c].user = None /\ resume = "reading"
        \/ task[c].user \in Users /\ resume = "adopt"
    BY <1>8 DEF Respond, At, TypeOK, Task
  <2>2. Doing(resume, task[c].user, 0) \in Task
    BY <2>1 DEF Doing, Task
  <2>3. CASE task' = [task EXCEPT ![c] = Doing(resume, task[c].user, 0)]
             /\ UNCHANGED <<phase, clients, queue>>
    BY <2>2, <2>3, <1>8, TaskStep DEF Respond, TypeOK
  <2>4. CASE /\ OnDisconnected(c, task[c].user, resume)
             /\ queue' = [queue EXCEPT ![c] = Append(@, Deletion("deleteSocket"))]
    <3> HIDE DEF resume
    <3> QED
      BY <2>1, <2>4, <1>8, LosingTypes, QueueTypes, DeletionIsEvent DEF Respond
  <2> QED
    BY <2>3, <2>4, <1>8 DEF Respond
<1>9. ASSUME NEW c \in Conns, Adopt(c) PROVE TypeOK'
  <2>1. task[c].user \in Users
    BY <1>9 DEF Adopt, At, TypeOK, Task
  <2>2. Doing("insert", task[c].user, 0) \in Task /\ Reading \in Task
    BY <2>1 DEF Doing, Reading, Task
  <2>3. <<c, task[c].user, phase[c] = "live">> \in Conns \X Users \X BOOLEAN
    BY <2>1
  <2>4. ever' \subseteq Conns \X Users \X BOOLEAN
    BY <1>9, <2>3 DEF Adopt, TypeOK
  <2>5. task' \in [Conns -> Task] /\ username' \in [Conns -> Users \cup {None}]
    BY <1>9, <2>1, <2>2 DEF Adopt, TypeOK
  <2> QED
    BY <1>9, <2>4, <2>5 DEF Adopt, TypeOK
<1>10. ASSUME NEW c \in Conns, Insert(c) PROVE TypeOK'
  <2>1. task[c].user \in Users /\ Reading \in Task
    BY <1>10 DEF Insert, At, TypeOK, Task, Reading, Doing
  <2> QED
    BY <1>10, <2>1 DEF Insert, TypeOK
<1>11. ASSUME NEW c \in Conns, Lookup(c) PROVE TypeOK'
  <2>1. Doing("respond", None, 0) \in Task /\ Doing("emit", task[c].user, task[c].id) \in Task
    BY <1>11 DEF Lookup, At, TypeOK, Task, Doing
  <2> QED
    BY <1>11, <2>1, TaskStep DEF Lookup, TypeOK
<1>12. ASSUME NEW c \in Conns, Emit(c) PROVE TypeOK'
  <2>1. [kind |-> "note", to |-> task[c].user, from |-> c, id |-> task[c].id] \in Event
    BY <1>12 DEF Emit, At, TypeOK, Task, Event, Note
  <2>2. Doing("respond", None, 0) \in Task
    BY DEF Doing, Task
  <2>3. queue' \in [Conns -> Seq(Event)]
    BY <1>12, <2>1, QueueTypes DEF Emit, TypeOK
  <2> QED
    BY <1>12, <2>2, <2>3 DEF Emit, TypeOK
<1>13. ASSUME NEW c \in Conns, Skip(c) PROVE TypeOK'
  BY <1>13, QueueTypes DEF Skip, Takes, TypeOK
<1>14. ASSUME NEW c \in Conns, Deliver(c) PROVE TypeOK'
  <2>1. Head(queue[c]) \in Event /\ Head(queue[c]).kind = "note" /\ Tail(queue[c]) \in Seq(Event)
    BY <1>14, QueueTypes DEF Deliver, TakesOwn, Takes
  <2>2. Head(queue[c]) \in Note
    BY <2>1 DEF Event
  <2>3. Append(wire[c], Head(queue[c])) \in Seq(Note)
    BY <2>2 DEF TypeOK
  <2> QED
    BY <1>14, <2>1, <2>3 DEF Deliver, TypeOK
<1>15. ASSUME NEW c \in Conns, DeliverFails(c) PROVE TypeOK'
  BY <1>15, LosingTypes, QueueTypes, DeletionIsEvent DEF DeliverFails, TakesOwn, Takes
<1>16. ASSUME NEW c \in Conns, DeliverDangling(c) PROVE TypeOK'
  BY <1>16, QueueTypes DEF DeliverDangling, TakesOwn, Takes, TypeOK
<1>17. ASSUME NEW c \in Conns, DeleteSocket(c) PROVE TypeOK'
  BY <1>17, QueueTypes DEF DeleteSocket, Takes, TypeOK, Phases
<1>18. ASSUME NEW c \in Conns, DeleteHandler(c) PROVE TypeOK'
  BY <1>18 DEF DeleteHandler, TypeOK, Phases
<1> QED
  BY <1>1, <1>2, <1>3, <1>4, <1>5, <1>6, <1>7, <1>8, <1>9, <1>10, <1>11, <1>12, <1>13,
     <1>14, <1>15, <1>16, <1>17, <1>18
  DEF Next, Call, TakeEvent, Peer

\* In every behaviour of the server the state is well typed; among other
\* things, a thread that is logging a user in has one to log in.
THEOREM TypeCorrect == Spec => []TypeOK
<1>1. Init => TypeOK
  BY NoneAssumption, MaxNotesAssumption DEF Init, TypeOK, Phases, Task, Idle, Doing
<1> QED
  BY <1>1, TypeStep, PTL DEF Spec

-----------------------------------------------------------------------------
(***************************************************************************)
(* The registry.  SoleSessionReachable is not inductive: it says nothing   *)
(* of a login that is between its two accesses to m_clients, nor of whose  *)
(* handler an entry holds.                                                 *)
(***************************************************************************)

\* A thread past the check of addClient has logged its user in.
LoginInProgress ==
  \A c \in Conns : task[c].at = "insert" => LoggedIn(c, task[c].user)

\* Names and entries stem from logins.
NamesFromLogins ==
  /\ \A c \in Conns : username[c] # None => LoggedIn(c, username[c])
  /\ \A u \in Users : clients[u] # None => LoggedIn(clients[u], u)

\* A connection that alone ever logged in as u stays registered as long as it
\* is connected, or it is about to be.
SoleLoginRegistered ==
  \A d \in Conns, u \in Users :
    /\ phase[d] = "live"
    /\ LoggedIn(d, u)
    /\ \A c \in Conns : LoggedIn(c, u) => c = d
    => \/ clients[u] = d
       \/ task[d].at = "insert" /\ task[d].user = u

\* A connection not accepted yet does nothing and has not logged in.
FreshIsIdle ==
  \A c \in Conns :
    phase[c] = "new" => task[c].at = "idle" /\ \A u \in Users : ~LoggedIn(c, u)

RegistryInv == LoginInProgress /\ NamesFromLogins /\ SoleLoginRegistered /\ FreshIsIdle


\* A step of the thread of c that leaves names, registry and logins alone, and
\* neither is nor becomes part of a login, keeps the invariant.
LEMMA QuietStep ==
  ASSUME NEW c \in Conns, RegistryInv,
         UNCHANGED <<username, clients, ever>>,
         \A d \in Conns : d # c => task'[d] = task[d],
         \/ task'[c] = task[c]
         \/ task[c].at # "insert" /\ task'[c].at # "insert",
         \A d \in Conns : phase'[d] = "live" => phase[d] \in {"live", "new"},
         \A d \in Conns : phase'[d] = "new" => phase[d] = "new" /\ task'[d] = task[d]
  PROVE  RegistryInv'
<1>1. LoginInProgress'
  BY DEF RegistryInv, LoginInProgress, LoggedIn
<1>2. NamesFromLogins'
  BY DEF RegistryInv, NamesFromLogins, LoggedIn
<1>3. SoleLoginRegistered'
  BY DEF RegistryInv, SoleLoginRegistered, FreshIsIdle, LoggedIn
<1>4. FreshIsIdle'
  BY DEF RegistryInv, FreshIsIdle, LoggedIn
<1> QED
  BY <1>1, <1>2, <1>3, <1>4 DEF RegistryInv

\* Losing the connection keeps the invariant: it takes an entry of another
\* connection out only if the two share a user.
LEMMA LosingStep ==
  ASSUME NEW c \in Conns, NEW u, NEW s,
         TypeOK, RegistryInv, OnDisconnected(c, u, s), phase[c] = "live",
         UNCHANGED <<username, ever>>
  PROVE  RegistryInv'
<1>1. /\ task'[c].at = "cleanup"
      /\ \A d \in Conns : d # c => task'[d] = task[d] /\ phase'[d] = phase[d]
      /\ phase'[c] = "closed"
  BY DEF OnDisconnected, TypeOK
<1>2. LoginInProgress'
  BY <1>1 DEF RegistryInv, LoginInProgress, LoggedIn
<1>3. \A v \in Users : \/ clients'[v] = clients[v]
                       \/ clients'[v] = None /\ username[c] = v
  BY NoneAssumption DEF OnDisconnected, TypeOK
<1>4. NamesFromLogins'
  BY <1>3 DEF RegistryInv, NamesFromLogins, LoggedIn
<1>5. SoleLoginRegistered'
  <2> SUFFICES ASSUME NEW d \in Conns, NEW v \in Users,
                      phase'[d] = "live", LoggedIn(d, v)',
                      \A e \in Conns : LoggedIn(e, v)' => e = d
               PROVE  clients'[v] = d \/ (task'[d].at = "insert" /\ task'[d].user = v)
    BY DEF SoleLoginRegistered
  <2>1. d # c /\ phase[d] = "live" /\ task'[d] = task[d]
    BY <1>1
  <2>2. LoggedIn(d, v) /\ \A e \in Conns : LoggedIn(e, v) => e = d
    BY DEF LoggedIn
  <2>3. username[c] # v
    BY <2>1, <2>2, NoneAssumption DEF RegistryInv, NamesFromLogins
  <2> QED
    BY <1>3, <2>1, <2>2, <2>3 DEF RegistryInv, SoleLoginRegistered
<1>6. FreshIsIdle'
  BY <1>1 DEF RegistryInv, FreshIsIdle, LoggedIn
<1> QED
  BY <1>2, <1>4, <1>5, <1>6 DEF RegistryInv

LEMMA RegistryStep == TypeOK /\ RegistryInv /\ [Next]_vars => RegistryInv'
<1> SUFFICES ASSUME TypeOK, RegistryInv, [Next]_vars PROVE RegistryInv'
  OBVIOUS
<1> USE NoneAssumption
<1>1. CASE UNCHANGED vars
  BY <1>1 DEF vars, RegistryInv, LoginInProgress, NamesFromLogins, SoleLoginRegistered,
              FreshIsIdle, LoggedIn
<1>2. ASSUME NEW c \in Conns, Accept(c) PROVE RegistryInv'
  BY <1>2, QuietStep DEF Accept, TypeOK
<1>3. ASSUME NEW c \in Conns, NEW u \in Users, HandleLogin(c, u) \/ HandleNotify(c, u)
      PROVE  RegistryInv'
  <2>1. phase[c] # "new"
    BY <1>3 DEF HandleLogin, HandleNotify, NextRequest, At, RegistryInv, FreshIsIdle
  <2>2. task[c].at # "insert"
    BY <1>3 DEF HandleLogin, HandleNotify, NextRequest, At
  <2>3. task'[c].at \in {"respond", "lookup"} /\ \A d \in Conns : d # c => task'[d] = task[d]
    BY <1>3 DEF HandleLogin, HandleNotify, TypeOK, Doing
  <2>4. UNCHANGED <<username, clients, ever, phase>>
    BY <1>3 DEF HandleLogin, HandleNotify
  <2> QED
    BY <2>1, <2>2, <2>3, <2>4, QuietStep
<1>4. ASSUME NEW c \in Conns, EndRead(c) \/ Cleanup(c) \/ Lookup(c) \/ Emit(c)
      PROVE  RegistryInv'
  <2>1. phase[c] # "new" /\ task[c].at # "insert"
    BY <1>4 DEF EndRead, Cleanup, Lookup, Emit, At, RegistryInv, FreshIsIdle
  <2>2. /\ task'[c].at # "insert"
        /\ \A d \in Conns : d # c => task'[d] = task[d]
    BY <1>4 DEF EndRead, Cleanup, Lookup, Emit, At, TypeOK, Idle, Doing, Task
  <2>3. UNCHANGED <<username, clients, ever, phase>>
    BY <1>4 DEF EndRead, Cleanup, Lookup, Emit
  <2> QED
    BY <2>1, <2>2, <2>3, QuietStep
<1>5. ASSUME NEW c \in Conns, Skip(c) \/ Deliver(c) \/ DeliverDangling(c) PROVE RegistryInv'
  BY <1>5, QuietStep DEF Skip, Deliver, DeliverDangling
<1>6. ASSUME NEW c \in Conns, DeleteSocket(c) \/ DeleteHandler(c) PROVE RegistryInv'
  BY <1>6, QuietStep DEF DeleteSocket, DeleteHandler, TypeOK
<1>7. ASSUME NEW c \in Conns, Disconnect(c) \/ DeliverFails(c) PROVE RegistryInv'
  BY <1>7, LosingStep DEF Disconnect, DeliverFails
<1>8. ASSUME NEW c \in Conns, Respond(c) PROVE RegistryInv'
  <2> DEFINE resume == IF task[c].user = None THEN "reading" ELSE "adopt"
  <2>1. CASE /\ task' = [task EXCEPT ![c] = Doing(resume, task[c].user, 0)]
             /\ UNCHANGED <<phase, clients, queue>>
    <3>1. phase[c] # "new" /\ task[c].at # "insert"
      BY <1>8 DEF Respond, At, RegistryInv, FreshIsIdle
    <3>2. task'[c].at # "insert" /\ \A d \in Conns : d # c => task'[d] = task[d]
      BY <2>1 DEF TypeOK, Doing
    <3>3. UNCHANGED <<username, clients, ever, phase>>
      BY <1>8, <2>1 DEF Respond
    <3> QED
      BY <3>1, <3>2, <3>3, QuietStep
  <2>2. CASE phase[c] = "live" /\ OnDisconnected(c, task[c].user, resume)
    BY <1>8, <2>2, LosingStep DEF Respond
  <2> QED
    BY <1>8, <2>1, <2>2 DEF Respond
<1>9. ASSUME NEW c \in Conns, Adopt(c) PROVE RegistryInv'
  <2> DEFINE u == task[c].user
  <2>1. u \in Users /\ task[c].at = "adopt" /\ phase[c] # "new"
    BY <1>9 DEF Adopt, At, TypeOK, Task, RegistryInv, FreshIsIdle
  <2>2. /\ username'[c] = u
        /\ \A d \in Conns : d # c => task'[d] = task[d] /\ username'[d] = username[d]
        /\ UNCHANGED <<phase, clients>>
    BY <1>9 DEF Adopt, TypeOK
  <2>3. task'[c] = IF clients[u] = None THEN Doing("insert", u, 0) ELSE Reading
    BY <1>9 DEF Adopt, TypeOK
  <2>4. \A d \in Conns, v \in Users : LoggedIn(d, v)' <=> LoggedIn(d, v) \/ (d = c /\ v = u)
    BY <1>9 DEF Adopt, LoggedIn
  <2> HIDE DEF u
  <2>5. LoginInProgress'
    <3> SUFFICES ASSUME NEW d \in Conns, task'[d].at = "insert" PROVE LoggedIn(d, task[d].user)'
      BY DEF LoginInProgress
    <3>1. CASE d = c
      <4>1. task'[d].user = u
        BY <3>1, <2>3 DEF Doing, Reading
      <4> QED
        BY <4>1, <3>1, <2>1, <2>4 DEF LoggedIn
    <3>2. CASE d # c
      <4>1. LoggedIn(d, task[d].user) /\ task'[d] = task[d]
        BY <3>2, <2>2 DEF RegistryInv, LoginInProgress
      <4> QED
        BY <4>1, <1>9 DEF Adopt, LoggedIn
    <3> QED
      BY <3>1, <3>2
  <2>6. NamesFromLogins'
    BY <2>1, <2>2, <2>4 DEF RegistryInv, NamesFromLogins, TypeOK
  <2>7. SoleLoginRegistered'
    <3> SUFFICES ASSUME NEW d \in Conns, NEW v \in Users,
                        phase'[d] = "live", LoggedIn(d, v)',
                        \A e \in Conns : LoggedIn(e, v)' => e = d
                 PROVE  clients'[v] = d \/ (task'[d].at = "insert" /\ task'[d].user = v)
      BY DEF SoleLoginRegistered
    <3>1. CASE v = u
      <4>1. d = c
        BY <3>1, <2>1, <2>4
      <4>2. clients[u] # None => clients[u] = c
        BY <4>1, <3>1, <2>1, <2>4 DEF RegistryInv, NamesFromLogins, TypeOK
      <4> QED
        BY <4>1, <4>2, <3>1, <2>2, <2>3 DEF Doing
    <3>2. CASE v # u
      <4>1. LoggedIn(d, v) /\ \A e \in Conns : LoggedIn(e, v) => e = d
        BY <3>2, <2>4
      <4>2. clients[v] = d \/ (task[d].at = "insert" /\ task[d].user = v)
        BY <4>1, <2>2 DEF RegistryInv, SoleLoginRegistered
      <4> QED
        BY <4>2, <2>1, <2>2
    <3> QED
      BY <3>1, <3>2
  <2>8. FreshIsIdle'
    BY <2>1, <2>2, <2>4 DEF RegistryInv, FreshIsIdle
  <2> QED
    BY <2>5, <2>6, <2>7, <2>8 DEF RegistryInv
<1>10. ASSUME NEW c \in Conns, Insert(c) PROVE RegistryInv'
  <2> DEFINE u == task[c].user
  <2>1. u \in Users /\ task[c].at = "insert" /\ phase[c] # "new" /\ LoggedIn(c, u)
    BY <1>10 DEF Insert, At, TypeOK, Task, RegistryInv, FreshIsIdle, LoginInProgress
  <2>2. /\ clients'[u] = c
        /\ \A v \in Users : v # u => clients'[v] = clients[v]
        /\ task'[c] = Reading
        /\ \A d \in Conns : d # c => task'[d] = task[d]
        /\ UNCHANGED <<phase, username, ever>>
    BY <1>10, <2>1 DEF Insert, TypeOK
  <2> HIDE DEF u
  <2>3. LoginInProgress'
    BY <2>2 DEF RegistryInv, LoginInProgress, LoggedIn, Reading, Doing
  <2>4. NamesFromLogins'
    BY <2>1, <2>2 DEF RegistryInv, NamesFromLogins, LoggedIn
  <2>5. SoleLoginRegistered'
    <3> SUFFICES ASSUME NEW d \in Conns, NEW v \in Users,
                        phase'[d] = "live", LoggedIn(d, v)',
                        \A e \in Conns : LoggedIn(e, v)' => e = d
                 PROVE  clients'[v] = d \/ (task'[d].at = "insert" /\ task'[d].user = v)
      BY DEF SoleLoginRegistered
    <3>1. LoggedIn(d, v) /\ \A e \in Conns : LoggedIn(e, v) => e = d
      BY <2>2 DEF LoggedIn
    <3>2. CASE v = u
      BY <3>1, <3>2, <2>1, <2>2
    <3>3. CASE v # u
      <4>1. clients[v] = d \/ (task[d].at = "insert" /\ task[d].user = v)
        BY <3>1, <2>2 DEF RegistryInv, SoleLoginRegistered
      <4> QED
        BY <4>1, <3>3, <2>2 DEF u
    <3> QED
      BY <3>2, <3>3
  <2>6. FreshIsIdle'
    BY <2>1, <2>2 DEF RegistryInv, FreshIsIdle, LoggedIn
  <2> QED
    BY <2>3, <2>4, <2>5, <2>6 DEF RegistryInv
<1> QED
  BY <1>1, <1>2, <1>3, <1>4, <1>5, <1>6, <1>7, <1>8, <1>9, <1>10
  DEF Next, Call, TakeEvent, Peer

\* A user with a single session stays reachable, for any number of users and
\* connections that come, go and log in concurrently: addClient and
\* removeClient of other threads never cost her the registry entry.
THEOREM SoleSessionIsReachable == Spec => []SoleSessionReachable
<1>1. Init => RegistryInv
  BY DEF Init, RegistryInv, LoginInProgress, NamesFromLogins, SoleLoginRegistered, FreshIsIdle,
         LoggedIn, Idle, Doing
<1>2. TypeOK /\ RegistryInv => SoleSessionReachable
  <2> SUFFICES ASSUME TypeOK, RegistryInv, NEW d \in Conns, NEW u \in Users, SoleSession(d, u)
               PROVE  clients[u] = d
    BY DEF SoleSessionReachable
  <2>1. LoggedIn(d, u)
    BY NoneAssumption DEF SoleSession, RegistryInv, NamesFromLogins
  <2> QED
    BY <2>1 DEF SoleSession, RegistryInv, SoleLoginRegistered
<1> QED
  BY <1>1, <1>2, TypeCorrect, RegistryStep, PTL DEF Spec

\* No connection is ever sent a notification of a user it has not logged in
\* as: the comparison in handleMessage, made on delivery and not when the call
\* was queued, is enough even when connections change their names.
THEOREM OnlyOwnerIsNotified == Spec => []OwnerOnly
<1>1. Init => RegistryInv /\ OwnerOnly
  BY DEF Init, RegistryInv, LoginInProgress, NamesFromLogins, SoleLoginRegistered, FreshIsIdle,
         LoggedIn, Idle, Doing, OwnerOnly
<1>2. TypeOK /\ RegistryInv /\ OwnerOnly /\ [Next]_vars => OwnerOnly'
  <2> SUFFICES ASSUME TypeOK, RegistryInv, OwnerOnly, [Next]_vars PROVE OwnerOnly'
    OBVIOUS
  <2>1. CASE UNCHANGED wire /\ ever \subseteq ever'
    BY <2>1 DEF OwnerOnly, LoggedIn
  <2>2. ASSUME NEW c \in Conns, Deliver(c) PROVE OwnerOnly'
    <3>1. Head(queue[c]).to = username[c] /\ username[c] # None
      <4>1. Head(queue[c]) \in Event /\ Head(queue[c]).kind = "note" /\ Head(queue[c]).to = username[c]
        BY <2>2, QueueTypes DEF Deliver, TakesOwn, Takes
      <4>2. Head(queue[c]) \in Note
        BY <4>1 DEF Event
      <4> QED
        BY <4>1, <4>2, NoneAssumption DEF Note
    <3>2. LoggedIn(c, Head(queue[c]).to)
      BY <3>1 DEF RegistryInv, NamesFromLogins
    <3>3. wire[c] \in Seq(Note) /\ wire' = [wire EXCEPT ![c] = Append(@, Head(queue[c]))] /\ ever' = ever
      BY <2>2 DEF Deliver, TypeOK
    <3>4. ASSUME NEW d \in Conns, NEW i \in DOMAIN wire'[d]
          PROVE  LoggedIn(d, wire'[d][i].to)
      <4>1. CASE d # c
        BY <4>1, <3>3, <3>4 DEF OwnerOnly, TypeOK
      <4>2. CASE d = c
        <5>1. wire'[c] = Append(wire[c], Head(queue[c]))
          BY <3>3 DEF TypeOK
        <5>2. i \in 1 .. Len(wire[c]) + 1
          BY <4>2, <5>1, <3>3, <3>4
        <5>3. CASE i = Len(wire[c]) + 1
          BY <5>3, <5>1, <4>2, <3>2, <3>3
        <5>4. CASE i # Len(wire[c]) + 1
          <6>1. i \in DOMAIN wire[c] /\ wire'[c][i] = wire[c][i]
            BY <5>4, <5>1, <5>2, <3>3
          <6> QED
            BY <6>1, <4>2 DEF OwnerOnly
        <5> QED
          BY <5>3, <5>4
      <4> QED
        BY <4>1, <4>2
    <3> QED
      BY <3>3, <3>4 DEF OwnerOnly, LoggedIn
  <2>3. \/ UNCHANGED wire /\ ever \subseteq ever'
        \/ \E c \in Conns : Deliver(c)
    BY DEF Next, vars, Call, TakeEvent, Peer, Accept, Disconnect, HandleLogin, HandleNotify,
           EndRead, Cleanup, Respond, Adopt, Insert, Lookup, Emit, Skip, DeliverFails,
           DeliverDangling, DeleteSocket, DeleteHandler
  <2> QED
    BY <2>1, <2>2, <2>3
<1> QED
  BY <1>1, <1>2, TypeCorrect, RegistryStep, PTL DEF Spec
-----------------------------------------------------------------------------
(***************************************************************************)
(* The order of notifications.                                             *)
(***************************************************************************)

Precedes(a, b) == a.kind = "note" /\ b.kind = "note" /\ a.from = b.from => a.id < b.id
InOrder(s) == \A i, j \in DOMAIN s : i < j => Precedes(s[i], s[j])

\* A notification is older than the one its sender is about to emit.
Sent(e) ==
  e.kind = "note" =>
    e.id <= notes /\ (task[e.from].at \in {"lookup", "emit"} => e.id < task[e.from].id)

\* What is written comes before what waits, in both the order holds, and a
\* thread has at most one notification to emit, the newest of its own.
FlowInv ==
  \A c \in Conns :
    /\ InOrder(wire[c]) /\ InOrder(queue[c])
    /\ \A i \in DOMAIN wire[c], j \in DOMAIN queue[c] : Precedes(wire[c][i], queue[c][j])
    /\ \A i \in DOMAIN wire[c] : Sent(wire[c][i])
    /\ \A i \in DOMAIN queue[c] : Sent(queue[c][i])
    /\ task[c].id <= notes

\* No notification of old is new in t.
NoneNew(s, t) ==
  \A j \in DOMAIN t : t[j].kind = "note" => \E i \in DOMAIN s : s[i] = t[j]

LEMMA NoteFields ==
  ASSUME NEW e \in Event, e.kind = "note"
  PROVE  e.from \in Conns /\ e.id \in Nat
BY MaxNotesAssumption DEF Event, Note

LEMMA TaskFields ==
  ASSUME NEW t \in Task
  PROVE  t.id \in Nat /\ (t.at \in {"lookup", "emit"} => t.user \in Users /\ t.id \in 1 .. MaxNotes)
BY MaxNotesAssumption DEF Task

LEMMA TailInOrder ==
  ASSUME NEW S, NEW s \in Seq(S), s # <<>>, InOrder(s)
  PROVE  InOrder(Tail(s)) /\ NoneNew(s, Tail(s))
<1>1. Tail(s) \in Seq(S) /\ Len(Tail(s)) = Len(s) - 1 /\ Len(s) \in Nat
  OBVIOUS
<1>2. \A j \in DOMAIN Tail(s) : j \in Nat /\ j + 1 \in DOMAIN s /\ Tail(s)[j] = s[j + 1]
  BY <1>1
<1>3. InOrder(Tail(s))
  BY <1>2 DEF InOrder
<1> QED
  BY <1>2, <1>3 DEF NoneNew

LEMMA AppendInOrder ==
  ASSUME NEW S, NEW s \in Seq(S), NEW e \in S, InOrder(s), \A i \in DOMAIN s : Precedes(s[i], e)
  PROVE  InOrder(Append(s, e))
<1>1. /\ DOMAIN s = 1 .. Len(s) /\ Len(s) \in Nat
      /\ DOMAIN Append(s, e) = 1 .. Len(s) + 1
      /\ Append(s, e)[Len(s) + 1] = e
      /\ \A i \in DOMAIN s : Append(s, e)[i] = s[i]
  OBVIOUS
<1>2. \A i, j \in DOMAIN Append(s, e) : i < j => i \in DOMAIN s /\ (j \in DOMAIN s \/ j = Len(s) + 1)
  BY <1>1
<1> QED
  BY <1>1, <1>2 DEF InOrder

\* A deletion may be posted behind any notifications.
LEMMA PostInOrder ==
  ASSUME NEW s \in Seq(Event), NEW what \in {"deleteSocket", "deleteHandler"}, InOrder(s)
  PROVE  InOrder(Append(s, Deletion(what))) /\ NoneNew(s, Append(s, Deletion(what)))
<1>1. Deletion(what) \in Event /\ Deletion(what).kind # "note"
  BY DeletionIsEvent DEF Deletion
<1>2. InOrder(Append(s, Deletion(what)))
  BY <1>1, AppendInOrder DEF Precedes
<1>3. \A j \in DOMAIN Append(s, Deletion(what)) :
        j \in DOMAIN s \/ Append(s, Deletion(what))[j] = Deletion(what)
  OBVIOUS
<1>4. \A j \in DOMAIN s : Append(s, Deletion(what))[j] = s[j]
  OBVIOUS
<1> QED
  BY <1>1, <1>2, <1>3, <1>4 DEF NoneNew

\* A step that writes no notification, adds none to a queue and begins to emit
\* none keeps the order.
LEMMA FlowStep ==
  ASSUME TypeOK, FlowInv, UNCHANGED <<wire, notes>>, NEW c \in Conns,
         \A d \in Conns : d # c => queue'[d] = queue[d] /\ task'[d] = task[d],
         InOrder(queue'[c]), NoneNew(queue[c], queue'[c]),
         \/ task'[c].at \notin {"lookup", "emit"} /\ task'[c].id = 0
         \/ task'[c].id = task[c].id /\ task[c].at \in {"lookup", "emit"}
         \/ task'[c] = task[c]
  PROVE  FlowInv'
<1>1. notes \in Nat /\ task[c].id <= notes
  BY MaxNotesAssumption DEF TypeOK, FlowInv
<1>2. \A d \in Conns : task'[d].id <= notes
  BY <1>1 DEF FlowInv
<1>3. \A d \in Conns : task'[d].at \in {"lookup", "emit"} =>
        task[d].at \in {"lookup", "emit"} /\ task'[d].id = task[d].id
  OBVIOUS
<1>4. ASSUME NEW e \in Event, Sent(e) PROVE Sent(e)'
  BY <1>3, <1>4, NoteFields DEF Sent
<1>5. \A d \in Conns : \A j \in DOMAIN queue'[d] : queue'[d][j].kind = "note" =>
        \E i \in DOMAIN queue[d] : queue[d][i] = queue'[d][j]
  BY DEF NoneNew
<1>6. \A d \in Conns : /\ \A i \in DOMAIN wire[d] : wire[d][i] \in Event
                       /\ \A i \in DOMAIN queue[d] : queue[d][i] \in Event
  BY DEF TypeOK, Event
<1>7. \A d \in Conns : \A i \in DOMAIN wire[d], j \in DOMAIN queue'[d] : Precedes(wire[d][i], queue'[d][j])
  BY <1>5 DEF FlowInv, Precedes
<1>8. (\A d \in Conns : \A j \in DOMAIN queue[d] : Sent(queue[d][j]))'
  BY <1>4, <1>5, <1>6 DEF FlowInv, Sent
<1>9. (\A d \in Conns : \A i \in DOMAIN wire[d] : Sent(wire[d][i]))'
  BY <1>4, <1>6 DEF FlowInv
<1>10. \A d \in Conns : InOrder(queue'[d])
  BY DEF FlowInv
<1> QED
  BY <1>2, <1>7, <1>8, <1>9, <1>10 DEF FlowInv

\* The thread that is about to emit note i puts it behind all of its own.
LEMMA EmitFlow ==
  ASSUME TypeOK, FlowInv, NEW c \in Conns, Emit(c)
  PROVE  FlowInv'
<1> DEFINE note == [kind |-> "note", to |-> task[c].user, from |-> c, id |-> task[c].id]
<1>1. /\ note \in Event /\ note.kind = "note" /\ note.from = c /\ note.id = task[c].id
      /\ task[c].at = "emit" /\ task[c].id \in Nat /\ task[c].id <= notes
  <2>1. task[c].at = "emit" /\ task[c] \in Task /\ task[c].id <= notes
    BY DEF Emit, At, TypeOK, FlowInv
  <2> QED
    BY <2>1, TaskFields DEF Event, Note
<1>2. /\ queue' = [d \in Conns |-> IF Exists(d) THEN Append(queue[d], note) ELSE queue[d]]
      /\ UNCHANGED <<wire, notes>>
  BY DEF Emit
<1> HIDE DEF note
<1>3. /\ task'[c].at = "respond" /\ task'[c].id = 0
      /\ \A d \in Conns : d # c => task'[d] = task[d]
  BY DEF Emit, TypeOK, Doing
<1>4. notes \in Nat
  BY MaxNotesAssumption DEF TypeOK
<1>5. \A e \in Event : Sent(e) => Precedes(e, note)
  BY <1>1, NoteFields DEF Sent, Precedes
<1>6. ASSUME NEW e \in Event, Sent(e) \/ e = note PROVE Sent(e)'
  BY <1>1, <1>2, <1>3, <1>6, NoteFields DEF Sent
<1>7. ASSUME NEW d \in Conns
      PROVE  /\ InOrder(queue'[d])
             /\ \A j \in DOMAIN queue'[d] : queue'[d][j] = note \/ \E i \in DOMAIN queue[d] : queue'[d][j] = queue[d][i]
  <2>1. queue[d] \in Seq(Event) /\ InOrder(queue[d]) /\ \A i \in DOMAIN queue[d] : Sent(queue[d][i])
    BY DEF TypeOK, FlowInv
  <2>2. \A i \in DOMAIN queue[d] : queue[d][i] \in Event
    BY <2>1
  <2>3. InOrder(Append(queue[d], note))
    BY <1>1, <1>5, <2>1, <2>2, AppendInOrder
  <2>4. \A j \in DOMAIN Append(queue[d], note) :
          Append(queue[d], note)[j] = note \/ (j \in DOMAIN queue[d] /\ Append(queue[d], note)[j] = queue[d][j])
    BY <1>1, <2>1
  <2> QED
    BY <1>2, <2>1, <2>3, <2>4
<1>8. \A d \in Conns : /\ \A i \in DOMAIN wire[d] : wire[d][i] \in Event
                       /\ \A i \in DOMAIN queue[d] : queue[d][i] \in Event
  BY DEF TypeOK, Event
<1>9. \A d \in Conns : \A i \in DOMAIN wire[d], j \in DOMAIN queue'[d] : Precedes(wire[d][i], queue'[d][j])
  BY <1>5, <1>7, <1>8 DEF FlowInv
<1>10. (\A d \in Conns : \A j \in DOMAIN queue[d] : Sent(queue[d][j]))'
  BY <1>1, <1>6, <1>7, <1>8 DEF FlowInv
<1>11. (\A d \in Conns : \A i \in DOMAIN wire[d] : Sent(wire[d][i]))'
  BY <1>2, <1>6, <1>8 DEF FlowInv
<1>12. \A d \in Conns : task'[d].id <= notes
  BY <1>3, <1>4 DEF FlowInv
<1> QED
  BY <1>2, <1>7, <1>9, <1>10, <1>11, <1>12 DEF FlowInv

\* What leads the queue follows what is written.
LEMMA DeliverFlow ==
  ASSUME TypeOK, FlowInv, NEW c \in Conns, Deliver(c)
  PROVE  FlowInv'
<1> DEFINE note == Head(queue[c])
<1>1. /\ queue[c] \in Seq(Event) /\ queue[c] # <<>> /\ note \in Event /\ note.kind = "note"
      /\ 1 \in DOMAIN queue[c] /\ note = queue[c][1]
  BY DEF Deliver, TakesOwn, Takes, TypeOK
<1>2. note \in Note /\ wire[c] \in Seq(Note)
  BY <1>1 DEF Event, TypeOK
<1>3. /\ wire' = [wire EXCEPT ![c] = Append(wire[c], note)]
      /\ queue' = [queue EXCEPT ![c] = Tail(queue[c])]
      /\ UNCHANGED <<task, notes>>
  BY DEF Deliver
<1> HIDE DEF note
<1>4. InOrder(Tail(queue[c])) /\ Tail(queue[c]) \in Seq(Event)
  BY <1>1, TailInOrder DEF FlowInv
<1>5. \A j \in DOMAIN Tail(queue[c]) :
        j + 1 \in DOMAIN queue[c] /\ 1 < j + 1 /\ Tail(queue[c])[j] = queue[c][j + 1]
  BY <1>1
<1>6. \A j \in DOMAIN Tail(queue[c]) : Precedes(note, Tail(queue[c])[j]) /\ Sent(Tail(queue[c])[j])
  BY <1>1, <1>5 DEF FlowInv, InOrder
<1>7. InOrder(Append(wire[c], note))
  BY <1>1, <1>2, AppendInOrder DEF FlowInv
<1>8. \A i \in DOMAIN Append(wire[c], note) :
        Append(wire[c], note)[i] = note \/ (i \in DOMAIN wire[c] /\ Append(wire[c], note)[i] = wire[c][i])
  BY <1>2
<1>9. \A i \in DOMAIN Append(wire[c], note) :
        /\ Sent(Append(wire[c], note)[i])
        /\ \A j \in DOMAIN Tail(queue[c]) : Precedes(Append(wire[c], note)[i], Tail(queue[c])[j])
  BY <1>1, <1>5, <1>6, <1>8 DEF FlowInv
<1>10. /\ wire'[c] = Append(wire[c], note) /\ queue'[c] = Tail(queue[c])
       /\ \A d \in Conns : d # c => wire'[d] = wire[d] /\ queue'[d] = queue[d]
  BY <1>3 DEF TypeOK
<1>11. (\A d \in Conns : \A i \in DOMAIN wire[d] : Sent(wire[d][i]))'
  BY <1>3, <1>9, <1>10 DEF FlowInv, Sent
<1>12. (\A d \in Conns : \A i \in DOMAIN queue[d] : Sent(queue[d][i]))'
  BY <1>3, <1>6, <1>10 DEF FlowInv, Sent
<1>13. \A d \in Conns : /\ InOrder(wire'[d]) /\ InOrder(queue'[d])
                        /\ \A i \in DOMAIN wire'[d], j \in DOMAIN queue'[d] : Precedes(wire'[d][i], queue'[d][j])
  BY <1>4, <1>7, <1>9, <1>10 DEF FlowInv
<1> QED
  BY <1>3, <1>11, <1>12, <1>13 DEF FlowInv

LEMMA NotifyFlow ==
  ASSUME TypeOK, FlowInv, NEW c \in Conns, NEW u \in Users, HandleNotify(c, u)
  PROVE  FlowInv'
<1>1. notes \in Nat /\ notes' = notes + 1 /\ UNCHANGED <<queue, wire>>
  BY MaxNotesAssumption DEF HandleNotify, TypeOK
<1>2. /\ task'[c].id = notes + 1
      /\ \A d \in Conns : d # c => task'[d] = task[d]
  BY DEF HandleNotify, TypeOK, Doing
<1>3. ASSUME NEW e \in Event, Sent(e) PROVE Sent(e)'
  BY <1>1, <1>2, <1>3, NoteFields DEF Sent
<1>4. \A d \in Conns : /\ \A i \in DOMAIN wire[d] : wire[d][i] \in Event
                       /\ \A i \in DOMAIN queue[d] : queue[d][i] \in Event
  BY DEF TypeOK, Event
<1>5. \A d \in Conns : task[d].id \in Nat
  BY TaskFields DEF TypeOK
<1>6. \A d \in Conns : task'[d].id <= notes'
  BY <1>1, <1>2, <1>5 DEF FlowInv
<1>7. (\A d \in Conns : \A i \in DOMAIN wire[d] : Sent(wire[d][i]))'
  BY <1>1, <1>3, <1>4 DEF FlowInv
<1>8. (\A d \in Conns : \A i \in DOMAIN queue[d] : Sent(queue[d][i]))'
  BY <1>1, <1>3, <1>4 DEF FlowInv
<1> QED
  BY <1>1, <1>6, <1>7, <1>8 DEF FlowInv

LEMMA FlowNext == TypeOK /\ FlowInv /\ [Next]_vars => FlowInv'
<1> SUFFICES ASSUME TypeOK, FlowInv, [Next]_vars PROVE FlowInv'
  OBVIOUS
<1>1. CASE UNCHANGED vars
  BY <1>1 DEF vars, FlowInv, Sent
<1>2. \A c \in Conns : /\ queue[c] \in Seq(Event) /\ InOrder(queue[c]) /\ NoneNew(queue[c], queue[c])
                       /\ task[c] \in Task
  BY DEF TypeOK, FlowInv, NoneNew
<1>3. ASSUME NEW c \in Conns, queue[c] # <<>>
      PROVE  /\ Tail(queue[c]) \in Seq(Event) /\ InOrder(Tail(queue[c]))
             /\ NoneNew(queue[c], Tail(queue[c]))
  BY <1>2, <1>3, QueueTypes, TailInOrder
<1>4. ASSUME NEW c \in Conns,
             Accept(c) \/ (\E u \in Users : HandleLogin(c, u)) \/ EndRead(c) \/ Adopt(c) \/ Insert(c) \/ Lookup(c)
      PROVE  FlowInv'
  <2>1. /\ UNCHANGED <<wire, notes, queue>>
        /\ \A d \in Conns : d # c => task'[d] = task[d]
    BY <1>4 DEF Accept, HandleLogin, EndRead, Adopt, Insert, Lookup, TypeOK
  <2>2. \/ task'[c].at \notin {"lookup", "emit"} /\ task'[c].id = 0
        \/ task'[c].id = task[c].id /\ task[c].at \in {"lookup", "emit"}
        \/ task'[c] = task[c]
    BY <1>4 DEF Accept, HandleLogin, EndRead, Adopt, Insert, Lookup, TypeOK, Doing, Idle, Reading, At
  <2> QED
    BY <1>2, <2>1, <2>2, FlowStep
<1>5. ASSUME NEW c \in Conns, Respond(c) \/ Cleanup(c) \/ Disconnect(c)
      PROVE  FlowInv'
  <2>1. /\ UNCHANGED <<wire, notes>>
        /\ \A d \in Conns : d # c => task'[d] = task[d] /\ queue'[d] = queue[d]
    BY <1>5 DEF Respond, Cleanup, Disconnect, OnDisconnected, TypeOK
  <2>2. \/ queue'[c] = queue[c]
        \/ \E what \in {"deleteSocket", "deleteHandler"} : queue'[c] = Append(queue[c], Deletion(what))
    BY <1>5 DEF Respond, Cleanup, Disconnect, TypeOK
  <2>3. task[c].at = "cleanup" => task[c].next \in {"idle", "reading", "adopt"}
    BY <1>2 DEF Task
  <2>4. task'[c].at \notin {"lookup", "emit"} /\ task'[c].id = 0
    BY <1>5, <2>3 DEF Respond, Cleanup, Disconnect, OnDisconnected, TypeOK, Doing, At
  <2> QED
    BY <1>2, <2>1, <2>2, <2>4, PostInOrder, FlowStep
<1>6. ASSUME NEW c \in Conns, Skip(c) \/ DeliverDangling(c) \/ DeleteSocket(c)
      PROVE  FlowInv'
  <2>1. /\ UNCHANGED <<wire, notes, task>> /\ queue[c] # <<>> /\ queue'[c] = Tail(queue[c])
        /\ \A d \in Conns : d # c => queue'[d] = queue[d]
    BY <1>6 DEF Skip, DeliverDangling, DeleteSocket, TakesOwn, Takes, TypeOK
  <2> QED
    BY <1>3, <2>1, FlowStep
<1>7. ASSUME NEW c \in Conns, DeleteHandler(c)
      PROVE  FlowInv'
  <2>1. /\ UNCHANGED <<wire, notes, task>> /\ queue'[c] = <<>>
        /\ \A d \in Conns : d # c => queue'[d] = queue[d]
    BY <1>7 DEF DeleteHandler, TypeOK
  <2>2. InOrder(queue'[c]) /\ NoneNew(queue[c], queue'[c])
    BY <2>1 DEF InOrder, NoneNew
  <2> QED
    BY <2>1, <2>2, FlowStep
<1>8. ASSUME NEW c \in Conns, DeliverFails(c)
      PROVE  FlowInv'
  <2>1. /\ UNCHANGED <<wire, notes>> /\ queue[c] # <<>>
        /\ queue'[c] = Append(Tail(queue[c]), Deletion("deleteSocket"))
        /\ \A d \in Conns : d # c => queue'[d] = queue[d] /\ task'[d] = task[d]
        /\ task'[c].at = "cleanup" /\ task'[c].id = 0
    BY <1>8 DEF DeliverFails, OnDisconnected, TakesOwn, Takes, TypeOK
  <2>2. InOrder(queue'[c]) /\ NoneNew(Tail(queue[c]), queue'[c])
    BY <1>3, <2>1, PostInOrder
  <2>3. NoneNew(queue[c], queue'[c])
    BY <1>3, <2>1, <2>2 DEF NoneNew
  <2> QED
    BY <2>1, <2>2, <2>3, FlowStep
<1>9. ASSUME NEW c \in Conns, Call(c)
      PROVE  FlowInv'
  <2>1. CASE Emit(c)  BY <2>1, EmitFlow
  <2>2. CASE Respond(c) \/ Cleanup(c)  BY <2>2, <1>5
  <2>3. CASE EndRead(c) \/ Adopt(c) \/ Insert(c) \/ Lookup(c)  BY <2>3, <1>4
  <2> QED  BY <1>9, <2>1, <2>2, <2>3 DEF Call
<1>10. ASSUME NEW c \in Conns, TakeEvent(c)
       PROVE  FlowInv'
  BY <1>10, <1>6, <1>7, <1>8, DeliverFlow DEF TakeEvent
<1>11. ASSUME NEW c \in Conns, Peer(c)
       PROVE  FlowInv'
  BY <1>11, <1>4, <1>5, NotifyFlow DEF Peer
<1> QED
  BY <1>1, <1>9, <1>10, <1>11 DEF Next

\* Broadcast through one queue for each handler keeps the order of every sender
\* and duplicates nothing, for any numbers of connections and notifications.
THEOREM NotesStayInOrder == Spec => []NotesInOrder
<1>1. Init => FlowInv
  <2> SUFFICES ASSUME Init PROVE FlowInv
    OBVIOUS
  <2>1. \A c \in Conns : wire[c] = <<>> /\ queue[c] = <<>>
    BY DEF Init
  <2>2. \A c \in Conns : task[c].id <= notes
    <3>1. notes = 0 /\ \A c \in Conns : task[c].id = 0
      BY DEF Init, Idle, Doing
    <3>2. 0 <= 0
      OBVIOUS
    <3>3. ASSUME NEW c \in Conns PROVE task[c].id <= notes
      BY <3>1, <3>2
    <3> QED
      BY <3>3
  <2>3. InOrder(<<>>) /\ \A i \in DOMAIN <<>> : FALSE
    BY DEF InOrder
  <2>4. \A c \in Conns : InOrder(wire[c]) /\ InOrder(queue[c])
    BY <2>1, <2>3
  <2>5. \A c \in Conns : (\A i \in DOMAIN wire[c] : FALSE) /\ (\A i \in DOMAIN queue[c] : FALSE)
    BY <2>1, <2>3
  <2> QED
    BY <2>2, <2>4, <2>5 DEF FlowInv
<1>2. TypeOK /\ FlowInv => NotesInOrder
  <2> SUFFICES ASSUME TypeOK, FlowInv, NEW c \in Conns, NEW i \in DOMAIN wire[c], NEW j \in DOMAIN wire[c],
                      i < j, wire[c][i].from = wire[c][j].from
               PROVE  wire[c][i].id < wire[c][j].id
    BY DEF NotesInOrder
  <2>1. wire[c][i] \in Note /\ wire[c][j] \in Note
    BY DEF TypeOK
  <2> QED
    BY <2>1 DEF FlowInv, InOrder, Precedes, Note
<1> QED
  BY <1>1, <1>2, TypeCorrect, FlowNext, PTL DEF Spec

-----------------------------------------------------------------------------
\* Deletions wait in queues of connections that are gone, and only these clean up.
TornDown ==
  \A c \in Conns : phase[c] \in {"new", "live"} =>
    task[c].at # "cleanup" /\ \A i \in DOMAIN queue[c] : queue[c][i].kind = "note"

LEMMA TornStep == TypeOK /\ RegistryInv /\ TornDown /\ [Next]_vars => TornDown'
<1> SUFFICES ASSUME TypeOK, RegistryInv, TornDown, [Next]_vars PROVE TornDown'
  OBVIOUS
<1>1. CASE UNCHANGED vars
  BY <1>1 DEF vars, TornDown
<1>2. \A c \in Conns : queue[c] \in Seq(Event) /\ task[c] \in Task
  BY DEF TypeOK
<1>3. \A c \in Conns : phase[c] = "new" => task[c].at = "idle"
  BY DEF RegistryInv, FreshIsIdle
<1>4. ASSUME NEW c \in Conns, Accept(c) \/ DeleteSocket(c) \/ DeleteHandler(c)
      PROVE  TornDown'
  <2>1. CASE Accept(c)  BY <2>1 DEF Accept, TypeOK, TornDown
  <2>2. CASE DeleteSocket(c)  BY <2>2 DEF DeleteSocket, TypeOK, TornDown
  <2>3. CASE DeleteHandler(c)  BY <2>3 DEF DeleteHandler, TypeOK, TornDown
  <2> QED  BY <1>4, <2>1, <2>2, <2>3
<1>5. ASSUME NEW c \in Conns,
             (\E u \in Users : HandleLogin(c, u) \/ HandleNotify(c, u)) \/ EndRead(c) \/ Adopt(c) \/ Insert(c) \/ Lookup(c)
      PROVE  TornDown'
  <2>1. task'[c].at # "cleanup" /\ \A d \in Conns : d # c => task'[d] = task[d]
    BY <1>5 DEF HandleLogin, HandleNotify, EndRead, Adopt, Insert, Lookup, TypeOK, Doing, Idle, Reading
  <2>2. UNCHANGED <<phase, queue>>
    BY <1>5 DEF HandleLogin, HandleNotify, EndRead, Adopt, Insert, Lookup
  <2> QED
    BY <2>1, <2>2 DEF TornDown
<1>6. ASSUME NEW c \in Conns, Disconnect(c) \/ DeliverFails(c)
      PROVE  TornDown'
  <2>1. /\ phase'[c] = "closed"
        /\ \A d \in Conns : d # c => phase'[d] = phase[d] /\ task'[d] = task[d] /\ queue'[d] = queue[d]
    BY <1>6 DEF Disconnect, DeliverFails, OnDisconnected, TypeOK
  <2> QED
    BY <2>1 DEF TornDown
<1>7. ASSUME NEW c \in Conns, Respond(c) \/ Cleanup(c)
      PROVE  TornDown'
  <2>1. \A d \in Conns : d # c => phase'[d] = phase[d] /\ task'[d] = task[d] /\ queue'[d] = queue[d]
    BY <1>7 DEF Respond, Cleanup, OnDisconnected, TypeOK
  <2>2. \/ phase'[c] = "closed"
        \/ UNCHANGED <<phase, queue>> /\ task'[c].at \in {"reading", "adopt"}
        \/ phase[c] \notin {"new", "live"} /\ phase' = phase
    BY <1>7 DEF Respond, Cleanup, OnDisconnected, TypeOK, Doing, At, TornDown
  <2> QED
    BY <2>1, <2>2 DEF TornDown
<1>8. ASSUME NEW c \in Conns, Skip(c) \/ Deliver(c) \/ DeliverDangling(c)
      PROVE  TornDown'
  <2>1. /\ UNCHANGED <<phase, task>> /\ queue[c] # <<>> /\ queue'[c] = Tail(queue[c])
        /\ \A d \in Conns : d # c => queue'[d] = queue[d]
    BY <1>8 DEF Skip, Deliver, DeliverDangling, TakesOwn, Takes, TypeOK
  <2>2. \A i \in DOMAIN queue'[c] : i + 1 \in DOMAIN queue[c] /\ queue'[c][i] = queue[c][i + 1]
    BY <1>2, <2>1
  <2>3. ASSUME phase[c] \in {"new", "live"}, NEW i \in DOMAIN queue'[c]
        PROVE  queue'[c][i].kind = "note"
    <3>1. \A j \in DOMAIN queue[c] : queue[c][j].kind = "note"
      BY <2>3 DEF TornDown
    <3> QED
      BY <2>2, <3>1
  <2> QED
    BY <2>1, <2>3 DEF TornDown
<1>9. ASSUME NEW c \in Conns, Emit(c)
      PROVE  TornDown'
  <2> DEFINE note == [kind |-> "note", to |-> task[c].user, from |-> c, id |-> task[c].id]
  <2>1. /\ UNCHANGED phase /\ task'[c].at # "cleanup"
        /\ \A d \in Conns : d # c => task'[d] = task[d]
    BY <1>9 DEF Emit, TypeOK, Doing
  <2>2. note \in Event /\ note.kind = "note"
    <3>1. task[c].at = "emit"
      BY <1>9 DEF Emit, At
    <3> QED
      BY <1>2, <3>1, TaskFields DEF Event, Note
  <2>3. \A d \in Conns : queue'[d] = queue[d] \/ queue'[d] = Append(queue[d], note)
    BY <1>9 DEF Emit
  <2> HIDE DEF note
  <2>4. \A d \in Conns : \A i \in DOMAIN Append(queue[d], note) :
          Append(queue[d], note)[i] = note \/ (i \in DOMAIN queue[d] /\ Append(queue[d], note)[i] = queue[d][i])
    BY <1>2, <2>2
  <2> QED
    BY <2>1, <2>2, <2>3, <2>4 DEF TornDown
<1> QED
  BY <1>1, <1>4, <1>5, <1>6, <1>7, <1>8, <1>9 DEF Next, Call, TakeEvent, Peer

\* A thread that is past the check of addClient has taken the name over, and
\* has recorded if its connection was gone by then.
AdoptedInv ==
  /\ \A c \in Conns : task[c].at = "insert" =>
       /\ username[c] = task[c].user
       /\ phase[c] # "live" => <<c, task[c].user, FALSE>> \in ever
  /\ NoGhost

LEMMA GhostStep == TypeOK /\ RegistryInv /\ TornDown /\ AdoptedInv /\ [Next]_vars => AdoptedInv'
<1> SUFFICES ASSUME TypeOK, RegistryInv, TornDown, AdoptedInv, [Next]_vars PROVE AdoptedInv'
  OBVIOUS
<1> USE NoneAssumption
<1>1. CASE UNCHANGED vars
  BY <1>1 DEF vars, AdoptedInv, NoGhost
\* Accept: the registry holds no handler of a connection not made yet.
<1>2. ASSUME NEW c \in Conns, Accept(c)
      PROVE  AdoptedInv'
  BY <1>2 DEF Accept, TypeOK, AdoptedInv, NoGhost
<1>3. ASSUME NEW c \in Conns,
             (\E u \in Users : HandleLogin(c, u) \/ HandleNotify(c, u))
               \/ EndRead(c) \/ Cleanup(c) \/ Lookup(c) \/ Emit(c)
      PROVE  AdoptedInv'
  <2>1. UNCHANGED <<phase, username, clients, ever>>
    BY <1>3 DEF HandleLogin, HandleNotify, EndRead, Cleanup, Lookup, Emit
  <2>2. task[c].at = "cleanup" => task[c].next \in {"idle", "reading", "adopt"}
    BY DEF TypeOK, Task
  <2>3. task'[c].at # "insert" /\ \A d \in Conns : d # c => task'[d] = task[d]
    BY <1>3, <2>2 DEF HandleLogin, HandleNotify, EndRead, Cleanup, Lookup, Emit, TypeOK, Doing, Idle, At
  <2> QED
    BY <2>1, <2>3 DEF AdoptedInv, NoGhost
<1>4. ASSUME NEW c \in Conns, Skip(c) \/ Deliver(c) \/ DeliverDangling(c)
      PROVE  AdoptedInv'
  BY <1>4 DEF Skip, Deliver, DeliverDangling, AdoptedInv, NoGhost
<1>5. ASSUME NEW c \in Conns, DeleteSocket(c) \/ DeleteHandler(c)
      PROVE  AdoptedInv'
  <2>1. /\ UNCHANGED <<username, clients, task, ever>> /\ task[c].at = "idle"
        /\ \A d \in Conns : d # c => phase'[d] = phase[d]
    BY <1>5 DEF DeleteSocket, DeleteHandler, Takes, At, TypeOK
  <2>2. phase[c] # "live"
    <3>1. \E i \in DOMAIN queue[c] : queue[c][i].kind # "note"
      BY <1>5, QueueTypes DEF DeleteSocket, DeleteHandler, Takes, Deletion
    <3> QED
      BY <3>1 DEF TornDown
  <2> QED
    BY <2>1, <2>2 DEF AdoptedInv, NoGhost
\* OnDisconnected leaves under the current name.
<1>6. ASSUME NEW c \in Conns, NEW u \in Users \cup {None}, NEW s,
             OnDisconnected(c, u, s), UNCHANGED <<username, ever>>
      PROVE  AdoptedInv'
  <2>1. /\ phase'[c] = "closed" /\ task'[c].at = "cleanup"
        /\ \A d \in Conns : d # c => phase'[d] = phase[d] /\ task'[d] = task[d]
    BY <1>6 DEF OnDisconnected, TypeOK
  <2>2. \A v \in Users : /\ clients'[v] = clients[v] \/ clients'[v] = None
                         /\ username[c] = v => clients'[v] = None
    BY <1>6 DEF OnDisconnected, TypeOK
  <2>3. \A d \in Conns, v \in Users :
          clients'[v] = d => clients[v] = d /\ (d = c => username[c] # v)
    <3> SUFFICES ASSUME NEW d \in Conns, NEW v \in Users, clients'[v] = d
                 PROVE  clients[v] = d /\ (d = c => username[c] # v)
      OBVIOUS
    <3>1. clients'[v] # None
      BY NoneAssumption
    <3> QED
      BY <2>2, <3>1
  <2>4. ASSUME NEW d \in Conns, NEW v \in Users, clients'[v] = d, phase'[d] # "live"
        PROVE  username'[d] # v \/ <<d, v, FALSE>> \in ever'
    <3>1. clients[v] = d /\ (d = c => username[c] # v)
      BY <2>3, <2>4
    <3>2. CASE d = c
      BY <1>6, <3>1, <3>2
    <3>3. CASE d # c
      <4>1. phase[d] # "live"
        BY <2>1, <2>4, <3>3
      <4> QED
        BY <1>6, <3>1, <4>1 DEF AdoptedInv, NoGhost
    <3> QED  BY <3>2, <3>3
  <2>5. \A d \in Conns : task'[d].at = "insert" =>
          task[d].at = "insert" /\ task'[d] = task[d] /\ phase'[d] = phase[d]
    BY <2>1
  <2> QED
    BY <1>6, <2>4, <2>5 DEF AdoptedInv, NoGhost
<1>7. ASSUME NEW c \in Conns, Disconnect(c) \/ DeliverFails(c) \/ Respond(c)
      PROVE  AdoptedInv'
  <2>1. CASE Disconnect(c)
    BY <2>1, <1>6 DEF Disconnect
  <2>2. CASE DeliverFails(c)
    BY <2>2, <1>6 DEF DeliverFails
  <2>3. CASE Respond(c)
    <3>1. task[c].user \in Users \cup {None} /\ UNCHANGED <<username, ever>>
      BY <2>3, TaskFields DEF Respond, TypeOK, At, Task
    <3>2. CASE UNCHANGED <<phase, clients>> /\ task'[c].at # "insert" /\ \A d \in Conns : d # c => task'[d] = task[d]
      BY <3>1, <3>2 DEF AdoptedInv, NoGhost
    <3> QED
      BY <2>3, <1>6, <3>1, <3>2 DEF Respond, TypeOK, Doing
  <2> QED  BY <1>7, <2>1, <2>2, <2>3
\* Adopt: the record says whether the connection is still there.
<1>8. ASSUME NEW c \in Conns, Adopt(c)
      PROVE  AdoptedInv'
  <2> DEFINE u == task[c].user
  <2>1. u \in Users
    BY <1>8 DEF Adopt, At, TypeOK, Task
  <2>2. /\ UNCHANGED <<phase, clients>> /\ username'[c] = u /\ task'[c].user \in {u, None}
        /\ \A d \in Conns : d # c => username'[d] = username[d] /\ task'[d] = task[d]
        /\ task'[c].at = "insert" => task'[c].user = u
        /\ ever \subseteq ever' /\ (phase[c] # "live" => <<c, u, FALSE>> \in ever')
    BY <1>8, <2>1 DEF Adopt, TypeOK, Doing, Reading
  <2> HIDE DEF u
  <2>3. \A d \in Conns : task'[d].at = "insert" =>
          /\ username'[d] = task'[d].user
          /\ phase'[d] # "live" => <<d, task'[d].user, FALSE>> \in ever'
    BY <2>2 DEF AdoptedInv
  <2>4. ASSUME NEW d \in Conns, NEW v \in Users, clients'[v] = d, phase'[d] # "live"
        PROVE  username'[d] # v \/ <<d, v, FALSE>> \in ever'
    BY <2>2, <2>4 DEF AdoptedInv, NoGhost
  <2> QED
    BY <2>3, <2>4 DEF AdoptedInv, NoGhost
\* Insert: what Adopt recorded still holds, nothing tears down a connection
\* whose thread is in addClient.
<1>9. ASSUME NEW c \in Conns, Insert(c)
      PROVE  AdoptedInv'
  <2>1. task[c].at = "insert" /\ task[c].user \in Users
    BY <1>9 DEF Insert, At, TypeOK, Task
  <2>2. /\ UNCHANGED <<phase, username, ever>> /\ task'[c].at # "insert"
        /\ \A d \in Conns : d # c => task'[d] = task[d]
        /\ clients'[task[c].user] = c
        /\ \A v \in Users : v # task[c].user => clients'[v] = clients[v]
    BY <1>9, <2>1 DEF Insert, TypeOK, Doing, Reading
  <2>3. ASSUME NEW d \in Conns, NEW v \in Users, clients'[v] = d, phase'[d] # "live"
        PROVE  username'[d] # v \/ <<d, v, FALSE>> \in ever'
    <3>1. CASE v = task[c].user
      BY <2>1, <2>2, <2>3, <3>1 DEF AdoptedInv
    <3>2. CASE v # task[c].user
      BY <2>2, <2>3, <3>2 DEF AdoptedInv, NoGhost
    <3> QED  BY <3>1, <3>2
  <2> QED
    BY <2>2, <2>3 DEF AdoptedInv, NoGhost
<1> QED
  <2>1. ASSUME NEW c \in Conns, Call(c) PROVE AdoptedInv'
    BY <2>1, <1>3, <1>7, <1>8, <1>9 DEF Call
  <2>2. ASSUME NEW c \in Conns, TakeEvent(c) PROVE AdoptedInv'
    BY <2>2, <1>4, <1>5, <1>7 DEF TakeEvent
  <2>3. ASSUME NEW c \in Conns, Peer(c) PROVE AdoptedInv'
    BY <2>3, <1>2, <1>3, <1>7 DEF Peer
  <2> QED
    BY <1>1, <2>1, <2>2, <2>3 DEF Next

\* A handler stays registered after its connection only if its name changed, or
\* the connection broke inside its login, for any numbers of connections.
THEOREM GhostsAreExplained == Spec => []NoGhost
<1>1. Init => TornDown /\ AdoptedInv
  <2> SUFFICES ASSUME Init PROVE TornDown /\ AdoptedInv
    OBVIOUS
  <2>1. \A c \in Conns : (\A i \in DOMAIN queue[c] : FALSE) /\ task[c].at = "idle"
    <3>1. \A c \in Conns : queue[c] = <<>> /\ task[c].at = "idle"
      BY DEF Init, Idle, Doing
    <3>2. \A i \in DOMAIN <<>> : FALSE
      OBVIOUS
    <3> QED
      BY <3>1, <3>2
  <2>2. \A u \in Users : clients[u] \notin Conns
    BY NoneAssumption DEF Init
  <2> QED
    BY <2>1, <2>2 DEF TornDown, AdoptedInv, NoGhost
<1>2. Init => RegistryInv
  BY DEF Init, RegistryInv, LoginInProgress, NamesFromLogins, SoleLoginRegistered, FreshIsIdle,
         LoggedIn, Idle, Doing
<1>3. AdoptedInv => NoGhost
  BY DEF AdoptedInv
<1> QED
  BY <1>1, <1>2, <1>3, TypeCorrect, RegistryStep, TornStep, GhostStep, PTL DEF Spec
=============================================================================

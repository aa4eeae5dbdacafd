---------------------------- MODULE ContactStore ----------------------------
(***************************************************************************)
(* ContactHandler and ContactRepository over the shared connection: the    *)
(* tables friend_requests and friends, and worker threads that run the     *)
(* four requests that change them, one SQL statement at a time.            *)
(*                                                                         *)
(* A call is about a row: the pair <<from, to>> of the friend request,     *)
(* also for the one who answers it.                                        *)
(***************************************************************************)
EXTENDS SqliteConnection

CONSTANTS
  Threads,    \* worker threads
  Rows        \* the pairs <<from, to>> of users that calls are about

\* A client never asks itself (ContactViewModel::sendFriendRequest).
ASSUME SomeRows == Rows # {} /\ \A p \in Rows : p[1] # p[2]
ASSUME Refusal == MayRefuse \in BOOLEAN

VARIABLE call \* the request each thread is in the middle of

vars == <<visible, durable, inTx, refused, call>>

Reverse(p) == <<p[2], p[1]>>

Status == {"none", "pending", "cancelled", "accepted", "rejected"}
Tables == [requests : [Rows -> Status], friends : SUBSET Rows]

Ops == {"send", "cancel", "accept", "reject", "unfriend"}

\* Mutant: a status the CHECK of schema.sql does not know.
NewStatus_Misspelled(op) ==
  CASE op = "send" -> "pending" [] op = "cancel" -> "canceled"
    [] op = "accept" -> "accepted" [] OTHER -> "rejected"

\* What updateRequestStatus is asked to write.
NewStatus(op) ==
  CASE op = "send" -> "pending" [] op = "cancel" -> "cancelled"
    [] op = "accept" -> "accepted" [] OTHER -> "rejected"

InTransaction == {"update", "delete", "commit", "rollback"}
Steps == InTransaction \cup
         {"idle", "find", "insert", "begin", "befriend", "check", "unfriend", "answer"}

Call == [at : Steps, op : Ops, row : Rows, ok : BOOLEAN]
Idle == [at |-> "idle", op |-> "send", row |-> CHOOSE p \in Rows : TRUE, ok |-> FALSE]

TypeOK ==
  /\ visible \in Tables
  /\ durable \in Tables
  /\ inTx \in BOOLEAN
  /\ refused \in BOOLEAN
  /\ call \in [Threads -> Call]

Init ==
  /\ visible = [requests |-> [p \in Rows |-> "none"], friends |-> {}]
  /\ durable = visible
  /\ inTx = FALSE
  /\ refused = FALSE
  /\ call = [t \in Threads |-> Idle]

-----------------------------------------------------------------------------
At(t, s) == call[t].at = s
Doing(t, s, ok) ==
  call' = [call EXCEPT ![t] = [at |-> s, op |-> call[t].op, row |-> call[t].row, ok |-> ok]]
Goto(t, s) == Doing(t, s, FALSE)
Answer(t, ok) == Doing(t, "answer", ok)

\* The tables after an UPDATE or INSERT, a DELETE, an INSERT of a friendship.
WithStatus(p, s) ==
  [requests |-> [visible.requests EXCEPT ![p] = s], friends |-> visible.friends]

WithoutRow(p) == WithStatus(p, "none")
WithFriends(fs) == [requests |-> visible.requests, friends |-> fs]

Exists(p) == visible.requests[p] # "none"

\* A request arrives.  createFriendRequest first counts the receiver's
\* accounts, handleDeleteFriend asks areFriends, the others call
\* updateRequestStatus at once.
FirstStep(op) ==
  CASE op = "send" -> "find" [] op = "unfriend" -> "check" [] OTHER -> "begin"

Receive(t, op, p) ==
  /\ At(t, "idle")
  /\ call' = [call EXCEPT ![t] = [at |-> FirstStep(op), op |-> op, row |-> p, ok |-> FALSE]]
  /\ UNCHANGED dbVars

\* createFriendRequest: no such receiver (or the query fails), or look for a
\* row; a query that fails counts as no row.
Find(t) ==
  /\ At(t, "find")
  /\ \/ Answer(t, FALSE)
     \/ Exists(call[t].row) /\ Goto(t, "begin")
     \/ Goto(t, "insert")
  /\ UNCHANGED dbVars

\* INSERT INTO friend_requests: UNIQUE(from_user, to_user).
Insert(t) ==
  /\ At(t, "insert")
  /\ \/ /\ ~Exists(call[t].row)
        /\ Exec(WithStatus(call[t].row, "pending"))
        /\ Answer(t, TRUE)
     \/ ExecFails /\ Answer(t, FALSE)

\* Mutant: no BEGIN.
BeginUpdate_NoTransaction(t) ==
  /\ At(t, "begin")
  /\ Goto(t, "update")
  /\ UNCHANGED dbVars

\* updateRequestStatus: BEGIN, whose failure is ignored.
BeginUpdate(t) ==
  /\ At(t, "begin")
  /\ Begin
  /\ Goto(t, "update")

\* UPDATE friend_requests: every status of the row, and no row, is accepted.
Update(t) ==
  LET p == call[t].row IN
  /\ At(t, "update")
  /\ \/ /\ IF Exists(p) THEN Exec(WithStatus(p, NewStatus(call[t].op))) ELSE Exec(visible)
        /\ Goto(t, IF call[t].op \in {"accept", "reject"} THEN "delete" ELSE "commit")
     \/ ExecFails /\ Goto(t, "rollback")

\* Mutant: the failed DELETE returns without rollback().
Delete_NoRollback(t) ==
  /\ At(t, "delete")
  /\ \/ Exec(WithoutRow(call[t].row)) /\ Goto(t, "commit")
     \/ ExecFails /\ Answer(t, FALSE)

\* DELETE FROM friend_requests of an answered request.
Delete(t) ==
  /\ At(t, "delete")
  /\ \/ Exec(WithoutRow(call[t].row)) /\ Goto(t, "commit")
     \/ ExecFails /\ Goto(t, "rollback")

\* return commit(); an acceptance then makes the friendship.
CommitUpdate(t) ==
  /\ At(t, "commit")
  /\ \/ /\ CommitSucceeds
        /\ IF call[t].op = "accept" THEN Goto(t, "befriend") ELSE Answer(t, TRUE)
     \/ CommitFails /\ Answer(t, FALSE)

RollbackUpdate(t) ==
  /\ At(t, "rollback")
  /\ Rollback
  /\ Answer(t, FALSE)

\* addFriendship: PRIMARY KEY(user1, user2); the result is not looked at.
Befriend(t) ==
  /\ At(t, "befriend")
  /\ \/ Exec(WithFriends(visible.friends \cup {call[t].row}))
     \/ ExecFails
  /\ Answer(t, TRUE)

\* handleDeleteFriend: areFriends in either direction.
CheckFriends(t) ==
  LET p == call[t].row IN
  /\ At(t, "check")
  /\ \/ {p, Reverse(p)} \cap visible.friends # {} /\ Goto(t, "unfriend")
     \/ Answer(t, FALSE)
  /\ UNCHANGED dbVars

\* Mutant: only the direction the request names.
Unfriend_OneDirection(t) ==
  /\ At(t, "unfriend")
  /\ \/ Exec(WithFriends(visible.friends \ {call[t].row})) /\ Answer(t, TRUE)
     \/ ExecFails /\ Answer(t, FALSE)

\* deleteFriendship in both directions.
Unfriend(t) ==
  LET p == call[t].row IN
  /\ At(t, "unfriend")
  /\ \/ Exec(WithFriends(visible.friends \ {p, Reverse(p)})) /\ Answer(t, TRUE)
     \/ ExecFails /\ Answer(t, FALSE)

\* The response is sent; the notification that goes with it is in Sessions.
Reply(t) ==
  /\ At(t, "answer")
  /\ call' = [call EXCEPT ![t] = Idle]
  /\ UNCHANGED dbVars

\* The process ends and is started again: schema.sql keeps these tables.
Restart ==
  /\ Undo
  /\ call' = [t \in Threads |-> Idle]

Step(t) ==
  \/ Find(t) \/ Insert(t) \/ BeginUpdate(t) \/ Update(t) \/ Delete(t) \/ CommitUpdate(t)
  \/ RollbackUpdate(t) \/ Befriend(t) \/ CheckFriends(t) \/ Unfriend(t) \/ Reply(t)

Next ==
  \/ \E t \in Threads : Step(t) \/ \E op \in Ops, p \in Rows : Receive(t, op, p)
  \/ Restart

Spec == Init /\ [][Next]_vars

-----------------------------------------------------------------------------
\* When no thread is inside updateRequestStatus, everything the connection
\* shows is in the file, so a crash then loses nothing that was read or
\* answered: no interleaving of calls leaves a transaction behind (unless a COMMIT
\* was refused).
QuietIsDurable ==
  ~refused /\ (\A t \in Threads : call[t].at \notin InTransaction) => visible = durable

\* ContactRepository.cpp:48, "Delete the friend request if it is accepted or
\* rejected": the file never holds an answered request.  TLC refutes it for two
\* threads: BEGIN fails, and the other thread's COMMIT comes before the DELETE.
NoHalfAnswer == \A p \in Rows : durable.requests[p] \notin {"accepted", "rejected"}

\* A success response means the file has what was asked for (before the next
\* request is served).
AnswerIsDurable ==
  \A t \in Threads :
    LET p == call[t].row IN
    At(t, "answer") /\ call[t].ok =>
      CASE call[t].op = "send" -> durable.requests[p] = "pending"
        [] call[t].op = "cancel" -> durable.requests[p] \in {"none", "cancelled"}
        [] call[t].op \in {"accept", "reject"} -> durable.requests[p] = "none"
        [] OTHER -> {p, Reverse(p)} \cap durable.friends = {}

\* Design/Protocols.md:97, the request is stored for later delivery: a pending
\* request is not lost in a step unless a call about it is under way.  It holds
\* with one thread and no refused COMMIT; run ContactsLost has two threads.
Concerned(p) == \E t \in Threads : ~At(t, "idle") /\ call[t].row = p
RequestSurvives ==
  [][\A p \in Rows : visible.requests[p] = "pending" /\ ~Concerned(p)
                        => visible'.requests[p] = "pending"]_vars

\* schema.sql:20, friends holds the accepted friendships: a request whose
\* acceptance is answered with success has its friendship.  TLC refutes it: the
\* INSERT of the friendship may fail.
AcceptedAreFriends ==
  \A t \in Threads : At(t, "answer") /\ call[t].ok /\ call[t].op = "accept"
    => call[t].row \in visible.friends

\* README.md:77, accept incoming friend requests: an acceptance is carried out
\* only if the request is still pending.  TLC refutes it: the UPDATE asks for
\* neither a status nor a row.
OnlyPendingIsAccepted ==
  [][\A t \in Threads : At(t, "update") /\ call[t].op = "accept" /\ call'[t].at = "delete"
        => visible.requests[call[t].row] = "pending"]_vars

\* The file changes by whole contact operations (one worker thread, no refused
\* COMMIT).
Promise == INSTANCE Contacts WITH
  tables <- durable,
  owed <- {call[t].row : t \in {s \in Threads : At(s, "befriend")}}
PromiseKept == Promise!Spec
=============================================================================

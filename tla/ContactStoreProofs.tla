------------------------- MODULE ContactStoreProofs -------------------------
(***************************************************************************)
(* What one shared connection guarantees for any number of worker threads, *)
(* whatever fails: types, and nothing is left uncommitted when no thread   *)
(* is inside updateRequestStatus.  And what it guarantees for one thread:  *)
(* whole operations, durable answers, no lost request.                     *)
(***************************************************************************)
EXTENDS ContactStore, TLAPS

\* An open transaction has a thread that will end it, unless its COMMIT was
\* refused.
TransactionOwned == inTx /\ ~refused => \E t \in Threads : call[t].at \in InTransaction

\* Outside a transaction every statement is committed at once.
AutoCommit == ~inTx => visible = durable

\* Everything the connection can be told to do.
DbStep ==
  UNCHANGED dbVars \/ (\E t \in Tables : Exec(t)) \/ ExecFails \/ Undo \/ Begin
    \/ CommitSucceeds \/ CommitFails

-----------------------------------------------------------------------------
LEMMA IdleType == Idle \in Call
BY SomeRows DEF Idle, Call, Steps, Ops

LEMMA TablesWithStatus ==
  ASSUME visible \in Tables, NEW p \in Rows, NEW s \in Status
  PROVE  WithStatus(p, s) \in Tables
BY DEF WithStatus, Tables

LEMMA TablesWithFriends ==
  ASSUME visible \in Tables, NEW fs \in SUBSET Rows
  PROVE  WithFriends(fs) \in Tables
BY DEF WithFriends, Tables

\* What a statement, a failed one and the ends of a transaction do to the
\* connection's types.
LEMMA DbTypes ==
  ASSUME visible \in Tables, durable \in Tables, inTx \in BOOLEAN, refused \in BOOLEAN,
         DbStep
  PROVE  visible' \in Tables /\ durable' \in Tables /\ inTx' \in BOOLEAN /\ refused' \in BOOLEAN
<1>1. CASE UNCHANGED dbVars  BY <1>1 DEF dbVars
<1>2. CASE \E t \in Tables : Exec(t)
  <2>1. PICK t \in Tables : Exec(t)  BY <1>2
  <2>2. durable' \in Tables
    <3>1. CASE inTx  BY <2>1, <3>1 DEF Exec
    <3>2. CASE ~inTx  BY <2>1, <3>2 DEF Exec
    <3> QED  BY <3>1, <3>2
  <2> QED  BY <2>1, <2>2 DEF Exec
<1>3. CASE ExecFails  BY <1>3 DEF ExecFails, Undo, dbVars
<1>4. CASE Undo  BY <1>4 DEF Undo
<1>5. CASE Begin  BY <1>5 DEF Begin
<1>6. CASE CommitSucceeds  BY <1>6 DEF CommitSucceeds
<1>7. CASE CommitFails  BY <1>7 DEF CommitFails, dbVars
<1> QED  BY <1>1, <1>2, <1>3, <1>4, <1>5, <1>6, <1>7 DEF DbStep

\* The same for the two facts about transactions: AutoCommit is kept, and a
\* transaction is opened by Begin only.
LEMMA DbCommits ==
  ASSUME AutoCommit,
         DbStep
  PROVE  /\ AutoCommit'
         /\ ~Begin => (inTx' /\ ~refused' => inTx /\ ~refused)
<1>1. CASE UNCHANGED dbVars  BY <1>1 DEF dbVars, AutoCommit
<1>2. CASE \E t \in Tables : Exec(t)
  <2>1. PICK t \in Tables : Exec(t)  BY <1>2
  <2>2. CASE inTx  BY <2>1, <2>2 DEF Exec, AutoCommit
  <2>3. CASE ~inTx  BY <2>1, <2>3 DEF Exec, AutoCommit
  <2> QED  BY <2>2, <2>3
<1>3. CASE ExecFails  BY <1>3 DEF ExecFails, Undo, dbVars, AutoCommit
<1>4. CASE Undo  BY <1>4 DEF Undo, AutoCommit
<1>5. CASE Begin  BY <1>5 DEF Begin, AutoCommit
<1>6. CASE CommitSucceeds  BY <1>6 DEF CommitSucceeds, AutoCommit
<1>7. CASE CommitFails  BY <1>7 DEF CommitFails, dbVars, AutoCommit
<1> QED  BY <1>1, <1>2, <1>3, <1>4, <1>5, <1>6, <1>7 DEF DbStep

-----------------------------------------------------------------------------
\* Thread t goes on as c, and if it thereby leaves updateRequestStatus, no
\* transaction is left behind.
Goes(t, c) ==
  /\ call' = [call EXCEPT ![t] = c]
  /\ \/ c.at \in InTransaction
     \/ call[t].at \notin InTransaction /\ (inTx' /\ ~refused' => inTx /\ ~refused)
     \/ ~inTx' \/ refused'

LEMMA StepShape ==
  ASSUME TypeOK, AutoCommit, NEW t \in Threads, Step(t) \/ \E op \in Ops, p \in Rows : Receive(t, op, p)
  PROVE  DbStep /\ \E c \in Call : Goes(t, c)
<1> DEFINE To(s, ok) == [at |-> s, op |-> call[t].op, row |-> call[t].row, ok |-> ok]
           p == call[t].row
<1>0. /\ call[t] \in Call
      /\ p \in Rows
      /\ \A s \in Steps, ok \in BOOLEAN : To(s, ok) \in Call
  BY DEF TypeOK, Call
<1>a. WithoutRow(p) \in Tables /\ \A s \in Status : WithStatus(p, s) \in Tables
  BY <1>0, TablesWithStatus DEF TypeOK, WithoutRow, Status
<1>b. \A fs \in SUBSET Rows : WithFriends(fs) \in Tables
  BY TablesWithFriends DEF TypeOK
<1>c. NewStatus(call[t].op) \in Status
  BY DEF NewStatus, Status
<1>d. /\ UNCHANGED dbVars => (inTx' /\ ~refused' => inTx /\ ~refused)
      /\ ExecFails => (inTx' /\ ~refused' => inTx /\ ~refused)
      /\ \A tb : Exec(tb) => (inTx' /\ ~refused' => inTx /\ ~refused)
      /\ Undo => ~inTx'
      /\ CommitSucceeds => ~inTx'
      /\ CommitFails => ~inTx' \/ refused'
  BY DEF dbVars, ExecFails, Undo, Exec, CommitSucceeds, CommitFails
<1> HIDE DEF p
<1>1. ASSUME NEW op \in Ops, NEW q \in Rows, Receive(t, op, q)  PROVE  DbStep /\ \E c \in Call : Goes(t, c)
  <2> DEFINE c == [at |-> FirstStep(op), op |-> op, row |-> q, ok |-> FALSE]
  <2>1. c \in Call  BY DEF FirstStep, Call, Steps, InTransaction
  <2>2. Goes(t, c)  BY <1>1, <1>d DEF Receive, Goes, At, InTransaction
  <2> QED  BY <2>1, <2>2, <1>1 DEF Receive, DbStep
<1>2. ASSUME Find(t)  PROVE  DbStep /\ \E c \in Call : Goes(t, c)
  <2>1. DbStep  BY <1>2 DEF Find, DbStep
  <2>2. \E s \in {"answer", "begin", "insert"} : Goes(t, To(s, FALSE))
    BY <1>2, <1>d DEF Find, Goes, At, Goto, Answer, Doing, InTransaction
  <2> QED  BY <2>1, <2>2, <1>0 DEF Steps
<1>3. ASSUME Insert(t)  PROVE  DbStep /\ \E c \in Call : Goes(t, c)
  <2>1. DbStep  BY <1>3, <1>a DEF Insert, DbStep, Status, p
  <2>2. \E ok \in BOOLEAN : Goes(t, To("answer", ok))
    BY <1>3, <1>d DEF Insert, Goes, At, Answer, Doing, InTransaction
  <2> QED  BY <2>1, <2>2, <1>0 DEF Steps
<1>4. ASSUME BeginUpdate(t)  PROVE  DbStep /\ \E c \in Call : Goes(t, c)
  <2>1. Goes(t, To("update", FALSE))  BY <1>4 DEF BeginUpdate, Goes, Goto, Doing, InTransaction
  <2> QED  BY <1>4, <2>1, <1>0 DEF BeginUpdate, DbStep, Steps, InTransaction
<1>5. ASSUME Update(t)  PROVE  DbStep /\ \E c \in Call : Goes(t, c)
  <2>1. DbStep  BY <1>5, <1>a, <1>c DEF Update, DbStep, TypeOK, p
  <2>2. \E s \in InTransaction : Goes(t, To(s, FALSE))
    BY <1>5 DEF Update, Goes, Goto, Doing, InTransaction
  <2> QED  BY <2>1, <2>2, <1>0 DEF Steps
<1>6. ASSUME Delete(t)  PROVE  DbStep /\ \E c \in Call : Goes(t, c)
  <2>1. DbStep  BY <1>6, <1>a DEF Delete, DbStep, p
  <2>2. \E s \in InTransaction : Goes(t, To(s, FALSE))
    BY <1>6 DEF Delete, Goes, Goto, Doing, InTransaction
  <2> QED  BY <2>1, <2>2, <1>0 DEF Steps
<1>7. ASSUME CommitUpdate(t)  PROVE  DbStep /\ \E c \in Call : Goes(t, c)
  <2>1. DbStep  BY <1>7 DEF CommitUpdate, DbStep
  <2>2. \E s \in {"befriend", "answer"}, ok \in BOOLEAN : Goes(t, To(s, ok))
    BY <1>7, <1>d DEF CommitUpdate, Goes, Goto, Answer, Doing
  <2> QED  BY <2>1, <2>2, <1>0 DEF Steps
<1>8. ASSUME RollbackUpdate(t)  PROVE  DbStep /\ \E c \in Call : Goes(t, c)
  <2>1. Goes(t, To("answer", FALSE))  BY <1>8, <1>d DEF RollbackUpdate, Rollback, Goes, Answer, Doing
  <2> QED  BY <1>8, <2>1, <1>0 DEF RollbackUpdate, Rollback, DbStep, Steps
<1>9. ASSUME Befriend(t)  PROVE  DbStep /\ \E c \in Call : Goes(t, c)
  <2>1. visible.friends \cup {p} \in SUBSET Rows  BY <1>0 DEF TypeOK, Tables
  <2>2. DbStep  BY <1>9, <1>b, <2>1 DEF Befriend, DbStep, p
  <2>3. Goes(t, To("answer", TRUE))
    BY <1>9, <1>d DEF Befriend, Goes, At, Answer, Doing, InTransaction
  <2> QED  BY <2>2, <2>3, <1>0 DEF Steps
<1>10. ASSUME CheckFriends(t)  PROVE  DbStep /\ \E c \in Call : Goes(t, c)
  <2>1. DbStep  BY <1>10 DEF CheckFriends, DbStep
  <2>2. \E s \in {"answer", "unfriend"} : Goes(t, To(s, FALSE))
    BY <1>10, <1>d DEF CheckFriends, Goes, At, Goto, Answer, Doing, InTransaction
  <2> QED  BY <2>1, <2>2, <1>0 DEF Steps
<1>11. ASSUME Unfriend(t)  PROVE  DbStep /\ \E c \in Call : Goes(t, c)
  <2>1. visible.friends \ {p, Reverse(p)} \in SUBSET Rows  BY DEF TypeOK, Tables
  <2>2. DbStep  BY <1>11, <1>b, <2>1 DEF Unfriend, DbStep, p
  <2>3. \E ok \in BOOLEAN : Goes(t, To("answer", ok))
    BY <1>11, <1>d DEF Unfriend, Goes, At, Answer, Doing, InTransaction
  <2> QED  BY <2>2, <2>3, <1>0 DEF Steps
<1>12. ASSUME Reply(t)  PROVE  DbStep /\ \E c \in Call : Goes(t, c)
  <2>1. Goes(t, Idle)  BY <1>12, <1>d DEF Reply, Goes, At, InTransaction
  <2> QED  BY <2>1, <1>12, IdleType DEF Reply, DbStep
<1> QED
  BY <1>1, <1>2, <1>3, <1>4, <1>5, <1>6, <1>7, <1>8, <1>9, <1>10, <1>11, <1>12 DEF Step

-----------------------------------------------------------------------------
IInv == TypeOK /\ AutoCommit /\ TransactionOwned

LEMMA InitHolds == Init => IInv
<1> SUFFICES ASSUME Init  PROVE  IInv
  OBVIOUS
<1>1. TypeOK  BY IdleType DEF Init, TypeOK, Tables, Status
<1>2. AutoCommit /\ TransactionOwned  BY DEF Init, AutoCommit, TransactionOwned
<1> QED  BY <1>1, <1>2 DEF IInv

LEMMA NextKeeps == IInv /\ [Next]_vars => IInv'
<1> SUFFICES ASSUME IInv, [Next]_vars  PROVE  IInv'
  OBVIOUS
<1> USE DEF IInv
<1>1. ASSUME NEW t \in Threads, Step(t) \/ \E op \in Ops, p \in Rows : Receive(t, op, p)
      PROVE  IInv'
  <2>1. PICK c \in Call : DbStep /\ Goes(t, c)  BY <1>1, StepShape
  <2>2. call' = [call EXCEPT ![t] = c]  BY <2>1 DEF Goes
  <2>3. TypeOK'  BY <2>1, <2>2, DbTypes DEF TypeOK
  <2>4. AutoCommit'  BY <2>1, DbCommits
  <2>5. ASSUME inTx', ~refused'  PROVE  \E s \in Threads : call'[s].at \in InTransaction
    <3>1. call'[t] = c /\ \A s \in Threads \ {t} : call'[s] = call[s]  BY <2>2 DEF TypeOK
    <3>2. CASE c.at \in InTransaction  BY <3>1, <3>2
    <3>3. CASE call[t].at \notin InTransaction /\ (inTx' /\ ~refused' => inTx /\ ~refused)
      <4>1. PICK s \in Threads : call[s].at \in InTransaction  BY <3>3, <2>5 DEF TransactionOwned
      <4> QED  BY <4>1, <3>1, <3>3
    <3> QED  BY <2>1, <2>5, <3>2, <3>3 DEF Goes
  <2> QED  BY <2>3, <2>4, <2>5 DEF TransactionOwned
<1>2. ASSUME Restart  PROVE  IInv'
  <2>1. TypeOK'  BY <1>2, IdleType, DbTypes DEF Restart, DbStep, TypeOK
  <2> QED  BY <1>2, <2>1 DEF Restart, Undo, AutoCommit, TransactionOwned
<1>3. CASE UNCHANGED vars
  BY <1>3 DEF vars, TypeOK, AutoCommit, TransactionOwned
<1> QED  BY <1>1, <1>2, <1>3 DEF Next

\* Types, for any threads and rows: no interleaving of the calls makes a status
\* the schema does not know or a call about no row.
THEOREM TypeCorrect == Spec => []TypeOK
<1>1. IInv => TypeOK  BY DEF IInv
<1> QED  BY <1>1, InitHolds, NextKeeps, PTL DEF Spec

\* For any number of worker threads on the one connection: when no thread is
\* inside updateRequestStatus and no COMMIT was refused, the file holds all
\* that the connection shows.
THEOREM QuietStoreIsDurable == Spec => []QuietIsDurable
<1>1. IInv => QuietIsDurable
  BY DEF IInv, AutoCommit, TransactionOwned, QuietIsDurable
<1> QED  BY <1>1, InitHolds, NextKeeps, PTL DEF Spec

-----------------------------------------------------------------------------
(***************************************************************************)
(* With one worker thread and no refused COMMIT, ContactStore implements   *)
(* Contacts, a success is in the file when it is answered, and no request  *)
(* is lost: whatever statements fail and wherever the process stops.       *)
(***************************************************************************)

\* The tables of the file with the status of row p replaced.
Stored(p, s) ==
  [requests |-> [durable.requests EXCEPT ![p] = s], friends |-> durable.friends]

\* Where the only thread t is, says what the open transaction has done so far.
Progress(t) ==
  LET p == call[t].row
      op == call[t].op IN
  /\ ~refused
  /\ call[t].at \notin InTransaction => ~inTx
  /\ call[t].at \in {"update", "delete", "commit"} => inTx
  /\ call[t].at = "update" => visible = durable
  /\ call[t].at = "delete" =>
       /\ op \in {"accept", "reject"}
       /\ \E s \in Status : visible = Stored(p, s)
  /\ call[t].at = "commit" =>
       \/ op \in {"accept", "reject"} /\ visible = Stored(p, "none")
       \/ op \notin {"accept", "reject"} /\ visible = durable
       \/ /\ op \notin {"accept", "reject"}
          /\ durable.requests[p] # "none"
          /\ visible = Stored(p, NewStatus(op))

-----------------------------------------------------------------------------
\* What a call at some place was asked for.
OpFits(t) ==
  /\ call[t].at = "befriend" => call[t].op = "accept"
  /\ call[t].at \in {"find", "insert", "begin"} \cup InTransaction => call[t].op # "unfriend"

OneInv(t) == TypeOK /\ AutoCommit /\ Progress(t) /\ OpFits(t)

LEMMA OneInit ==
  ASSUME NEW t, Threads = {t}, Init
  PROVE  OneInv(t)
<1>1. TypeOK /\ AutoCommit  BY InitHolds DEF IInv
<1> QED  BY <1>1 DEF OneInv, Init, Idle, Progress, OpFits, InTransaction

\* The acceptances under way, as the only thread shows them.
Owed == {call[s].row : s \in {r \in Threads : At(r, "befriend")}}

LEMMA OwedIs ==
  ASSUME NEW t, Threads = {t}
  PROVE  /\ At(t, "befriend") => Owed = {call[t].row}
         /\ ~At(t, "befriend") => Owed = {}
         /\ At(t, "befriend")' => Owed' = {call'[t].row}
         /\ ~At(t, "befriend")' => Owed' = {}
BY DEF Owed, At

\* A step of the detailed store, seen from the promise.
Kept(t) == Progress(t)' /\ OpFits(t)' /\ [Promise!Next]_<<durable, Owed>>

\* A call that only moves on, between two steps outside updateRequestStatus.
LEMMA MovesOn ==
  ASSUME NEW t, Threads = {t}, OneInv(t), NEW s \in Steps, NEW ok \in BOOLEAN,
         Doing(t, s, ok), UNCHANGED <<durable, inTx, refused>>, ~inTx,
         s \notin InTransaction, s # "befriend", s = "answer" \/ call[t].op # "unfriend" \/ s = "unfriend",
         ~At(t, "befriend")
  PROVE  Kept(t)
<1>1. call'[t] = [at |-> s, op |-> call[t].op, row |-> call[t].row, ok |-> ok]
  BY DEF OneInv, TypeOK, Doing
<1>2. Progress(t)'  BY <1>1 DEF OneInv, Progress, InTransaction
<1>3. OpFits(t)'  BY <1>1 DEF OneInv, OpFits, InTransaction
<1>4. ~At(t, "befriend")'  BY <1>1 DEF At
<1>5. Owed' = Owed  BY <1>4, OwedIs
<1> QED  BY <1>2, <1>3, <1>5 DEF Kept

\* A step inside updateRequestStatus: the file and what is owed do not change.
LEMMA Inside ==
  ASSUME NEW t, Threads = {t}, OneInv(t), NEW s \in InTransaction, Goto(t, s),
         Progress(t)', durable' = durable, ~At(t, "befriend"), call[t].op # "unfriend"
  PROVE  Kept(t)
<1>1. call'[t] = [at |-> s, op |-> call[t].op, row |-> call[t].row, ok |-> FALSE]
  BY DEF OneInv, TypeOK, Goto, Doing
<1>2. OpFits(t)'  BY <1>1 DEF OpFits, InTransaction
<1>3. ~At(t, "befriend")'  BY <1>1 DEF At, InTransaction
<1>4. Owed' = Owed  BY <1>3, OwedIs
<1> QED  BY <1>2, <1>4 DEF Kept

\* A call that is done, or has a friendship left to make.
LEMMA Finish ==
  ASSUME NEW t, Threads = {t}, OneInv(t), NEW s \in {"answer", "befriend"}, NEW ok \in BOOLEAN,
         Doing(t, s, ok), ~inTx', ~refused', s = "befriend" => call[t].op = "accept"
  PROVE  /\ Progress(t)' /\ OpFits(t)'
         /\ Owed' = IF s = "befriend" THEN {call[t].row} ELSE {}
<1>1. call'[t] = [at |-> s, op |-> call[t].op, row |-> call[t].row, ok |-> ok]
  BY DEF OneInv, TypeOK, Doing
<1>2. Progress(t)'  BY <1>1 DEF Progress, InTransaction
<1>3. OpFits(t)'  BY <1>1 DEF OpFits, InTransaction
<1>4. Owed' = IF s = "befriend" THEN {call[t].row} ELSE {}
  <2>1. CASE s = "befriend"
    <3>1. At(t, "befriend")'  BY <1>1, <2>1 DEF At
    <3> QED  BY <3>1, <1>1, <2>1, OwedIs
  <2>2. CASE s = "answer"
    <3>1. ~At(t, "befriend")'  BY <1>1, <2>2 DEF At
    <3> QED  BY <3>1, <2>2, OwedIs
  <2> QED  BY <2>1, <2>2
<1> QED  BY <1>2, <1>3, <1>4

-----------------------------------------------------------------------------
\* The steps outside updateRequestStatus: they leave the file alone, or change
\* it by one statement.
LEMMA OutsideSteps ==
  ASSUME NEW t, Threads = {t}, OneInv(t),
         Find(t) \/ Insert(t) \/ CheckFriends(t) \/ Unfriend(t) \/ Befriend(t)
  PROVE  Kept(t)
<1> DEFINE p == call[t].row
<1>0. /\ call[t].at \in {"find", "insert", "check", "unfriend", "befriend"}
      /\ ~inTx /\ ~refused /\ visible = durable /\ p \in Rows /\ call[t] \in Call
      /\ durable \in Tables
  <2>1. call[t].at \in {"find", "insert", "check", "unfriend", "befriend"}
    BY DEF Find, Insert, CheckFriends, Unfriend, Befriend, At
  <2> QED  BY <2>1 DEF OneInv, TypeOK, Call, Progress, InTransaction, AutoCommit
<1>1. \A tb : Exec(tb) => durable' = tb /\ ~inTx' /\ ~refused'
  BY <1>0 DEF Exec
<1>2. ExecFails => durable' = durable /\ ~inTx' /\ ~refused'
  BY <1>0 DEF ExecFails, Undo, dbVars
<1>3. ASSUME ~At(t, "befriend"), NEW ok \in BOOLEAN, Answer(t, ok), ~inTx', ~refused',
             durable' = durable \/ Promise!SetRequest(p, "pending")
               \/ Promise!SetFriends(durable.friends \ {p, <<p[2], p[1]>>})
      PROVE  Kept(t)
  <2>1. Progress(t)' /\ OpFits(t)' /\ Owed' = {}  BY <1>3, Finish DEF Answer
  <2>2. Owed = {}  BY <1>3, OwedIs
  <2>3. CASE durable' = durable  BY <2>1, <2>2, <2>3 DEF Kept
  <2>4. CASE Promise!SetRequest(p, "pending")
    <3>1. Promise!Next  BY <2>1, <2>2, <2>4, <1>0 DEF Promise!Next, Promise!Ask, Owed
    <3> QED  BY <3>1, <2>1 DEF Kept
  <2>5. CASE Promise!SetFriends(durable.friends \ {p, <<p[2], p[1]>>})
    <3>1. Promise!Next  BY <2>1, <2>2, <2>5, <1>0 DEF Promise!Next, Promise!Unfriend, Owed
    <3> QED  BY <3>1, <2>1 DEF Kept
  <2> QED  BY <1>3, <2>3, <2>4, <2>5
<1>4. CASE Find(t)
  <2>1. call[t].op # "unfriend"  BY <1>4 DEF Find, At, OneInv, OpFits
  <2>2. UNCHANGED <<durable, inTx, refused>> /\ ~At(t, "befriend")
    BY <1>4 DEF Find, At, dbVars
  <2>3. \E s \in {"answer", "begin", "insert"} : Doing(t, s, FALSE)
    BY <1>4 DEF Find, Goto, Answer
  <2> QED  BY <2>1, <2>2, <2>3, <1>0, MovesOn DEF Steps, InTransaction
<1>5. CASE Insert(t)
  <2>1. ~At(t, "befriend")  BY <1>5 DEF Insert, At
  <2>2. CASE Exec(WithStatus(p, "pending")) /\ Answer(t, TRUE)
    <3>1. Promise!SetRequest(p, "pending")
      BY <2>2, <1>0, <1>1 DEF Promise!SetRequest, WithStatus
    <3> QED  BY <3>1, <2>1, <2>2, <1>1, <1>3
  <2>3. CASE ExecFails /\ Answer(t, FALSE)  BY <2>1, <2>3, <1>2, <1>3
  <2> QED  BY <1>5, <2>2, <2>3 DEF Insert
<1>6. CASE CheckFriends(t)
  <2>1. UNCHANGED <<durable, inTx, refused>> /\ ~At(t, "befriend")
    BY <1>6 DEF CheckFriends, At, dbVars
  <2>2. \E s \in {"answer", "unfriend"} : Doing(t, s, FALSE)
    BY <1>6 DEF CheckFriends, Goto, Answer
  <2> QED  BY <2>1, <2>2, <1>0, MovesOn DEF Steps, InTransaction
<1>7. CASE Unfriend(t)
  <2>1. ~At(t, "befriend")  BY <1>7 DEF Unfriend, At
  <2>2. CASE Exec(WithFriends(visible.friends \ {p, Reverse(p)})) /\ Answer(t, TRUE)
    <3>1. Promise!SetFriends(durable.friends \ {p, <<p[2], p[1]>>})
      BY <2>2, <1>0, <1>1 DEF Promise!SetFriends, WithFriends, Reverse
    <3> QED  BY <3>1, <2>1, <2>2, <1>1, <1>3
  <2>3. CASE ExecFails /\ Answer(t, FALSE)  BY <2>1, <2>3, <1>2, <1>3
  <2> QED  BY <1>7, <2>2, <2>3 DEF Unfriend
<1>8. CASE Befriend(t)
  <2>1. Owed = {p}  BY <1>8, OwedIs DEF Befriend
  <2>2. ~inTx' /\ ~refused'  BY <1>8, <1>1, <1>2 DEF Befriend
  <2>3. Progress(t)' /\ OpFits(t)' /\ Owed' = {}
    BY <1>8, <2>2, Finish DEF Befriend, Answer
  <2>4. durable' = durable \/ Promise!SetFriends(durable.friends \cup {p})
    BY <1>8, <1>0, <1>1, <1>2 DEF Befriend, Promise!SetFriends, WithFriends
  <2>5. Promise!Next
    BY <2>1, <2>3, <2>4, <1>0 DEF Promise!Next, Promise!Befriend, Owed
  <2> QED  BY <2>3, <2>5 DEF Kept
<1> QED  BY <1>4, <1>5, <1>6, <1>7, <1>8

-----------------------------------------------------------------------------
\* The steps of updateRequestStatus up to its COMMIT or ROLLBACK.
LEMMA InsideSteps ==
  ASSUME NEW t, Threads = {t}, OneInv(t), BeginUpdate(t) \/ Update(t) \/ Delete(t)
  PROVE  Kept(t)
<1> DEFINE p == call[t].row
           op == call[t].op
<1>0. /\ call[t].at \in {"begin", "update", "delete"}
      /\ ~At(t, "befriend") /\ op # "unfriend" /\ ~refused
      /\ p \in Rows /\ call[t] \in Call /\ durable \in Tables
  <2>1. call[t].at \in {"begin", "update", "delete"}
    BY DEF BeginUpdate, Update, Delete, At
  <2> QED  BY <2>1 DEF OneInv, OpFits, TypeOK, Call, Progress, InTransaction, At
<1>1. ASSUME NEW s, Goto(t, s)
      PROVE  call'[t] = [at |-> s, op |-> op, row |-> p, ok |-> FALSE]
  BY <1>1 DEF OneInv, TypeOK, Goto, Doing
<1>2. \A tb : inTx /\ Exec(tb) => visible' = tb /\ durable' = durable /\ inTx' /\ ~refused'
  BY <1>0 DEF Exec
<1>3. ExecFails => durable' = durable /\ ~refused'
  BY <1>0 DEF ExecFails, Undo, dbVars
<1>4. ASSUME ExecFails, Goto(t, "rollback")  PROVE  Kept(t)
  <2>1. call'[t] = [at |-> "rollback", op |-> op, row |-> p, ok |-> FALSE]  BY <1>1, <1>4
  <2>2. Progress(t)'  BY <2>1, <1>3, <1>4 DEF Progress, InTransaction
  <2> QED  BY <2>2, <1>0, <1>3, <1>4, Inside DEF InTransaction
<1>5. CASE BeginUpdate(t)
  <2>1. visible = durable /\ Goto(t, "update") /\ inTx' /\ ~refused'
        /\ UNCHANGED <<visible, durable>>
    BY <1>5, <1>0 DEF BeginUpdate, At, Begin, OneInv, Progress, AutoCommit, InTransaction
  <2>2. call'[t] = [at |-> "update", op |-> op, row |-> p, ok |-> FALSE]  BY <2>1, <1>1
  <2>3. Progress(t)'  BY <2>1, <2>2 DEF Progress, InTransaction
  <2> QED  BY <2>1, <2>3, <1>0, Inside DEF InTransaction
<1>6. CASE Update(t)
  <2>0. inTx /\ visible = durable  BY <1>6 DEF Update, At, OneInv, Progress
  <2>1. ASSUME NEW s \in {"delete", "commit"}, s = IF op \in {"accept", "reject"} THEN "delete" ELSE "commit",
               Goto(t, s), IF Exists(p) THEN Exec(WithStatus(p, NewStatus(op))) ELSE Exec(visible)
        PROVE  Kept(t)
    <3>1. call'[t] = [at |-> s, op |-> op, row |-> p, ok |-> FALSE]  BY <2>1, <1>1
    <3>2. durable' = durable /\ inTx' /\ ~refused'  BY <2>0, <2>1, <1>2
    <3>3. \/ ~Exists(p) /\ visible' = durable
          \/ Exists(p) /\ visible' = Stored(p, NewStatus(op))
      BY <2>0, <2>1, <1>2 DEF WithStatus, Stored
    <3>4. durable = Stored(p, durable.requests[p]) /\ durable.requests[p] \in Status
      BY <1>0 DEF Tables, Stored
    <3>5. NewStatus(op) \in Status  BY DEF NewStatus, Status
    <3>6. \E r \in Status : visible' = Stored(p, r)  BY <3>3, <3>4, <3>5
    <3>7. \A q, r : Stored(q, r)' = Stored(q, r)  BY <3>2 DEF Stored
    <3>8. CASE op \in {"accept", "reject"}
      <4>1. s = "delete"  BY <3>8, <2>1
      <4>2. Progress(t)'  BY <3>1, <3>2, <3>6, <3>7, <3>8, <4>1 DEF Progress, InTransaction
      <4> QED  BY <4>1, <4>2, <3>2, <2>1, <1>0, Inside DEF InTransaction
    <3>9. CASE op \notin {"accept", "reject"}
      <4>1. s = "commit"  BY <3>9, <2>1
      <4>2. \/ visible' = durable
            \/ durable.requests[p] # "none" /\ visible' = Stored(p, NewStatus(op))
        BY <3>3, <2>0 DEF Exists
      <4>3. ASSUME visible' = durable  PROVE  Progress(t)'
        BY <3>1, <3>2, <3>9, <4>1, <4>3 DEF Progress, InTransaction
      <4>4. ASSUME durable.requests[p] # "none", visible' = Stored(p, NewStatus(op))
            PROVE  Progress(t)'
        BY <3>1, <3>2, <3>9, <4>1, <4>4 DEF Progress, InTransaction, Stored
      <4>5. Progress(t)' => Kept(t)  BY <4>1, <3>2, <2>1, <1>0, Inside DEF InTransaction
      <4> QED  BY <4>2, <4>3, <4>4, <4>5
    <3> QED  BY <3>8, <3>9
  <2> QED  BY <1>6, <2>1, <1>4 DEF Update
<1>7. CASE Delete(t)
  <2>0. /\ inTx /\ op \in {"accept", "reject"}
        /\ \E r \in Status : visible = Stored(p, r)
    BY <1>7 DEF Delete, At, OneInv, Progress
  <2>1. ASSUME Exec(WithoutRow(p)), Goto(t, "commit")  PROVE  Kept(t)
    <3>1. call'[t] = [at |-> "commit", op |-> op, row |-> p, ok |-> FALSE]  BY <2>1, <1>1
    <3>2. durable' = durable /\ inTx' /\ ~refused' /\ visible' = WithoutRow(p)
      BY <2>0, <2>1, <1>2
    <3>3. WithoutRow(p) = Stored(p, "none")
      BY <2>0, <1>0 DEF WithoutRow, WithStatus, Stored, Tables
    <3>4. Progress(t)'  BY <3>1, <3>2, <3>3, <2>0 DEF Progress, InTransaction, Stored
    <3> QED  BY <3>4, <3>2, <2>1, <1>0, Inside DEF InTransaction
  <2> QED  BY <1>7, <2>1, <1>4 DEF Delete
<1> QED  BY <1>5, <1>6, <1>7

\* The end of updateRequestStatus.
LEMMA EndSteps ==
  ASSUME NEW t, Threads = {t}, ~MayRefuse, OneInv(t), CommitUpdate(t) \/ RollbackUpdate(t)
  PROVE  Kept(t)
<1> DEFINE p == call[t].row
           op == call[t].op
<1>0. /\ call[t].at \in {"commit", "rollback"} /\ ~At(t, "befriend") /\ op # "unfriend"
      /\ p \in Rows /\ call[t] \in Call /\ durable \in Tables /\ Owed = {}
  <2>1. call[t].at \in {"commit", "rollback"}  BY DEF CommitUpdate, RollbackUpdate, At
  <2>2. ~At(t, "befriend")  BY <2>1 DEF At
  <2> QED  BY <2>1, <2>2, OwedIs DEF OneInv, OpFits, TypeOK, Call, InTransaction
<1>1. CASE RollbackUpdate(t)
  <2>1. ~inTx' /\ ~refused' /\ durable' = durable /\ Doing(t, "answer", FALSE)
    BY <1>1 DEF RollbackUpdate, Rollback, Undo, Answer
  <2>2. Progress(t)' /\ OpFits(t)' /\ Owed' = {}  BY <2>1, Finish
  <2> QED  BY <2>1, <2>2, <1>0 DEF Kept
<1>2. CASE CommitUpdate(t)
  <2>1. inTx  BY <1>2 DEF CommitUpdate, At, OneInv, Progress
  <2>2. /\ ~inTx' /\ ~refused' /\ durable' = visible
        /\ IF op = "accept" THEN Doing(t, "befriend", FALSE) ELSE Doing(t, "answer", TRUE)
    BY <1>2, <2>1 DEF CommitUpdate, CommitSucceeds, CommitFails, Goto, Answer
  <2>3. /\ Progress(t)' /\ OpFits(t)'
        /\ Owed' = IF op = "accept" THEN {p} ELSE {}
    BY <2>2, Finish
  <2>4. \/ op \in {"accept", "reject"} /\ visible = Stored(p, "none")
        \/ op \notin {"accept", "reject"} /\ visible = durable
        \/ /\ op \notin {"accept", "reject"}
           /\ durable.requests[p] # "none"
           /\ visible = Stored(p, NewStatus(op))
    BY <1>2 DEF CommitUpdate, At, OneInv, Progress
  <2>5. CASE op \in {"accept", "reject"} /\ visible = Stored(p, "none")
    <3>1. \E accepted \in BOOLEAN :
            /\ durable' = Stored(p, "none")
            /\ Owed' = IF accepted THEN Owed \cup {p} ELSE Owed
      BY <2>2, <2>3, <2>5, <1>0
    <3>2. Promise!Next
      BY <3>1, <1>0 DEF Promise!Next, Promise!Settle, Promise!SetRequest, Stored, Owed
    <3> QED  BY <2>3, <3>2 DEF Kept
  <2>6. CASE op \notin {"accept", "reject"} /\ visible = durable
    BY <2>2, <2>3, <2>6, <1>0 DEF Kept
  <2>7. CASE /\ op \notin {"accept", "reject"}
             /\ durable.requests[p] # "none"
             /\ visible = Stored(p, NewStatus(op))
    <3>1. op \in {"send", "cancel"}  BY <2>7, <1>0 DEF Call, Ops
    <3>2. Owed' = Owed  BY <2>3, <2>7, <1>0
    <3>3. CASE op = "send"
      <4>1. NewStatus(op) = "pending"  BY <3>3 DEF NewStatus
      <4>2. Promise!Next
        BY <4>1, <3>2, <2>2, <2>7, <1>0 DEF Promise!Next, Promise!Ask, Promise!SetRequest, Stored, Owed
      <4> QED  BY <4>2, <2>3 DEF Kept
    <3>4. CASE op = "cancel"
      <4>1. NewStatus(op) = "cancelled"  BY <3>4 DEF NewStatus
      <4>2. Promise!Next
        BY <4>1, <3>2, <2>2, <2>7, <1>0 DEF Promise!Next, Promise!Withdraw, Promise!SetRequest, Stored, Owed
      <4> QED  BY <4>2, <2>3 DEF Kept
    <3> QED  BY <3>1, <3>3, <3>4
  <2> QED  BY <2>4, <2>5, <2>6, <2>7
<1> QED  BY <1>1, <1>2

-----------------------------------------------------------------------------
LEMMA OneStep ==
  ASSUME NEW t, Threads = {t}, ~MayRefuse, OneInv(t), Next
  PROVE  OneInv(t)' /\ [Promise!Next]_<<durable, Owed>>
<1>1. Kept(t)
  <2>1. CASE \E op \in Ops, p \in Rows : Receive(t, op, p)
    <3>1. PICK op \in Ops, p \in Rows : Receive(t, op, p)  BY <2>1
    <3>2. /\ ~inTx /\ ~refused /\ ~At(t, "befriend")
          /\ UNCHANGED <<visible, durable, inTx, refused>>
      BY <3>1 DEF Receive, At, OneInv, Progress, InTransaction, dbVars
    <3>3. call'[t] = [at |-> FirstStep(op), op |-> op, row |-> p, ok |-> FALSE]
      BY <3>1 DEF Receive, OneInv, TypeOK
    <3>4. FirstStep(op) \in {"find", "check", "begin"} /\ (op = "unfriend" => FirstStep(op) = "check")
      BY DEF FirstStep
    <3>5. Progress(t)'  BY <3>2, <3>3, <3>4 DEF Progress, InTransaction
    <3>6. OpFits(t)'  BY <3>3, <3>4 DEF OpFits, InTransaction
    <3>7. ~At(t, "befriend")'  BY <3>3, <3>4 DEF At
    <3>8. Owed' = Owed  BY <3>2, <3>7, OwedIs
    <3> QED  BY <3>2, <3>5, <3>6, <3>8 DEF Kept
  <2>2. CASE Reply(t) \/ Restart
    <3>1. ~inTx' /\ ~refused' /\ durable' = durable
      BY <2>2 DEF Reply, Restart, Undo, At, OneInv, Progress, InTransaction, dbVars
    <3>2. call'[t] = Idle  BY <2>2 DEF Reply, Restart, OneInv, TypeOK
    <3>3. Progress(t)' /\ OpFits(t)'  BY <3>1, <3>2 DEF Progress, OpFits, InTransaction, Idle
    <3>4. ~At(t, "befriend")'  BY <3>2 DEF At, Idle
    <3>5. Owed' = {}  BY <3>4, OwedIs
    <3>6. Promise!Next  BY <3>1, <3>5 DEF Promise!Next, Promise!Forget, Owed
    <3> QED  BY <3>3, <3>6 DEF Kept
  <2> QED
    BY <2>1, <2>2, OutsideSteps, InsideSteps, EndSteps DEF Next, Step
<1>2. TypeOK' /\ AutoCommit'
  <2>1. Restart => AutoCommit'  BY DEF Restart, Undo, AutoCommit
  <2>2. Restart => TypeOK'  BY IdleType, DbTypes DEF Restart, DbStep, TypeOK, OneInv
  <2>3. ASSUME NEW s \in Threads, Step(s) \/ \E op \in Ops, p \in Rows : Receive(s, op, p)
        PROVE  TypeOK' /\ AutoCommit'
    <3>1. PICK c \in Call : DbStep /\ Goes(s, c)  BY <2>3, StepShape DEF OneInv
    <3>2. call' = [call EXCEPT ![s] = c]  BY <3>1 DEF Goes
    <3> QED  BY <3>1, <3>2, DbTypes, DbCommits DEF OneInv, TypeOK
  <2> QED  BY <2>1, <2>2, <2>3 DEF Next
<1> QED  BY <1>1, <1>2 DEF Kept, OneInv

\* With one worker thread, and while the storage accepts every COMMIT, friend
\* requests and friendships change in the file by whole operations only,
\* whatever statements fail and wherever the process stops.
THEOREM OneThreadKeepsPromise ==
  ASSUME NEW t, Threads = {t}, ~MayRefuse
  PROVE  Spec => PromiseKept
<1>1. Init => Promise!Init
  BY DEF Init, Promise!Init, At, Idle
<1>2. OneInv(t) /\ [Next]_vars => OneInv(t)' /\ [Promise!Next]_(Promise!vars)
  <2>1. ASSUME OneInv(t), UNCHANGED vars  PROVE  OneInv(t)' /\ UNCHANGED Promise!vars
    BY <2>1 DEF vars, OneInv, TypeOK, AutoCommit, Progress, OpFits, Stored, Promise!vars, At
  <2> QED  BY <2>1, OneStep DEF Promise!vars, Owed
<1>3. Init => OneInv(t)  BY OneInit
<1> QED  BY <1>1, <1>2, <1>3, PTL DEF Spec, PromiseKept, Promise!Spec

-----------------------------------------------------------------------------
\* What was asked for is in the tables.
Wanted(tables, op, p) ==
  CASE op = "send" -> tables.requests[p] = "pending"
    [] op = "cancel" -> tables.requests[p] \in {"none", "cancelled"}
    [] op \in {"accept", "reject"} -> tables.requests[p] = "none"
    [] OTHER -> {p, Reverse(p)} \cap tables.friends = {}

\* The only thread's way to a successful answer.
OnItsWay(t) ==
  LET p == call[t].row
      op == call[t].op IN
  /\ call[t].at \in {"find", "insert"} => op = "send"
  /\ call[t].at \in {"check", "unfriend"} => op = "unfriend"
  /\ call[t].at \in {"begin", "update"} /\ op = "send" => Exists(p)
  /\ call[t].at = "commit" => Wanted(visible, op, p)
  /\ call[t].at = "befriend" => Wanted(durable, op, p)
  /\ call[t].at = "answer" /\ call[t].ok => Wanted(durable, op, p)

\* The open transaction is about one row.
Apart(t) == \A q \in Rows \ {call[t].row} : visible.requests[q] = durable.requests[q]

\* A step is about the row of the call, in what it shows and in what it leaves.
Elsewhere(t) ==
  /\ \A q \in Rows : At(t, "idle") \/ q # call[t].row => visible'.requests[q] = visible.requests[q]
  /\ \A q \in Rows \ {call[t].row} : visible'.requests[q] = durable'.requests[q]

LEMMA RowTables ==
  ASSUME NEW t, Threads = {t}, OneInv(t)
  PROVE  /\ call[t] \in Call /\ call[t].row \in Rows
         /\ \A s : /\ WithStatus(call[t].row, s).requests[call[t].row] = s
                   /\ \A q \in Rows \ {call[t].row} :
                        WithStatus(call[t].row, s).requests[q] = visible.requests[q]
         /\ \A fs : WithFriends(fs).requests = visible.requests /\ WithFriends(fs).friends = fs
BY DEF OneInv, TypeOK, Tables, Call, WithStatus, WithFriends

LEMMA RowOnly ==
  ASSUME NEW t, Threads = {t}, OneInv(t), Apart(t), ~At(t, "idle")
  PROVE  /\ \A tb : Exec(tb) /\ (\A q \in Rows \ {call[t].row} : tb.requests[q] = visible.requests[q])
              => Elsewhere(t)
         /\ ExecFails \/ Undo => Elsewhere(t)
         /\ UNCHANGED <<visible, durable>> => Elsewhere(t)
         /\ CommitSucceeds => Elsewhere(t)
<1>1. ASSUME NEW tb, Exec(tb), \A q \in Rows \ {call[t].row} : tb.requests[q] = visible.requests[q]
      PROVE  Elsewhere(t)
  BY <1>1 DEF Exec, Elsewhere, Apart
<1>2. ExecFails \/ Undo => Elsewhere(t)
  BY DEF ExecFails, Undo, dbVars, Elsewhere, Apart
<1>3. UNCHANGED <<visible, durable>> => Elsewhere(t)
  BY DEF Elsewhere, Apart
<1>4. CommitSucceeds => Elsewhere(t)
  BY DEF CommitSucceeds, Elsewhere
<1> QED
  BY <1>1, <1>2, <1>3, <1>4

\* Thread t goes on to s.
Proceeds(t, s, ok) ==
  /\ Doing(t, s, ok)
  /\ s \in {"find", "insert"} => call[t].op = "send"
  /\ s \in {"check", "unfriend"} => call[t].op = "unfriend"
  /\ s \in {"begin", "update"} /\ call[t].op = "send" => visible'.requests[call[t].row] # "none"
  /\ s = "commit" => Wanted(visible', call[t].op, call[t].row)
  /\ s = "befriend" => Wanted(durable', call[t].op, call[t].row)
  /\ s = "answer" /\ ok => Wanted(durable', call[t].op, call[t].row)

LEMMA Outside ==
  ASSUME NEW t, Threads = {t}, OneInv(t), OnItsWay(t), Apart(t),
         Find(t) \/ Insert(t) \/ CheckFriends(t) \/ Unfriend(t) \/ Befriend(t)
  PROVE  Elsewhere(t) /\ \E s \in Steps, ok \in BOOLEAN : Proceeds(t, s, ok)
<1> PICK p \in Rows : p = call[t].row
  BY RowTables
<1>0. /\ ~At(t, "idle") /\ ~inTx /\ visible = durable
      /\ \A tb : Exec(tb) => visible' = tb /\ durable' = tb
  <2>1. call[t].at \in {"find", "insert", "check", "unfriend", "befriend"}
    BY DEF Find, Insert, CheckFriends, Unfriend, Befriend, At
  <2> QED
    BY <2>1 DEF OneInv, Progress, AutoCommit, InTransaction, Exec, At
<1>1. ASSUME NEW s \in {"answer", "begin", "insert", "unfriend"}, Doing(t, s, FALSE),
             s = "insert" => call[t].op = "send", s = "unfriend" => call[t].op = "unfriend",
             s = "begin" => visible'.requests[p] # "none"
      PROVE  \E r \in Steps, ok \in BOOLEAN : Proceeds(t, r, ok)
  BY <1>1 DEF Proceeds, Steps
<1>2. ASSUME Doing(t, "answer", TRUE), Wanted(durable', call[t].op, p)
      PROVE  \E r \in Steps, ok \in BOOLEAN : Proceeds(t, r, ok)
  BY <1>2 DEF Proceeds, Steps
<1>3. CASE Find(t)
  <2>1. UNCHANGED <<visible, durable>> /\ call[t].op = "send"
    BY <1>3 DEF Find, dbVars, At, OnItsWay
  <2> QED
    BY <1>0, <1>1, <1>3, <2>1, RowOnly DEF Find, Answer, Goto, Exists
<1>4. CASE Insert(t)
  <2>1. call[t].op = "send"
    BY <1>4 DEF Insert, At, OnItsWay
  <2>2. ASSUME Exec(WithStatus(p, "pending")), Doing(t, "answer", TRUE)
        PROVE  Elsewhere(t) /\ \E r \in Steps, ok \in BOOLEAN : Proceeds(t, r, ok)
    <3>1. Elsewhere(t)
      BY <1>0, <2>2, RowTables, RowOnly
    <3>2. durable'.requests[p] = "pending"
      BY <1>0, <2>2, RowTables
    <3> QED
      BY <1>2, <2>1, <2>2, <3>1, <3>2 DEF Wanted
  <2>3. ASSUME ExecFails, Doing(t, "answer", FALSE)
        PROVE  Elsewhere(t) /\ \E r \in Steps, ok \in BOOLEAN : Proceeds(t, r, ok)
    BY <1>0, <1>1, <2>3, RowOnly
  <2> QED
    BY <1>4, <2>2, <2>3 DEF Insert, Answer
<1>5. CASE CheckFriends(t)
  <2>1. UNCHANGED <<visible, durable>> /\ call[t].op = "unfriend"
    BY <1>5 DEF CheckFriends, dbVars, At, OnItsWay
  <2> QED
    BY <1>0, <1>1, <1>5, <2>1, RowOnly DEF CheckFriends, Answer, Goto
<1>6. CASE Unfriend(t)
  <2>1. call[t].op = "unfriend"
    BY <1>6 DEF Unfriend, At, OnItsWay
  <2>2. ASSUME Exec(WithFriends(visible.friends \ {p, Reverse(p)})), Doing(t, "answer", TRUE)
        PROVE  Elsewhere(t) /\ \E r \in Steps, ok \in BOOLEAN : Proceeds(t, r, ok)
    <3>1. Elsewhere(t)
      BY <1>0, <2>2, RowTables, RowOnly
    <3>2. {p, Reverse(p)} \cap durable'.friends = {}
      BY <1>0, <2>2, RowTables
    <3> QED
      BY <1>2, <2>1, <2>2, <3>1, <3>2 DEF Wanted
  <2>3. ASSUME ExecFails, Doing(t, "answer", FALSE)
        PROVE  Elsewhere(t) /\ \E r \in Steps, ok \in BOOLEAN : Proceeds(t, r, ok)
    BY <1>0, <1>1, <2>3, RowOnly
  <2> QED
    BY <1>6, <2>2, <2>3 DEF Unfriend, Answer
<1>7. CASE Befriend(t)
  <2>1. call[t].op = "accept" /\ durable.requests[p] = "none"
    BY <1>7 DEF Befriend, At, OnItsWay, OneInv, OpFits, Wanted
  <2>2. durable'.requests = durable.requests /\ Elsewhere(t)
    <3>1. CASE Exec(WithFriends(visible.friends \cup {p}))
      BY <1>0, <3>1, RowTables, RowOnly
    <3>2. CASE ExecFails
      BY <1>0, <3>2, RowOnly DEF ExecFails, Undo, dbVars
    <3> QED
      BY <1>7, <3>1, <3>2 DEF Befriend
  <2> QED
    BY <1>2, <1>7, <2>1, <2>2 DEF Befriend, Answer, Wanted
<1> QED
  BY <1>3, <1>4, <1>5, <1>6, <1>7

LEMMA InsideOnTheWay ==
  ASSUME NEW t, Threads = {t}, ~MayRefuse, OneInv(t), OnItsWay(t), Apart(t),
         BeginUpdate(t) \/ Update(t) \/ Delete(t) \/ CommitUpdate(t) \/ RollbackUpdate(t)
  PROVE  Elsewhere(t) /\ \E s \in Steps, ok \in BOOLEAN : Proceeds(t, s, ok)
<1> PICK p \in Rows : p = call[t].row
  BY RowTables
<1>0. /\ ~At(t, "idle") /\ call[t].op \in Ops \ {"unfriend"}
      /\ \A tb : Exec(tb) => visible' = tb
  <2>1. call[t].at \in {"begin", "update", "delete", "commit", "rollback"}
    BY DEF BeginUpdate, Update, Delete, CommitUpdate, RollbackUpdate, At
  <2> QED
    BY <2>1 DEF OneInv, OpFits, TypeOK, Call, InTransaction, Exec, At
<1>1. ASSUME NEW s \in {"delete", "rollback", "answer"}, Doing(t, s, FALSE)
      PROVE  \E r \in Steps, ok \in BOOLEAN : Proceeds(t, r, ok)
  BY <1>1 DEF Proceeds, Steps, InTransaction
<1>2. ASSUME Doing(t, "commit", FALSE), Wanted(visible', call[t].op, p)
      PROVE  \E r \in Steps, ok \in BOOLEAN : Proceeds(t, r, ok)
  BY <1>2 DEF Proceeds, Steps, InTransaction
<1>3. CASE BeginUpdate(t)
  <2>1. UNCHANGED <<visible, durable>> /\ Doing(t, "update", FALSE)
        /\ (call[t].op = "send" => visible.requests[p] # "none")
    BY <1>3 DEF BeginUpdate, Begin, Goto, At, OnItsWay, Exists
  <2>2. Proceeds(t, "update", FALSE)
    BY <2>1 DEF Proceeds
  <2> QED
    BY <1>0, <2>1, <2>2, RowOnly DEF Steps, InTransaction
<1>4. CASE Update(t)
  <2>1. call[t].op = "send" => Exists(p)
    BY <1>4 DEF Update, At, OnItsWay
  <2>2. CASE ExecFails /\ Doing(t, "rollback", FALSE)
    BY <1>0, <1>1, <2>2, RowOnly
  <2>3. ASSUME IF Exists(p) THEN Exec(WithStatus(p, NewStatus(call[t].op))) ELSE Exec(visible),
               Doing(t, IF call[t].op \in {"accept", "reject"} THEN "delete" ELSE "commit", FALSE)
        PROVE  Elsewhere(t) /\ \E r \in Steps, ok \in BOOLEAN : Proceeds(t, r, ok)
    <3>1. Elsewhere(t)
      BY <1>0, <2>3, RowTables, RowOnly
    <3>2. visible'.requests[p] = IF Exists(p) THEN NewStatus(call[t].op) ELSE "none"
      BY <1>0, <2>3, RowTables DEF Exists
    <3>3. CASE call[t].op \in {"accept", "reject"}
      BY <1>1, <2>3, <3>1, <3>3
    <3>4. CASE call[t].op = "send"
      BY <1>2, <2>1, <2>3, <3>1, <3>2, <3>4 DEF Wanted, NewStatus
    <3>5. CASE call[t].op = "cancel"
      BY <1>2, <2>3, <3>1, <3>2, <3>5 DEF Wanted, NewStatus
    <3> QED
      BY <1>0, <3>3, <3>4, <3>5 DEF Ops
  <2> QED
    BY <1>4, <2>2, <2>3 DEF Update, Goto
<1>5. CASE Delete(t)
  <2>1. call[t].op \in {"accept", "reject"}
    BY <1>5 DEF Delete, At, OneInv, Progress
  <2>2. CASE ExecFails /\ Doing(t, "rollback", FALSE)
    BY <1>0, <1>1, <2>2, RowOnly
  <2>3. ASSUME Exec(WithoutRow(p)), Doing(t, "commit", FALSE)
        PROVE  Elsewhere(t) /\ \E r \in Steps, ok \in BOOLEAN : Proceeds(t, r, ok)
    <3>1. Elsewhere(t) /\ visible'.requests[p] = "none"
      BY <1>0, <2>3, RowTables, RowOnly DEF WithoutRow
    <3> QED
      BY <1>2, <2>1, <2>3, <3>1 DEF Wanted
  <2> QED
    BY <1>5, <2>2, <2>3 DEF Delete, Goto
<1>6. CASE CommitUpdate(t)
  <2>1. inTx /\ Wanted(visible, call[t].op, p)
    BY <1>6 DEF CommitUpdate, At, OneInv, Progress, OnItsWay
  <2>2. CASE /\ CommitSucceeds
             /\ IF call[t].op = "accept" THEN Goto(t, "befriend") ELSE Answer(t, TRUE)
    <3>1. Elsewhere(t) /\ Wanted(durable', call[t].op, p)
      BY <1>0, <2>1, <2>2, RowOnly DEF CommitSucceeds
    <3>2. Proceeds(t, "befriend", FALSE) \/ Proceeds(t, "answer", TRUE)
      BY <2>2, <3>1 DEF Proceeds, Goto, Answer
    <3> QED
      BY <3>1, <3>2 DEF Steps
  <2> QED
    BY <1>6, <2>1, <2>2 DEF CommitUpdate, CommitFails
<1>7. CASE RollbackUpdate(t)
  BY <1>0, <1>1, <1>7, RowOnly DEF RollbackUpdate, Rollback, Answer
<1> QED
  BY <1>3, <1>4, <1>5, <1>6, <1>7

AnswerInv(t) == OneInv(t) /\ OnItsWay(t) /\ Apart(t)

LEMMA AnswerStep ==
  ASSUME NEW t, Threads = {t}, ~MayRefuse, AnswerInv(t), Next
  PROVE  AnswerInv(t)' /\ Elsewhere(t)
<1> USE DEF AnswerInv
<1>1. OneInv(t)'
  BY OneStep
<1>2. At(t, "idle") \/ At(t, "answer") => visible = durable
  BY DEF At, OneInv, Progress, AutoCommit, InTransaction
<1>3. CASE \E op \in Ops, p \in Rows : Receive(t, op, p)
  <2>1. PICK op \in Ops, p \in Rows : Receive(t, op, p)
    BY <1>3
  <2>2. call'[t] = [at |-> FirstStep(op), op |-> op, row |-> p, ok |-> FALSE]
        /\ visible' = visible /\ durable' = durable /\ visible = durable
    BY <1>2, <2>1 DEF Receive, OneInv, TypeOK, dbVars
  <2>3. OnItsWay(t)'
    BY <2>2 DEF OnItsWay, FirstStep
  <2> QED
    BY <1>1, <2>2, <2>3 DEF Apart, Elsewhere
<1>4. CASE Reply(t) \/ Restart
  <2>1. call'[t] = Idle /\ visible' = durable' /\ durable' = durable
    BY <1>2, <1>4 DEF Reply, Restart, Undo, OneInv, TypeOK, dbVars
  <2>2. OnItsWay(t)' /\ Apart(t)'
    BY <2>1 DEF OnItsWay, Apart, Idle
  <2>3. Elsewhere(t)
    BY <1>2, <2>1 DEF Elsewhere, Apart
  <2> QED
    BY <1>1, <2>2, <2>3
<1>5. ASSUME Elsewhere(t), NEW s \in Steps, NEW ok \in BOOLEAN, Proceeds(t, s, ok)
      PROVE  AnswerInv(t)' /\ Elsewhere(t)
  <2>1. call'[t] = [at |-> s, op |-> call[t].op, row |-> call[t].row, ok |-> ok]
    BY <1>5 DEF Proceeds, Doing, OneInv, TypeOK
  <2>2. OnItsWay(t)'
    BY <1>5, <2>1 DEF OnItsWay, Proceeds, Exists
  <2> QED
    BY <1>1, <1>5, <2>1, <2>2 DEF Apart, Elsewhere
<1> QED
  BY <1>3, <1>4, <1>5, Outside, InsideOnTheWay DEF Next, Step

LEMMA AnswerKept ==
  ASSUME NEW t, Threads = {t}, ~MayRefuse, AnswerInv(t), [Next]_vars
  PROVE  AnswerInv(t)'
<1>1. CASE UNCHANGED vars
  BY <1>1 DEF vars, AnswerInv, OneInv, TypeOK, AutoCommit, Progress, OpFits, Stored, OnItsWay, Exists, Apart
<1> QED
  BY <1>1, AnswerStep

LEMMA AnswerInit ==
  ASSUME NEW t, Threads = {t}, Init
  PROVE  AnswerInv(t)
<1>1. call[t].at = "idle" /\ durable = visible
  BY DEF Init, Idle
<1>2. OnItsWay(t)
  BY <1>1 DEF OnItsWay
<1> QED
  BY <1>1, <1>2, OneInit DEF AnswerInv, Apart

\* While one thread serves and the storage accepts every COMMIT, a success that
\* is being answered is in the file, whatever else fails.
THEOREM SuccessIsDurable ==
  ASSUME NEW t, Threads = {t}, ~MayRefuse
  PROVE  Spec => []AnswerIsDurable
<1>1. Init => AnswerInv(t)
  BY AnswerInit
<1>2. AnswerInv(t) /\ [Next]_vars => AnswerInv(t)'
  BY AnswerKept
<1>3. AnswerInv(t) => AnswerIsDurable
  BY DEF AnswerInv, OnItsWay, Wanted, AnswerIsDurable, At
<1> QED
  BY <1>1, <1>2, <1>3, PTL DEF Spec

\* Under the same conditions a pending request stays while no call is about it:
\* what two threads lose (run ContactsLost), one does not.
THEOREM OneThreadLosesNothing ==
  ASSUME NEW t, Threads = {t}, ~MayRefuse
  PROVE  Spec => RequestSurvives
<1>1. Init => AnswerInv(t)
  BY AnswerInit
<1>2. AnswerInv(t) /\ [Next]_vars => AnswerInv(t)'
  BY AnswerKept
<1>3. AnswerInv(t) /\ [Next]_vars =>
        [\A p \in Rows : visible.requests[p] = "pending" /\ ~Concerned(p)
                           => visible'.requests[p] = "pending"]_vars
  BY AnswerStep DEF Elsewhere, Concerned, At
<1> QED
  BY <1>1, <1>2, <1>3, PTL DEF Spec, RequestSurvives
=============================================================================

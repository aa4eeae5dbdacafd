-------------------------- MODULE SqliteConnection --------------------------
(***************************************************************************)
(* The one QSqlDatabase connection that DatabaseManager opens and all      *)
(* worker threads use.  SQLite and the Qt driver are not in the            *)
(* repository; this is what the repositories' calls rely on.  A statement  *)
(* is atomic.  Outside a transaction it commits by itself; inside one, the *)
(* thread that issues it does not matter: there is one connection, hence   *)
(* one transaction.                                                        *)
(***************************************************************************)
CONSTANT MayRefuse  \* the storage may refuse a COMMIT (a locked file, say)

VARIABLES
  visible,    \* the tables as the connection sees them
  durable,    \* the tables as last committed to the file
  inTx,       \* a transaction is open on the connection
  refused     \* a COMMIT of the open transaction has been refused

dbVars == <<visible, durable, inTx, refused>>

\* QSqlDatabase::transaction(): a second BEGIN fails.  No caller looks.
Begin ==
  /\ inTx' = TRUE
  /\ UNCHANGED <<visible, durable, refused>>

\* A statement that leaves the tables as t.
Exec(t) ==
  /\ visible' = t
  /\ durable' = IF inTx THEN durable ELSE t
  /\ UNCHANGED <<inTx, refused>>

\* The open transaction, if there is one, is undone.
Undo ==
  /\ visible' = durable
  /\ inTx' = FALSE
  /\ refused' = FALSE
  /\ UNCHANGED durable

\* A statement fails.  Its own changes are undone; some errors (disk full,
\* I/O) make SQLite undo the whole transaction.
ExecFails == UNCHANGED dbVars \/ Undo

CommitSucceeds ==
  /\ inTx
  /\ durable' = visible
  /\ inTx' = FALSE
  /\ refused' = FALSE
  /\ UNCHANGED visible

\* QSqlDatabase::commit() fails when no transaction is open, and when the
\* storage refuses it; then the transaction stays open.
CommitFails ==
  \/ ~inTx /\ UNCHANGED dbVars
  \/ MayRefuse /\ inTx /\ refused' = TRUE /\ UNCHANGED <<visible, durable, inTx>>

\* QSqlDatabase::rollback(), and what a new process finds in the file.
Rollback == Undo
=============================================================================

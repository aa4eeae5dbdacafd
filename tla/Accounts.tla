------------------------------ MODULE Accounts ------------------------------
(***************************************************************************)
(* AuthHandler and UserRepository over the shared connection: worker       *)
(* threads that serve registrations (check, then insert) and logins, one   *)
(* SQL statement at a time.                                                *)
(***************************************************************************)
EXTENDS SqliteConnection

CONSTANTS
  Threads,     \* worker threads
  Names,       \* user names
  Passwords,   \* password hashes
  NoPassword,  \* the name has no account
  Transactions \* other threads run updateRequestStatus (module ContactStore)

ASSUME NoPasswordIsNone == NoPassword \notin Passwords
ASSUME SomeAccounts == Names # {} /\ Passwords # {}

VARIABLES
  call,        \* the request each thread is in the middle of
  admitted     \* every <<name, password>> that was let in

vars == <<visible, durable, inTx, refused, call, admitted>>

\* The table users.
Users == [Names -> Passwords \cup {NoPassword}]
Call == [at : {"idle", "check", "insert", "answer"}, name : Names, pw : Passwords, ok : BOOLEAN]
Idle == [at |-> "idle", name |-> CHOOSE n \in Names : TRUE, pw |-> CHOOSE pw \in Passwords : TRUE, ok |-> FALSE]

TypeOK ==
  /\ visible \in Users
  /\ durable \in Users
  /\ inTx \in BOOLEAN
  /\ refused \in BOOLEAN
  /\ call \in [Threads -> Call]
  /\ admitted \in SUBSET (Names \X Passwords)

\* The file may hold accounts of earlier days.
Init ==
  /\ visible \in Users
  /\ durable = visible
  /\ inTx = FALSE
  /\ refused = FALSE
  /\ call = [t \in Threads |-> Idle]
  /\ admitted = {}

-----------------------------------------------------------------------------
At(t, s) == call[t].at = s
Doing(t, s, ok) ==
  call' = [call EXCEPT ![t] = [at |-> s, name |-> call[t].name, pw |-> call[t].pw, ok |-> ok]]
Answer(t, ok) == Doing(t, "answer", ok)

\* REGISTER_REQUEST arrives.
Register(t, n, pw) ==
  /\ At(t, "idle")
  /\ call' = [call EXCEPT ![t] = [at |-> "check", name |-> n, pw |-> pw, ok |-> FALSE]]
  /\ UNCHANGED <<dbVars, admitted>>

\* Mutant: a name that is taken gets no answer.
Check_Silent(t) ==
  /\ At(t, "check")
  /\ \/ visible[call[t].name] # NoPassword /\ call' = [call EXCEPT ![t] = Idle]
     \/ Doing(t, "insert", FALSE)
  /\ UNCHANGED <<dbVars, admitted>>

\* userExists: a query that fails counts as no.
Check(t) ==
  /\ At(t, "check")
  /\ \/ visible[call[t].name] # NoPassword /\ Answer(t, FALSE)
     \/ Doing(t, "insert", FALSE)
  /\ UNCHANGED <<dbVars, admitted>>

\* Mutant: INSERT OR REPLACE.
Insert_OrReplace(t) ==
  /\ At(t, "insert")
  /\ \/ Exec([visible EXCEPT ![call[t].name] = call[t].pw]) /\ Answer(t, TRUE)
     \/ ExecFails /\ Answer(t, FALSE)
  /\ UNCHANGED admitted

\* createUser: username is the PRIMARY KEY.
Insert(t) ==
  LET n == call[t].name IN
  /\ At(t, "insert")
  /\ \/ /\ visible[n] = NoPassword
        /\ Exec([visible EXCEPT ![n] = call[t].pw])
        /\ Answer(t, TRUE)
     \/ ExecFails /\ Answer(t, FALSE)
  /\ UNCHANGED admitted

\* The response to a registration is sent.
Reply(t) ==
  /\ At(t, "answer")
  /\ call' = [call EXCEPT ![t] = Idle]
  /\ UNCHANGED <<dbVars, admitted>>

\* Mutant: validateUser without the test of query.next().
Login_NoSuchUser(t, n, pw) ==
  /\ At(t, "idle")
  /\ visible[n] \in {pw, NoPassword}
  /\ admitted' = admitted \cup {<<n, pw>>}
  /\ UNCHANGED <<dbVars, call>>

\* handleLogin: validateUser is one SELECT.  A login that is refused changes
\* nothing.
Login(t, n, pw) ==
  /\ At(t, "idle")
  /\ visible[n] = pw
  /\ admitted' = admitted \cup {<<n, pw>>}
  /\ UNCHANGED <<dbVars, call>>

\* updateRequestStatus of another thread.
OtherTransaction ==
  /\ Transactions
  /\ Begin \/ CommitSucceeds \/ CommitFails \/ Rollback
  /\ UNCHANGED <<call, admitted>>

\* The process ends and is started again: schema.sql keeps the table.
Restart ==
  /\ Undo
  /\ call' = [t \in Threads |-> Idle]
  /\ UNCHANGED admitted

Next ==
  \/ \E t \in Threads :
       \/ Check(t) \/ Insert(t) \/ Reply(t)
       \/ \E n \in Names, pw \in Passwords : Register(t, n, pw) \/ Login(t, n, pw)
  \/ OtherTransaction
  \/ Restart

Spec == Init /\ [][Next]_vars

-----------------------------------------------------------------------------
\* Registration and login are atomic, except in what other threads'
\* transactions make of them: of several threads that found the same name free,
\* one gets it, and whoever is let in gave the password in the file.
Promise == INSTANCE Registry WITH account <- durable
PromiseKept ==
  Promise!Init /\ [][~inTx /\ ~inTx' => [Promise!Next]_(Promise!vars)]_vars

\* An account in the file keeps its password, whoever registers the name again
\* and whatever transactions of other threads the insertions fall into.
PasswordKept ==
  [][\A n \in Names : durable[n] # NoPassword => durable'[n] = durable[n]]_vars

\* README.md:72, register a new account, and then log in with it: an account
\* does not disappear when no registration of its name is under way.  TLC
\* refutes it: another thread's rollback undoes a registration after its answer.
AccountStays ==
  [][\A n \in Names :
       /\ visible[n] # NoPassword
       /\ \A t \in Threads : At(t, "idle") \/ call[t].name # n
       => visible'[n] = visible[n]]_vars
=============================================================================

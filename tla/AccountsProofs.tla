--------------------------- MODULE AccountsProofs ---------------------------
(***************************************************************************)
(* For any threads, names and passwords: an account keeps its password,    *)
(* and outside the transactions of other threads registration and login    *)
(* are atomic.  For any number of clients and buttons: the two ends of a   *)
(* connection agree on its user, and there is one main window, for a user  *)
(* who was let in.                                                         *)
(***************************************************************************)
EXTENDS ClientLogin, TLAPS

\* The connection shows every account of the file as it is there.
Extended == \A n \in Names : durable[n] # NoPassword => visible[n] = durable[n]

AutoCommit == ~inTx => visible = durable

IInv == TypeOK /\ Extended /\ AutoCommit

LEMMA IdleType == Idle \in Call
BY SomeAccounts DEF Idle, Call

LEMMA InitHolds == Init => IInv
BY IdleType DEF Init, IInv, TypeOK, Users, Extended, AutoCommit

\* What each thing the connection can do means for the accounts.
Harmless == Extended' /\ AutoCommit' /\ visible' \in Users /\ durable' \in Users
            /\ inTx' \in BOOLEAN /\ refused' \in BOOLEAN
            /\ \A n \in Names : durable[n] # NoPassword => durable'[n] = durable[n]

LEMMA Undone ==
  ASSUME IInv, UNCHANGED dbVars \/ ExecFails \/ Undo \/ Rollback
  PROVE  Harmless
BY DEF IInv, TypeOK, Extended, AutoCommit, Harmless, dbVars, ExecFails, Undo, Rollback

LEMMA Inserted ==
  ASSUME IInv, NEW n \in Names, NEW pw \in Passwords, visible[n] = NoPassword,
         Exec([visible EXCEPT ![n] = pw])
  PROVE  Harmless
<1> DEFINE new == [visible EXCEPT ![n] = pw]
<1>1. new \in Users  BY DEF IInv, TypeOK, Users
<1>2. durable[n] = NoPassword  BY DEF IInv, Extended
<1>3. /\ new[n] = pw
      /\ \A k \in Names \ {n} : new[k] = visible[k]
  BY DEF IInv, TypeOK, Users
<1>4. visible' = new /\ inTx' = inTx /\ refused' = refused  BY DEF Exec
<1> HIDE DEF new
<1>5. CASE inTx
  <2>1. durable' = durable  BY <1>5 DEF Exec
  <2> QED  BY <1>1, <1>2, <1>3, <1>4, <1>5, <2>1 DEF IInv, TypeOK, Extended, AutoCommit, Harmless
<1>6. CASE ~inTx
  <2>1. durable' = new  BY <1>6 DEF Exec, new
  <2>2. visible = durable  BY <1>6 DEF IInv, AutoCommit
  <2> QED  BY <1>1, <1>2, <1>3, <1>4, <1>6, <2>1, <2>2 DEF IInv, TypeOK, Extended, AutoCommit, Harmless
<1> QED  BY <1>5, <1>6 DEF IInv, TypeOK

LEMMA OtherThread ==
  ASSUME IInv, Begin \/ CommitSucceeds \/ CommitFails
  PROVE  Harmless
<1>1. CASE Begin  BY <1>1 DEF Begin, IInv, TypeOK, Extended, AutoCommit, Harmless
<1>2. CASE CommitSucceeds
  BY <1>2 DEF CommitSucceeds, IInv, TypeOK, Extended, AutoCommit, Harmless
<1>3. CASE CommitFails
  BY <1>3 DEF CommitFails, dbVars, IInv, TypeOK, Extended, AutoCommit, Harmless
<1> QED  BY <1>1, <1>2, <1>3

-----------------------------------------------------------------------------
LEMMA DoingTypes ==
  ASSUME TypeOK, NEW t \in Threads, NEW s \in {"check", "insert", "answer"}, NEW ok \in BOOLEAN,
         Doing(t, s, ok)
  PROVE  call' \in [Threads -> Call]
BY DEF TypeOK, Call, Doing

LEMMA NextKeeps ==
  ASSUME IInv, Next
  PROVE  Harmless /\ call' \in [Threads -> Call] /\ admitted' \in SUBSET (Names \X Passwords)
<1> USE DEF IInv
<1>1. ASSUME NEW t \in Threads, Check(t)
      PROVE  Harmless /\ call' \in [Threads -> Call] /\ admitted' = admitted
  BY <1>1, Undone, DoingTypes DEF Check, Answer
<1>2. ASSUME NEW t \in Threads, Insert(t)
      PROVE  Harmless /\ call' \in [Threads -> Call] /\ admitted' = admitted
  <2>1. call[t].name \in Names /\ call[t].pw \in Passwords  BY DEF TypeOK, Call
  <2>2. Harmless  BY <1>2, <2>1, Inserted, Undone DEF Insert
  <2>3. \E ok \in BOOLEAN : Doing(t, "answer", ok)  BY <1>2 DEF Insert, Answer
  <2> QED  BY <1>2, <2>2, <2>3, DoingTypes DEF Insert
<1>3. ASSUME NEW t \in Threads, Reply(t)
      PROVE  Harmless /\ call' \in [Threads -> Call] /\ admitted' = admitted
  <2>1. Harmless  BY <1>3, Undone DEF Reply
  <2> QED  BY <1>3, <2>1, IdleType DEF Reply, TypeOK
<1>4. ASSUME NEW t \in Threads, NEW n \in Names, NEW pw \in Passwords,
             Register(t, n, pw) \/ Login(t, n, pw)
      PROVE  Harmless /\ call' \in [Threads -> Call] /\ admitted' \in SUBSET (Names \X Passwords)
  <2>1. Harmless  BY <1>4, Undone DEF Register, Login
  <2>2. [at |-> "check", name |-> n, pw |-> pw, ok |-> FALSE] \in Call  BY DEF Call
  <2>3. CASE Register(t, n, pw)  BY <2>1, <2>2, <2>3 DEF Register, TypeOK
  <2>4. CASE Login(t, n, pw)  BY <2>1, <2>4 DEF Login, TypeOK
  <2> QED  BY <1>4, <2>3, <2>4
<1>5. ASSUME OtherTransaction
      PROVE  Harmless /\ call' \in [Threads -> Call] /\ admitted' = admitted
  <2>1. Harmless  BY <1>5, Undone, OtherThread DEF OtherTransaction
  <2> QED  BY <1>5, <2>1 DEF OtherTransaction, TypeOK
<1>6. ASSUME Restart
      PROVE  Harmless /\ call' \in [Threads -> Call] /\ admitted' = admitted
  <2>1. Harmless  BY <1>6, Undone DEF Restart
  <2> QED  BY <1>6, <2>1, IdleType DEF Restart
<1> QED  BY <1>1, <1>2, <1>3, <1>4, <1>5, <1>6 DEF Next, TypeOK

LEMMA StutterKeeps == IInv /\ UNCHANGED vars => IInv' /\ durable' = durable
BY DEF vars, IInv, TypeOK, Extended, AutoCommit

LEMMA InvKeeps == IInv /\ [Next]_vars => IInv'
BY NextKeeps, StutterKeeps DEF IInv, TypeOK, Harmless

\* Types, for any threads, names and password hashes, with transactions of
\* other threads and refused COMMITs.
THEOREM TypeCorrect == Spec => []TypeOK
<1>1. IInv => TypeOK  BY DEF IInv
<1> QED  BY <1>1, InitHolds, InvKeeps, PTL DEF Spec

\* Nobody takes over an account that is in the file, whatever registrations
\* race and whatever transactions their statements fall into.
THEOREM PasswordsAreKept == Spec => PasswordKept
<1>1. IInv /\ [Next]_vars => [\A n \in Names : durable[n] # NoPassword => durable'[n] = durable[n]]_vars
  BY NextKeeps DEF Harmless
<1> QED  BY <1>1, InitHolds, InvKeeps, PTL DEF Spec, PasswordKept

-----------------------------------------------------------------------------
LEMMA InsertRegisters ==
  ASSUME IInv, ~inTx, NEW t \in Threads, Insert(t)
  PROVE  Promise!Next \/ UNCHANGED <<durable, admitted>>
<1> DEFINE n == call[t].name
           pw == call[t].pw
<1>1. n \in Names /\ pw \in Passwords  BY DEF IInv, TypeOK, Call
<1>2. visible = durable  BY DEF IInv, AutoCommit
<1>3. CASE visible[n] = NoPassword /\ Exec([visible EXCEPT ![n] = pw])
  <2>1. durable' = [durable EXCEPT ![n] = pw]  BY <1>2, <1>3 DEF Exec
  <2>2. Promise!Register(n, pw)  BY <1>2, <1>3, <2>1 DEF Insert, Promise!Register
  <2> QED  BY <1>1, <2>2 DEF Promise!Next
<1>4. CASE ExecFails  BY <1>4 DEF Insert, ExecFails, Undo, dbVars
<1> QED  BY <1>3, <1>4 DEF Insert

LEMMA StepImplements ==
  ASSUME IInv, ~inTx, ~inTx', [Next]_vars
  PROVE  [Promise!Next]_(Promise!vars)
<1>1. visible = durable  BY DEF IInv, AutoCommit
<1>2. ASSUME NEW t \in Threads, NEW n \in Names, NEW pw \in Passwords, Login(t, n, pw)
      PROVE  Promise!Next
  BY <1>1, <1>2 DEF Login, dbVars, Promise!Next, Promise!Admit
<1>3. ASSUME NEW t \in Threads, NEW n \in Names, NEW pw \in Passwords, Register(t, n, pw)
      PROVE  UNCHANGED <<durable, admitted>>
  BY <1>3 DEF Register, dbVars
<1>4. ASSUME NEW t \in Threads, Check(t) \/ Reply(t)
      PROVE  UNCHANGED <<durable, admitted>>
  BY <1>4 DEF Check, Reply, dbVars
<1>5. ASSUME Restart
      PROVE  UNCHANGED <<durable, admitted>>
  BY <1>5 DEF Restart, Undo
<1>6. UNCHANGED vars => UNCHANGED <<durable, admitted>>  BY DEF vars
<1>7. ASSUME OtherTransaction
      PROVE  UNCHANGED <<durable, admitted>>
  BY <1>7 DEF OtherTransaction, Begin, CommitSucceeds, CommitFails, Rollback, Undo, dbVars
<1> QED
  BY <1>2, <1>3, <1>4, <1>5, <1>6, <1>7, InsertRegisters DEF Next, Promise!vars

\* Racing registrations and logins come down to atomic ones, for any number of
\* threads, names and passwords, except in transactions of other threads.
THEOREM RegistrationIsAtomic == Spec => PromiseKept
<1>1. Init => IInv /\ Promise!Init  BY InitHolds DEF Init, Users, Promise!Init
<1>2. IInv /\ [Next]_vars => [~inTx /\ ~inTx' => [Promise!Next]_(Promise!vars)]_vars
  BY StepImplements
<1> QED  BY <1>1, <1>2, InvKeeps, PTL DEF Spec, PromiseKept

-----------------------------------------------------------------------------
(***************************************************************************)
(* The login window: what each client and its thread keep, in a form that  *)
(* every step keeps.                                                       *)
(***************************************************************************)

Accepted(a) == a.type = "LOGIN_RESPONSE" /\ a.success
LetIn(n) == \E pw \in Passwords : <<n, pw>> \in admitted
Busy(t) == IF At(t, "idle") THEN 0 ELSE 1

\* Every answer that a client waits for is being asked for, made or sent.
Counted(t) ==
  /\ waiting[t] <= presses
  /\ session[t] = "on" => waiting[t] = Len(up[t]) + Len(down[t]) + Busy(t)
  /\ session[t] \in {"connecting", "closed", "none"} => waiting[t] = 0

\* There is nothing of a connection that is gone, or not made yet.
Ended(t) ==
  /\ session[t] \in {"connecting", "cut", "none"} =>
       up[t] = <<>> /\ down[t] = <<>> /\ At(t, "idle") /\ username[t] = NoName
  /\ session[t] \in {"connecting", "closed", "none"} => currentUser[t] = NoName

Opening(t) ==
  /\ mains[t] \in {0, 1}
  /\ mains[t] = 1 => presses > 0 /\ LetIn(currentUser[t])

\* The server let in whom an answer on its way says so of.
Believed(t) == \A i \in DOMAIN down[t] : Accepted(down[t][i]) => LetIn(down[t][i].username)

\* The last accepted login on its way to the client is the one the handler has
\* the name of, and when there is none they agree already.
LastAccepted(t, i) ==
  /\ i \in DOMAIN down[t] /\ Accepted(down[t][i])
  /\ \A j \in DOMAIN down[t] : j > i => ~Accepted(down[t][j])
NoneAccepted(t) == \A i \in DOMAIN down[t] : ~Accepted(down[t][i])
Agreeing(t) ==
  /\ session[t] = "on" /\ NoneAccepted(t) => currentUser[t] = username[t]
  /\ session[t] = "on" => \A i : LastAccepted(t, i) => down[t][i].username = username[t]

Client(t) == Counted(t) /\ Ended(t) /\ Opening(t) /\ Believed(t) /\ Agreeing(t)

\* The types of what ClientLogin adds to Accounts.
ClientTypes ==
  /\ session \in [Threads -> {"connecting", "on", "cut", "closed", "none"}]
  /\ mains \in [Threads -> {0, 1}]
  /\ registered \in [Threads -> BOOLEAN]
  /\ currentUser \in [Threads -> Names \cup {NoName}]
  /\ username \in [Threads -> Names \cup {NoName}]
  /\ up \in [Threads -> Seq(Request)]
  /\ torn \in [Threads -> BOOLEAN]
  /\ down \in [Threads -> Seq(Response)]
  /\ presses \in 0 .. MaxPresses
  /\ waiting \in [Threads -> Nat]

LoginInv == IInv /\ ClientTypes /\ \A t \in Threads : Client(t)

LEMMA Appended ==
  ASSUME NEW S, NEW s \in Seq(S), NEW x \in S
  PROVE  /\ Append(s, x) \in Seq(S) /\ Len(Append(s, x)) = Len(s) + 1 /\ Len(s) \in Nat
         /\ DOMAIN s = 1 .. Len(s) /\ DOMAIN Append(s, x) = 1 .. Len(s) + 1
         /\ \A i \in 1 .. Len(s) : Append(s, x)[i] = s[i]
         /\ Append(s, x)[Len(s) + 1] = x
OBVIOUS

LEMMA Taken ==
  ASSUME NEW S, NEW s \in Seq(S), s # <<>>
  PROVE  /\ Head(s) \in S /\ Head(s) = s[1] /\ Tail(s) \in Seq(S)
         /\ Len(Tail(s)) = Len(s) - 1 /\ Len(s) \in Nat /\ Len(s) > 0
         /\ DOMAIN s = 1 .. Len(s) /\ DOMAIN Tail(s) = 1 .. Len(s) - 1
         /\ \A i \in 1 .. Len(s) - 1 : Tail(s)[i] = s[i + 1]
OBVIOUS

\* Each step of a client and its thread is a step of Accounts or leaves it alone.
LEMMA LoginStep ==
  ASSUME LoginInv, [LoginNext]_loginVars
  PROVE  [Next]_vars
<1>1. ASSUME NEW t \in Threads, Takes(t, "register") \/ Takes(t, "login")
      PROVE  Head(up[t]).name \in Names /\ Head(up[t]).pw \in Passwords
  <2>1. Head(up[t]) \in Request
    BY <1>1, Taken DEF Takes, LoginInv, ClientTypes
  <2> QED
    BY <2>1 DEF Request
<1>2. ASSUME NEW t \in Threads, Thread(t) PROVE [Next]_vars
  <2>1. CASE ServeRegister(t)
    BY <1>1, <2>1 DEF ServeRegister, Next
  <2>2. CASE Statement(t)
    BY <2>2 DEF Statement, Next
  <2>3. CASE AnswerRegister(t)
    BY <2>3 DEF AnswerRegister, Next
  <2>4. CASE ServeLogin(t)
    BY <1>1, <2>4 DEF ServeLogin, Next
  <2>5. CASE RefuseLogin(t)
    BY <2>5 DEF RefuseLogin
  <2>6. CASE Lose(t)
    BY <2>6 DEF Lose
  <2> QED
    BY <1>2, <2>1, <2>2, <2>3, <2>4, <2>5, <2>6 DEF Thread
<1>3. ASSUME NEW t \in Threads,
             \/ Show(t) \/ Close(t) \/ Disconnected(t) \/ Start(t) \/ Connected(t)
             \/ \E r \in Request : Press(t, r)
      PROVE  UNCHANGED vars
  BY <1>3 DEF Show, Close, Disconnected, Start, Connected, Press
<1>4. Others => Next
  BY DEF Others, Next
<1>5. ServerRestart => Next
  BY DEF ServerRestart, Next
<1>6. UNCHANGED loginVars => UNCHANGED vars
  BY DEF loginVars
<1> QED
  BY <1>2, <1>3, <1>4, <1>5, <1>6 DEF LoginNext

\* What no step takes back.
Goes == presses \in Nat /\ presses' \in Nat /\ presses <= presses' /\ admitted \subseteq admitted'

\* What is nobody's business but t's.
Alone(t) ==
  /\ session'[t] = session[t] /\ mains'[t] = mains[t] /\ currentUser'[t] = currentUser[t]
  /\ username'[t] = username[t] /\ up'[t] = up[t] /\ down'[t] = down[t] /\ waiting'[t] = waiting[t]
  /\ At(t, "idle")' <=> At(t, "idle")

LEMMA StaysOpen ==
  ASSUME Goes, NEW t \in Threads, Opening(t), mains'[t] = mains[t], currentUser'[t] = currentUser[t]
  PROVE  Opening(t)'
<1>1. presses > 0 => presses' > 0
  BY DEF Goes
<1>2. LetIn(currentUser[t]) => \E pw \in Passwords : <<currentUser[t], pw>> \in admitted'
  BY DEF Goes, LetIn
<1> QED
  BY <1>1, <1>2 DEF Opening, LetIn

\* A request goes through the thread and comes out as an answer.
Moved(t) ==
  \/ Len(up'[t]) = Len(up[t]) /\ Len(down'[t]) = Len(down[t]) /\ Busy(t)' = Busy(t)
  \/ Len(up'[t]) = Len(up[t]) - 1 /\ Len(down'[t]) = Len(down[t]) /\ Busy(t) = 0 /\ Busy(t)' = 1
  \/ Len(up'[t]) = Len(up[t]) /\ Len(down'[t]) = Len(down[t]) + 1 /\ Busy(t) = 1 /\ Busy(t)' = 0
  \/ Len(up'[t]) = Len(up[t]) - 1 /\ Len(down'[t]) = Len(down[t]) + 1 /\ Busy(t) = 0 /\ Busy(t)' = 0

LEMMA Sums ==
  ASSUME NEW x \in Nat, NEW y \in Nat
  PROVE  (x - 1) + y + 1 = x + y + 0 /\ x + (y + 1) + 0 = x + y + 1 /\ (x - 1) + (y + 1) + 0 = x + y + 0
OBVIOUS

LEMMA Counts ==
  ASSUME LoginInv, Goes, NEW t \in Threads, session'[t] = session[t], waiting'[t] = waiting[t], Moved(t)
  PROVE  Counted(t)'
<1>0. Len(up'[t]) + Len(down'[t]) + Busy(t)' = Len(up[t]) + Len(down[t]) + Busy(t)
  <2>1. Len(up[t]) \in Nat /\ Len(down[t]) \in Nat
    BY DEF LoginInv, ClientTypes
  <2>2. /\ (Len(up[t]) - 1) + Len(down[t]) + 1 = Len(up[t]) + Len(down[t]) + 0
        /\ Len(up[t]) + (Len(down[t]) + 1) + 0 = Len(up[t]) + Len(down[t]) + 1
        /\ (Len(up[t]) - 1) + (Len(down[t]) + 1) + 0 = Len(up[t]) + Len(down[t]) + 0
    BY <2>1, Sums
  <2> QED
    BY <2>2 DEF Moved
<1>1. Counted(t) /\ waiting[t] \in Nat
  BY DEF LoginInv, Client, ClientTypes
<1>2. waiting'[t] <= presses'
  BY <1>1 DEF Counted, Goes
<1>3. session'[t] = "on" => waiting'[t] = Len(up'[t]) + Len(down'[t]) + Busy(t)'
  BY <1>0, <1>1 DEF Counted
<1>4. session'[t] \in {"connecting", "closed", "none"} => waiting'[t] = 0
  BY <1>1 DEF Counted
<1> QED
  BY <1>2, <1>3, <1>4 DEF Counted

LEMMA AloneKeeps ==
  ASSUME LoginInv, Goes, NEW t \in Threads, Alone(t)
  PROVE  Client(t)'
<1> USE DEF Alone
<1>1. waiting[t] \in Nat /\ Client(t)
  BY DEF LoginInv, ClientTypes
<1>2. Busy(t)' = Busy(t) /\ Busy(t) \in Nat /\ Len(up[t]) \in Nat /\ Len(down[t]) \in Nat
  BY DEF Busy, LoginInv, ClientTypes
<1>3. Counted(t)'
  BY <1>2, Counts DEF Moved
<1>4. Ended(t)'
  BY <1>1 DEF Client, Ended
<1>5. Opening(t)'
  BY <1>1, StaysOpen DEF Client
<1>6. Believed(t)'
  BY <1>1 DEF Client, Believed, Goes, LetIn
<1>7. Agreeing(t)'
  BY <1>1 DEF Client, Agreeing, LastAccepted, NoneAccepted
<1> QED
  BY <1>3, <1>4, <1>5, <1>6, <1>7 DEF Client

\* An answer is sent to the client.
LEMMA Told ==
  ASSUME LoginInv, Goes, NEW t \in Threads, NEW a \in Response, Tell(t, a),
         session'[t] = session[t], currentUser'[t] = currentUser[t],
         Accepted(a) => LetIn(a.username)' /\ username'[t] = a.username,
         ~Accepted(a) => username'[t] = username[t]
  PROVE  /\ down' \in [Threads -> Seq(Response)] /\ Len(down'[t]) = Len(down[t]) + 1
         /\ \A s \in Threads \ {t} : down'[s] = down[s]
         /\ Believed(t)' /\ Agreeing(t)'
<1>1. down[t] \in Seq(Response) /\ Client(t)
  BY DEF LoginInv, ClientTypes
<1>2. down'[t] = Append(down[t], a) /\ \A s \in Threads \ {t} : down'[s] = down[s]
  BY DEF Tell, LoginInv, ClientTypes
<1>3. down' \in [Threads -> Seq(Response)]
  BY <1>1, Appended DEF Tell, LoginInv, ClientTypes
<1> DEFINE n == Len(down[t])
<1>4. /\ n \in Nat /\ DOMAIN down[t] = 1 .. n /\ DOMAIN down'[t] = 1 .. n + 1 /\ down'[t][n + 1] = a
      /\ \A i \in 1 .. n : down'[t][i] = down[t][i]
      /\ Len(down'[t]) = n + 1
  BY <1>1, <1>2, Appended
<1> HIDE DEF n
<1>5. Believed(t)'
  <2> SUFFICES ASSUME NEW i \in 1 .. n + 1, NEW x, x = down'[t][i], Accepted(x) PROVE LetIn(x.username)'
    BY <1>4 DEF Believed, Accepted, LetIn
  <2>1. CASE i = n + 1
    BY <1>4, <2>1
  <2>2. CASE i \in 1 .. n
    BY <1>1, <1>4, <2>2 DEF Client, Believed, LetIn, Goes
  <2> QED
    BY <1>4, <2>1, <2>2
<1>6. CASE Accepted(a)
  <2>1. ~NoneAccepted(t)'
    BY <1>4, <1>6 DEF NoneAccepted, Accepted
  <2>2. \A i : LastAccepted(t, i)' => i = n + 1
    BY <1>4, <1>6 DEF LastAccepted, Accepted
  <2>3. Agreeing(t)'
    BY <1>4, <1>6, <2>1, <2>2 DEF Agreeing
  <2> QED
    BY <1>2, <1>3, <1>4, <1>5, <2>3 DEF n
<1>7. CASE ~Accepted(a)
  <2>1. NoneAccepted(t)' => NoneAccepted(t)
    BY <1>4 DEF NoneAccepted, Accepted
  <2>2. \A i : LastAccepted(t, i)' => i \in 1 .. n /\ LastAccepted(t, i)
    BY <1>4, <1>7 DEF LastAccepted, Accepted
  <2>3. Agreeing(t)'
    BY <1>1, <1>4, <1>7, <2>1, <2>2 DEF Client, Agreeing
  <2> QED
    BY <1>2, <1>3, <1>4, <1>5, <2>3 DEF n
<1> QED
  BY <1>6, <1>7

\* The thread takes a request.
LEMMA Takes1 ==
  ASSUME LoginInv, NEW t \in Threads, NEW op \in {"login", "register"}, Takes(t, op)
  PROVE  /\ Head(up[t]) \in Request /\ Head(up[t]).name \in Names /\ Head(up[t]).pw \in Passwords
         /\ up' \in [Threads -> Seq(Request)] /\ Len(up'[t]) = Len(up[t]) - 1
         /\ \A s \in Threads \ {t} : up'[s] = up[s]
         /\ At(t, "idle") /\ session[t] \in {"on", "closed"}
<1>1. up[t] \in Seq(Request) /\ up[t] # <<>> /\ Client(t) /\ session[t] \in {"connecting", "on", "cut", "closed", "none"}
      /\ up' = [up EXCEPT ![t] = Tail(@)]
  BY DEF Takes, LoginInv, ClientTypes
<1>2. Head(up[t]) \in Request /\ Tail(up[t]) \in Seq(Request) /\ Len(Tail(up[t])) = Len(up[t]) - 1
  BY <1>1, Taken
<1>3. Head(up[t]).name \in Names /\ Head(up[t]).pw \in Passwords
  BY <1>2 DEF Request
<1>4. session[t] \in {"on", "closed"}
  BY <1>1 DEF Client, Ended
<1>5. up' \in [Threads -> Seq(Request)] /\ up'[t] = Tail(up[t]) /\ \A s \in Threads \ {t} : up'[s] = up[s]
  BY <1>1, <1>2 DEF LoginInv, ClientTypes
<1> QED
  BY <1>2, <1>3, <1>4, <1>5 DEF Takes

LEMMA LoginKeeps == LoginInv /\ [LoginNext]_loginVars => LoginInv'
<1> SUFFICES ASSUME LoginInv, [LoginNext]_loginVars PROVE LoginInv'
  OBVIOUS
<1>1. IInv' /\ MaxPresses \in Nat
  BY LoginStep, InvKeeps, PressBound DEF LoginInv
<1>2. IInv /\ TypeOK /\ ClientTypes /\ \A t \in Threads : Client(t)
  BY DEF LoginInv, IInv
<1>3. ASSUME ClientTypes', Goes, NEW t \in Threads, Client(t)', \A s \in Threads \ {t} : Alone(s)
      PROVE  LoginInv'
  BY <1>1, <1>3, AloneKeeps DEF LoginInv
<1>4. ASSUME NEW t \in Threads
      PROVE  /\ Busy(t) \in Nat /\ Busy(t)' \in Nat
             /\ At(t, "idle") => Busy(t) = 0
             /\ ~At(t, "idle") => Busy(t) = 1
             /\ At(t, "idle")' => Busy(t)' = 0
             /\ ~At(t, "idle")' => Busy(t)' = 1
             /\ waiting[t] \in Nat /\ Len(up[t]) \in Nat /\ Len(down[t]) \in Nat
             /\ waiting[t] <= presses /\ presses \in Nat
  BY <1>2, PressBound DEF Busy, ClientTypes, Client, Counted
<1>5. ASSUME NEW t \in Threads, ServeRegister(t) PROVE LoginInv'
  <2>1. /\ Takes(t, "register") /\ Register(t, Head(up[t]).name, Head(up[t]).pw)
        /\ UNCHANGED <<client, username, torn, down, presses, waiting>>
    BY <1>5 DEF ServeRegister
  <2>2. /\ up' \in [Threads -> Seq(Request)] /\ Len(up'[t]) = Len(up[t]) - 1
        /\ \A s \in Threads \ {t} : up'[s] = up[s]
        /\ session[t] \in {"on", "closed"}
    BY <2>1, Takes1
  <2>3. /\ At(t, "idle") /\ ~At(t, "idle")' /\ \A s \in Threads \ {t} : At(s, "idle")' <=> At(s, "idle")
    BY <1>2, <2>1 DEF Register, At, TypeOK
  <2>4. Goes /\ admitted' = admitted
    BY <1>2, <1>4, <2>1 DEF Register, Goes
  <2>5. ClientTypes'
    BY <1>2, <2>1, <2>2 DEF ClientTypes, client
  <2>6. Counted(t)'
    <3>1. Busy(t) = 0 /\ Busy(t)' = 1
      BY <1>4, <2>1, <2>2, <2>3
    <3>2. Len(up'[t]) = Len(up[t]) - 1 /\ Len(down'[t]) = Len(down[t])
      BY <1>4, <2>1, <2>2, <2>3
    <3> QED
      BY <2>1, <2>4, <3>1, <3>2, Counts DEF Moved, client
  <2>7. Ended(t)' /\ Believed(t)' /\ Agreeing(t)'
    BY <1>2, <2>1, <2>2, <2>4
       DEF Client, Ended, Believed, LetIn, Agreeing, LastAccepted, NoneAccepted, client
  <2>8. Opening(t)'
    BY <1>2, <2>1, <2>4, StaysOpen DEF Client, client
  <2> QED
    BY <1>3, <2>1, <2>2, <2>3, <2>4, <2>5, <2>6, <2>7, <2>8 DEF Alone, Client, client
<1>6. ASSUME NEW t \in Threads, Statement(t) PROVE LoginInv'
  <2>1. UNCHANGED <<client, username, up, torn, down, presses, waiting>>
    BY <1>6 DEF Statement
  <2>2. /\ ~At(t, "idle") /\ ~At(t, "idle")' /\ \A s \in Threads \ {t} : At(s, "idle")' <=> At(s, "idle")
        /\ admitted' = admitted
    BY <1>2, <1>6 DEF Statement, Check, Insert, Answer, Doing, At, TypeOK
  <2>3. Goes
    BY <1>4, <2>1, <2>2 DEF Goes
  <2>4. ClientTypes'
    BY <1>2, <2>1 DEF ClientTypes, client
  <2>5. Client(t)'
    BY <2>1, <2>2, <2>3, AloneKeeps DEF Alone, client
  <2> QED
    BY <1>3, <2>1, <2>2, <2>3, <2>4, <2>5 DEF Alone, client
<1>7. ASSUME NEW t \in Threads, AnswerRegister(t) PROVE LoginInv'
  <2>1. /\ Reply(t) /\ UNCHANGED <<client, username, up, torn, presses, waiting>>
    BY <1>7 DEF AnswerRegister
  <2>2. PICK a \in Response : Tell(t, a) /\ ~Accepted(a)
    <3>1. call[t].ok \in BOOLEAN
      BY <1>2 DEF TypeOK, Call
    <3> QED
      BY <1>7, <3>1 DEF AnswerRegister, Response, Accepted
  <2>3. /\ ~At(t, "idle") /\ At(t, "idle")' /\ \A s \in Threads \ {t} : At(s, "idle")' <=> At(s, "idle")
        /\ admitted' = admitted
    BY <1>2, <2>1 DEF Reply, At, Idle, TypeOK
  <2>4. Goes
    BY <1>4, <2>1, <2>3 DEF Goes
  <2>5. /\ down' \in [Threads -> Seq(Response)] /\ Len(down'[t]) = Len(down[t]) + 1
        /\ \A s \in Threads \ {t} : down'[s] = down[s]
        /\ Believed(t)' /\ Agreeing(t)'
    BY <2>1, <2>2, <2>4, Told DEF client
  <2>6. ClientTypes'
    BY <1>2, <2>1, <2>5 DEF ClientTypes, client
  <2>7. Counted(t)'
    <3>1. Busy(t) = 1 /\ Busy(t)' = 0
      BY <1>4, <2>1, <2>3, <2>5
    <3>2. Len(up'[t]) = Len(up[t]) /\ Len(down'[t]) = Len(down[t]) + 1
      BY <1>4, <2>1, <2>3, <2>5
    <3> QED
      BY <2>1, <2>4, <3>1, <3>2, Counts DEF Moved, client
  <2>8. Ended(t)' /\ Opening(t)'
    BY <1>2, <2>1, <2>3, <2>4, StaysOpen DEF Client, Ended, client
  <2> QED
    BY <1>3, <2>1, <2>3, <2>4, <2>5, <2>6, <2>7, <2>8 DEF Alone, Client, client
<1>8. ASSUME NEW t \in Threads, ServeLogin(t) PROVE LoginInv'
  <2>1. PICK n : n = Head(up[t]).name
    OBVIOUS
  <2>2. /\ Takes(t, "login") /\ Login(t, n, Head(up[t]).pw)
        /\ Tell(t, [type |-> "LOGIN_RESPONSE", success |-> TRUE, username |-> n])
        /\ username' = [username EXCEPT ![t] = n]
        /\ UNCHANGED <<client, torn, presses, waiting>>
    BY <1>8, <2>1 DEF ServeLogin
  <2>3. /\ n \in Names /\ Head(up[t]).pw \in Passwords /\ At(t, "idle") /\ session[t] \in {"on", "closed"}
        /\ up' \in [Threads -> Seq(Request)] /\ Len(up'[t]) = Len(up[t]) - 1
        /\ \A s \in Threads \ {t} : up'[s] = up[s]
    BY <2>1, <2>2, Takes1
  <2>4. LetIn(n)' /\ call' = call /\ admitted \subseteq admitted'
    BY <2>2, <2>3 DEF Login, LetIn
  <2>5. Goes
    BY <1>4, <2>2, <2>4 DEF Goes
  <2>6. username'[t] = n /\ username' \in [Threads -> Names \cup {NoName}]
        /\ \A s \in Threads \ {t} : username'[s] = username[s]
    BY <1>2, <2>2, <2>3 DEF ClientTypes
  <2>7. PICK a \in Response : Tell(t, a) /\ a.username = n /\ Accepted(a)
    <3> DEFINE a == [type |-> "LOGIN_RESPONSE", success |-> TRUE, username |-> n]
    <3>1. a \in Response /\ a.username = n /\ Accepted(a)
      BY <2>3 DEF Response, Accepted
    <3> QED
      BY <2>2, <3>1
  <2>8. Accepted(a) => LetIn(a.username)' /\ username'[t] = a.username
    BY <2>4, <2>6, <2>7 DEF LetIn
  <2>9. /\ down' \in [Threads -> Seq(Response)] /\ Len(down'[t]) = Len(down[t]) + 1
        /\ \A s \in Threads \ {t} : down'[s] = down[s]
        /\ Believed(t)' /\ Agreeing(t)'
    BY <2>2, <2>5, <2>7, <2>8, Told DEF client
  <2>10. ClientTypes'
    BY <1>2, <2>2, <2>3, <2>6, <2>9 DEF ClientTypes, client
  <2>11. Counted(t)'
    <3>1. Busy(t) = 0 /\ Busy(t)' = 0
      BY <1>4, <2>3, <2>4, <2>9 DEF At
    <3>2. Len(up'[t]) = Len(up[t]) - 1 /\ Len(down'[t]) = Len(down[t]) + 1
      BY <1>4, <2>3, <2>4, <2>9 DEF At
    <3> QED
      BY <2>2, <2>5, <3>1, <3>2, Counts DEF Moved, client
  <2>12. Ended(t)' /\ Opening(t)'
    BY <1>2, <2>2, <2>3, <2>5, StaysOpen DEF Client, Ended, client
  <2> QED
    BY <1>3, <2>2, <2>3, <2>4, <2>5, <2>6, <2>9, <2>10, <2>11, <2>12 DEF Alone, Client, client, At
<1>9. ASSUME NEW t \in Threads, RefuseLogin(t) PROVE LoginInv'
  <2>1. Takes(t, "login") /\ UNCHANGED <<vars, client, username, torn, presses, waiting>>
    BY <1>9 DEF RefuseLogin
  <2>2. PICK a \in Response : Tell(t, a) /\ ~Accepted(a)
    <3> DEFINE a == [type |-> "LOGIN_RESPONSE", success |-> FALSE, username |-> NoName]
    <3>1. a \in Response /\ ~Accepted(a)
      BY DEF Response, Accepted
    <3> QED
      BY <1>9, <3>1 DEF RefuseLogin
  <2>3. /\ At(t, "idle") /\ session[t] \in {"on", "closed"}
        /\ up' \in [Threads -> Seq(Request)] /\ Len(up'[t]) = Len(up[t]) - 1
        /\ \A s \in Threads \ {t} : up'[s] = up[s]
    BY <2>1, Takes1
  <2>4. Goes /\ call' = call
    BY <1>4, <2>1 DEF Goes, vars
  <2>5. /\ down' \in [Threads -> Seq(Response)] /\ Len(down'[t]) = Len(down[t]) + 1
        /\ \A s \in Threads \ {t} : down'[s] = down[s]
        /\ Believed(t)' /\ Agreeing(t)'
    BY <2>1, <2>2, <2>4, Told DEF client
  <2>6. ClientTypes'
    BY <1>2, <2>1, <2>3, <2>5 DEF ClientTypes, client
  <2>7. Counted(t)'
    <3>1. Busy(t) = 0 /\ Busy(t)' = 0
      BY <1>4, <2>3, <2>4, <2>5 DEF At
    <3>2. Len(up'[t]) = Len(up[t]) - 1 /\ Len(down'[t]) = Len(down[t]) + 1
      BY <1>4, <2>3, <2>4, <2>5 DEF At
    <3> QED
      BY <2>1, <2>4, <3>1, <3>2, Counts DEF Moved, client
  <2>8. Ended(t)' /\ Opening(t)'
    BY <1>2, <2>1, <2>3, <2>4, StaysOpen DEF Client, Ended, client
  <2> QED
    BY <1>3, <2>1, <2>3, <2>4, <2>5, <2>6, <2>7, <2>8 DEF Alone, Client, client, At
<1>10. ASSUME NEW t \in Threads, NEW r \in Request, Press(t, r) PROVE LoginInv'
  <2>1. /\ session[t] \in {"connecting", "on", "cut"} /\ mains[t] = 0 /\ presses < MaxPresses /\ presses' = presses + 1
        /\ UNCHANGED <<vars, client, username, torn, down>>
    BY <1>10 DEF Press
  <2>2. Goes /\ call' = call
    BY <1>4, <2>1 DEF Goes, vars
  <2>3. CASE session[t] = "on"
    <3>1. up' = [up EXCEPT ![t] = Append(@, r)] /\ waiting' = [waiting EXCEPT ![t] = @ + 1]
      BY <1>10, <2>3 DEF Press
    <3>2. Append(up[t], r) \in Seq(Request) /\ Len(Append(up[t], r)) = Len(up[t]) + 1
      BY <1>2, Appended DEF ClientTypes
    <3>3. /\ up' \in [Threads -> Seq(Request)] /\ Len(up'[t]) = Len(up[t]) + 1
          /\ waiting' \in [Threads -> Nat] /\ waiting'[t] = waiting[t] + 1
          /\ \A s \in Threads \ {t} : up'[s] = up[s] /\ waiting'[s] = waiting[s]
      BY <1>2, <3>1, <3>2 DEF ClientTypes
    <3>4. ClientTypes'
      BY <1>1, <1>2, <2>1, <3>3 DEF ClientTypes, client
    <3>5. Counted(t)'
      <4>1. waiting[t] = Len(up[t]) + Len(down[t]) + Busy(t) /\ Busy(t)' = Busy(t)
        BY <1>2, <2>2, <2>3 DEF Client, Counted, Busy, At
      <4>2. waiting'[t] = Len(up'[t]) + Len(down'[t]) + Busy(t)'
        <5>0. PICK x \in Nat, y \in Nat, z \in Nat : x = Len(up[t]) /\ y = Len(down[t]) /\ z = Busy(t)
          BY <1>4
        <5>1. waiting'[t] = (x + y + z) + 1 /\ Len(up'[t]) = x + 1 /\ Len(down'[t]) = y /\ Busy(t)' = z
          BY <5>0, <2>1, <3>3, <4>1
        <5>2. Len(up'[t]) + Len(down'[t]) + Busy(t)' = (x + 1) + y + z
          BY <5>0, <5>1
        <5>3. (x + y + z) + 1 = (x + 1) + y + z
          <6>1. x \in Nat /\ y \in Nat /\ z \in Nat
            BY <5>0
          <6> QED
            BY <6>1
        <5> QED
          BY <5>1, <5>2, <5>3
      <4>3. waiting'[t] <= presses'
        BY <1>4, <2>1, <3>3
      <4> QED
        BY <2>1, <2>3, <4>2, <4>3 DEF Counted, client
    <3>6. Ended(t)' /\ Believed(t)' /\ Agreeing(t)'
      BY <1>2, <2>1, <2>3
         DEF Client, Ended, Believed, Agreeing, LetIn, LastAccepted, NoneAccepted, client, vars
    <3>7. Opening(t)'
      BY <1>2, <2>1, <2>2, StaysOpen DEF Client, client
    <3> QED
      BY <1>3, <2>1, <2>2, <3>3, <3>4, <3>5, <3>6, <3>7 DEF Alone, Client, client, At
  <2>4. CASE session[t] # "on"
    <3>1. UNCHANGED <<up, waiting>>
      BY <1>10, <2>4 DEF Press
    <3>2. ClientTypes'
      BY <1>1, <1>2, <2>1, <3>1 DEF ClientTypes, client
    <3>3. \A s \in Threads : Alone(s)
      BY <2>1, <2>2, <3>1 DEF Alone, client, At
    <3> QED
      BY <1>3, <2>2, <3>2, <3>3, AloneKeeps
  <2> QED
    BY <2>3, <2>4
<1>11. ASSUME NEW t \in Threads, Show(t) PROVE LoginInv'
  <2>1. PICK a : a = Head(down[t])
    OBVIOUS
  <2>2. /\ session[t] = "on" /\ down[t] # <<>> /\ down' = [down EXCEPT ![t] = Tail(@)]
        /\ waiting' = [waiting EXCEPT ![t] = @ - 1]
        /\ UNCHANGED <<vars, session, username, up, torn, presses>>
    BY <1>11 DEF Show
  <2>3. Goes /\ call' = call
    BY <1>4, <2>2 DEF Goes, vars
  <2> DEFINE n == Len(down[t])
  <2>4. /\ a \in Response /\ a = down[t][1] /\ Tail(down[t]) \in Seq(Response) /\ n \in Nat /\ n > 0
        /\ DOMAIN down[t] = 1 .. n /\ DOMAIN Tail(down[t]) = 1 .. n - 1 /\ Len(Tail(down[t])) = n - 1
        /\ \A i \in 1 .. n - 1 : Tail(down[t])[i] = down[t][i + 1]
    BY <1>2, <2>1, <2>2, Taken DEF ClientTypes
  <2>5. /\ down' \in [Threads -> Seq(Response)] /\ down'[t] = Tail(down[t])
        /\ \A s \in Threads \ {t} : down'[s] = down[s]
    BY <1>2, <2>2, <2>4 DEF ClientTypes
  <2>6. /\ waiting[t] = Len(up[t]) + n + Busy(t) /\ waiting[t] <= presses
    BY <1>2, <2>2 DEF Client, Counted
  <2>7. waiting[t] - 1 = Len(up[t]) + (n - 1) + Busy(t) /\ waiting[t] - 1 \in Nat /\ waiting[t] - 1 <= presses
        /\ presses > 0
    <3>1. PICK x \in Nat, z \in Nat, w \in Nat : x = Len(up[t]) /\ z = Busy(t) /\ w = waiting[t]
      BY <1>4
    <3>2. w = x + n + z /\ w <= presses
      BY <2>6, <3>1
    <3> HIDE DEF n
    <3>3. x \in Nat /\ z \in Nat /\ w \in Nat /\ n \in Nat /\ n > 0 /\ presses \in Nat
      BY <1>4, <2>4, <3>1
    <3>4. w - 1 = x + (n - 1) + z /\ w - 1 \in Nat /\ w - 1 <= presses /\ presses > 0
      BY <3>2, <3>3
    <3> QED
      BY <3>1, <3>4
  <2>8. /\ waiting' \in [Threads -> Nat] /\ waiting'[t] = waiting[t] - 1
        /\ \A s \in Threads \ {t} : waiting'[s] = waiting[s]
    BY <1>2, <2>2, <2>7 DEF ClientTypes
  <2>9. \/ /\ Accepted(a) /\ currentUser' = [currentUser EXCEPT ![t] = a.username]
           /\ mains' = [mains EXCEPT ![t] = Opened(t)] /\ UNCHANGED registered
        \/ ~Accepted(a) /\ UNCHANGED <<currentUser, mains, registered>>
        \/ /\ ~Accepted(a) /\ UNCHANGED <<currentUser, mains>>
           /\ \E ok \in BOOLEAN : registered' = [registered EXCEPT ![t] = ok]
    <3>1. CASE ShowLogin(t)
      BY <2>1, <3>1 DEF ShowLogin, Accepted
    <3>2. CASE ShowRegister(t)
      <4>1. a.type = "REGISTER_RESPONSE" /\ a.success \in BOOLEAN
        BY <2>1, <2>4, <3>2 DEF ShowRegister, Response
      <4> QED
        BY <2>1, <3>2, <4>1 DEF ShowRegister, Accepted
    <3> QED
      BY <1>11, <3>1, <3>2 DEF Show
  <2>10. Accepted(a) => LetIn(a.username) /\ a.username \in Names \cup {NoName}
    <3>1. Accepted(a) => LetIn(a.username)
      BY <1>2, <2>4 DEF Client, Believed
    <3> QED
      BY <2>4, <3>1 DEF Response, Accepted
  <2>11. Opened(t) \in {0, 1}
    BY <1>2 DEF Opened, ClientTypes
  <2>12. /\ currentUser' \in [Threads -> Names \cup {NoName}] /\ mains' \in [Threads -> {0, 1}]
         /\ registered' \in [Threads -> BOOLEAN]
         /\ Accepted(a) => currentUser'[t] = a.username
         /\ ~Accepted(a) => currentUser'[t] = currentUser[t] /\ mains'[t] = mains[t]
         /\ \A s \in Threads \ {t} : currentUser'[s] = currentUser[s] /\ mains'[s] = mains[s]
    BY <1>2, <2>9, <2>10, <2>11 DEF ClientTypes
  <2>13. ClientTypes'
    BY <1>2, <2>2, <2>5, <2>8, <2>12 DEF ClientTypes
  <2>14. Counted(t)'
    <3>1. Busy(t)' = Busy(t) /\ Len(down'[t]) = n - 1
      BY <2>3, <2>4, <2>5 DEF Busy, At
    <3>2. waiting'[t] = Len(up'[t]) + Len(down'[t]) + Busy(t)'
      BY <2>2, <2>7, <2>8, <3>1
    <3>3. waiting'[t] <= presses'
      BY <2>2, <2>7, <2>8
    <3> QED
      BY <2>2, <3>2, <3>3 DEF Counted
  <2>15. Ended(t)'
    BY <2>2 DEF Ended
  <2>16. Opening(t)'
    <3>1. CASE Accepted(a)
      <4>1. currentUser'[t] = a.username /\ mains'[t] \in {0, 1} /\ presses' > 0
        BY <2>2, <2>7, <2>12, <3>1
      <4>2. \E pw \in Passwords : <<a.username, pw>> \in admitted'
        BY <2>3, <2>10, <3>1 DEF Goes, LetIn
      <4> QED
        BY <4>1, <4>2 DEF Opening, LetIn
    <3>2. CASE ~Accepted(a)
      BY <1>2, <2>3, <2>12, <3>2, StaysOpen DEF Client
    <3> QED
      BY <3>1, <3>2
  <2> HIDE DEF n
  <2>17. Believed(t)'
    <3>1. \A i \in 1 .. n - 1 : i + 1 \in DOMAIN down[t] /\ down'[t][i] = down[t][i + 1]
      BY <2>4, <2>5
    <3>2. \A i \in DOMAIN down[t] : Accepted(down[t][i]) => LetIn(down[t][i].username)
      BY <1>2 DEF Client, Believed
    <3> SUFFICES ASSUME NEW i \in 1 .. n - 1, NEW x, x = down'[t][i], Accepted(x) PROVE LetIn(x.username)'
      BY <2>4, <2>5 DEF Believed, Accepted, LetIn
    <3>3. LetIn(x.username)
      BY <3>1, <3>2
    <3> QED
      BY <2>3, <3>3 DEF Goes, LetIn
  <2>18. Agreeing(t)'
    <3>1. /\ \A i \in 1 .. n - 1 : i + 1 \in 1 .. n /\ down'[t][i] = down[t][i + 1]
          /\ \A i \in 1 .. n : i # 1 => i - 1 \in 1 .. n - 1 /\ down'[t][i - 1] = down[t][i]
          /\ DOMAIN down'[t] = 1 .. n - 1 /\ 1 \in 1 .. n
      BY <2>4, <2>5
    <3>2. NoneAccepted(t)' => \A i \in 1 .. n : i # 1 => ~Accepted(down[t][i])
      BY <3>1 DEF NoneAccepted, Accepted
    <3>3. NoneAccepted(t)' => currentUser'[t] = username[t]
      <4>1. CASE Accepted(a)
        <5>1. NoneAccepted(t)' => LastAccepted(t, 1)
          BY <2>4, <3>1, <3>2, <4>1 DEF LastAccepted
        <5> QED
          BY <1>2, <2>2, <2>4, <2>12, <4>1, <5>1 DEF Client, Agreeing
      <4>2. CASE ~Accepted(a)
        <5>1. NoneAccepted(t)' => NoneAccepted(t)
          BY <2>4, <3>2, <4>2 DEF NoneAccepted
        <5> QED
          BY <1>2, <2>2, <2>12, <4>2, <5>1 DEF Client, Agreeing
      <4> QED
        BY <4>1, <4>2
    <3>4. ASSUME NEW i, LastAccepted(t, i)' PROVE down'[t][i].username = username[t]
      <4>1. i \in 1 .. n - 1 /\ Accepted(down'[t][i]) /\ \A j \in 1 .. n - 1 : j > i => ~Accepted(down'[t][j])
        BY <3>1, <3>4 DEF LastAccepted, Accepted
      <4>2. ASSUME NEW j \in 1 .. n, j > i + 1 PROVE ~Accepted(down[t][j])
        <5>1. j # 1 /\ j - 1 > i
          BY <4>1, <4>2, <2>4
        <5> QED
          BY <3>1, <4>1, <5>1
      <4>3. LastAccepted(t, i + 1)
        BY <2>4, <3>1, <4>1, <4>2 DEF LastAccepted
      <4>4. down[t][i + 1].username = username[t]
        BY <1>2, <2>2, <4>3 DEF Client, Agreeing
      <4> QED
        BY <3>1, <4>1, <4>4
    <3> QED
      BY <2>2, <3>3, <3>4 DEF Agreeing
  <2> QED
    BY <1>3, <2>2, <2>3, <2>5, <2>8, <2>12, <2>13, <2>14, <2>15, <2>16, <2>17, <2>18 DEF Alone, Client, At
<1>12. ASSUME NEW t \in Threads, Close(t) PROVE LoginInv'
  <2>1. PICK n \in 0 .. Len(up[t]) : up' = [up EXCEPT ![t] = SubSeq(@, 1, n)]
    BY <1>12 DEF Close
  <2>2. /\ session[t] \in {"connecting", "on", "cut"}
        /\ session' = [session EXCEPT ![t] = IF @ = "on" THEN "closed" ELSE "none"]
        /\ mains' = [mains EXCEPT ![t] = 0] /\ registered' = [registered EXCEPT ![t] = FALSE]
        /\ currentUser' = [currentUser EXCEPT ![t] = NoName] /\ waiting' = [waiting EXCEPT ![t] = 0]
        /\ UNCHANGED <<vars, username, torn, down, presses>>
    BY <1>12 DEF Close
  <2>3. SubSeq(up[t], 1, n) \in Seq(Request) /\ (up[t] = <<>> => SubSeq(up[t], 1, n) = <<>>)
    <3>1. up[t] \in Seq(Request)
      BY <1>2 DEF ClientTypes
    <3> QED
      BY <3>1
  <2>4. /\ session'[t] = (IF session[t] = "on" THEN "closed" ELSE "none") /\ mains'[t] = 0
        /\ currentUser'[t] = NoName /\ waiting'[t] = 0 /\ up'[t] = SubSeq(up[t], 1, n)
        /\ \A s \in Threads \ {t} : /\ session'[s] = session[s] /\ mains'[s] = mains[s] /\ waiting'[s] = waiting[s]
                                    /\ currentUser'[s] = currentUser[s] /\ up'[s] = up[s]
    BY <1>2, <2>1, <2>2 DEF ClientTypes
  <2>5. ClientTypes'
    BY <1>2, <2>1, <2>2, <2>3 DEF ClientTypes
  <2>6. Goes /\ call' = call
    BY <1>4, <2>2 DEF Goes, vars
  <2>7. session'[t] \in {"closed", "none"} /\ 0 <= presses'
    BY <1>4, <2>2, <2>4
  <2>10. Counted(t)' /\ Opening(t)' /\ Agreeing(t)'
    BY <2>4, <2>7 DEF Counted, Opening, Agreeing
  <2>8. Ended(t)'
    BY <1>2, <2>2, <2>3, <2>4, <2>6 DEF Client, Ended, At
  <2>9. Believed(t)'
    BY <1>2, <2>2 DEF Client, Believed, LetIn, vars
  <2> QED
    BY <1>3, <2>2, <2>4, <2>5, <2>6, <2>8, <2>9, <2>10 DEF Alone, Client, At
<1>13. ASSUME NEW t \in Threads, Disconnected(t) PROVE LoginInv'
  <2>1. /\ session[t] = "closed" /\ up[t] = <<>> /\ At(t, "idle") /\ session' = [session EXCEPT ![t] = "none"]
        /\ username' = [username EXCEPT ![t] = NoName] /\ down' = [down EXCEPT ![t] = <<>>]
        /\ torn' = [torn EXCEPT ![t] = FALSE]
        /\ UNCHANGED <<vars, mains, registered, currentUser, up, presses, waiting>>
    BY <1>13 DEF Disconnected
  <2>2. /\ session'[t] = "none" /\ username'[t] = NoName /\ down'[t] = <<>>
        /\ \A s \in Threads \ {t} : session'[s] = session[s] /\ username'[s] = username[s] /\ down'[s] = down[s]
    BY <1>2, <2>1 DEF ClientTypes
  <2>3. Goes /\ call' = call
    BY <1>4, <2>1 DEF Goes, vars
  <2>4. ClientTypes'
    BY <1>2, <2>1 DEF ClientTypes
  <2>5. waiting[t] = 0 /\ currentUser[t] = NoName
    BY <1>2, <2>1 DEF Client, Counted, Ended
  <2>6. Counted(t)'
    <3>1. 0 <= presses'
      BY <1>4, <2>1
    <3> QED
      BY <2>1, <2>2, <2>5, <3>1 DEF Counted
  <2>7. Ended(t)' /\ Believed(t)' /\ Agreeing(t)'
    BY <2>1, <2>2, <2>3, <2>5 DEF Ended, Believed, Agreeing, At
  <2>8. Opening(t)'
    BY <1>2, <2>1, <2>3, StaysOpen DEF Client
  <2> QED
    BY <1>3, <2>1, <2>2, <2>3, <2>4, <2>6, <2>7, <2>8 DEF Alone, Client, At
<1>14. ASSUME NEW t \in Threads, NEW s \in {"connecting", "on", "cut"},
              session[t] = "none" \/ session[t] = "connecting", session' = [session EXCEPT ![t] = s],
              UNCHANGED <<vars, mains, registered, currentUser, username, up, torn, down, presses, waiting>>
       PROVE  LoginInv'
  <2>2. session'[t] = s /\ \A k \in Threads \ {t} : session'[k] = session[k]
    BY <1>2, <1>14 DEF ClientTypes
  <2>3. Goes /\ call' = call
    BY <1>4, <1>14 DEF Goes, vars
  <2>4. ClientTypes'
    BY <1>2, <1>14 DEF ClientTypes
  <2>5. /\ waiting[t] = 0 /\ currentUser[t] = NoName /\ username[t] = NoName
        /\ up[t] = <<>> /\ down[t] = <<>> /\ At(t, "idle")
    BY <1>2, <1>14 DEF Client, Counted, Ended
  <2>6. Counted(t)'
    <3>1. 0 <= presses' /\ Busy(t)' = 0
      BY <1>4, <1>14, <2>3, <2>5 DEF Busy, At
    <3>2. Len(up'[t]) = 0 /\ Len(down'[t]) = 0
      BY <1>14, <2>5
    <3> QED
      BY <1>14, <2>2, <2>5, <3>1, <3>2 DEF Counted
  <2>7. Ended(t)' /\ Believed(t)' /\ Agreeing(t)'
    BY <1>14, <2>2, <2>3, <2>5 DEF Ended, Believed, Agreeing, LastAccepted, At
  <2>8. Opening(t)'
    BY <1>2, <1>14, <2>3, StaysOpen DEF Client
  <2> QED
    BY <1>3, <1>14, <2>2, <2>3, <2>4, <2>6, <2>7, <2>8 DEF Alone, Client, At
<1>18. ASSUME NEW t \in Threads, Start(t) \/ Connected(t) PROVE LoginInv'
  BY <1>14, <1>18 DEF Start, Connected
<1>19. ASSUME NEW t \in Threads, Lose(t) PROVE LoginInv'
  <2>1. /\ At(t, "idle") /\ up[t] # <<>> /\ up' = [up EXCEPT ![t] = Tail(@)]
        /\ waiting' = IF session[t] = "on" THEN [waiting EXCEPT ![t] = @ - 1] ELSE waiting
        /\ UNCHANGED <<vars, client, username, down, presses>>
    BY <1>19 DEF Lose
  <2>2. /\ Len(up[t]) > 0 /\ Tail(up[t]) \in Seq(Request) /\ Len(Tail(up[t])) = Len(up[t]) - 1
    BY <1>2, <2>1, Taken DEF ClientTypes
  <2>3. /\ up' \in [Threads -> Seq(Request)] /\ Len(up'[t]) = Len(up[t]) - 1
        /\ \A s \in Threads \ {t} : up'[s] = up[s]
    BY <1>2, <2>1, <2>2 DEF ClientTypes
  <2>4. Goes /\ call' = call /\ Busy(t)' = Busy(t)
    BY <1>4, <2>1 DEF Goes, vars, Busy, At
  <2>5. session[t] = "on" => waiting[t] = Len(up[t]) + Len(down[t]) + Busy(t)
    BY <1>2 DEF Client, Counted
  <2>6. PICK x \in Nat, y \in Nat, z \in Nat, w \in Nat :
          x = Len(up[t]) /\ y = Len(down[t]) /\ z = Busy(t) /\ w = waiting[t]
    BY <1>4
  <2>7. /\ session[t] = "on" => w - 1 \in Nat /\ w - 1 = (x - 1) + y + z
        /\ w - 1 <= presses /\ w <= presses
    <3>1. PICK p \in Nat : p = presses /\ w <= p
      BY <1>4, <2>6
    <3>2. x > 0 /\ (session[t] = "on" => w = x + y + z)
      BY <2>2, <2>5, <2>6
    <3>3. x \in Nat /\ y \in Nat /\ z \in Nat /\ w \in Nat
      BY <2>6
    <3>4. w - 1 <= p
      BY <3>1, <3>3
    <3>5. session[t] = "on" => w - 1 \in Nat /\ w - 1 = (x - 1) + y + z
      BY <3>2, <3>3
    <3> QED
      BY <3>1, <3>4, <3>5
  <2>8. /\ waiting' \in [Threads -> Nat]
        /\ waiting'[t] = (IF session[t] = "on" THEN w - 1 ELSE w)
        /\ \A s \in Threads \ {t} : waiting'[s] = waiting[s]
    BY <1>2, <2>1, <2>6, <2>7 DEF ClientTypes
  <2>9. torn' \in [Threads -> BOOLEAN]
    BY <1>2, <1>19 DEF Lose, ClientTypes
  <2>10. ClientTypes'
    BY <1>2, <2>1, <2>3, <2>8, <2>9 DEF ClientTypes, client
  <2>11. Counted(t)'
    <3>1. waiting'[t] <= presses'
      BY <2>1, <2>7, <2>8
    <3>2. session'[t] = "on" => waiting'[t] = Len(up'[t]) + Len(down'[t]) + Busy(t)'
      BY <2>1, <2>3, <2>4, <2>6, <2>7, <2>8 DEF client
    <3>3. session'[t] \in {"connecting", "closed", "none"} => waiting'[t] = 0
      BY <1>2, <2>1, <2>6, <2>8 DEF Client, Counted, client
    <3> QED
      BY <3>1, <3>2, <3>3 DEF Counted
  <2>12. Ended(t)' /\ Believed(t)' /\ Agreeing(t)'
    BY <1>2, <2>1, <2>4 DEF Client, Ended, Believed, Agreeing, LetIn, LastAccepted, NoneAccepted, client, vars
  <2>13. Opening(t)'
    BY <1>2, <2>1, <2>4, StaysOpen DEF Client, client
  <2> QED
    BY <1>3, <2>1, <2>3, <2>4, <2>8, <2>10, <2>11, <2>12, <2>13 DEF Alone, Client, client, At
<1>15. CASE Others
  <2>1. UNCHANGED <<client, username, up, torn, down, presses, waiting, call, admitted>>
    BY <1>15 DEF Others, OtherTransaction
  <2>2. Goes
    BY <1>2, <2>1, PressBound DEF Goes, ClientTypes
  <2>3. ClientTypes'
    BY <1>2, <2>1 DEF ClientTypes, client
  <2>4. \A s \in Threads : Alone(s)
    BY <2>1 DEF Alone, client, At
  <2> QED
    BY <1>1, <2>2, <2>3, <2>4, AloneKeeps DEF LoginInv
<1>16. CASE UNCHANGED loginVars
  <2>1. UNCHANGED <<client, username, up, torn, down, presses, waiting, call, admitted>>
    BY <1>16 DEF loginVars, vars
  <2>2. Goes
    BY <1>2, <2>1, PressBound DEF Goes, ClientTypes
  <2>3. ClientTypes'
    BY <1>2, <2>1 DEF ClientTypes, client
  <2>4. \A s \in Threads : Alone(s)
    BY <2>1 DEF Alone, client, At
  <2> QED
    BY <1>1, <2>2, <2>3, <2>4, AloneKeeps DEF LoginInv
<1>17. CASE ServerRestart
  <2>1. /\ call' = [t \in Threads |-> Idle] /\ admitted' = admitted
        /\ session' = [t \in Threads |-> CASE session[t] = "on" -> "cut" [] session[t] = "closed" -> "none"
                                           [] OTHER -> session[t]]
        /\ username' = [t \in Threads |-> NoName] /\ up' = NoMessages /\ down' = NoMessages
        /\ torn' = [t \in Threads |-> FALSE]
        /\ UNCHANGED <<mains, registered, currentUser, presses, waiting>>
    BY <1>17 DEF ServerRestart, Restart
  <2>2. Goes
    BY <1>2, <2>1, PressBound DEF Goes, ClientTypes
  <2>3. ASSUME NEW t \in Threads
        PROVE  /\ session'[t] \in {"connecting", "cut", "none"}
               /\ session'[t] = "none" => session[t] \in {"closed", "none"}
               /\ session'[t] = "connecting" => session[t] = "connecting"
               /\ username'[t] = NoName /\ up'[t] = <<>> /\ down'[t] = <<>> /\ At(t, "idle")'
    BY <1>2, <2>1 DEF ClientTypes, NoMessages, At, Idle
  <2>4. ClientTypes'
    <3>1. session' \in [Threads -> {"connecting", "on", "cut", "closed", "none"}]
      BY <2>1, <2>3
    <3>2. up' \in [Threads -> Seq(Request)] /\ down' \in [Threads -> Seq(Response)]
      BY <2>1 DEF NoMessages
    <3> QED
      BY <1>2, <2>1, <3>1, <3>2 DEF ClientTypes
  <2>5. ASSUME NEW t \in Threads PROVE Client(t)'
    <3>1. Counted(t)'
      BY <1>2, <2>1, <2>3 DEF Client, Counted
    <3>2. Ended(t)'
      BY <1>2, <2>1, <2>3 DEF Client, Ended
    <3>3. Believed(t)' /\ Agreeing(t)'
      BY <2>3 DEF Believed, Agreeing
    <3>4. Opening(t)'
      BY <1>2, <2>1, <2>2, StaysOpen DEF Client
    <3> QED
      BY <3>1, <3>2, <3>3, <3>4 DEF Client
  <2> QED
    BY <1>1, <2>4, <2>5 DEF LoginInv
<1> QED
  BY <1>5, <1>6, <1>7, <1>8, <1>9, <1>10, <1>11, <1>12, <1>13, <1>15, <1>16, <1>17, <1>18, <1>19
     DEF LoginNext, Thread

LEMMA LoginStarts == LoginInit => LoginInv
<1> SUFFICES ASSUME LoginInit PROVE LoginInv
  OBVIOUS
<1>1. IInv
  BY InitHolds DEF LoginInit
<1>2. ClientTypes
  BY PressBound DEF LoginInit, ClientTypes, NoMessages
<1>3. ASSUME NEW t \in Threads PROVE Client(t)
  <2>1. /\ session[t] = "none" /\ mains[t] = 0 /\ currentUser[t] = NoName /\ username[t] = NoName
        /\ up[t] = <<>> /\ down[t] = <<>> /\ presses = 0 /\ waiting[t] = 0 /\ At(t, "idle")
    BY DEF LoginInit, NoMessages, Init, At, Idle
  <2>2. Len(up[t]) = 0 /\ Len(down[t]) = 0 /\ Busy(t) = 0
    BY <2>1 DEF Busy
  <2>3. Counted(t)
    BY <2>1, <2>2 DEF Counted
  <2> QED
    BY <2>1, <2>3 DEF Client, Ended, Opening, Believed, Agreeing, LastAccepted
<1> QED
  BY <1>1, <1>2, <1>3 DEF LoginInv

LEMMA LoginInvHolds == LoginSpec => []LoginInv
<1> QED
  BY LoginStarts, LoginKeeps, PTL DEF LoginSpec

\* The login windows, their connections and the threads behind them have their
\* types: no more answers come than buttons were pressed, and a window is opened
\* by a button.
THEOREM LoginTypes == LoginSpec => []LoginTypeOK
<1>1. LoginInv => LoginTypeOK
  <2> SUFFICES ASSUME LoginInv PROVE LoginTypeOK
    OBVIOUS
  <2>1. TypeOK /\ ClientTypes /\ presses \in 0 .. MaxPresses /\ MaxPresses \in Nat
    BY PressBound DEF LoginInv, IInv, ClientTypes
  <2>2. \A t \in Threads : mains[t] \in 0 .. MaxPresses /\ waiting[t] \in 0 .. MaxPresses
    <3> SUFFICES ASSUME NEW t \in Threads
                 PROVE  mains[t] \in 0 .. MaxPresses /\ waiting[t] \in 0 .. MaxPresses
      OBVIOUS
    <3>1. waiting[t] \in Nat /\ waiting[t] <= presses /\ mains[t] \in {0, 1} /\ (mains[t] = 1 => presses > 0)
      BY DEF LoginInv, ClientTypes, Client, Counted, Opening
    <3> QED
      BY <2>1, <3>1
  <2>3. mains \in [Threads -> 0 .. MaxPresses] /\ waiting \in [Threads -> 0 .. MaxPresses]
    BY <2>1, <2>2 DEF ClientTypes
  <2> QED
    BY <2>1, <2>3 DEF LoginTypeOK, ClientTypes
<1> QED
  BY <1>1, LoginInvHolds, PTL

\* Once the answers are shown, the client acts for the user whose name its
\* thread has, however many logins, of whatever users, were pressed meanwhile,
\* and whatever the server's end or the client's took away.
THEOREM EndsAgree == LoginSpec => []IdentityAgrees
<1>1. LoginInv => IdentityAgrees
  BY DEF LoginInv, Client, Agreeing, NoneAccepted, Quiet, IdentityAgrees
<1> QED
  BY <1>1, LoginInvHolds, PTL

\* No client opens two main windows, and none for a user without the password.
THEOREM WindowIsEarned == LoginSpec => []OneMainWindow
<1>1. LoginInv => OneMainWindow
  BY DEF LoginInv, Client, Opening, LetIn, OneMainWindow
<1> QED
  BY <1>1, LoginInvHolds, PTL

\* What happens between clients and threads is a behaviour of Accounts, so what
\* is true of Accounts (that a password is kept, and the promise) is true of it.
THEOREM LoginIsAccounts == LoginSpec => Spec /\ PasswordKept /\ PromiseKept
<1>1. LoginInit => Init
  BY DEF LoginInit
<1>2. LoginInv /\ [LoginNext]_loginVars => [Next]_vars
  BY LoginStep
<1>3. LoginSpec => Spec
  BY <1>1, <1>2, LoginInvHolds, PTL DEF LoginSpec, Spec
<1> QED
  BY <1>3, PasswordsAreKept, RegistrationIsAtomic
=============================================================================

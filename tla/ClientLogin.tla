---------------------------- MODULE ClientLogin ----------------------------
(***************************************************************************)
(* The login window of each client (AuthViewModel, its controllers and     *)
(* UserManager), its connection, and the thread of the server behind it,   *)
(* whose statements are those of module Accounts.  What a login does to    *)
(* the registry of connections is in module Sessions.                      *)
(*                                                                         *)
(* The buttons look at authViewModel.isLoading, which AuthViewModel does   *)
(* not have: they are never disabled while a request is under way.         *)
(***************************************************************************)
EXTENDS Accounts, Sequences, Naturals

CONSTANTS
  NoName,      \* the empty user name
  MaxPresses   \* bound: buttons pressed

ASSUME NoNameIsNone == NoName \notin Names
ASSUME PressBound == MaxPresses \in Nat

VARIABLES
  session,     \* of each thread's client: "connecting", "on", "cut" (there is no
               \* connection), "closed" (the client is, the server still reads), "none"
  mains,       \* main windows it has opened; the login window closes at the first
  registered,  \* m_registered
  currentUser, \* m_currentUser of UserManager
  username,    \* m_username of the thread's ClientHandler
  up,          \* requests on their way to the server
  torn,        \* the server's buffer holds a request without its newline
  down,        \* responses on their way to the client
  presses,     \* counter for the bound
  waiting      \* history: answers each open client waits for, those to requests
               \* thrown away excepted

client == <<session, mains, registered, currentUser>>
loginVars == <<vars, client, username, up, torn, down, presses, waiting>>

\* createLoginRequest and createRegisterRequest.
Request == [op : {"login", "register"}, name : Names, pw : Passwords]

\* createLoginResponse and createRegisterResponse.
Response ==
  [type : {"LOGIN_RESPONSE"}, success : BOOLEAN, username : Names \cup {NoName}]
    \cup [type : {"REGISTER_RESPONSE"}, success : BOOLEAN]

LoginTypeOK ==
  /\ TypeOK
  /\ session \in [Threads -> {"connecting", "on", "cut", "closed", "none"}]
  /\ mains \in [Threads -> 0 .. MaxPresses]
  /\ registered \in [Threads -> BOOLEAN]
  /\ currentUser \in [Threads -> Names \cup {NoName}]
  /\ username \in [Threads -> Names \cup {NoName}]
  /\ up \in [Threads -> Seq(Request)]
  /\ torn \in [Threads -> BOOLEAN]
  /\ down \in [Threads -> Seq(Response)]
  /\ presses \in 0 .. MaxPresses
  /\ waiting \in [Threads -> 0 .. MaxPresses]

NoMessages == [t \in Threads |-> <<>>]

LoginInit ==
  /\ Init
  /\ session = [t \in Threads |-> "none"]
  /\ mains = [t \in Threads |-> 0]
  /\ registered = [t \in Threads |-> FALSE]
  /\ currentUser = [t \in Threads |-> NoName]
  /\ username = [t \in Threads |-> NoName]
  /\ up = NoMessages /\ down = NoMessages
  /\ torn = [t \in Threads |-> FALSE]
  /\ presses = 0
  /\ waiting = [t \in Threads |-> 0]

-----------------------------------------------------------------------------
\* A client is started: connectToServer, which returns at once.
Start(t) ==
  /\ session[t] = "none"
  /\ session' = [session EXCEPT ![t] = "connecting"]
  /\ UNCHANGED <<vars, mains, registered, currentUser, username, up, torn, down, presses, waiting>>

\* onConnected; or onErrorOccurred, and nothing tries again.
Connected(t) ==
  /\ session[t] = "connecting"
  /\ \E s \in {"on", "cut"} : session' = [session EXCEPT ![t] = s]
  /\ UNCHANGED <<vars, mains, registered, currentUser, username, up, torn, down, presses, waiting>>

\* The login or the register button.  sendData writes nothing before the socket
\* is connected, and when the connection is gone.
Press(t, r) ==
  /\ session[t] \in {"connecting", "on", "cut"} /\ mains[t] = 0
  /\ presses < MaxPresses
  /\ presses' = presses + 1
  /\ IF session[t] = "on"
       THEN /\ up' = [up EXCEPT ![t] = Append(@, r)]
            /\ waiting' = [waiting EXCEPT ![t] = @ + 1]
       ELSE UNCHANGED <<up, waiting>>
  /\ UNCHANGED <<vars, client, username, torn, down>>

Tell(t, response) == down' = [down EXCEPT ![t] = Append(@, response)]

\* The thread takes the next request of the kind.
Takes(t, op) ==
  /\ At(t, "idle") /\ ~torn[t]
  /\ up[t] # <<>> /\ Head(up[t]).op = op
  /\ up' = [up EXCEPT ![t] = Tail(@)]

\* onReadyRead throws away a chunk of white space, the newline of a request too
\* (module Framing): this one is joined with the next, and the two are no JSON.
Lose(t) ==
  /\ At(t, "idle")
  /\ up[t] # <<>>
  /\ up' = [up EXCEPT ![t] = Tail(@)]
  /\ \E joins \in (IF torn[t] THEN BOOLEAN ELSE {TRUE}) : torn' = [torn EXCEPT ![t] = joins]
  /\ waiting' = IF session[t] = "on" THEN [waiting EXCEPT ![t] = @ - 1] ELSE waiting
  /\ UNCHANGED <<vars, client, username, down, presses>>

ServeRegister(t) ==
  /\ Takes(t, "register")
  /\ Register(t, Head(up[t]).name, Head(up[t]).pw)
  /\ UNCHANGED <<client, username, torn, down, presses, waiting>>

Statement(t) ==
  /\ Check(t) \/ Insert(t)
  /\ UNCHANGED <<client, username, up, torn, down, presses, waiting>>

AnswerRegister(t) ==
  /\ Reply(t)
  /\ Tell(t, [type |-> "REGISTER_RESPONSE", success |-> call[t].ok])
  /\ UNCHANGED <<client, username, up, torn, presses, waiting>>

\* Mutant: the handler keeps the first name.
ServeLogin_KeepsName(t) ==
  LET n == Head(up[t]).name IN
  /\ Takes(t, "login")
  /\ Login(t, n, Head(up[t]).pw)
  /\ Tell(t, [type |-> "LOGIN_RESPONSE", success |-> TRUE, username |-> n])
  /\ username' = [username EXCEPT ![t] = IF @ = NoName THEN n ELSE @]
  /\ UNCHANGED <<client, torn, presses, waiting>>

\* handleLogin: the response, and then onLoginSuccess takes the name over.
ServeLogin(t) ==
  LET n == Head(up[t]).name IN
  /\ Takes(t, "login")
  /\ Login(t, n, Head(up[t]).pw)
  /\ Tell(t, [type |-> "LOGIN_RESPONSE", success |-> TRUE, username |-> n])
  /\ username' = [username EXCEPT ![t] = n]
  /\ UNCHANGED <<client, torn, presses, waiting>>

\* Mutant: a refusal names no user.
RefuseLogin_NoField(t) ==
  /\ Takes(t, "login")
  /\ Tell(t, [type |-> "LOGIN_RESPONSE", success |-> FALSE])
  /\ UNCHANGED <<vars, client, username, torn, presses, waiting>>

\* The password is wrong, there is no account, or the query fails.
RefuseLogin(t) ==
  /\ Takes(t, "login")
  /\ Tell(t, [type |-> "LOGIN_RESPONSE", success |-> FALSE, username |-> NoName])
  /\ UNCHANGED <<vars, client, username, torn, presses, waiting>>

-----------------------------------------------------------------------------
\* Mutant: loggedInChanged at every setLoggedIn.
Opened_Always(t) == mains[t] + 1

\* setLoggedIn(true): loggedInChanged, once, for nothing resets m_loggedIn.
Opened(t) == IF mains[t] = 0 THEN 1 ELSE mains[t]

\* Mutant: "success" is not looked at.
ShowLogin_Anyway(t) ==
  /\ Head(down[t]).type = "LOGIN_RESPONSE"
  /\ currentUser' = [currentUser EXCEPT ![t] = Head(down[t]).username]
  /\ mains' = [mains EXCEPT ![t] = Opened(t)]
  /\ UNCHANGED registered

\* handleLoginResponse; a refusal changes the message only.
ShowLogin(t) ==
  /\ Head(down[t]).type = "LOGIN_RESPONSE"
  /\ IF Head(down[t]).success
       THEN /\ currentUser' = [currentUser EXCEPT ![t] = Head(down[t]).username]
            /\ mains' = [mains EXCEPT ![t] = Opened(t)]
       ELSE UNCHANGED <<currentUser, mains>>
  /\ UNCHANGED registered

\* handleRegisterResponse
ShowRegister(t) ==
  /\ Head(down[t]).type = "REGISTER_RESPONSE"
  /\ registered' = [registered EXCEPT ![t] = Head(down[t]).success]
  /\ UNCHANGED <<currentUser, mains>>

Show(t) ==
  /\ session[t] = "on"
  /\ down[t] # <<>>
  /\ ShowLogin(t) \/ ShowRegister(t)
  /\ down' = [down EXCEPT ![t] = Tail(@)]
  /\ waiting' = [waiting EXCEPT ![t] = @ - 1]
  /\ UNCHANGED <<vars, session, username, up, torn, presses>>

\* The client is closed.  The server reads the requests that have arrived, or
\* loses them; the responses are lost.
Close(t) ==
  /\ session[t] \in {"connecting", "on", "cut"}
  /\ session' = [session EXCEPT ![t] = IF @ = "on" THEN "closed" ELSE "none"]
  /\ \E n \in 0 .. Len(up[t]) : up' = [up EXCEPT ![t] = SubSeq(@, 1, n)]
  /\ mains' = [mains EXCEPT ![t] = 0]
  /\ registered' = [registered EXCEPT ![t] = FALSE]
  /\ currentUser' = [currentUser EXCEPT ![t] = NoName]
  /\ waiting' = [waiting EXCEPT ![t] = 0]
  /\ UNCHANGED <<vars, username, torn, down, presses>>

\* onDisconnected, once the server has read everything.
Disconnected(t) ==
  /\ session[t] = "closed" /\ up[t] = <<>> /\ At(t, "idle")
  /\ session' = [session EXCEPT ![t] = "none"]
  /\ username' = [username EXCEPT ![t] = NoName]
  /\ torn' = [torn EXCEPT ![t] = FALSE]
  /\ down' = [down EXCEPT ![t] = <<>>]
  /\ UNCHANGED <<vars, mains, registered, currentUser, up, presses, waiting>>

Others == OtherTransaction /\ UNCHANGED <<client, username, up, torn, down, presses, waiting>>

\* The server ends and is started again; the clients do not reconnect.
ServerRestart ==
  /\ Restart
  /\ session' = [t \in Threads |-> CASE session[t] = "on" -> "cut" [] session[t] = "closed" -> "none"
                                     [] OTHER -> session[t]]
  /\ username' = [t \in Threads |-> NoName]
  /\ up' = NoMessages /\ down' = NoMessages
  /\ torn' = [t \in Threads |-> FALSE]
  /\ UNCHANGED <<mains, registered, currentUser, presses, waiting>>

Thread(t) ==
  ServeRegister(t) \/ Statement(t) \/ AnswerRegister(t) \/ ServeLogin(t) \/ RefuseLogin(t) \/ Lose(t)

LoginNext ==
  \/ \E t \in Threads :
       \/ Thread(t) \/ Show(t) \/ Start(t) \/ Connected(t) \/ Close(t) \/ Disconnected(t)
       \/ \E r \in Request : Press(t, r)
  \/ Others
  \/ ServerRestart

LoginSpec == LoginInit /\ [][LoginNext]_loginVars

\* Event loops go on, of the server's threads and of the clients.
FairSpec == LoginSpec /\ \A t \in Threads : WF_loginVars(Thread(t)) /\ WF_loginVars(Show(t))

-----------------------------------------------------------------------------
\* Nothing is on its way between the client and its thread.
Quiet(t) == session[t] = "on" /\ up[t] = <<>> /\ down[t] = <<>> /\ At(t, "idle")

\* The two ends of a connection agree on its user when all answers are shown,
\* however many logins were pressed before the first answer: messages and friend
\* requests go to the user whose window is open.
IdentityAgrees == \A t \in Threads : Quiet(t) => currentUser[t] = username[t]

\* The main window opens once, although every accepted login sets m_loggedIn,
\* and only for a user whom the server let in.
OneMainWindow ==
  \A t \in Threads :
    /\ mains[t] <= 1
    /\ mains[t] = 1 => \E pw \in Passwords : <<currentUser[t], pw>> \in admitted

\* A button pressed on an open connection gets its answer, unless the connection
\* is lost or the client is closed before, or the server has thrown the request
\* away.
Answered ==
  \A t \in Threads : waiting[t] > 0 ~> waiting[t] = 0 \/ session[t] # "on"

\* The user of an open main window is the one it was opened for.  TLC refutes it:
\* of two logins pressed before the first answer, the second one's user takes
\* over, and the lists on the screen belong to the first.
UserStays ==
  [][\A t \in Threads : mains[t] = 1 /\ mains'[t] = 1 => currentUser'[t] = currentUser[t]]_loginVars
=============================================================================

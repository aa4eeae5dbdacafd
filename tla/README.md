# SocketChatter: a formal model

SocketChatter is a LAN chat. A Qt/C++ server (`src/Server`) keeps accounts, friend requests, friendships, groups and messages
in an SQLite file and serves each TCP connection on a thread of its own; a Qt/QML client (`src/Client`) sends it
newline-terminated JSON requests and shows what comes back. This directory models the program in TLA+, checks the
models with TLC and proves theorems about them, for all values of the constants, with TLAPS.

## 1. Inventory

### Server

| Component | State | Operations | Interacts with |
|---|---|---|---|
| `ServerController`, `ConnectionManager` | `m_clients`: user name -> handler, shared by all threads, no lock | accept, `addClient`, `removeClient`, `sendMessageToClient` | every `ClientHandler`, through direct calls and the queued signal `messageToClient` |
| `ClientHandler` (one per connection, own thread) | socket, read buffer, `m_username` | `onReadyRead`, `handleMessage`, `onLoginSuccess`, `onDisconnected`, `cleanup` | dispatcher (calls), connection manager |
| `RequestDispatcher`, `BaseHandler` | request type -> handler | `dispatch` | the four request handlers |
| `AuthHandler`, `UserRepository` | table `users` | register, login | `ClientHandler::onLoginSuccess` by a direct signal |
| `ContactHandler`, `ContactRepository` | tables `friend_requests`, `friends` | send, cancel, answer a request, delete a friend, five fetches | notifications to the other user |
| `MessageHandler`, `MessageRepository` | table `messages` | send, fetch a conversation | notification to the receiver |
| `GroupHandler`, `GroupRepository` | tables `groups`, `group_members`, `group_invitations` | create, delete, invite, answer an invitation, fetch | notifications |
| `DatabaseManager` | one `QSqlDatabase` connection, used by every thread | `init` runs `schema.sql` at each start, its result ignored | all repositories |

### Client

| Component | State | Operations |
|---|---|---|
| `NetworkController`, `ResponseDispatcher` | socket, read buffer | framing of incoming lines, dispatch by type; never reconnects |
| `AuthController`, `AuthViewModel`, `UserManager`, `AuthWindow.qml` | current user, logged-in flag | login, register, opening the main window |
| `ContactsController`, `ContactViewModel` | friends, sent and received requests (caches of the server's tables) | buttons, responses, notifications |
| `MessagesController`, `ConversationViewModel` | current receiver, messages shown | open a conversation, send, responses, notifications |
| `GroupsController`, `GroupViewModel`, `ManageGroupsPage.qml` | groups, invitations (caches again) | create, invite, fetch; answers and deletions cannot be reached |

## 2. What is hard here, and what makes each part correct

* Threads without locks: `m_clients` and the one database connection are used by every worker thread. Correct: a user
  with one session can be notified as long as it lasts; a transaction belongs to the thread that began it.
* Queued events: notifications pass through the receiver's event queue while responses are written directly. Correct:
  no notification is lost, duplicated or given to somebody else; a client's view converges to the tables.
* Tear-down: `onDisconnected` and `cleanup` may run in the event loop or in the middle of a request. Correct: no entry of
  a dead handler stays behind, the handler is freed.
* Transactions: BEGIN, UPDATE, DELETE, COMMIT of one thread interleave with statements of another on the same
  connection; a statement or COMMIT may fail; the process may stop. Correct: no half of an acceptance survives.
* Check, then act: register, addClient, friend requests and group invitations check in one statement and act in
  another. Correct: one account per name, whoever registers at the same time.
* Framing: requests arrive in arbitrary chunks. Correct: what is dispatched is what was sent, in order.
* Caches without a refresh: the client fetches its lists once and keeps them up by responses and notifications, and sends what its
  buttons say before anything is answered. Correct: lists and tables agree when nothing is on its way; both ends of a
  connection agree on the user; no friendship arises that one of the two did not ask for and the other accept.
* The restart of the server: clients stay open without a connection, and `init` drops `group_members`, or rolls that back. Correct:
  what the client checks against its lists is still what the server finds in its tables.

### Hazards and limits of the code met on the way

`PROJECT.json` lists the hazards, each at its line, with the properties about it. Where the code goes wrong, a definition
states what a document, a comment or a test of the repository says, and TLC refutes it (section 6).

## 3. Plan

Done:

1. `Sessions`: the registry, the life of a connection's handler and thread, and the routing of notifications, since everything
   else is delivered by it.
2. `SqliteConnection` with `ContactStore` and its promise `Contacts`; `Accounts` and its promise `Registry`: the shared
   connection, its transaction, check-then-act.
3. `Messaging` and `ContactSync`: what the users of two or three clients see, from button to screen.
4. `Framing`: the byte streams below all of it.
5. `GroupStore` and its promise `Groups`; `GroupSync`, the groups page of the clients on top of `GroupStore`.
6. `ClientLogin`: the login windows on top of `Accounts`.
7. Proofs about all of these: every safety property that a passing run checks is a theorem.

Left, in this order:

1. An abstract notification bus (sent, then delivered to the sole session or dropped), implemented by `Sessions`, and used
   in place of the one-step notifications of `Messaging`, `ContactSync` and `GroupSync`.
2. `ContactStore`, `Accounts` and the message table on one connection: which answers another component's transaction undoes.
3. Several sessions of a user, and sessions that come again, in `Messaging` and `ContactSync`.

## 4. Modules

| Module | Models | State | Actions |
|---|---|---|---|
| `Sessions` | `ConnectionManager`, `ClientHandler`, login | `phase`, `username` (`m_username`), `clients` (`m_clients`), `task` (where each thread is), `queue` (posted events), `wire` | one for each access to `m_clients`, each call, each event, each way a socket goes |
| `SqliteConnection` | the one `QSqlDatabase` connection (external) | `visible` (what queries see), `durable` (the file), `inTx`, `refused` | BEGIN, statement, COMMIT, ROLLBACK, with their failures |
| `ContactStore` | `ContactHandler`, `ContactRepository`: the requests that change tables | the connection's, and `call` of each thread | one for each SQL statement and response; restart |
| `Contacts` | what the contact tables promise | `tables`, `owed` | whole operations |
| `Accounts` | `AuthHandler`, `UserRepository`, with other threads' transactions | the connection's, `call`, `admitted` | check, insert, log in; restart |
| `Registry` | what accounts promise | `account`, `admitted` | register, admit |
| `Messaging` | `ConversationViewModel`, `MessageHandler`, `MessageRepository` | screens, both directions of each connection, threads, event queues, the table | open, send, store, notify, acknowledge, fetch, lose, deliver, show, close |
| `ContactSync` | `ContactViewModel`, its controllers, `ContactHandler` with its fetches, `updateRequestStatus` statement by statement | lists, connections, threads, event queues, tables, the transaction that all threads share | every button, statement, notification, answer; COMMITs that come too late; login, close |
| `ClientLogin` (extends `Accounts`) | `AuthViewModel`, its controllers, `UserManager`, `AuthWindow.qml`, `AuthHandler` | windows, current users, both directions of each connection, `username` of each thread | start, connect or fail to, press, serve, lose, answer, show; close, disconnect; restart of the server |
| `Framing` | `ClientHandler::onReadyRead`, `NetworkController::onReadyRead` | bytes on the wire, buffers, what was dispatched | send a line, read a chunk of any length, take a line, break |
| `GroupStore` | `GroupHandler`, `GroupRepository` | the three tables, `asked` and `step` of each user's thread | one for each SQL statement; restart |
| `Groups` | what the group tables promise each request | the tables, `asked`, `stage` | deletions, invitations and refusals whole, creations and acceptances in two steps; failure |
| `GroupSync` (instance of `GroupStore`) | `GroupViewModel`, its controllers, `ManageGroupsPage.qml`, `GroupHandler` | lists, connections, event queues, and the server's state | press, receive, each SQL statement, answer, fetch, deliver, show; login, close; restart of the server |

`MC*` modules define the symmetry sets and rows of the instances, `*Proofs` modules hold the theorems. A definition with
an underscore in its name (`Adopt_CheckInverted`) is a *mutant*: the operator of the name's first half with a plausible
bug, kept to show that the properties notice it.

How the parts fit together:

* The stores run statement by statement and are shown to implement their promises (`Promise == INSTANCE ...`, `PromiseKept`).
  `ContactSync` has the statements too, since those of two threads overlap in one transaction: the COMMIT of the one ends it for
  both, and the COMMIT of the other fails although its UPDATE was carried out. What a failing statement undoes is `ContactStore`'s part.
* `Groups` promises little, as the code does: a creation and an acceptance take effect in two steps, and one that fails after the first leaves
  it; who accepts is not asked, nor are the members of a deleted group. That only members invite and only creators delete, each at the moment
  it happens, and that a request is carried out once, for the user who made it, is what `PromiseKept` says.
* `GroupSync` and `ClientLogin` put clients and connections around the statement-level stores: a step of the server there is a step
  of the store together with the message that starts it or that it sends. `GroupSync` sends only what the client can send, which is why it
  keeps properties that `GroupStore` alone breaks (`MembersAreFounders`).
* `Sessions` has the steps of `addClient` and `sendMessageToClient`; `Messaging`, `ContactSync` and `GroupSync` use lookup and emission as one
  step, and a login that is over when it is registered, for users with one session, whom `SoleSessionNotified` covers.
* `Framing` shows in which sense a connection is a queue of messages. What it loses, the request whose newline comes as a chunk of its own and
  the one behind it, `ClientLogin` and `Messaging` lose as well (`Lose`); the other modules take the queue to be lossless.

### Assumptions

* Qt and SQLite are external. A statement on the shared connection is atomic (the driver's mutex), joins the open transaction
  if there is one, and may fail; BEGIN inside a transaction fails; a refused COMMIT leaves the transaction open; a crash undoes
  it. Foreign keys are off, as in every SQLite connection without the pragma, and nothing in the source sets it.
* Qt delivers the events posted to an object in order, and a thread's event loop runs one call at a time. Writing to a
  deleted socket is undefined: `DeliverDangling` of `Sessions` stands for what may come of it.
* In `Messaging`, messages with equal timestamps come back in the order of insertion, and the clock of one sender does not go
  back; the order between different senders is not looked at.
* In `ContactSync` a statement fails only if the shared transaction makes it (BEGIN in an open one, COMMIT without one), and failure
  responses, which the client only logs, are left out.
* In `ContactSync` and `GroupSync` no request is lost on an open connection.
* In `Messaging` a message may fail to be stored, and the query of a fetch may fail at any row: the answer has the rows before it.
* In `ClientLogin` a connection is made after the window is open, or never; what is pressed meanwhile is dropped by `sendData`.
* `DatabaseManager::init` may roll its schema back, and its result is not looked at: after a start `group_members` is empty, or as before.
* In `ClientLogin` an answer to a login may be a refusal at any time, since the query may fail; an acceptance needs the account.
* In `GroupStore`, `ContactSync` and `GroupSync` a user has one session. Two sessions of one creator would break `Groups`: one can
  delete and another user create the group between the check and the DELETE of the other.
* In `Framing` a line is an object of three bytes: a brace, a blank as may stand in a string, a brace. JSON that is broken in
  other ways is not sent by either side.

## 5. Runs

| Run | Instance | Shows |
|---|---|---|
| `SessionsNames` | 2 connections, 2 users, 2 notifications | a user with a sole session is registered; what registry entries of dead handlers come from; nobody reads another's notifications, although connections change names; nobody reads one twice, or two of one sender in the wrong order |
| `SessionsLive` | 2 connections, 1 user, 1 notification, fair | the notification is written to a sole session; handlers of lost connections are freed |
| `ContactsShared` | 3 threads, 1 row, COMMITs refused | no transaction is left open by any interleaving |
| `ContactsAlone` | 1 thread, both directions of a pair | answers are durable, the store implements `Contacts` through failures, crashes and restarts |
| `ContactsLost` | 2 threads, both directions | *refuted*: requests survive when two threads share the connection |
| `Login` | 2 clients, 2 names, 2 passwords, 2 buttons, transactions, fair | both ends of a connection agree on its user; one main window, for a user who was let in; first registration wins and stays; the store implements `Registry`; each button pressed on an open connection is answered, unless the server threw the request away |
| `MessagingViews` | 3 users, 2 messages, 3 conversations opened | nothing missing but what a fetch failed to bring, nothing invented, own order, at most twice |
| `MessagingLive` | 2 users, 2 messages, 2 opened, fair | stored messages get on the screen, unless their fetch failed or was lost |
| `ContactSync` | 2 users, 4 buttons | no request is missed and none is awaited in vain, but for calls answered with a failure; friend lists agree, all friends wanted each other |
| `Framing` | 3 lines each way, all chunks | order, completeness at the client, resynchronisation at the server |
| `Groups` | 3 users, 1 group | success responses are true; the store implements `Groups`: only creators delete, only members invite, each request once |
| `GroupSync` | 2 users, 2 groups, 3 buttons, 3 logins | lists hold only and all of what their users founded; the inviter is a member; members are founders |

The bounds are the smallest that let the interesting cases happen. Two connections are what it takes for one thread to run
between two accesses of another, and for a second session; three threads or users let two race while a third
holds a transaction or watches. Two messages make order and duplication visible, two conversations let an answer come late. Four
buttons are a request, two answers to it and a deletion, the shortest way to the refuted `FriendsAreFriends`, and also two requests that
cross and are both cancelled, so that one COMMIT fails. Three lines let one
be skipped, one be spoiled by it and one arrive. One group and one row suffice where all statements have a key in their WHERE
clause; `GroupSync` has two groups, so that the blank entry of one can be taken for the other. Two buttons are two logins before the
first answer, or a registration that races a login; three logins in `GroupSync` are a user who comes back next to another one.
In `SessionsNames` a second notification is sent only while there were at most two logins (the constraint `FewLoginsForTwoNotes`): enough for
two notifications of one sender to another connection or to itself. The order of any number is a theorem (`NotesStayInOrder`). The
restarts, failures, crashes and lost requests are unbounded.

`CHECK_DEADLOCK FALSE` stands where the system may come to rest: all connections or clients gone, or all bytes sent.

### Fairness

`Sessions`: a call that has begun goes on (weak fairness of `Call`); `onReadyRead` ends, because it goes over what one `readAll`
returned (strong fairness of `EndRead`, as the steps in between enable other reads); an event dispatcher hands out posted events in
each round (strong fairness of `TakeEvent`). Nothing is assumed of clients, of the network, or of connections being made.

`Messaging`: each server thread goes on while it has a request or notification (weak fairness of `Server`), each client shows
what has arrived (weak fairness of `Show`). Users need not do anything, and may close the client at any time. `ClientLogin` assumes the same
of each thread (`Thread`) and each client (`Show`); no statement is assumed to succeed, nor a connection to be made.

## 6. What is refuted

One run ends in a violation, of a sentence of the documentation. `ContactsLost`: `rollback()` undoes what other threads did on the shared
connection, after they answered.

TLC refutes the following definitions as well. To see how, name one as the INVARIANT or PROPERTY in a copy of the .cfg given.

| Definition | Configuration | The code |
|---|---|---|
| `OneSessionPerUser` (`Sessions`) | `SessionsNames` | `handleLogin` has no answer 2002 |
| `OnlineIsReachable` (`Sessions`) | `SessionsNames` | `removeClient` takes out the entry of a user, whoever's handler it is |
| `NoHalfAnswer` (`ContactStore`) | `ContactsLost` | BEGIN fails unnoticed, another COMMIT comes before the DELETE |
| `RequestSurvives` (`ContactStore`) | `ContactsAlone`, `MayRefuse = TRUE` | a refused COMMIT is not rolled back |
| `AcceptedAreFriends` (`ContactStore`) | `ContactsAlone` | the result of `addFriendship` is ignored |
| `OnlyPendingIsAccepted` (`ContactStore`) | `ContactsAlone` | the UPDATE looks at neither status nor row |
| `UserStays` (`ClientLogin`) | `Login` | the buttons look at `isLoading`, which `AuthViewModel` lacks: a second login takes the main window over |
| `AccountStays` (`Accounts`) | `Login` | a rollback of another thread takes the account back |
| `OnlyThisConversation` (`Messaging`) | `MessagingViews` | `addMessage` does not look at the sender |
| `FailureIsReported` (`Messaging`) | `MessagingViews` | the response always says success |
| `HistoryShown` (`Messaging`) | `MessagingViews` | a failed query is answered with an empty history, and nothing asks again |
| `FailedIsNotPending` (`ContactSync`) | `ContactSync` | a COMMIT fails after its UPDATE was committed by another thread: the request answered with a failure is pending |
| `FailedIsPending` (`ContactSync`) | `ContactSync` | the same of a cancellation: the request is gone, and nobody was told |
| `FriendsAreFriends` (`ContactSync`) | `ContactSync` | a late notification makes a friend again |
| `ServerGetsAll` (`Framing`) | `Framing` | a chunk of white space is thrown away |
| `NoOrphans` (`GroupStore`) | `Groups` | foreign keys are off, nothing cascades |
| `CreatorIsMember` (`GroupStore`) | `Groups` | a start may drop `group_members`; a half creation stays |
| `InvitationShown` (`GroupSync`) | `GroupSync` | `NotificationFactory.h:72` writes `inviter` and `invitee`, the client reads `from` and `to` |
| `GroupsAreListed` (`GroupSync`) | `GroupSync` | the rows of the answer are objects, the client reads strings |

## 7. Proofs

For all values of the constants, under the assumptions named in the modules (`NoneAssumption`, `NobodyIsNoUser`,
`NobodyIsNoRequest`, `RowIsNoString`, `SomeRows`, ... : no model value is two things, an object of an answer is not a string, the bounds
are numbers, users do not ask themselves). Each safety theorem comes from an inductive invariant, named in its module, which the
property follows from:

* `SessionsProofs`. `TypeCorrect`: the types, which already say which step is about which user and notification.
  `SoleSessionIsReachable` and `OnlyOwnerIsNotified` from the invariant `RegistryInv`: a login in progress is recorded
  (`LoginInProgress`), names come from logins (`NamesFromLogins`), a connection that alone logged in as its user is in the
  registry unless its thread is about to insert it (`SoleLoginRegistered`), and connections not made yet do nothing
  (`FreshIsIdle`). `SoleSessionReachable` is not inductive without them: in a state where another connection has the name without a
  login, its disconnection would take the entry. `NotesStayInOrder` from `FlowInv`: what is written to a connection comes before what
  waits in its queue, and a thread has at most one notification to emit, newer than all its others. `GhostsAreExplained` from
  `TornDown` (only connections that are gone clean up) and `AdoptedInv` (a thread past the check of `addClient` knows whether its
  connection was there).
* `ContactStoreProofs`. `TypeCorrect`, and `QuietStoreIsDurable` for any number of threads: outside a transaction the
  file is what can be read (`AutoCommit`), and an open transaction has a thread inside `updateRequestStatus`, unless a COMMIT was
  refused (`TransactionOwned`). The other three are about one thread and a database that refuses no COMMIT, and both hypotheses are
  needed: `ContactsLost` refutes what they say for two threads. `OneThreadKeepsPromise`: `ContactStore` implements `Contacts`. Inside a
  transaction the file stands still while the visible tables run ahead by what the call has done so far (`Progress`); the commit is the
  abstract step, every other step a stutter. `SuccessIsDurable` and `OneThreadLosesNothing` add what the call has to show for itself at each
  of its steps (`OnItsWay`) and that it touches no row but its own (`Apart`).
* `AccountsProofs`. `TypeCorrect`; `PasswordsAreKept`: whatever is in the file is visible (`Extended`), so an INSERT of the same name
  fails; `RegistrationIsAtomic`: each step outside transactions is a step of `Registry`, or a stutter. For the login windows:
  `LoginTypes`; `EndsAgree` and `WindowIsEarned` from `LoginInv`. The client waits for as many answers as are asked for, being made, or on
  their way (`Counted`), nothing is left of a connection that is gone, or not made yet (`Ended`), an acceptance on its way is of somebody who was let in
  (`Believed`), and the last one names whom the handler has (`Agreeing`): the two ends agree when none is on its way because until then it is the
  last acceptance that agrees with the handler. `LoginIsAccounts`: the clients only restrict `Accounts`, so what is proved of it holds with them.
* `GroupStoreProofs`. `TypeCorrect`; `AnswersAreTrue`; `RequestsKeepPromise`: `GroupStore` implements `Groups`, with `Stage` mapping the
  steps of a thread to the stages of its request. The invariant says that what a thread has found out stays true until it acts
  (`FoundOutHolds`) and which steps belong to which request (`OpsFit`).
* `ContactSyncProofs`. `TypeCorrect`; `FriendsWantedIt` from `ConsentInv`: every request, message, notification and half-done request
  tells the truth about what was asked and accepted (`Honest`), so does every pending row (`PendingAsked`), and nobody asked himself
  (`AskedAnother`). Friendships alone are not inductive: an acceptance on its way needs the request that its button stood beside.
  `NoRequestOverlooked`, `NoAnswerLost` and `FriendsInStep` from `ListsInv`. The lists may differ from the tables while messages are on
  their way, so the invariant is about what these will do: an entry is `Synced` when behind every message that would get it wrong there
  comes one that puts it right (`Settled`), and it is right now, or a query for the list is under way, or the message that puts it right
  is still to come. Three facts hold this up: an answer that takes a request off the list comes behind the notification that put it there
  (`Ending` in `ReceivedInv`), one that puts a sent request on it comes before the notification that the request is over (`Late` in
  `SentInv`), and nothing about a friendship that was never ended takes anybody off a list, or puts on it whom the tables do not know
  (`StrangerInv`). The messages that are still to come include those of calls inside `updateRequestStatus` (`Asking`, `Answering`); a call whose
  COMMIT fails never sends them, hence the exceptions for `refused` in the two properties. Ended friendships are excepted (`deleted`), as their late notifications do what `FriendsAreFriends` is refuted by.
* `MessagingProofs`. `TypeCorrect`. `ShownCorrect` and `OwnCorrect` from `OrderInv`: requests, the thread's message, notifications and answers
  agree with the table, and a sender's acknowledgement comes behind everything older of his, on the screen and on the way to it
  (`AnswersTrue`). What a fetch returns is in the order of its ids by the least place at which it is not (well-founded induction on a set,
  without an operator parameter: `WFMin`). `TwiceCorrect` from `NotesInv`: the notification of a message is in one place at a time, and as
  long as it is on its way its message is on the screen once at most, by a history. `NothingIsMissing` from `CoverInv`: the last fetch on its way is for
  the conversation that is open (`FetchInv`), and with none on its way each message of that conversation is covered, by a
  notification, an acknowledgement or a history still to come or by the screen, with no later history that lacks it,
  unless it was stored when that fetch was lost or failed (`missed`).
* `GroupSyncProofs`. `TypeCorrect`; `OnlyFounders` from `ServerInv`: a creation that has got as far as `group_members` has its row in
  `groups`, and no other request that a client can send makes a member. `ListsAreOwn`, `InvitersAreMembers` and `FoundersSeeTheirs` from
  `ClientInv` besides: listed groups have the user as a member or are the blank entry that stands for one (`Listed`, `OwnListed`),
  a group founded is listed or its response is still to come (`Promised`), and an invitation on its way is from a member (`Inviting`).
  A restart that drops `group_members` ends all sessions first: the lists are compared with it only while they last.
* `FramingProofs`. `TypeCorrect`; `LinesStayWhole`, `ClientMissesNothing` and `ServerFindsItsWay`, for streams of any length and any
  chunks. Every byte has its place in the stream (`Pos`). At the client the buffer holds exactly the bytes that follow the lines dispatched
  (`DownInv`). At the server there is a number of bytes read and a number of lines done with (`UpInv`) such that the buffer has the bytes
  between them in order, but for those thrown away (`Buffered`, `Complete`), which are blanks and newlines (`Skipped`); dispatched lines are whole but for
  blanks, and a line that was not dispatched stands next to a newline thrown away (`Dispatched`, `Accounted`).

Only model-checked: the liveness properties `SoleSessionNotified`, `HandlerFreed`, `Answered` and `MessageShown`, as fairness is out of
the prover's reach.

## 8. Not modelled

Layout, logging, password hashing, timestamps and wording of the JSON factories (the fields that a property looks at are in the
messages of the models), and the wiring of objects at start-up. Online status is not modelled because it does not work: both queries name
a column that `users` does not have, and the timer is never started. `getPendingMessages` is not used. On the client's groups
page, the buttons that answer an invitation stand beside a list that stays empty, no button deletes a group, and
the handlers of deletions are not registered: `GroupStore` has the server's side of these requests, `GroupSync` sends none. The images
and audio clips of `README.md:84` are not there.

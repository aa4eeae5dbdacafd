------------------------ MODULE ContactSyncProofs ------------------------
(***************************************************************************)
(* Theorems about ContactSync, for any number of users and buttons, and    *)
(* their proofs.                                                           *)
(***************************************************************************)
EXTENDS ContactSync, TLAPS

\* What a sequence holds when it is taken from, and when its type is weakened.
LEMMA Sequence ==
  ASSUME NEW S, NEW s \in Seq(S)
  PROVE  /\ s # <<>> => Head(s) \in S /\ Tail(s) \in Seq(S)
         /\ \A x \in S : Append(s, x) \in Seq(S)
         /\ \A n \in 0 .. Len(s) : SubSeq(s, 1, n) \in Seq(S)
  OBVIOUS

LEMMA WiderSequence ==
  ASSUME NEW S, NEW T, S \subseteq T, NEW s \in Seq(S)
  PROVE  s \in Seq(T)
  OBVIOUS

-----------------------------------------------------------------------------
Message == Response \cup Note \cup Fetched

\* A thread's half-done request is about a user, and only some are at each step.
LEMMA BusyFields ==
  ASSUME NEW b \in Busy, b # Idle
  PROVE  /\ b.op \in Ops /\ b.to \in Users /\ b = [at |-> b.at, op |-> b.op, to |-> b.to]
         /\ b.at \in {"begin", "update", "delete", "commit", "befriend", "unfriend", "notify"}
         /\ b.at = "begin" => b.op = "send"
         /\ b.at \in {"update", "commit"} => b.op \in Ops \ {"delete"}
         /\ b.at = "delete" => b.op \in {"accept", "reject"}
         /\ b.at = "befriend" => b.op = "accept"
         /\ b.at = "unfriend" => b.op = "delete"
  BY DEF Busy, Steps, Ops

\* The half-done requests.
LEMMA BusyStates ==
  ASSUME NEW p \in Users
  PROVE  /\ Idle \in Busy
         /\ [at |-> "begin", op |-> "send", to |-> p] \in Busy
         /\ \A op \in Ops \ {"delete"} : [at |-> "update", op |-> op, to |-> p] \in Busy
                                       /\ [at |-> "commit", op |-> op, to |-> p] \in Busy
         /\ \A op \in {"accept", "reject"} : [at |-> "delete", op |-> op, to |-> p] \in Busy
         /\ [at |-> "befriend", op |-> "accept", to |-> p] \in Busy
         /\ [at |-> "unfriend", op |-> "delete", to |-> p] \in Busy
         /\ \A op \in Ops : [at |-> "notify", op |-> op, to |-> p] \in Busy
  BY DEF Busy, Steps, Ops

\* An idle thread is at none of the steps.
LEMMA IdleFields == Idle.at = "idle"
  BY DEF Idle

\* Showing an answer or a notification leaves lists of users.
LEMMA ListsStay ==
  ASSUME NEW l \in Lists, NEW op \in Ops, NEW p \in Users
  PROVE  OnResponse(l, op, p) \in Lists /\ OnNote(l, op, p) \in Lists
<1>1. ASSUME NEW m \in Lists, NEW k \in Kinds PROVE With(m, k, p) \in Lists /\ Without(m, k, p) \in Lists
  BY DEF Lists, With, Without
<1>2. "friends" \in Kinds /\ "sent" \in Kinds /\ "received" \in Kinds
  BY DEF Kinds
<1> QED
  BY <1>1, <1>2 DEF OnResponse, OnNote, Ops

\* Only the notification of a request adds to the received ones.
LEMMA Received ==
  ASSUME NEW l \in Lists, NEW op \in Ops, NEW p
  PROVE  /\ OnResponse(l, op, p).received \subseteq l.received
         /\ op = "send" => OnNote(l, op, p).received = l.received \cup {p}
         /\ op # "send" => OnNote(l, op, p).received \subseteq l.received
<1>1. ASSUME NEW f \in [Kinds -> SUBSET (Users \cup {p})], NEW k \in Kinds
      PROVE  /\ With(f, k, p) \in [Kinds -> SUBSET (Users \cup {p})]
             /\ Without(f, k, p) \in [Kinds -> SUBSET (Users \cup {p})]
             /\ With(f, k, p).received = IF k = "received" THEN f.received \cup {p} ELSE f.received
             /\ Without(f, k, p).received \subseteq f.received
  BY DEF With, Without, Kinds
<1>2. "friends" \in Kinds /\ "sent" \in Kinds /\ "received" \in Kinds
  BY DEF Kinds
<1>3. l \in [Kinds -> SUBSET (Users \cup {p})]
  BY DEF Lists
<1> QED
  BY <1>1, <1>2, <1>3 DEF OnResponse, OnNote, Ops

\* At the start there is nothing.
LEMMA TypeInit == Init => TypeOK
<1>1. Idle \in Busy
  BY DEF Busy
<1>2. NoLists \in Lists
  BY DEF NoLists, Lists
<1>3. Init => inTx \in BOOLEAN
  BY DEF Init
<1>4. Init => /\ session \in [Users -> {"none", "on", "closed"}]
              /\ lists \in [Users -> Lists]
              /\ busy \in [Users -> Busy]
  BY <1>1, <1>2 DEF Init
<1>5. Init => /\ up \in [Users -> Seq(Request)]
              /\ down \in [Users -> Seq(Response \cup Note \cup Fetched)]
              /\ inbox \in [Users -> Seq(Note)]
  <2>1. ASSUME NEW S PROVE <<>> \in Seq(S)
    OBVIOUS
  <2> QED
    BY <2>1 DEF Init
<1>6. Init => /\ rows \subseteq Users \X Users /\ pending \subseteq rows
              /\ friendships \subseteq Pairs /\ deleted \subseteq Pairs
              /\ refused \subseteq Ops \X (Users \X Users)
              /\ consent \subseteq {"send", "accept"} \X Users \X Users
              /\ presses \in 0 .. MaxPresses
  BY PressesAssumption DEF Init
<1> QED
  BY <1>3, <1>4, <1>5, <1>6 DEF TypeOK

\* Every step keeps the types.
LEMMA TypeStep == TypeOK /\ [Next]_vars => TypeOK'
<1> SUFFICES ASSUME TypeOK, [Next]_vars PROVE TypeOK'
  OBVIOUS
<1> USE PressesAssumption
<1>1. CASE UNCHANGED vars
  BY <1>1 DEF vars, client, tables, requests, TypeOK
<1>2. ASSUME NEW u \in Users, Login(u) PROVE TypeOK'
  <2>1. <<Fetch("friends"), Fetch("sent"), Fetch("received")>> \in Seq(Request)
    BY DEF Fetch, Request, Kinds
  <2> QED
    BY <1>2, <2>1 DEF Login, TypeOK, tables, requests
<1>3. ASSUME NEW u \in Users, NEW op \in Ops, NEW p \in Users, Press(u, op, p) PROVE TypeOK'
  <2>1. [op |-> op, to |-> p] \in Request
    BY DEF Request
  <2>2. Append(up[u], [op |-> op, to |-> p]) \in Seq(Request)
    BY <2>1, Sequence DEF TypeOK
  <2>3. consent' \subseteq {"send", "accept"} \X Users \X Users
    BY <1>3 DEF Press, TypeOK
  <2> QED
    BY <1>3, <2>2, <2>3 DEF Press, TypeOK, tables, requests
<1>4. ASSUME NEW u \in Users, up[u] # <<>>
      PROVE  /\ Head(up[u]) \in Request /\ Tail(up[u]) \in Seq(Request)
             /\ Head(up[u]).op \in Ops => Head(up[u]).to \in Users
             /\ Head(up[u]).op = "fetch" => Head(up[u]).list \in Kinds
  BY <1>4, Sequence DEF TypeOK, Request, Ops
<1>5. ASSUME NEW u \in Users, NEW m \in Message PROVE Append(down[u], m) \in Seq(Message)
  BY Sequence DEF TypeOK, Message
<1>6. ASSUME NEW op \in Ops, NEW p \in Users
      PROVE  /\ [kind |-> "response", op |-> op, to |-> p] \in Message
             /\ [kind |-> "note", op |-> op, from |-> p] \in Note
  BY DEF Message, Response, Note
\* Requests that are taken, and not answered yet.
<1>7. ASSUME NEW u \in Users, NEW op \in {"cancel", "accept", "reject"},
             FindRequest(u) \/ BeginChange(u, op) \/ CheckFriends(u)
      PROVE  TypeOK'
  <2>1. up[u] # <<>> /\ Head(up[u]).op \in Ops
    BY <1>7 DEF FindRequest, BeginChange, CheckFriends, Takes, Ops
  <2>2. Peer(u) \in Users
    BY <2>1, <1>4 DEF Peer
  <2>3. /\ up' = [up EXCEPT ![u] = Tail(@)]
        /\ inTx' \in BOOLEAN
        /\ UNCHANGED <<client, down, inbox, rows, pending, refused, friendships, deleted>>
    BY <1>7 DEF FindRequest, BeginChange, Begin, CheckFriends, Takes, TypeOK, tables, requests
  <2>4. /\ [at |-> "begin", op |-> "send", to |-> Peer(u)] \in Busy
        /\ [at |-> "update", op |-> op, to |-> Peer(u)] \in Busy
        /\ [at |-> "unfriend", op |-> "delete", to |-> Peer(u)] \in Busy
    BY <2>2, BusyStates DEF Ops
  <2>5. busy' \in [Users -> Busy]
    BY <1>7, <2>4 DEF FindRequest, BeginChange, CheckFriends, Goto, TypeOK
  <2> QED
    BY <1>4, <2>1, <2>3, <2>5 DEF TypeOK, client
\* The insertion, answered at once.
<1>8. ASSUME NEW u \in Users, InsertRequest(u) PROVE TypeOK'
  <2>1. up[u] # <<>> /\ Head(up[u]).op \in Ops
    BY <1>8 DEF InsertRequest, Takes, Ops
  <2>2. Peer(u) \in Users
    BY <2>1, <1>4 DEF Peer
  <2>3. /\ down' = [down EXCEPT ![u] = Append(@, [kind |-> "response", op |-> "send", to |-> Peer(u)])]
        /\ busy' = [busy EXCEPT ![u] = [at |-> "notify", op |-> "send", to |-> Peer(u)]]
        /\ up' = [up EXCEPT ![u] = Tail(@)]
        /\ UNCHANGED <<client, inbox, friendships, inTx, deleted, refused>>
    BY <1>8 DEF InsertRequest, Takes, Respond, Tell, Goto
  <2>4. rows' \subseteq Users \X Users /\ pending' \subseteq rows'
    BY <1>8, <2>2 DEF InsertRequest, TypeOK
  <2>5. /\ Append(down[u], [kind |-> "response", op |-> "send", to |-> Peer(u)]) \in Seq(Message)
        /\ [at |-> "notify", op |-> "send", to |-> Peer(u)] \in Busy
    BY <2>2, <1>5, <1>6, BusyStates DEF Ops
  <2> QED
    BY <1>4, <2>1, <2>3, <2>4, <2>5 DEF TypeOK, client, Message
\* The statements of updateRequestStatus.
<1>9. ASSUME NEW u \in Users, BeginSend(u) \/ Update(u) \/ Delete(u) \/ CommitFails(u) PROVE TypeOK'
  <2> DEFINE op == busy[u].op
             p == busy[u].to
  <2>1. busy[u] # Idle
    BY <1>9, IdleFields DEF BeginSend, Update, Delete, CommitFails
  <2>2. /\ p \in Users /\ op \in Ops
        /\ busy[u].at = "update" => op \in Ops \ {"delete"}
        /\ busy[u].at = "delete" => op \in {"accept", "reject"}
    BY <2>1, BusyFields DEF TypeOK
  <2>3. Row(u) \in Users \X Users
    BY <2>2 DEF Row
  <2>4. PICK b \in Busy : busy' = [busy EXCEPT ![u] = b]
    <3>1. CASE BeginSend(u)
      <4>1. [at |-> "update", op |-> "send", to |-> p] \in Busy
        BY <2>2, BusyStates DEF Ops
      <4> QED
        BY <3>1, <4>1 DEF BeginSend, Goto
    <3>2. CASE Update(u)
      <4>1. op \in Ops \ {"delete"} /\ Goto(u, IF op \in {"accept", "reject"} THEN "delete" ELSE "commit", op, p)
        BY <2>2, <3>2 DEF Update
      <4> HIDE DEF op, p
      <4> QED
        BY <2>2, <4>1, BusyStates DEF Goto
    <3>3. CASE Delete(u)
      <4>1. op \in {"accept", "reject"} /\ Goto(u, "commit", op, p)
        BY <2>2, <3>3 DEF Delete
      <4> HIDE DEF op, p
      <4> QED
        BY <2>2, <4>1, BusyStates DEF Goto, Ops
    <3>4. CASE CommitFails(u)
      BY <2>2, <3>4, BusyStates DEF CommitFails
    <3> QED
      BY <1>9, <3>1, <3>2, <3>3, <3>4
  <2>5. /\ rows' \subseteq Users \X Users /\ pending' \subseteq rows'
        /\ refused' \subseteq Ops \X (Users \X Users) /\ inTx' \in BOOLEAN
        /\ UNCHANGED <<client, up, down, inbox, friendships, deleted>>
    <3>1. CASE BeginSend(u)
      BY <3>1 DEF BeginSend, Begin, TypeOK
    <3>2. CASE Update(u)
      BY <2>3, <3>2 DEF Update, TypeOK
    <3>3. CASE Delete(u)
      BY <3>3 DEF Delete, TypeOK
    <3>4. CASE CommitFails(u)
      BY <2>2, <2>3, <3>4 DEF CommitFails, TypeOK
    <3> QED
      BY <1>9, <3>1, <3>2, <3>3, <3>4
  <2> QED
    BY <2>4, <2>5 DEF TypeOK, client
<1>15. ASSUME NEW u \in Users, Commit(u) \/ Befriend(u) \/ Unfriend(u) PROVE TypeOK'
  <2> DEFINE op == busy[u].op
             p == busy[u].to
  <2>1. busy[u] # Idle
    BY <1>15, IdleFields DEF Commit, Befriend, Unfriend
  <2>2. p \in Users /\ op \in Ops
    BY <2>1, BusyFields DEF TypeOK
  <2>6. {u, p} \in Pairs
    BY <2>2 DEF Pairs
  <2>3. /\ friendships' \subseteq Pairs /\ deleted' \subseteq Pairs /\ inTx' \in BOOLEAN
        /\ UNCHANGED <<client, up, inbox, rows, pending, refused>>
    BY <1>15, <2>6 DEF Commit, Befriend, Unfriend, TypeOK, requests
  <2>4. CASE op = "accept" /\ Commit(u)
    <3>1. [at |-> "befriend", op |-> "accept", to |-> p] \in Busy
      BY <2>2, BusyStates
    <3>2. down' = down /\ busy' = [busy EXCEPT ![u] = [at |-> "befriend", op |-> "accept", to |-> p]]
      BY <2>4 DEF Commit, Goto
    <3> QED
      BY <2>3, <3>1, <3>2 DEF TypeOK, client
  <2>5. CASE ~(op = "accept" /\ Commit(u))
    <3>1. PICK o \in Ops :
            /\ down' = [down EXCEPT ![u] = Append(@, [kind |-> "response", op |-> o, to |-> p])]
            /\ busy' = [busy EXCEPT ![u] = [at |-> "notify", op |-> o, to |-> p]]
      BY <1>15, <2>2, <2>5 DEF Commit, Befriend, Unfriend, Respond, Tell, Goto, Ops
    <3>2. /\ Append(down[u], [kind |-> "response", op |-> o, to |-> p]) \in Seq(Message)
          /\ [at |-> "notify", op |-> o, to |-> p] \in Busy
      BY <2>2, <1>5, <1>6, BusyStates
    <3> QED
      BY <2>3, <3>1, <3>2 DEF TypeOK, client, Message
  <2> QED
    BY <2>4, <2>5
<1>10. ASSUME NEW u \in Users, ServeFetch(u) PROVE TypeOK'
  <2> DEFINE k == Head(up[u]).list
             answer == [kind |-> "fetched", list |-> k, users |-> Table(u, k)]
  <2>1. k \in Kinds /\ Tail(up[u]) \in Seq(Request)
    BY <1>10, <1>4 DEF ServeFetch, Takes
  <2>2. Table(u, k) \subseteq Users
    BY <2>1 DEF Table, Kinds
  <2>3. answer \in Message
    BY <2>1, <2>2 DEF Message, Fetched
  <2>4. Append(down[u], answer) \in Seq(Message)
    BY <2>3, <1>5
  <2>5. /\ down' = [down EXCEPT ![u] = Append(@, answer)]
        /\ up' = [up EXCEPT ![u] = Tail(@)]
        /\ UNCHANGED <<client, busy, inbox, tables>>
    BY <1>10 DEF ServeFetch, Takes, Tell
  <2> HIDE DEF answer, k
  <2> QED
    BY <2>1, <2>4, <2>5 DEF TypeOK, client, tables, requests, Message
<1>11. ASSUME NEW u \in Users, Notify(u) PROVE TypeOK'
  <2>1. busy[u] # Idle
    BY <1>11, IdleFields DEF Notify
  <2>2. busy[u].to \in Users /\ busy[u].op \in Ops
    BY <2>1, BusyFields DEF TypeOK
  <2>3. [kind |-> "note", op |-> busy[u].op, from |-> u] \in Note
    BY <2>2, <1>6
  <2>4. Append(inbox[busy[u].to], [kind |-> "note", op |-> busy[u].op, from |-> u]) \in Seq(Note)
    BY <2>2, <2>3, Sequence DEF TypeOK
  <2>5. inbox' \in [Users -> Seq(Note)]
    BY <1>11, <2>2, <2>4 DEF Notify, TypeOK
  <2>6. busy' \in [Users -> Busy] /\ UNCHANGED <<client, up, down, tables>>
    BY <1>11, BusyStates DEF Notify, TypeOK
  <2> QED
    BY <2>5, <2>6 DEF TypeOK, client, tables, requests
<1>12. ASSUME NEW u \in Users, Deliver(u) PROVE TypeOK'
  <2>1. Head(inbox[u]) \in Message /\ Tail(inbox[u]) \in Seq(Note)
    BY <1>12, Sequence DEF Deliver, TypeOK, Message
  <2>2. Append(down[u], Head(inbox[u])) \in Seq(Message)
    BY <2>1, <1>5
  <2> QED
    BY <1>12, <2>1, <2>2 DEF Deliver, Tell, TypeOK, client, tables, requests, Message
<1>13. ASSUME NEW u \in Users, Show(u) PROVE TypeOK'
  <2> DEFINE answer == Head(down[u])
  <2>1. answer \in Message /\ Tail(down[u]) \in Seq(Message)
    BY <1>13, Sequence DEF Show, TypeOK, Message
  <2>2. lists[u] \in Lists
    BY DEF TypeOK
  <2>3. /\ answer.kind = "fetched" => answer.list \in Kinds /\ answer.users \subseteq Users
        /\ answer.kind = "response" => answer.op \in Ops /\ answer.to \in Users
        /\ answer.kind = "note" => answer.op \in Ops /\ answer.from \in Users
        /\ answer.kind \in {"fetched", "response", "note"}
    BY <2>1 DEF Message, Fetched, Response, Note
  <2>4. lists' = [lists EXCEPT ![u] =
           CASE answer.kind = "fetched" -> [@ EXCEPT ![answer.list] = answer.users]
             [] answer.kind = "response" -> OnResponse(@, answer.op, answer.to)
             [] answer.kind = "note" -> OnNote(@, answer.op, answer.from)]
    BY <1>13 DEF Show
  <2> HIDE DEF answer
  <2>5. CASE answer.kind = "fetched"
    <3>1. [lists[u] EXCEPT ![answer.list] = answer.users] \in Lists
      BY <2>2, <2>3, <2>5 DEF Lists
    <3>2. lists' = [lists EXCEPT ![u] = [lists[u] EXCEPT ![answer.list] = answer.users]]
      BY <2>4, <2>5
    <3> QED
      BY <1>13, <2>1, <3>1, <3>2 DEF Show, TypeOK, tables, requests, Message
  <2>6. CASE answer.kind = "response"
    <3>1. OnResponse(lists[u], answer.op, answer.to) \in Lists
      BY <2>2, <2>3, <2>6, ListsStay
    <3>2. lists' = [lists EXCEPT ![u] = OnResponse(lists[u], answer.op, answer.to)]
      BY <2>4, <2>6
    <3> QED
      BY <1>13, <2>1, <3>1, <3>2 DEF Show, TypeOK, tables, requests, Message
  <2>7. CASE answer.kind = "note"
    <3>1. OnNote(lists[u], answer.op, answer.from) \in Lists
      BY <2>2, <2>3, <2>7, ListsStay
    <3>2. lists' = [lists EXCEPT ![u] = OnNote(lists[u], answer.op, answer.from)]
      BY <2>4, <2>7
    <3> QED
      BY <1>13, <2>1, <3>1, <3>2 DEF Show, TypeOK, tables, requests, Message
  <2> QED
    BY <2>3, <2>5, <2>6, <2>7
<1>14. ASSUME NEW u \in Users, Close(u) PROVE TypeOK'
  <2>1. up' \in [Users -> Seq(Request)]
    BY <1>14, Sequence DEF Close, TypeOK
  <2>2. NoLists \in Lists
    BY DEF NoLists, Lists
  <2> QED
    BY <1>14, <2>1, <2>2 DEF Close, TypeOK, tables, requests
<1> QED
  <2>1. ASSUME NEW u \in Users, Server(u) PROVE TypeOK'
    BY <2>1, <1>7, <1>8, <1>9, <1>10, <1>11, <1>12, <1>15 DEF Server
  <2> QED
    BY <1>1, <1>2, <1>3, <1>13, <1>14, <2>1 DEF Next

\* The types, with which user each half-done request is about.
THEOREM TypeCorrect == Spec => []TypeOK
<1>1. Init => TypeOK
  BY TypeInit
<1> QED
  BY <1>1, TypeStep, PTL DEF Spec

-----------------------------------------------------------------------------
Asked(x, y) == <<"send", x, y>> \in consent
Agreed(x, y) == <<"accept", x, y>> \in consent

\* Requests, messages and half-done requests that tell the truth about what was
\* asked and agreed.
HonestRequest(u) ==
  {r \in Request : /\ r.op = "send" => Asked(u, r.to)
                   /\ r.op = "accept" => Asked(r.to, u) /\ Agreed(u, r.to)}
HonestMessage(u) ==
  {m \in Message : /\ m.kind = "note" /\ m.op = "send" => Asked(m.from, u)
                   /\ m.kind = "fetched" /\ m.list = "received" => \A p \in m.users : Asked(p, u)}
HonestBusy(u) ==
  {b \in Busy : b # Idle =>
     /\ b.op = "accept" => Asked(b.to, u) /\ Agreed(u, b.to)
     /\ b.op = "send" => Asked(u, b.to)}

Honest(u) ==
  /\ up[u] \in Seq(HonestRequest(u))
  /\ down[u] \in Seq(HonestMessage(u))
  /\ inbox[u] \in Seq(HonestMessage(u))
  /\ busy[u] \in HonestBusy(u)
  /\ \A p \in lists[u].received : Asked(p, u)
PendingAsked == \A u, p \in Users : <<u, p>> \in pending => Asked(u, p)
AskedAnother == \A u, p \in Users : Asked(u, p) => u # p

\* Nothing that leads to a friendship starts without a request and an acceptance.
ConsentInv ==
  /\ \A u \in Users : Honest(u)
  /\ PendingAsked
  /\ AskedAnother
  /\ FriendsConsented

\* A step without a button keeps it if what it leaves is honest.
LEMMA Kept ==
  ASSUME ConsentInv, UNCHANGED consent,
         \A v \in Users :
           /\ up'[v] \in Seq(HonestRequest(v))
           /\ down'[v] \in Seq(HonestMessage(v))
           /\ inbox'[v] \in Seq(HonestMessage(v))
           /\ busy'[v] \in HonestBusy(v)
           /\ \A p \in lists'[v].received : Asked(p, v),
         \A v, p \in Users : <<v, p>> \in pending' => Asked(v, p),
         \A v, p \in Users : {v, p} \in friendships' =>
           \E x, y \in {v, p} : x # y /\ Asked(x, y) /\ Agreed(y, x)
  PROVE  ConsentInv'
<1>1. \A v \in Users : /\ HonestRequest(v)' = HonestRequest(v)
                       /\ HonestMessage(v)' = HonestMessage(v)
                       /\ HonestBusy(v)' = HonestBusy(v)
  BY DEF HonestRequest, HonestMessage, HonestBusy, Asked, Agreed
<1>2. \A v, p : Asked(v, p)' <=> Asked(v, p)
  BY DEF Asked
<1>3. FriendsConsented'
  BY DEF FriendsConsented, Asked, Agreed
<1>4. ASSUME NEW v \in Users PROVE Honest(v)'
  BY <1>1, <1>2 DEF Honest
<1>5. PendingAsked'
  BY <1>2 DEF PendingAsked
<1>6. AskedAnother'
  BY <1>2 DEF AskedAnother, ConsentInv
<1> QED
  BY <1>3, <1>4, <1>5, <1>6 DEF ConsentInv

\* Every step keeps consent.
LEMMA ConsentStep == TypeOK /\ ConsentInv /\ [Next]_vars => ConsentInv'
<1> SUFFICES ASSUME TypeOK, ConsentInv, [Next]_vars PROVE ConsentInv'
  OBVIOUS
<1>0. /\ \A v \in Users :
           /\ up[v] \in Seq(HonestRequest(v))
           /\ down[v] \in Seq(HonestMessage(v))
           /\ inbox[v] \in Seq(HonestMessage(v))
           /\ busy[v] \in HonestBusy(v)
           /\ \A p \in lists[v].received : Asked(p, v)
      /\ \A v, p \in Users : <<v, p>> \in pending => Asked(v, p)
      /\ \A v, p \in Users : {v, p} \in friendships =>
           \E x, y \in {v, p} : x # y /\ Asked(x, y) /\ Agreed(y, x)
  BY DEF ConsentInv, Honest, PendingAsked, FriendsConsented, Asked, Agreed
<1>1. CASE UNCHANGED vars
  BY <1>0, <1>1, Kept DEF vars, client, tables, requests
<1>2. ASSUME NEW u \in Users, Login(u) PROVE ConsentInv'
  <2>1. Fetch("friends") \in HonestRequest(u) /\ Fetch("sent") \in HonestRequest(u)
        /\ Fetch("received") \in HonestRequest(u)
    BY DEF Fetch, HonestRequest, Request, Kinds
  <2>2. <<Fetch("friends"), Fetch("sent"), Fetch("received")>> \in Seq(HonestRequest(u))
    BY <2>1
  <2>3. \A v \in Users : up'[v] \in Seq(HonestRequest(v))
    BY <1>0, <1>2, <2>2 DEF Login, TypeOK
  <2> QED
    BY <1>0, <1>2, <2>3, Kept DEF Login, tables, requests
\* A button: the request is honest by what is recorded with it.
<1>3. ASSUME NEW u \in Users, NEW op \in Ops, NEW p \in Users, Press(u, op, p) PROVE ConsentInv'
  <2> DEFINE r == [op |-> op, to |-> p]
  <2>1. /\ consent' = IF op \in {"send", "accept"} THEN consent \cup {<<op, u, p>>} ELSE consent
        /\ up' = [up EXCEPT ![u] = Append(@, r)]
        /\ p \in Offered(u, op)
        /\ UNCHANGED <<lists, down, busy, inbox, pending, friendships>>
    BY <1>3 DEF Press, tables, requests
  <2>2. /\ op = "send" => u # p
        /\ op = "accept" => Asked(p, u)
    BY <1>0, <2>1 DEF Offered
  <2>3. /\ op = "send" => Asked(u, p)'
        /\ op = "accept" => Agreed(u, p)'
        /\ consent \subseteq consent'
    BY <2>1 DEF Asked, Agreed
  <2>4. \A v \in Users : /\ HonestRequest(v) \subseteq HonestRequest(v)'
                         /\ HonestMessage(v) \subseteq HonestMessage(v)'
                         /\ HonestBusy(v) \subseteq HonestBusy(v)'
    BY <2>3 DEF HonestRequest, HonestMessage, HonestBusy, Asked, Agreed
  <2>5. r \in HonestRequest(u)'
    BY <2>2, <2>3 DEF HonestRequest, Request, Asked
  <2>6. ASSUME NEW v \in Users
        PROVE  /\ up[v] \in Seq(HonestRequest(v)')
               /\ down[v] \in Seq(HonestMessage(v)')
               /\ inbox[v] \in Seq(HonestMessage(v)')
    BY <1>0, <2>4, WiderSequence
  <2> HIDE DEF r
  <2>7. Append(up[u], r) \in Seq(HonestRequest(u)')
    BY <2>5, <2>6, Sequence
  <2>8. \A v \in Users : up'[v] \in Seq(HonestRequest(v)')
    BY <2>1, <2>6, <2>7 DEF TypeOK
  <2>9. AskedAnother'
    BY <2>1, <2>2 DEF ConsentInv, AskedAnother, Asked
  <2>10. FriendsConsented'
    BY <2>1, <2>3 DEF ConsentInv, FriendsConsented
  <2>11. \A v, w : Asked(v, w) => Asked(v, w)'
    BY <2>3 DEF Asked
  <2>12. PendingAsked'
    BY <1>0, <2>1, <2>11 DEF PendingAsked
  <2>13. ASSUME NEW v \in Users PROVE Honest(v)'
    BY <1>0, <2>1, <2>4, <2>6, <2>8, <2>11 DEF Honest
  <2> QED
    BY <2>9, <2>10, <2>12, <2>13 DEF ConsentInv
<1>4. ASSUME NEW u \in Users, up[u] # <<>>
      PROVE  Head(up[u]) \in HonestRequest(u) /\ Tail(up[u]) \in Seq(HonestRequest(u))
  BY <1>0, <1>4, Sequence
<1>5. ASSUME NEW u \in Users, NEW m \in HonestMessage(u) PROVE Append(down[u], m) \in Seq(HonestMessage(u))
  BY <1>0, Sequence
\* What a half-done request of u may be: every step of it has its users.
<1>14. ASSUME NEW u \in Users, NEW at, NEW op \in Ops, NEW p \in Users, [at |-> at, op |-> op, to |-> p] \in Busy,
              op = "accept" => Asked(p, u) /\ Agreed(u, p), op = "send" => Asked(u, p)
       PROVE  [at |-> at, op |-> op, to |-> p] \in HonestBusy(u)
  BY <1>14 DEF HonestBusy
<1>15. ASSUME NEW u \in Users, busy[u] # Idle
       PROVE  /\ busy[u].op = "accept" => Asked(busy[u].to, u) /\ Agreed(u, busy[u].to)
              /\ busy[u].op = "send" => Asked(u, busy[u].to)
              /\ busy[u].to \in Users
  BY <1>0, <1>15, BusyFields DEF HonestBusy
<1>16. ASSUME NEW u \in Users, NEW b \in HonestBusy(u), busy' = [busy EXCEPT ![u] = b] \/ busy' = busy
       PROVE  \A v \in Users : busy'[v] \in HonestBusy(v)
  BY <1>0, <1>16 DEF TypeOK
\* Only what was asked becomes pending.
<1>6. ASSUME NEW u \in Users, InsertRequest(u) PROVE ConsentInv'
  <2>1. up[u] # <<>> /\ Head(up[u]).op = "send"
    BY <1>6 DEF InsertRequest, Takes
  <2>2. Peer(u) \in Users /\ Asked(u, Peer(u))
    BY <2>1, <1>4 DEF Peer, HonestRequest, Request, Ops
  <2>3. /\ down' = [down EXCEPT ![u] = Append(@, [kind |-> "response", op |-> "send", to |-> Peer(u)])]
        /\ busy' = [busy EXCEPT ![u] = [at |-> "notify", op |-> "send", to |-> Peer(u)]]
    BY <1>6 DEF InsertRequest, Respond, Tell, Goto
  <2>4. /\ up' = [up EXCEPT ![u] = Tail(@)]
        /\ \A v, p \in Users : <<v, p>> \in pending' => Asked(v, p)
        /\ UNCHANGED <<lists, consent, inbox, friendships>>
    BY <1>0, <1>6, <2>2 DEF InsertRequest, Takes, client
  <2>5. [kind |-> "response", op |-> "send", to |-> Peer(u)] \in HonestMessage(u)
    BY <2>2 DEF HonestMessage, Message, Response, Ops
  <2>6. [at |-> "notify", op |-> "send", to |-> Peer(u)] \in HonestBusy(u)
    BY <2>2, <1>14, BusyStates DEF Ops
  <2>7. Append(down[u], [kind |-> "response", op |-> "send", to |-> Peer(u)]) \in Seq(HonestMessage(u))
    BY <2>5, <1>5
  <2>8. \A v \in Users : /\ up'[v] \in Seq(HonestRequest(v))
                         /\ down'[v] \in Seq(HonestMessage(v))
                         /\ busy'[v] \in HonestBusy(v)
    BY <1>0, <1>4, <2>1, <2>3, <2>4, <2>6, <2>7 DEF TypeOK
  <2> QED
    BY <1>0, <2>4, <2>8, Kept
<1>7. ASSUME NEW u \in Users, NEW op \in {"cancel", "accept", "reject"},
             FindRequest(u) \/ BeginChange(u, op) \/ CheckFriends(u)
      PROVE  ConsentInv'
  <2>1. /\ up[u] # <<>> /\ Head(up[u]).op \in Ops
        /\ FindRequest(u) => Head(up[u]).op = "send"
        /\ BeginChange(u, op) => Head(up[u]).op = op
    BY <1>7 DEF FindRequest, BeginChange, CheckFriends, Takes, Ops
  <2>2. /\ Peer(u) \in Users
        /\ FindRequest(u) => Asked(u, Peer(u))
        /\ BeginChange(u, op) /\ op = "accept" => Asked(Peer(u), u) /\ Agreed(u, Peer(u))
    BY <2>1, <1>4 DEF Peer, HonestRequest, Request, Ops
  <2>3. /\ up' = [up EXCEPT ![u] = Tail(@)]
        /\ UNCHANGED <<lists, consent, down, inbox, pending, friendships>>
    BY <1>7 DEF FindRequest, BeginChange, Begin, CheckFriends, Takes, client, tables, requests
  <2>4. PICK b \in HonestBusy(u) : busy' = [busy EXCEPT ![u] = b] \/ busy' = busy
    <3>1. CASE FindRequest(u)
      <4>1. [at |-> "begin", op |-> "send", to |-> Peer(u)] \in HonestBusy(u)
        BY <2>2, <3>1, <1>14, BusyStates DEF Ops
      <4> QED
        BY <3>1, <4>1 DEF FindRequest, Goto
    <3>2. CASE BeginChange(u, op)
      <4>1. [at |-> "update", op |-> op, to |-> Peer(u)] \in HonestBusy(u)
        BY <2>2, <3>2, <1>14, BusyStates DEF Ops
      <4> QED
        BY <3>2, <4>1 DEF BeginChange, Goto
    <3>3. CASE CheckFriends(u)
      <4>1. [at |-> "unfriend", op |-> "delete", to |-> Peer(u)] \in HonestBusy(u)
        BY <2>2, <3>3, <1>14, BusyStates DEF Ops
      <4> QED
        BY <3>3, <4>1 DEF CheckFriends, Goto
    <3> QED
      BY <1>7, <3>1, <3>2, <3>3
  <2>6. \A v \in Users : busy'[v] \in HonestBusy(v)
    BY <1>16, <2>4
  <2>7. \A v \in Users : up'[v] \in Seq(HonestRequest(v))
    BY <1>0, <1>4, <2>1, <2>3 DEF TypeOK
  <2> QED
    BY <1>0, <2>3, <2>6, <2>7, Kept
<1>17. ASSUME NEW u \in Users, BeginSend(u) \/ Update(u) \/ Delete(u) \/ CommitFails(u) PROVE ConsentInv'
  <2>1. busy[u] # Idle /\ busy[u] \in Busy
    BY <1>17, IdleFields DEF BeginSend, Update, Delete, CommitFails, TypeOK
  <2>2. PICK b \in Busy :
          /\ busy' = [busy EXCEPT ![u] = b]
          /\ b # Idle => b.op = busy[u].op /\ b.to = busy[u].to
    <3>1. /\ busy'[u] \in Busy
          /\ busy' = [busy EXCEPT ![u] = busy'[u]]
      BY <1>17, TypeStep DEF BeginSend, Update, Delete, CommitFails, Goto, TypeOK, Next, Server
    <3>2. CASE BeginSend(u)
      BY <2>1, <3>1, <3>2, BusyFields DEF BeginSend, Goto, TypeOK
    <3>3. CASE Update(u)
      BY <3>1, <3>3 DEF Update, Goto, TypeOK
    <3>4. CASE Delete(u)
      BY <3>1, <3>4 DEF Delete, Goto, TypeOK
    <3>5. CASE CommitFails(u)
      BY <3>1, <3>5 DEF CommitFails, TypeOK
    <3> QED
      BY <1>17, <3>2, <3>3, <3>4, <3>5
  <2>7. busy' = [busy EXCEPT ![u] = b]
    BY <2>2
  <2>3. b \in HonestBusy(u)
    <3>1. /\ busy[u].op = "accept" => Asked(busy[u].to, u) /\ Agreed(u, busy[u].to)
          /\ busy[u].op = "send" => Asked(u, busy[u].to)
      BY <1>15, <2>1
    <3>2. b \in Busy /\ (b # Idle => b.op = busy[u].op /\ b.to = busy[u].to)
      BY <2>2
    <3> QED
      BY <3>1, <3>2 DEF HonestBusy
  <2>4. \A v \in Users : busy'[v] \in HonestBusy(v)
    BY <1>16, <2>7, <2>3
  <2>5. UNCHANGED <<lists, consent, up, down, inbox, friendships>>
    BY <1>17 DEF BeginSend, Update, Delete, CommitFails, client
  <2>6. \A v, p \in Users : <<v, p>> \in pending' => Asked(v, p)
    <3>1. CASE busy[u].at = "update" /\ Update(u) /\ busy[u].op = "send"
      <4>1. Row(u) = <<u, busy[u].to>> /\ Asked(u, busy[u].to)
        BY <1>15, <2>1, <3>1 DEF Row
      <4> QED
        BY <1>0, <3>1, <4>1 DEF Update
    <3>2. CASE ~(busy[u].at = "update" /\ Update(u) /\ busy[u].op = "send")
      <4>1. pending' \subseteq pending
        BY <1>17, <3>2 DEF BeginSend, Begin, Update, Delete, CommitFails
      <4> QED
        BY <1>0, <4>1
    <3> QED
      BY <3>1, <3>2
  <2> QED
    BY <1>0, <2>4, <2>5, <2>6, Kept
\* The friendship is between the one who asked and the one who accepted.
<1>8. ASSUME NEW u \in Users, Commit(u) \/ Befriend(u) \/ Unfriend(u) PROVE ConsentInv'
  <2> DEFINE p == busy[u].to
  <2>1. busy[u] # Idle /\ busy[u] \in Busy
    BY <1>8, IdleFields DEF Commit, Befriend, Unfriend, TypeOK
  <2>2. /\ p \in Users /\ busy[u].op \in Ops
        /\ busy[u].op = "accept" => Asked(p, u) /\ Agreed(u, p)
        /\ busy[u].op = "send" => Asked(u, p)
        /\ busy[u].at = "befriend" => busy[u].op = "accept"
        /\ busy[u].at = "unfriend" => busy[u].op = "delete"
    BY <2>1, <1>15, BusyFields
  <2>3. /\ friendships' \subseteq friendships \/ (busy[u].at = "befriend" /\ friendships' = friendships \cup {{u, p}})
        /\ UNCHANGED <<lists, consent, up, inbox, pending>>
    <3>1. CASE Commit(u)
      BY <3>1 DEF Commit, client
    <3>2. CASE Befriend(u)
      BY <3>2 DEF Befriend, client, requests
    <3>3. CASE Unfriend(u)
      BY <3>3 DEF Unfriend, client, requests
    <3> QED
      BY <1>8, <3>1, <3>2, <3>3
  <2>4. \A v \in Users : down'[v] \in Seq(HonestMessage(v)) /\ busy'[v] \in HonestBusy(v)
    <3>1. CASE Commit(u) /\ busy[u].op = "accept"
      <4>1. [at |-> "befriend", op |-> "accept", to |-> p] \in HonestBusy(u)
        BY <2>2, <3>1, <1>14, BusyStates DEF Ops
      <4>2. down' = down /\ busy' = [busy EXCEPT ![u] = [at |-> "befriend", op |-> "accept", to |-> p]]
        BY <3>1 DEF Commit, Goto
      <4> QED
        BY <1>0, <1>16, <4>1, <4>2
    <3>2. CASE ~(Commit(u) /\ busy[u].op = "accept")
      <4> DEFINE op == busy[u].op
      <4>1. /\ down' = [down EXCEPT ![u] = Append(@, [kind |-> "response", op |-> op, to |-> p])]
            /\ busy' = [busy EXCEPT ![u] = [at |-> "notify", op |-> op, to |-> p]]
        BY <1>8, <2>2, <3>2 DEF Commit, Befriend, Unfriend, Respond, Tell, Goto
      <4>2. [kind |-> "response", op |-> op, to |-> p] \in HonestMessage(u)
        BY <2>2 DEF HonestMessage, Message, Response
      <4>3. [at |-> "notify", op |-> op, to |-> p] \in HonestBusy(u)
        BY <2>2, <1>14, BusyStates
      <4>4. Append(down[u], [kind |-> "response", op |-> op, to |-> p]) \in Seq(HonestMessage(u))
        BY <4>2, <1>5
      <4> HIDE DEF op, p
      <4> QED
        BY <1>0, <4>1, <4>3, <4>4 DEF TypeOK
    <3> QED
      BY <3>1, <3>2
  <2> HIDE DEF p
  <2>8. \A v, q \in Users : {v, q} \in friendships' =>
          \E x, y \in {v, q} : x # y /\ Asked(x, y) /\ Agreed(y, x)
    <3> SUFFICES ASSUME NEW v \in Users, NEW q \in Users, {v, q} \in friendships'
                 PROVE  \E x, y \in {v, q} : x # y /\ Asked(x, y) /\ Agreed(y, x)
      OBVIOUS
    <3>1. CASE {v, q} \in friendships
      BY <1>0, <3>1
    <3>2. CASE {v, q} = {u, p} /\ busy[u].at = "befriend"
      <4>1. p # u /\ Asked(p, u) /\ Agreed(u, p)
        BY <2>2, <3>2 DEF ConsentInv, AskedAnother
      <4> QED
        BY <3>2, <4>1
    <3> QED
      BY <2>3, <3>1, <3>2
  <2> QED
    BY <1>0, <2>3, <2>4, <2>8, Kept
\* The list of received requests is the one of the table.
<1>9. ASSUME NEW u \in Users, ServeFetch(u) PROVE ConsentInv'
  <2> DEFINE k == Head(up[u]).list
             answer == [kind |-> "fetched", list |-> k, users |-> Table(u, k)]
  <2>1. k \in Kinds /\ up[u] # <<>>
    BY <1>9, <1>4 DEF ServeFetch, Takes, HonestRequest, Request, Ops
  <2>2. Table(u, k) \subseteq Users
    BY <2>1 DEF Table, Kinds
  <2>3. k = "received" => \A p \in Table(u, k) : Asked(p, u)
    BY <1>0 DEF Table
  <2>4. answer \in HonestMessage(u)
    BY <2>1, <2>2, <2>3 DEF HonestMessage, Message, Fetched
  <2>5. Append(down[u], answer) \in Seq(HonestMessage(u))
    BY <2>4, <1>5
  <2>6. /\ down' = [down EXCEPT ![u] = Append(@, answer)]
        /\ up' = [up EXCEPT ![u] = Tail(@)]
        /\ UNCHANGED <<lists, consent, busy, inbox, pending, friendships>>
    BY <1>9 DEF ServeFetch, Takes, Tell, client, tables, requests
  <2> HIDE DEF answer, k
  <2>7. \A v \in Users : up'[v] \in Seq(HonestRequest(v)) /\ down'[v] \in Seq(HonestMessage(v))
    BY <1>0, <1>4, <1>9, <2>1, <2>5, <2>6 DEF TypeOK, ServeFetch, Takes
  <2> QED
    BY <1>0, <2>6, <2>7, Kept
<1>10. ASSUME NEW u \in Users, Notify(u) PROVE ConsentInv'
  <2> DEFINE p == busy[u].to
             note == [kind |-> "note", op |-> busy[u].op, from |-> u]
  <2>1. busy[u] # Idle
    BY <1>10, IdleFields DEF Notify
  <2>2. /\ p \in Users /\ busy[u].op \in Ops
        /\ busy[u].op = "send" => Asked(u, p)
    BY <2>1, <1>0, BusyFields DEF TypeOK, HonestBusy
  <2>3. note \in HonestMessage(p)
    BY <2>2 DEF HonestMessage, Message, Note
  <2>4. Append(inbox[p], note) \in Seq(HonestMessage(p))
    BY <1>0, <2>2, <2>3, Sequence
  <2>5. inbox' = [inbox EXCEPT ![p] = Append(@, note)] \/ inbox' = inbox
    BY <1>10 DEF Notify
  <2>6. /\ busy' = [busy EXCEPT ![u] = Idle]
        /\ UNCHANGED <<lists, consent, up, down, pending, friendships>>
    BY <1>10 DEF Notify, client, tables, requests
  <2>7. Idle \in HonestBusy(u)
    BY BusyStates DEF HonestBusy
  <2> HIDE DEF note, p
  <2>8. \A v \in Users : inbox'[v] \in Seq(HonestMessage(v))
    <3>1. CASE inbox' = [inbox EXCEPT ![p] = Append(@, note)]
      BY <1>0, <2>4, <3>1 DEF TypeOK
    <3> QED
      BY <1>0, <2>5, <3>1
  <2>9. \A v \in Users : busy'[v] \in HonestBusy(v)
    BY <1>0, <2>6, <2>7 DEF TypeOK
  <2> QED
    BY <1>0, <2>6, <2>8, <2>9, Kept
<1>11. ASSUME NEW u \in Users, Deliver(u) PROVE ConsentInv'
  <2>1. Head(inbox[u]) \in HonestMessage(u) /\ Tail(inbox[u]) \in Seq(HonestMessage(u))
    BY <1>0, <1>11, Sequence DEF Deliver
  <2>2. Append(down[u], Head(inbox[u])) \in Seq(HonestMessage(u))
    BY <2>1, <1>5
  <2>3. /\ down' = [down EXCEPT ![u] = Append(@, Head(inbox[u]))]
        /\ inbox' = [inbox EXCEPT ![u] = Tail(@)]
        /\ UNCHANGED <<lists, consent, up, busy, pending, friendships>>
    BY <1>11 DEF Deliver, Tell, client, tables, requests
  <2>4. \A v \in Users : down'[v] \in Seq(HonestMessage(v)) /\ inbox'[v] \in Seq(HonestMessage(v))
    BY <1>0, <2>1, <2>2, <2>3 DEF TypeOK
  <2> QED
    BY <1>0, <2>3, <2>4, Kept
\* Only an honest notification or list adds to the received requests.
<1>12. ASSUME NEW u \in Users, Show(u) PROVE ConsentInv'
  <2> DEFINE answer == Head(down[u])
             l == lists'[u]
  <2>1. answer \in HonestMessage(u) /\ Tail(down[u]) \in Seq(HonestMessage(u))
    BY <1>0, <1>12, Sequence DEF Show
  <2>2. /\ down' = [down EXCEPT ![u] = Tail(@)]
        /\ UNCHANGED <<consent, up, busy, inbox, pending, friendships>>
    BY <1>12 DEF Show, tables, requests
  <2>3. /\ \A v \in Users \ {u} : lists'[v] = lists[v]
        /\ l = CASE answer.kind = "fetched" -> [lists[u] EXCEPT ![answer.list] = answer.users]
                 [] answer.kind = "response" -> OnResponse(lists[u], answer.op, answer.to)
                 [] answer.kind = "note" -> OnNote(lists[u], answer.op, answer.from)
    BY <1>12 DEF Show, TypeOK
  <2>4. lists[u] \in Lists
    BY DEF TypeOK
  <2>5. /\ answer.kind = "fetched" =>
             /\ answer.list \in Kinds
             /\ answer.list = "received" => \A p \in answer.users : Asked(p, u)
        /\ answer.kind \in {"response", "note"} => answer.op \in Ops
        /\ answer.kind = "note" /\ answer.op = "send" => Asked(answer.from, u)
        /\ answer.kind \in {"fetched", "response", "note"}
    BY <2>1 DEF HonestMessage, Message, Fetched, Response, Note
  <2> HIDE DEF answer, l
  <2>6. \A p \in l.received : Asked(p, u)
    <3>1. CASE answer.kind = "fetched"
      <4>1. l = [lists[u] EXCEPT ![answer.list] = answer.users]
        BY <2>3, <3>1
      <4>2. (l.received = answer.users /\ answer.list = "received") \/ l.received = lists[u].received
        BY <2>4, <2>5, <3>1, <4>1 DEF Lists, Kinds
      <4> QED
        BY <1>0, <2>5, <3>1, <4>2
    <3>2. CASE answer.kind = "response"
      <4>1. l = OnResponse(lists[u], answer.op, answer.to)
        BY <2>3, <3>2
      <4> QED
        BY <1>0, <2>4, <2>5, <3>2, <4>1, Received
    <3>3. CASE answer.kind = "note"
      <4>1. l = OnNote(lists[u], answer.op, answer.from)
        BY <2>3, <3>3
      <4> QED
        BY <1>0, <2>4, <2>5, <3>3, <4>1, Received
    <3> QED
      BY <2>5, <3>1, <3>2, <3>3
  <2>7. \A v \in Users : \A p \in lists'[v].received : Asked(p, v)
    BY <1>0, <2>3, <2>6 DEF l
  <2> QED
    BY <1>0, <2>1, <2>2, <2>7, Kept DEF TypeOK
<1>13. ASSUME NEW u \in Users, Close(u) PROVE ConsentInv'
  <2>1. \A v \in Users : up'[v] \in Seq(HonestRequest(v))
    BY <1>0, <1>13, Sequence DEF Close, TypeOK
  <2>2. \A v \in Users : \A p \in lists'[v].received : Asked(p, v)
    BY <1>0, <1>13 DEF Close, TypeOK, NoLists, Kinds
  <2> QED
    BY <1>0, <1>13, <2>1, <2>2, Kept DEF Close, tables, requests
<1> QED
  <2>1. ASSUME NEW u \in Users, Server(u) PROVE ConsentInv'
    BY <2>1, <1>6, <1>7, <1>8, <1>9, <1>10, <1>11, <1>17 DEF Server
  <2> QED
    BY <1>1, <1>2, <1>3, <1>12, <1>13, <2>1 DEF Next

\* Both hold at the start.
LEMMA ConsentInit == Init => TypeOK /\ ConsentInv
<1>1. Init => TypeOK
  BY TypeInit
<1>2. Init => ConsentInv
  <2>1. ASSUME NEW S PROVE <<>> \in Seq(S)
    OBVIOUS
  <2>2. ASSUME Init, NEW u \in Users PROVE Honest(u)
    <3>1. up[u] = <<>> /\ down[u] = <<>> /\ inbox[u] = <<>> /\ busy[u] = Idle /\ lists[u] = NoLists
      BY <2>2 DEF Init
    <3>2. Idle \in HonestBusy(u)
      BY BusyStates DEF HonestBusy
    <3>3. NoLists.received = {}
      BY DEF NoLists, Kinds
    <3> QED
      BY <2>1, <3>1, <3>2, <3>3 DEF Honest
  <2> QED
    BY <2>2 DEF Init, ConsentInv, PendingAsked, AskedAnother, FriendsConsented, Asked
<1> QED
  BY <1>1, <1>2

\* Nobody gets a friend he did not want, although the server does not look at
\* the request when it carries out an acceptance (ContactRepository.cpp:38):
\* whatever is on its way is honest, so a button to accept was pressed beside a
\* request that had been made.
THEOREM FriendsWantedIt == Spec => []FriendsConsented
<1>1. Init => TypeOK /\ ConsentInv
  BY ConsentInit
<1>2. TypeOK /\ ConsentInv /\ [Next]_vars => (TypeOK /\ ConsentInv)'
  BY TypeStep, ConsentStep
<1>3. ConsentInv => FriendsConsented
  BY DEF ConsentInv
<1> QED
  BY <1>1, <1>2, <1>3, PTL DEF Spec

-----------------------------------------------------------------------------
\* Whether some message of a queue is in Y, and whether one follows each that is
\* in X.
Has(s, Y) == \E i \in DOMAIN s : s[i] \in Y
Follow(s, X, Y) == \A i \in DOMAIN s : s[i] \in X => \E j \in DOMAIN s : j > i /\ s[j] \in Y

\* A message at the end of a queue is one more that it has.
LEMMA HasAppend ==
  ASSUME NEW M, NEW s \in Seq(M), NEW m \in M, NEW Y
  PROVE  Has(Append(s, m), Y) <=> Has(s, Y) \/ m \in Y
<1>1. /\ DOMAIN Append(s, m) = 1 .. Len(s) + 1 /\ DOMAIN s = 1 .. Len(s) /\ Len(s) \in Nat
      /\ Append(s, m)[Len(s) + 1] = m
      /\ \A i \in 1 .. Len(s) : Append(s, m)[i] = s[i]
  OBVIOUS
<1> QED
  BY <1>1 DEF Has

\* What a queue has is its first message or is behind it.
LEMMA HasTail ==
  ASSUME NEW M, NEW s \in Seq(M), s # <<>>, NEW Y
  PROVE  Has(s, Y) <=> Head(s) \in Y \/ Has(Tail(s), Y)
<1>1. /\ DOMAIN Tail(s) = 1 .. Len(s) - 1 /\ DOMAIN s = 1 .. Len(s) /\ Len(s) \in Nat \ {0}
      /\ Head(s) = s[1]
      /\ \A i \in 1 .. Len(s) - 1 : Tail(s)[i] = s[i + 1]
  OBVIOUS
<1>2. ASSUME Has(s, Y), Head(s) \notin Y PROVE Has(Tail(s), Y)
  <2>1. PICK i \in 1 .. Len(s) : s[i] \in Y
    BY <1>1, <1>2 DEF Has
  <2>2. i - 1 \in 1 .. Len(s) - 1 /\ Tail(s)[i - 1] = s[i]
    BY <1>1, <1>2, <2>1
  <2> QED
    BY <1>1, <2>1, <2>2 DEF Has
<1>3. ASSUME Has(Tail(s), Y) PROVE Has(s, Y)
  <2>1. PICK i \in 1 .. Len(s) - 1 : Tail(s)[i] \in Y
    BY <1>1, <1>3 DEF Has
  <2>2. i + 1 \in 1 .. Len(s) /\ s[i + 1] \in Y
    BY <1>1, <2>1
  <2> QED
    BY <1>1, <2>2 DEF Has
<1> QED
  BY <1>1, <1>2, <1>3 DEF Has

\* A message at the end leaves no X without a Y, unless it is an X itself.
LEMMA FollowAppend ==
  ASSUME NEW M, NEW s \in Seq(M), NEW m \in M, NEW X, NEW Y, m \notin X, Follow(s, X, Y) \/ m \in Y
  PROVE  Follow(Append(s, m), X, Y)
<1>1. /\ DOMAIN Append(s, m) = 1 .. Len(s) + 1 /\ DOMAIN s = 1 .. Len(s) /\ Len(s) \in Nat
      /\ Append(s, m)[Len(s) + 1] = m
      /\ \A i \in 1 .. Len(s) : Append(s, m)[i] = s[i]
  OBVIOUS
<1> SUFFICES ASSUME NEW i \in 1 .. Len(s) + 1, Append(s, m)[i] \in X
             PROVE  \E j \in 1 .. Len(s) + 1 : j > i /\ Append(s, m)[j] \in Y
  BY <1>1 DEF Follow
<1>2. i \in 1 .. Len(s) /\ s[i] \in X
  BY <1>1
<1>3. CASE m \in Y
  BY <1>1, <1>2, <1>3
<1>4. CASE Follow(s, X, Y)
  BY <1>1, <1>2, <1>4 DEF Follow
<1> QED
  BY <1>3, <1>4

\* Taking the first message leaves the others as they were; behind it is a Y if
\* it was an X.
LEMMA FollowTail ==
  ASSUME NEW M, NEW s \in Seq(M), s # <<>>, NEW X, NEW Y, Follow(s, X, Y)
  PROVE  Follow(Tail(s), X, Y) /\ (Head(s) \in X => Has(Tail(s), Y))
<1>1. /\ DOMAIN Tail(s) = 1 .. Len(s) - 1 /\ DOMAIN s = 1 .. Len(s) /\ Len(s) \in Nat \ {0}
      /\ Head(s) = s[1]
      /\ \A i \in 1 .. Len(s) - 1 : Tail(s)[i] = s[i + 1]
  OBVIOUS
<1>2. ASSUME NEW i \in 1 .. Len(s), s[i] \in X
      PROVE  \E j \in 1 .. Len(s) - 1 : j + 1 > i /\ Tail(s)[j] \in Y
  <2>1. PICK j \in 1 .. Len(s) : j > i /\ s[j] \in Y
    BY <1>1, <1>2 DEF Follow
  <2>2. j - 1 \in 1 .. Len(s) - 1 /\ Tail(s)[j - 1] = s[j] /\ (j - 1) + 1 > i
    BY <1>1, <2>1
  <2> QED
    BY <2>1, <2>2
<1>3. ASSUME NEW i \in 1 .. Len(s) - 1, Tail(s)[i] \in X
      PROVE  \E j \in 1 .. Len(s) - 1 : j > i /\ Tail(s)[j] \in Y
  <2>1. i + 1 \in 1 .. Len(s) /\ s[i + 1] \in X
    BY <1>1, <1>3
  <2>2. PICK j \in 1 .. Len(s) - 1 : j + 1 > i + 1 /\ Tail(s)[j] \in Y
    BY <1>2, <2>1
  <2> QED
    BY <2>2
<1>4. ASSUME Head(s) \in X PROVE Has(Tail(s), Y)
  <2>1. \E j \in 1 .. Len(s) - 1 : Tail(s)[j] \in Y
    BY <1>1, <1>2, <1>4
  <2> QED
    BY <1>1, <2>1 DEF Has
<1> QED
  BY <1>1, <1>3, <1>4 DEF Follow

\* Without an X there is nothing to follow.
LEMMA FollowNone ==
  ASSUME NEW s, NEW X, NEW Y, ~Has(s, X)
  PROVE  Follow(s, X, Y)
  BY DEF Has, Follow

-----------------------------------------------------------------------------
\* Behind every X of a queue comes a Y, in the same queue, in the next one, or
\* from a thread that is in one of the states B.
Settled(d, i, b, X, Y, B) ==
  /\ Follow(d, X, Y) \/ Has(i, Y) \/ b \in B
  /\ Follow(i, X, Y) \/ b \in B
\* A Y is on its way.
Coming(d, i, b, Y, B) == Has(d, Y) \/ Has(i, Y) \/ b \in B

\* What each way a message moves leaves of the two.
LEMMA Moves ==
  ASSUME NEW M, NEW d \in Seq(M), NEW i \in Seq(M), NEW X, NEW Y, X \cap Y = {}, NEW B, NEW b, NEW c,
         b \in B => c \in B, Settled(d, i, b, X, Y, B)
  PROVE  /\ Settled(d, i, c, X, Y, B)
         /\ \A m \in M : m \notin X \/ Has(i, Y) \/ c \in B => Settled(Append(d, m), i, c, X, Y, B)
         /\ \A m \in M : m \notin X => Settled(d, Append(i, m), c, X, Y, B)
         /\ i # <<>> => Settled(Append(d, Head(i)), Tail(i), c, X, Y, B)
         /\ d # <<>> => Settled(Tail(d), i, c, X, Y, B)
<1>1. Settled(d, i, c, X, Y, B)
  BY DEF Settled
<1>2. ASSUME NEW m \in M, m \notin X \/ Has(i, Y) \/ c \in B PROVE Settled(Append(d, m), i, c, X, Y, B)
  BY <1>1, <1>2, FollowAppend DEF Settled
<1>3. ASSUME NEW m \in M, m \notin X PROVE Settled(d, Append(i, m), c, X, Y, B)
  BY <1>1, <1>3, FollowAppend, HasAppend DEF Settled
<1>4. ASSUME i # <<>> PROVE Settled(Append(d, Head(i)), Tail(i), c, X, Y, B)
  <2>1. Head(i) \in M /\ Tail(i) \in Seq(M)
    BY <1>4
  <2>2. Follow(Tail(i), X, Y) \/ c \in B
    BY <1>1, <1>4, FollowTail DEF Settled
  <2>3. CASE Head(i) \in X
    BY <1>1, <1>4, <2>2, <2>3, FollowTail DEF Settled
  <2>4. CASE Head(i) \in Y
    BY <2>1, <2>2, <2>4, FollowAppend DEF Settled
  <2>5. CASE Head(i) \notin X /\ Head(i) \notin Y
    <3>1. Has(i, Y) => Has(Tail(i), Y)
      BY <1>4, <2>5, HasTail
    <3> QED
      BY <1>1, <2>1, <2>2, <2>5, <3>1, FollowAppend DEF Settled
  <2> QED
    BY <2>3, <2>4, <2>5
<1>5. ASSUME d # <<>> PROVE Settled(Tail(d), i, c, X, Y, B)
  BY <1>1, <1>5, FollowTail DEF Settled
<1> QED
  BY <1>1, <1>2, <1>3, <1>4, <1>5

\* What is on its way stays so until it is shown.
LEMMA Arrives ==
  ASSUME NEW M, NEW d \in Seq(M), NEW i \in Seq(M), NEW Y, NEW B, NEW b, NEW c,
         b \in B => c \in B, Coming(d, i, b, Y, B)
  PROVE  /\ Coming(d, i, c, Y, B)
         /\ \A m \in M : Coming(Append(d, m), i, c, Y, B) /\ Coming(d, Append(i, m), c, Y, B)
         /\ i # <<>> => Coming(Append(d, Head(i)), Tail(i), c, Y, B)
         /\ d # <<>> => Head(d) \in Y \/ Coming(Tail(d), i, c, Y, B)
<1>1. Coming(d, i, c, Y, B)
  BY DEF Coming
<1>2. ASSUME NEW m \in M PROVE Coming(Append(d, m), i, c, Y, B) /\ Coming(d, Append(i, m), c, Y, B)
  BY <1>1, HasAppend DEF Coming
<1>3. ASSUME i # <<>> PROVE Coming(Append(d, Head(i)), Tail(i), c, Y, B)
  <2>1. Head(i) \in M
    BY <1>3
  <2>2. Has(i, Y) => Head(i) \in Y \/ Has(Tail(i), Y)
    BY <1>3, HasTail
  <2>3. Has(d, Y) \/ Head(i) \in Y => Has(Append(d, Head(i)), Y)
    BY <2>1, HasAppend
  <2> QED
    BY <1>1, <2>2, <2>3 DEF Coming
<1>4. ASSUME d # <<>> PROVE Head(d) \in Y \/ Coming(Tail(d), i, c, Y, B)
  BY <1>1, <1>4, HasTail DEF Coming
<1> QED
  BY <1>1, <1>2, <1>3, <1>4

-----------------------------------------------------------------------------
\* The messages that put p into list k when they are shown, and the ones that
\* take him out.
Adds(k, p) ==
  {m \in Message :
     \/ m.kind = "fetched" /\ m.list = k /\ p \in m.users
     \/ m.kind = "response" /\ m.to = p /\ (\/ k = "sent" /\ m.op = "send"
                                            \/ k = "friends" /\ m.op = "accept")
     \/ m.kind = "note" /\ m.from = p /\ (\/ k = "received" /\ m.op = "send"
                                          \/ k = "friends" /\ m.op = "accept")}
Drops(k, p) ==
  {m \in Message :
     \/ m.kind = "fetched" /\ m.list = k /\ p \notin m.users
     \/ m.kind = "response" /\ m.to = p /\ (\/ k = "sent" /\ m.op = "cancel"
                                            \/ k = "received" /\ m.op \in {"accept", "reject"}
                                            \/ k = "friends" /\ m.op = "delete")
     \/ m.kind = "note" /\ m.from = p /\ (\/ k = "received" /\ m.op = "cancel"
                                          \/ k = "sent" /\ m.op \in {"accept", "reject"}
                                          \/ k = "friends" /\ m.op = "delete")}

\* What the fields of a message range over.
LEMMA Fields ==
  ASSUME NEW m \in Message
  PROVE  /\ m.kind = "fetched" => m.list \in Kinds /\ m.users \subseteq Users
         /\ m.kind = "response" => m.op \in Ops /\ m.to \in Users
         /\ m.kind = "note" => m.op \in Ops /\ m.from \in Users
         /\ m.kind \in {"fetched", "response", "note"}
  BY DEF Message, Fetched, Response, Note

\* No message says both of the same user.
LEMMA AddsOrDrops ==
  ASSUME NEW k, NEW p
  PROVE  Adds(k, p) \cap Drops(k, p) = {}
  BY DEF Adds, Drops

\* The list after a message is shown.
Shown(l, m) ==
  CASE m.kind = "fetched" -> [l EXCEPT ![m.list] = m.users]
    [] m.kind = "response" -> OnResponse(l, m.op, m.to)
    [] m.kind = "note" -> OnNote(l, m.op, m.from)

\* Whom a list holds after a message: whom it adds, and who was there and is not
\* dropped.
LEMMA ListShown ==
  ASSUME NEW l \in Lists, NEW m \in Message, NEW k \in Kinds, NEW p \in Users
  PROVE  p \in Shown(l, m)[k] <=> m \in Adds(k, p) \/ (p \in l[k] /\ m \notin Drops(k, p))
<1>1. ASSUME NEW f \in Lists, NEW x \in Kinds, NEW q \in Users
      PROVE  /\ With(f, x, q) \in Lists /\ Without(f, x, q) \in Lists
             /\ p \in With(f, x, q)[k] <=> (p \in f[k] \/ (x = k /\ p = q))
             /\ p \in Without(f, x, q)[k] <=> (p \in f[k] /\ ~(x = k /\ p = q))
  BY DEF With, Without, Lists
<1>2. k \in {"friends", "sent", "received"} /\ "friends" \in Kinds /\ "sent" \in Kinds /\ "received" \in Kinds
  BY DEF Kinds
<1>3. CASE m.kind = "fetched"
  BY <1>3, Fields DEF Shown, Adds, Drops, Lists
<1>4. CASE m.kind = "response"
  <2>1. Shown(l, m) = OnResponse(l, m.op, m.to) /\ m.op \in Ops /\ m.to \in Users
    BY <1>4, Fields DEF Shown
  <2>2. /\ m \in Adds(k, p) <=>
             m.to = p /\ (\/ k = "sent" /\ m.op = "send"
                          \/ k = "friends" /\ m.op = "accept")
        /\ m \in Drops(k, p) <=>
             m.to = p /\ (\/ k = "sent" /\ m.op = "cancel"
                          \/ k = "received" /\ m.op \in {"accept", "reject"}
                          \/ k = "friends" /\ m.op = "delete")
    BY <1>4 DEF Adds, Drops
  <2>3. CASE m.op = "send"
    <3>1. Shown(l, m) = With(l, "sent", m.to)
      BY <2>1, <2>3 DEF OnResponse
    <3>2. p \in With(l, "sent", m.to)[k] <=> p \in l[k] \/ (k = "sent" /\ p = m.to)
      BY <1>1, <1>2, <2>1
    <3>3. m \in Adds(k, p) <=> m.to = p /\ k = "sent"
      BY <2>2, <2>3
    <3>4. m \notin Drops(k, p)
      BY <2>2, <2>3
    <3> QED
      BY <3>1, <3>2, <3>3, <3>4
  <2>4. CASE m.op = "cancel"
    <3>1. Shown(l, m) = Without(l, "sent", m.to)
      BY <2>1, <2>4 DEF OnResponse
    <3>2. p \in Without(l, "sent", m.to)[k] <=> p \in l[k] /\ ~(k = "sent" /\ p = m.to)
      BY <1>1, <1>2, <2>1
    <3>3. m \notin Adds(k, p)
      BY <2>2, <2>4
    <3>4. m \in Drops(k, p) <=> m.to = p /\ k = "sent"
      BY <2>2, <2>4
    <3> QED
      BY <3>1, <3>2, <3>3, <3>4
  <2>5. CASE m.op = "accept"
    <3>1. Shown(l, m) = With(Without(l, "received", m.to), "friends", m.to)
      BY <2>1, <2>5 DEF OnResponse
    <3>2. p \in With(Without(l, "received", m.to), "friends", m.to)[k] <=>
            (p \in l[k] /\ ~(k = "received" /\ p = m.to)) \/ (k = "friends" /\ p = m.to)
      <4>1. Without(l, "received", m.to) \in Lists
        BY <1>1, <1>2, <2>1
      <4>2. p \in Without(l, "received", m.to)[k] <=> p \in l[k] /\ ~(k = "received" /\ p = m.to)
        BY <1>1, <1>2, <2>1
      <4>3. p \in With(Without(l, "received", m.to), "friends", m.to)[k] <=>
              p \in Without(l, "received", m.to)[k] \/ (k = "friends" /\ p = m.to)
        BY <1>1, <1>2, <2>1, <4>1
      <4> QED
        BY <4>2, <4>3
    <3>3. m \in Adds(k, p) <=> m.to = p /\ k = "friends"
      BY <2>2, <2>5
    <3>4. m \in Drops(k, p) <=> m.to = p /\ k = "received"
      BY <2>2, <2>5
    <3> QED
      BY <3>1, <3>2, <3>3, <3>4
  <2>6. CASE m.op = "reject"
    <3>1. Shown(l, m) = Without(l, "received", m.to)
      BY <2>1, <2>6 DEF OnResponse
    <3>2. p \in Without(l, "received", m.to)[k] <=> p \in l[k] /\ ~(k = "received" /\ p = m.to)
      BY <1>1, <1>2, <2>1
    <3>3. m \notin Adds(k, p)
      BY <2>2, <2>6
    <3>4. m \in Drops(k, p) <=> m.to = p /\ k = "received"
      BY <2>2, <2>6
    <3> QED
      BY <3>1, <3>2, <3>3, <3>4
  <2>7. CASE m.op = "delete"
    <3>1. Shown(l, m) = Without(l, "friends", m.to)
      BY <2>1, <2>7 DEF OnResponse
    <3>2. p \in Without(l, "friends", m.to)[k] <=> p \in l[k] /\ ~(k = "friends" /\ p = m.to)
      BY <1>1, <1>2, <2>1
    <3>3. m \notin Adds(k, p)
      BY <2>2, <2>7
    <3>4. m \in Drops(k, p) <=> m.to = p /\ k = "friends"
      BY <2>2, <2>7
    <3> QED
      BY <3>1, <3>2, <3>3, <3>4
  <2> QED
    BY <2>1, <2>3, <2>4, <2>5, <2>6, <2>7 DEF Ops
<1>5. CASE m.kind = "note"
  <2>1. Shown(l, m) = OnNote(l, m.op, m.from) /\ m.op \in Ops /\ m.from \in Users
    BY <1>5, Fields DEF Shown
  <2>2. /\ m \in Adds(k, p) <=>
             m.from = p /\ (\/ k = "received" /\ m.op = "send"
                            \/ k = "friends" /\ m.op = "accept")
        /\ m \in Drops(k, p) <=>
             m.from = p /\ (\/ k = "received" /\ m.op = "cancel"
                            \/ k = "sent" /\ m.op \in {"accept", "reject"}
                            \/ k = "friends" /\ m.op = "delete")
    BY <1>5 DEF Adds, Drops
  <2>3. CASE m.op = "send"
    <3>1. Shown(l, m) = With(l, "received", m.from)
      BY <2>1, <2>3 DEF OnNote
    <3>2. p \in With(l, "received", m.from)[k] <=> p \in l[k] \/ (k = "received" /\ p = m.from)
      BY <1>1, <1>2, <2>1
    <3>3. m \in Adds(k, p) <=> m.from = p /\ k = "received"
      BY <2>2, <2>3
    <3>4. m \notin Drops(k, p)
      BY <2>2, <2>3
    <3> QED
      BY <3>1, <3>2, <3>3, <3>4
  <2>4. CASE m.op = "cancel"
    <3>1. Shown(l, m) = Without(l, "received", m.from)
      BY <2>1, <2>4 DEF OnNote
    <3>2. p \in Without(l, "received", m.from)[k] <=> p \in l[k] /\ ~(k = "received" /\ p = m.from)
      BY <1>1, <1>2, <2>1
    <3>3. m \notin Adds(k, p)
      BY <2>2, <2>4
    <3>4. m \in Drops(k, p) <=> m.from = p /\ k = "received"
      BY <2>2, <2>4
    <3> QED
      BY <3>1, <3>2, <3>3, <3>4
  <2>5. CASE m.op = "accept"
    <3>1. Shown(l, m) = Without(With(l, "friends", m.from), "sent", m.from)
      BY <2>1, <2>5 DEF OnNote
    <3>2. p \in Without(With(l, "friends", m.from), "sent", m.from)[k] <=>
            (p \in l[k] /\ ~(k = "sent" /\ p = m.from)) \/ (k = "friends" /\ p = m.from)
      <4>1. With(l, "friends", m.from) \in Lists
        BY <1>1, <1>2, <2>1
      <4>2. p \in With(l, "friends", m.from)[k] <=> p \in l[k] \/ (k = "friends" /\ p = m.from)
        BY <1>1, <1>2, <2>1
      <4>3. p \in Without(With(l, "friends", m.from), "sent", m.from)[k] <=>
              p \in With(l, "friends", m.from)[k] /\ ~(k = "sent" /\ p = m.from)
        BY <1>1, <1>2, <2>1, <4>1
      <4> QED
        BY <4>2, <4>3
    <3>3. m \in Adds(k, p) <=> m.from = p /\ k = "friends"
      BY <2>2, <2>5
    <3>4. m \in Drops(k, p) <=> m.from = p /\ k = "sent"
      BY <2>2, <2>5
    <3> QED
      BY <3>1, <3>2, <3>3, <3>4
  <2>6. CASE m.op = "reject"
    <3>1. Shown(l, m) = Without(l, "sent", m.from)
      BY <2>1, <2>6 DEF OnNote
    <3>2. p \in Without(l, "sent", m.from)[k] <=> p \in l[k] /\ ~(k = "sent" /\ p = m.from)
      BY <1>1, <1>2, <2>1
    <3>3. m \notin Adds(k, p)
      BY <2>2, <2>6
    <3>4. m \in Drops(k, p) <=> m.from = p /\ k = "sent"
      BY <2>2, <2>6
    <3> QED
      BY <3>1, <3>2, <3>3, <3>4
  <2>7. CASE m.op = "delete"
    <3>1. Shown(l, m) = Without(l, "friends", m.from)
      BY <2>1, <2>7 DEF OnNote
    <3>2. p \in Without(l, "friends", m.from)[k] <=> p \in l[k] /\ ~(k = "friends" /\ p = m.from)
      BY <1>1, <1>2, <2>1
    <3>3. m \notin Adds(k, p)
      BY <2>2, <2>7
    <3>4. m \in Drops(k, p) <=> m.from = p /\ k = "friends"
      BY <2>2, <2>7
    <3> QED
      BY <3>1, <3>2, <3>3, <3>4
  <2> QED
    BY <2>1, <2>3, <2>4, <2>5, <2>6, <2>7 DEF Ops
<1> QED
  BY <1>3, <1>4, <1>5, Fields

-----------------------------------------------------------------------------
\* Answers, notifications, fetched lists and what a thread is about to do.
Reply(op, q) == [kind |-> "response", op |-> op, to |-> q]
Notice(op, q) == [kind |-> "note", op |-> op, from |-> q]
Rows(k, s) == [kind |-> "fetched", list |-> k, users |-> s]
Doing(at, op, q) == [at |-> at, op |-> op, to |-> q]
Asks(s, k) == Has(s, {Fetch(k)})

\* The steps, as far as the lists of any user and the tables are concerned.
QueriesStay == \A w \in Users, k \in Kinds : Asks(up[w], k) => Asks(up'[w], k)
LogsIn(v) ==
  /\ session[v] = "none" /\ session' = [session EXCEPT ![v] = "on"]
  /\ \A k \in Kinds : Asks(up'[v], k)
  /\ \A w \in Users \ {v} : up'[w] = up[w]
  /\ UNCHANGED <<lists, down, busy, inbox, tables>>
Presses(v) ==
  /\ session[v] = "on"
  /\ \A w \in Users \ {v} : up'[w] = up[w]
  /\ QueriesStay
  /\ UNCHANGED <<session, lists, down, busy, inbox, tables>>
\* The thread of x tells it of a request that is carried out.
Done(op, x, y) ==
  \/ op = "send" /\ busy[x] = Idle /\ <<x, y>> \in pending'
  \/ op \in {"send", "cancel", "reject"} /\ busy[x] = Doing("commit", op, y) /\ UNCHANGED pending
  \/ op = "accept" /\ busy[x] = Doing("befriend", "accept", y) /\ {x, y} \in friendships' /\ UNCHANGED pending
  \/ op = "delete" /\ busy[x] = Doing("unfriend", "delete", y) /\ {x, y} \in deleted' /\ UNCHANGED pending
Answers(v, op, q) ==
  /\ down' = [down EXCEPT ![v] = Append(@, Reply(op, q))]
  /\ busy' = [busy EXCEPT ![v] = Doing("notify", op, q)]
  /\ Done(op, v, q)
  /\ op = "send" => /\ pending' \subseteq pending \cup {<<v, q>>} /\ pending \subseteq pending'
                    /\ UNCHANGED <<friendships, deleted>>
  /\ op \in {"cancel", "reject"} => UNCHANGED <<friendships, deleted>>
  /\ op = "accept" => friendships' = friendships \cup {{v, q}} /\ UNCHANGED deleted
  /\ op = "delete" => friendships' = friendships \ {{v, q}} /\ deleted' = deleted \cup {{v, q}}
  /\ rows \subseteq rows'
  /\ UNCHANGED <<session, lists, inbox, refused>>
\* v's thread comes to a step, and tells nobody.
Goes(v, at, op, q) ==
  \/ /\ at = "begin" /\ op = "send" /\ busy[v] = Idle /\ <<v, q>> \in rows
     /\ UNCHANGED <<rows, pending>>
  \/ /\ at = "update" /\ op = "send" /\ busy[v] = Doing("begin", "send", q)
     /\ UNCHANGED <<rows, pending>>
  \/ /\ at = "update" /\ op # "send" /\ busy[v] = Idle
     /\ UNCHANGED <<rows, pending>>
  \/ /\ at = "delete" /\ op \in {"accept", "reject"} /\ busy[v] = Doing("update", op, q)
     /\ UNCHANGED rows /\ pending' = pending \ {<<q, v>>}
  \/ /\ at = "commit" /\ op = "send" /\ busy[v] = Doing("update", "send", q)
     /\ UNCHANGED rows /\ pending' = pending \cup ({<<v, q>>} \cap rows)
  \/ /\ at = "commit" /\ op = "cancel" /\ busy[v] = Doing("update", "cancel", q)
     /\ UNCHANGED rows /\ pending' = pending \ {<<v, q>>}
  \/ /\ at = "commit" /\ op \in {"accept", "reject"} /\ busy[v] = Doing("delete", op, q)
     /\ rows' = rows \ {<<q, v>>} /\ pending' = pending \ {<<q, v>>}
  \/ /\ at = "befriend" /\ op = "accept" /\ busy[v] = Doing("commit", "accept", q)
     /\ UNCHANGED <<rows, pending>>
  \/ /\ at = "unfriend" /\ op = "delete" /\ busy[v] = Idle
     /\ UNCHANGED <<rows, pending>>
Proceeds(v, at, op, q) ==
  /\ busy' = [busy EXCEPT ![v] = Doing(at, op, q)]
  /\ Goes(v, at, op, q)
  /\ UNCHANGED <<session, lists, down, inbox, friendships, deleted, refused>>
\* The row that v's request to do op to q is about.
Subject(v, op, q) == IF op \in {"accept", "reject"} THEN <<q, v>> ELSE <<v, q>>
Fails(v, op, q) ==
  /\ busy[v] = Doing("commit", op, q) /\ busy' = [busy EXCEPT ![v] = Idle]
  /\ refused' = refused \cup {<<op, Subject(v, op, q)>>}
  /\ UNCHANGED <<session, lists, down, inbox, rows, pending, friendships, deleted>>
Refuses == UNCHANGED <<session, lists, down, busy, inbox, tables>>
Queried(v, k) ==
  /\ down' = [down EXCEPT ![v] = Append(@, Rows(k, Table(v, k)))]
  /\ \A w \in Users, j \in Kinds : Asks(up[w], j) => (w = v /\ j = k) \/ Asks(up'[w], j)
  /\ UNCHANGED <<session, lists, busy, inbox, tables>>
Notifies(v, op, q) ==
  /\ busy[v] = Doing("notify", op, q) /\ busy' = [busy EXCEPT ![v] = Idle]
  /\ inbox' = IF session[q] = "on" THEN [inbox EXCEPT ![q] = Append(@, Notice(op, v))] ELSE inbox
  /\ UNCHANGED <<session, lists, up, down, tables>>
Delivers(v) ==
  /\ busy[v] = Idle /\ inbox[v] # <<>>
  /\ down' = [down EXCEPT ![v] = Append(@, Head(inbox[v]))]
  /\ inbox' = [inbox EXCEPT ![v] = Tail(@)]
  /\ UNCHANGED <<session, lists, up, busy, tables>>
Shows(v) ==
  /\ session[v] = "on" /\ down[v] # <<>>
  /\ lists' = [lists EXCEPT ![v] = Shown(@, Head(down[v]))]
  /\ down' = [down EXCEPT ![v] = Tail(@)]
  /\ UNCHANGED <<session, up, busy, inbox, tables>>
Closes(v) ==
  /\ session[v] = "on" /\ session' = [session EXCEPT ![v] = "closed"]
  /\ lists' = [lists EXCEPT ![v] = NoLists]
  /\ \A w \in Users \ {v} : up'[w] = up[w]
  /\ UNCHANGED <<down, busy, inbox, tables>>
\* v's thread has a request to carry out, or is about to tell of one.
Works(v) == (up[v] # <<>> \/ busy[v] # Idle) /\ \A w \in Users \ {v} : up'[w] = up[w]

Silent == {"begin", "update", "delete", "commit", "befriend", "unfriend"}

\* Every step is one of these, of some user.
ActorStep(v) ==
  \/ LogsIn(v) \/ Presses(v) \/ Shows(v) \/ Closes(v) \/ Delivers(v)
  \/ \E op \in Ops, q \in Users : Answers(v, op, q) /\ Works(v) /\ QueriesStay
  \/ \E at \in Silent, op \in Ops, q \in Users : Proceeds(v, at, op, q) /\ Works(v) /\ QueriesStay
  \/ \E op \in Ops, q \in Users : Fails(v, op, q) /\ Works(v) /\ QueriesStay
  \/ Refuses /\ Works(v) /\ QueriesStay
  \/ \E k \in Kinds : Queried(v, k) /\ Works(v)
  \/ \E op \in Ops, q \in Users : Notifies(v, op, q)

\* The actions of the model do that.
LEMMA StepCases ==
  ASSUME TypeOK, Next
  PROVE  \E v \in Users : ActorStep(v)
<1>1. PICK v \in Users : \/ Login(v) \/ Close(v) \/ Server(v) \/ Show(v)
                         \/ \E op \in Ops, p \in Users : Press(v, op, p)
  BY DEF Next
<1> SUFFICES ActorStep(v)
  OBVIOUS
<1> USE DEF ActorStep
\* What taking a request leaves of the queries that are under way.
<1>2. ASSUME up[v] # <<>>, up' = [up EXCEPT ![v] = Tail(@)], NEW j \in Kinds, Asks(up[v], j)
      PROVE  Head(up[v]) = Fetch(j) \/ Asks(up'[v], j)
  <2>1. up'[v] = Tail(up[v]) /\ up[v] \in Seq(Request)
    BY <1>2 DEF TypeOK
  <2> QED
    BY <1>2, <2>1, HasTail DEF Asks
<1>3. ASSUME up[v] # <<>>, Head(up[v]).op # "fetch", up' = [up EXCEPT ![v] = Tail(@)] PROVE Works(v) /\ QueriesStay
  <2>1. \A j \in Kinds : Head(up[v]) # Fetch(j)
    BY <1>3 DEF Fetch
  <2>2. \A w \in Users \ {v} : up'[w] = up[w]
    BY <1>3 DEF TypeOK
  <2> QED
    BY <1>2, <1>3, <2>1, <2>2 DEF QueriesStay, Works
<1>4. ASSUME up[v] # <<>>, Head(up[v]).op \in Ops PROVE Peer(v) \in Users
  <2>1. Head(up[v]) \in Request
    BY <1>4, Sequence DEF TypeOK
  <2> QED
    BY <1>4, <2>1 DEF Peer, Request, Ops
<1>5. CASE Login(v)
  <2>1. up'[v] = <<Fetch("friends"), Fetch("sent"), Fetch("received")>>
    BY <1>5 DEF Login, TypeOK
  <2>2. \A k \in Kinds : Asks(up'[v], k)
    BY <2>1 DEF Asks, Has, Kinds
  <2> QED
    BY <1>5, <2>2 DEF Login, LogsIn, TypeOK, tables
<1>6. ASSUME NEW op \in Ops, NEW p \in Users, Press(v, op, p) PROVE Presses(v)
  <2> DEFINE r == [op |-> op, to |-> p]
  <2>1. r \in Request /\ up[v] \in Seq(Request)
    BY DEF Request, TypeOK
  <2>2. up' = [up EXCEPT ![v] = Append(@, r)]
    BY <1>6 DEF Press
  <2> HIDE DEF r
  <2>3. up'[v] = Append(up[v], r) /\ \A w \in Users \ {v} : up'[w] = up[w]
    BY <2>2 DEF TypeOK
  <2>4. \A k \in Kinds : Asks(up[v], k) => Asks(up'[v], k)
    BY <2>1, <2>3, HasAppend DEF Asks
  <2> QED
    BY <1>6, <2>3, <2>4 DEF Press, Presses, QueriesStay, tables
<1>7. CASE Show(v)
  <2>1. lists' = [lists EXCEPT ![v] = Shown(@, Head(down[v]))]
    BY <1>7 DEF Show, Shown
  <2> QED
    BY <1>7, <2>1 DEF Show, Shows, tables
<1>8. CASE Close(v)
  <2>1. \A w \in Users \ {v} : up'[w] = up[w]
    BY <1>8 DEF Close, TypeOK
  <2> QED
    BY <1>8, <2>1 DEF Close, Closes, tables
<1>9. CASE InsertRequest(v)
  <2>1. Peer(v) \in Users /\ Works(v) /\ QueriesStay
    BY <1>3, <1>4, <1>9 DEF InsertRequest, Takes, Ops
  <2>2. Answers(v, "send", Peer(v))
    <3>1. Done("send", v, Peer(v))
      BY <1>9 DEF InsertRequest, Takes, Done
    <3> QED
      BY <1>9, <3>1 DEF InsertRequest, Answers, Respond, Tell, Goto, Reply, Doing, client
  <2> QED
    BY <2>1, <2>2 DEF Ops
<1>10. CASE FindRequest(v)
  <2>1. Peer(v) \in Users /\ Works(v) /\ QueriesStay
    BY <1>3, <1>4, <1>10 DEF FindRequest, Takes, Ops
  <2>2. Proceeds(v, "begin", "send", Peer(v))
    <3>1. Goes(v, "begin", "send", Peer(v))
      BY <1>10 DEF FindRequest, Takes, Goes, tables, requests
    <3> QED
      BY <1>10, <3>1 DEF FindRequest, Proceeds, Goto, Doing, client, tables, requests
  <2> QED
    BY <2>1, <2>2 DEF Ops, Silent
<1>11. ASSUME NEW op \in {"cancel", "accept", "reject"}, BeginChange(v, op) PROVE ActorStep(v)
  <2>1. Peer(v) \in Users /\ Works(v) /\ QueriesStay
    BY <1>3, <1>4, <1>11 DEF BeginChange, Takes, Ops
  <2>2. Proceeds(v, "update", op, Peer(v))
    <3>1. Goes(v, "update", op, Peer(v))
      BY <1>11 DEF BeginChange, Begin, Takes, Goes
    <3> QED
      BY <1>11, <3>1 DEF BeginChange, Begin, Proceeds, Goto, Doing, client
  <2> QED
    BY <2>1, <2>2 DEF Ops, Silent
<1>13. CASE CheckFriends(v)
  <2>1. Peer(v) \in Users /\ Works(v) /\ QueriesStay
    BY <1>3, <1>4, <1>13 DEF CheckFriends, Takes, Ops
  <2>2. CASE {v, Peer(v)} \in friendships
    <3>1. Goes(v, "unfriend", "delete", Peer(v))
      BY <1>13, <2>2 DEF CheckFriends, Takes, Goes, tables, requests
    <3>2. Proceeds(v, "unfriend", "delete", Peer(v))
      BY <1>13, <2>2, <3>1 DEF CheckFriends, Proceeds, Goto, Doing, client, tables, requests
    <3> QED
      BY <2>1, <3>2 DEF Ops, Silent
  <2>3. CASE {v, Peer(v)} \notin friendships
    BY <1>13, <2>1, <2>3 DEF CheckFriends, Refuses, client
  <2> QED
    BY <2>2, <2>3
<1>14. ASSUME busy[v].at \in {"begin", "update", "delete", "commit", "befriend", "unfriend", "notify"}, up' = up
       PROVE  /\ busy[v].op \in Ops /\ busy[v].to \in Users /\ Works(v) /\ QueriesStay
              /\ busy[v] = Doing(busy[v].at, busy[v].op, busy[v].to)
              /\ busy[v].at = "begin" => busy[v].op = "send"
              /\ busy[v].at \in {"update", "commit"} => busy[v].op \in Ops \ {"delete"}
              /\ busy[v].at = "delete" => busy[v].op \in {"accept", "reject"}
              /\ busy[v].at = "befriend" => busy[v].op = "accept"
              /\ busy[v].at = "unfriend" => busy[v].op = "delete"
  <2>1. busy[v] # Idle /\ busy[v] \in Busy
    BY <1>14, IdleFields DEF TypeOK
  <2>2. Works(v) /\ QueriesStay
    BY <1>14, <2>1 DEF Works, QueriesStay
  <2> QED
    BY <2>1, <2>2, BusyFields DEF Doing
<1>12. ASSUME BeginSend(v) \/ Update(v) \/ Delete(v) \/ (Commit(v) /\ busy[v].op = "accept")
       PROVE  ActorStep(v)
  <2> DEFINE op == busy[v].op
             p == busy[v].to
  <2>1. /\ busy[v].at \in {"begin", "update", "delete", "commit"} /\ up' = up
        /\ UNCHANGED <<session, lists, down, inbox, friendships, deleted, refused>>
    BY <1>12 DEF BeginSend, Begin, Update, Delete, Commit, client
  <2>2. /\ op \in Ops /\ p \in Users /\ Works(v) /\ QueriesStay
        /\ busy[v] = Doing(busy[v].at, op, p)
        /\ busy[v].at = "begin" => op = "send"
        /\ busy[v].at \in {"update", "commit"} => op \in Ops \ {"delete"}
        /\ busy[v].at = "delete" => op \in {"accept", "reject"}
    BY <1>14, <2>1
  <2>3. Row(v) = Subject(v, op, p)
    BY DEF Row, Subject
  <2>4. PICK at \in Silent : busy' = [busy EXCEPT ![v] = Doing(at, op, p)] /\ Goes(v, at, op, p)
    <3>1. CASE BeginSend(v)
      <4>1. busy' = [busy EXCEPT ![v] = Doing("update", op, p)]
        BY <2>2, <3>1 DEF BeginSend, Goto, Doing
      <4>2. Goes(v, "update", op, p)
        BY <2>2, <3>1 DEF BeginSend, Begin, Goes
      <4> QED
        BY <4>1, <4>2 DEF Silent
    <3>2. CASE Update(v)
      <4>0. op \in {"send", "cancel", "accept", "reject"} /\ busy[v] = Doing("update", op, p)
        BY <2>2, <3>2 DEF Update, Ops
      <4>1. CASE op \in {"accept", "reject"}
        <5>1. busy' = [busy EXCEPT ![v] = Doing("delete", op, p)]
          BY <3>2, <4>1 DEF Update, Goto, Doing
        <5>2. Goes(v, "delete", op, p)
          BY <2>3, <3>2, <4>0, <4>1 DEF Update, Goes, Subject
        <5> QED
          BY <5>1, <5>2 DEF Silent
      <4>2. CASE op \in {"send", "cancel"}
        <5>1. busy' = [busy EXCEPT ![v] = Doing("commit", op, p)]
          BY <3>2, <4>2 DEF Update, Goto, Doing
        <5>2. Goes(v, "commit", op, p)
          BY <2>3, <3>2, <4>0, <4>2 DEF Update, Goes, Subject
        <5> QED
          BY <5>1, <5>2 DEF Silent
      <4> QED
        BY <4>0, <4>1, <4>2
    <3>3. CASE Delete(v)
      <4>0. op \in {"accept", "reject"} /\ busy[v] = Doing("delete", op, p)
        BY <2>2, <3>3 DEF Delete
      <4>1. busy' = [busy EXCEPT ![v] = Doing("commit", op, p)]
        BY <3>3 DEF Delete, Goto, Doing
      <4>2. Goes(v, "commit", op, p)
        BY <2>3, <3>3, <4>0 DEF Delete, Goes, Subject
      <4> QED
        BY <4>1, <4>2 DEF Silent
    <3>4. CASE Commit(v) /\ op = "accept"
      <4>0. busy[v] = Doing("commit", op, p)
        BY <2>2, <3>4 DEF Commit
      <4>1. busy' = [busy EXCEPT ![v] = Doing("befriend", op, p)]
        BY <3>4 DEF Commit, Goto, Doing
      <4>2. Goes(v, "befriend", op, p)
        BY <3>4, <4>0 DEF Commit, Goes
      <4> QED
        BY <4>1, <4>2 DEF Silent
    <3> QED
      BY <1>12, <3>1, <3>2, <3>3, <3>4
  <2> HIDE DEF op, p
  <2>5. Proceeds(v, at, op, p)
    BY <2>1, <2>4 DEF Proceeds
  <2> QED
    BY <2>2, <2>4, <2>5
<1>15. ASSUME (Commit(v) /\ busy[v].op # "accept") \/ Befriend(v) \/ Unfriend(v) PROVE ActorStep(v)
  <2> DEFINE op == busy[v].op
             p == busy[v].to
  <2>1. /\ busy[v].at \in {"commit", "befriend", "unfriend"} /\ up' = up
        /\ UNCHANGED <<session, lists, inbox, rows, pending, refused>>
    BY <1>15 DEF Commit, Befriend, Unfriend, client, requests
  <2>2. /\ op \in Ops /\ p \in Users /\ Works(v) /\ QueriesStay
        /\ busy[v] = Doing(busy[v].at, op, p)
        /\ busy[v].at = "commit" => op \in Ops \ {"delete"}
        /\ busy[v].at = "befriend" => op = "accept"
        /\ busy[v].at = "unfriend" => op = "delete"
    BY <1>14, <2>1
  <2>3. /\ down' = [down EXCEPT ![v] = Append(@, Reply(op, p))]
        /\ busy' = [busy EXCEPT ![v] = Doing("notify", op, p)]
    BY <1>15, <2>2 DEF Commit, Befriend, Unfriend, Respond, Tell, Goto, Reply, Doing
  <2>4. CASE Commit(v) /\ op # "accept"
    <3>1. op \in {"send", "cancel", "reject"} /\ busy[v] = Doing("commit", op, p)
      BY <2>2, <2>4 DEF Commit, Ops
    <3>2. Done(op, v, p)
      BY <2>1, <3>1 DEF Done
    <3>3. UNCHANGED <<friendships, deleted>>
      BY <2>4 DEF Commit
    <3> HIDE DEF op, p
    <3>4. Answers(v, op, p)
      BY <2>1, <2>3, <3>1, <3>2, <3>3 DEF Answers
    <3> QED
      BY <2>2, <3>4
  <2>5. CASE Befriend(v)
    <3>1. op = "accept" /\ busy[v] = Doing("befriend", "accept", p)
      BY <2>2, <2>5 DEF Befriend
    <3>2. friendships' = friendships \cup {{v, p}} /\ UNCHANGED deleted
      BY <2>5 DEF Befriend
    <3> HIDE DEF op, p
    <3>3. Done("accept", v, p)
      BY <2>1, <3>1, <3>2 DEF Done
    <3>4. Answers(v, "accept", p)
      BY <2>1, <2>3, <3>1, <3>2, <3>3 DEF Answers
    <3> QED
      BY <2>2, <3>1, <3>4
  <2>6. CASE Unfriend(v)
    <3>1. op = "delete" /\ busy[v] = Doing("unfriend", "delete", p)
      BY <2>2, <2>6 DEF Unfriend
    <3>2. friendships' = friendships \ {{v, p}} /\ deleted' = deleted \cup {{v, p}}
      BY <2>6 DEF Unfriend
    <3> HIDE DEF op, p
    <3>3. Done("delete", v, p)
      BY <2>1, <3>1, <3>2 DEF Done
    <3>4. Answers(v, "delete", p)
      BY <2>1, <2>3, <3>1, <3>2, <3>3 DEF Answers
    <3> QED
      BY <2>2, <3>1, <3>4
  <2> QED
    BY <1>15, <2>4, <2>5, <2>6
<1>16. CASE CommitFails(v)
  <2> DEFINE op == busy[v].op
             p == busy[v].to
  <2>1. busy[v].at = "commit" /\ up' = up
    BY <1>16 DEF CommitFails
  <2>2. op \in Ops /\ p \in Users /\ Works(v) /\ QueriesStay /\ busy[v] = Doing("commit", op, p)
    BY <1>14, <2>1
  <2>3. Row(v) = Subject(v, op, p)
    BY DEF Row, Subject
  <2>4. /\ busy' = [busy EXCEPT ![v] = Idle] /\ refused' = refused \cup {<<op, Subject(v, op, p)>>}
        /\ UNCHANGED <<session, lists, down, inbox, rows, pending, friendships, deleted>>
    BY <1>16, <2>3 DEF CommitFails, client
  <2> HIDE DEF op, p
  <2>5. Fails(v, op, p)
    BY <2>2, <2>4 DEF Fails
  <2> QED
    BY <2>2, <2>5
<1>17. CASE ServeFetch(v)
  <2> DEFINE k == Head(up[v]).list
  <2>1. Head(up[v]) \in Request /\ Head(up[v]).op = "fetch"
    BY <1>17, Sequence DEF ServeFetch, Takes, TypeOK
  <2>2. k \in Kinds /\ \A j \in Kinds : Head(up[v]) = Fetch(j) => j = k
    BY <2>1 DEF Request, Ops, Fetch
  <2>3. Works(v) /\ \A w \in Users \ {v} : up'[w] = up[w]
    BY <1>17 DEF ServeFetch, Takes, Works, TypeOK
  <2>4. \A w \in Users, j \in Kinds : Asks(up[w], j) => (w = v /\ j = k) \/ Asks(up'[w], j)
    BY <1>2, <1>17, <2>2, <2>3 DEF ServeFetch, Takes
  <2>5. down' = [down EXCEPT ![v] = Append(@, Rows(k, Table(v, k)))] /\ UNCHANGED <<client, busy, inbox, tables>>
    BY <1>17 DEF ServeFetch, Tell, Rows
  <2> HIDE DEF k
  <2>6. Queried(v, k)
    BY <2>4, <2>5 DEF Queried, client
  <2> QED
    BY <2>2, <2>3, <2>6
<1>18. CASE Notify(v)
  <2>1. busy[v].op \in Ops /\ busy[v].to \in Users
    BY <1>14, <1>18 DEF Notify
  <2>2. busy[v] = Doing("notify", busy[v].op, busy[v].to)
    BY <1>14, <1>18 DEF Notify
  <2>3. Notifies(v, busy[v].op, busy[v].to)
    BY <1>18, <2>2 DEF Notify, Notifies, Notice, client, tables
  <2> QED
    BY <2>1, <2>3
<1>19. CASE Deliver(v)
  BY <1>19 DEF Deliver, Delivers, Tell, client, tables
<1> QED
  <2>1. CASE Server(v)
    BY <2>1, <1>9, <1>10, <1>11, <1>12, <1>13, <1>15, <1>16, <1>17, <1>18, <1>19 DEF Server
  <2> QED
    BY <1>1, <1>5, <1>6, <1>7, <1>8, <2>1

-----------------------------------------------------------------------------
\* What a step may do to the queues and the lists of u.
Same(u) == down'[u] = down[u] /\ inbox'[u] = inbox[u] /\ lists'[u] = lists[u]
Told(u, m) == down'[u] = Append(down[u], m) /\ inbox'[u] = inbox[u] /\ lists'[u] = lists[u]
Noted(u, m) == down'[u] = down[u] /\ inbox'[u] = Append(inbox[u], m) /\ lists'[u] = lists[u]
Delivered(u) ==
  /\ inbox[u] # <<>> /\ busy[u] = Idle
  /\ down'[u] = Append(down[u], Head(inbox[u])) /\ inbox'[u] = Tail(inbox[u]) /\ lists'[u] = lists[u]
Displayed(u) ==
  /\ down[u] # <<>>
  /\ down'[u] = Tail(down[u]) /\ inbox'[u] = inbox[u] /\ lists'[u] = Shown(lists[u], Head(down[u]))
Left(u) ==
  session'[u] = "closed" /\ down'[u] = down[u] /\ inbox'[u] = inbox[u] /\ lists'[u] = NoLists

\* What it can be about: nothing, an answer of u's own thread, a fetched list, a
\* notification, a message that moves on, or the end of u's session.
Event(u) ==
  \/ Same(u) /\ \A k \in Kinds : Asks(up[u], k) /\ session'[u] = session[u] => Asks(up'[u], k)
  \/ \E op \in Ops, q \in Users :
       /\ Told(u, Reply(op, q)) /\ busy'[u] = Doing("notify", op, q) /\ Done(op, u, q)
       /\ \A k \in Kinds : Asks(up[u], k) => Asks(up'[u], k)
  \/ \E k \in Kinds :
       /\ Told(u, Rows(k, Table(u, k))) /\ UNCHANGED <<busy, tables>>
       /\ \A j \in Kinds : Asks(up[u], j) => j = k \/ Asks(up'[u], j)
  \/ \E op \in Ops, q \in Users :
       /\ Noted(u, Notice(op, q)) /\ busy[q] = Doing("notify", op, u) /\ busy' = [busy EXCEPT ![q] = Idle]
       /\ UNCHANGED <<up, tables>>
  \/ (Delivered(u) \/ Displayed(u)) /\ UNCHANGED <<up, busy, tables>>
  \/ Left(u) /\ UNCHANGED <<busy, tables>>

\* No step is about more than one of them.
LEMMA ClientStep ==
  ASSUME TypeOK, Next, NEW u \in Users
  PROVE  Event(u)
<1> USE DEF Event
<1>1. ASSUME NEW v \in Users, LogsIn(v) \/ Presses(v) PROVE Event(u)
  <2>1. Same(u)
    BY <1>1 DEF LogsIn, Presses, Same
  <2>2. \A k \in Kinds : Asks(up[u], k) /\ session'[u] = session[u] => Asks(up'[u], k)
    <3>1. CASE LogsIn(v)
      BY <3>1 DEF LogsIn
    <3>2. CASE Presses(v)
      BY <3>2 DEF Presses, QueriesStay
    <3> QED
      BY <1>1, <3>1, <3>2
  <2> QED
    BY <2>1, <2>2
<1>2. ASSUME NEW v \in Users, Shows(v) PROVE Event(u)
  <2>1. CASE v = u
    BY <1>2, <2>1 DEF Shows, Displayed, TypeOK
  <2>2. CASE v # u
    BY <1>2, <2>2 DEF Shows, Same, TypeOK
  <2> QED
    BY <2>1, <2>2
<1>3. ASSUME NEW v \in Users, Closes(v) PROVE Event(u)
  <2>1. CASE v = u
    BY <1>3, <2>1 DEF Closes, Left, TypeOK, tables
  <2>2. CASE v # u
    <3>1. Same(u) /\ up'[u] = up[u]
      BY <1>3, <2>2 DEF Closes, Same, TypeOK
    <3> QED
      BY <3>1
  <2> QED
    BY <2>1, <2>2
<1>4. ASSUME NEW v \in Users, Delivers(v) PROVE Event(u)
  <2>1. CASE v = u
    BY <1>4, <2>1 DEF Delivers, Delivered, TypeOK
  <2>2. CASE v # u
    BY <1>4, <2>2 DEF Delivers, Same, TypeOK
  <2> QED
    BY <2>1, <2>2
<1>5. ASSUME NEW v \in Users, NEW op \in Ops, NEW q \in Users, Answers(v, op, q), QueriesStay PROVE Event(u)
  <2>0. \A k \in Kinds : Asks(up[u], k) => Asks(up'[u], k)
    BY <1>5 DEF QueriesStay
  <2>1. CASE v = u
    <3>1. Told(u, Reply(op, q)) /\ busy'[u] = Doing("notify", op, q)
      BY <1>5, <2>1 DEF Answers, Told, TypeOK
    <3>2. Done(op, u, q)
      BY <1>5, <2>1 DEF Answers
    <3> QED
      BY <2>0, <3>1, <3>2
  <2>2. CASE v # u
    <3>1. Same(u)
      BY <1>5, <2>2 DEF Answers, Same, TypeOK
    <3> QED
      BY <2>0, <3>1
  <2> QED
    BY <2>1, <2>2
<1>6. ASSUME NEW v \in Users, NEW at, NEW op, NEW q,
             Proceeds(v, at, op, q) \/ Fails(v, op, q) \/ Refuses, QueriesStay
      PROVE  Event(u)
  <2>1. Same(u)
    BY <1>6 DEF Proceeds, Fails, Refuses, Same
  <2>2. \A k \in Kinds : Asks(up[u], k) => Asks(up'[u], k)
    BY <1>6 DEF QueriesStay
  <2> QED
    BY <2>1, <2>2
<1>7. ASSUME NEW v \in Users, NEW k \in Kinds, Queried(v, k) PROVE Event(u)
  <2>1. CASE v = u
    <3>1. Told(u, Rows(k, Table(u, k)))
      BY <1>7, <2>1 DEF Queried, Told, TypeOK
    <3>2. UNCHANGED <<busy, tables>> /\ \A j \in Kinds : Asks(up[u], j) => j = k \/ Asks(up'[u], j)
      BY <1>7, <2>1 DEF Queried
    <3> QED
      BY <3>1, <3>2
  <2>2. CASE v # u
    <3>1. Same(u) /\ \A j \in Kinds : Asks(up[u], j) => Asks(up'[u], j)
      BY <1>7, <2>2 DEF Queried, Same, TypeOK
    <3> QED
      BY <3>1
  <2> QED
    BY <2>1, <2>2
<1>8. ASSUME NEW v \in Users, NEW op \in Ops, NEW q \in Users, Notifies(v, op, q) PROVE Event(u)
  <2>1. CASE q = u /\ session[u] = "on"
    <3>1. Noted(u, Notice(op, v))
      BY <1>8, <2>1 DEF Notifies, Noted, TypeOK
    <3>2. busy[v] = Doing("notify", op, u) /\ busy' = [busy EXCEPT ![v] = Idle] /\ UNCHANGED <<up, tables>>
      BY <1>8, <2>1 DEF Notifies
    <3> QED
      BY <3>1, <3>2
  <2>2. CASE ~(q = u /\ session[u] = "on")
    <3>1. Same(u) /\ up' = up
      BY <1>8, <2>2 DEF Notifies, Same, TypeOK
    <3> QED
      BY <3>1
  <2> QED
    BY <2>1, <2>2
<1> QED
  BY StepCases, <1>1, <1>2, <1>3, <1>4, <1>5, <1>6, <1>7, <1>8 DEF ActorStep

\* What a step may do to the request that p's thread is carrying out.
LEMMA ThreadStep ==
  ASSUME TypeOK, Next, NEW p \in Users
  PROVE  \/ busy'[p] = busy[p]
         \/ \E op \in Ops, q \in Users :
              busy'[p] = Doing("notify", op, q) /\ Done(op, p, q) /\ Told(p, Reply(op, q))
         \/ \E at \in Silent, op \in Ops, q \in Users : busy'[p] = Doing(at, op, q) /\ Goes(p, at, op, q)
         \/ \E op \in Ops, q \in Users :
              busy[p] = Doing("commit", op, q) /\ busy'[p] = Idle /\ <<op, Subject(p, op, q)>> \in refused'
         \/ \E op \in Ops, q \in Users :
              /\ busy[p] = Doing("notify", op, q) /\ busy'[p] = Idle
              /\ session[q] = "on" => Noted(q, Notice(op, p)) /\ up' = up
<1>1. PICK v \in Users : ActorStep(v)
  BY StepCases
<1>2. CASE v # p
  <2>1. ASSUME NEW b, busy' = [busy EXCEPT ![v] = b] PROVE busy'[p] = busy[p]
    BY <1>2, <2>1 DEF TypeOK
  <2>2. busy' = busy \/ \E b : busy' = [busy EXCEPT ![v] = b]
    BY <1>1 DEF LogsIn, Presses, Shows, Closes, Delivers, Answers, Proceeds, Fails, Refuses, Queried, Notifies, ActorStep
  <2> QED
    BY <2>1, <2>2
<1>3. CASE LogsIn(v) \/ Presses(v) \/ Shows(v) \/ Closes(v) \/ Delivers(v) \/ Refuses \/ \E k \in Kinds : Queried(v, k)
  <2>1. busy' = busy
    BY <1>3 DEF LogsIn, Presses, Shows, Closes, Delivers, Refuses, Queried
  <2> QED
    BY <2>1
<1>4. ASSUME v = p, NEW op \in Ops, NEW q \in Users, Answers(v, op, q)
      PROVE  busy'[p] = Doing("notify", op, q) /\ Done(op, p, q) /\ Told(p, Reply(op, q))
  BY <1>4 DEF Answers, Told, TypeOK
<1>5. ASSUME v = p, NEW at \in Silent, NEW op \in Ops, NEW q \in Users, Proceeds(v, at, op, q)
      PROVE  busy'[p] = Doing(at, op, q) /\ Goes(p, at, op, q)
  BY <1>5 DEF Proceeds, TypeOK
<1>6. ASSUME v = p, NEW op \in Ops, NEW q \in Users, Fails(v, op, q)
      PROVE  busy[p] = Doing("commit", op, q) /\ busy'[p] = Idle /\ <<op, Subject(p, op, q)>> \in refused'
  BY <1>6 DEF Fails, TypeOK
<1>7. ASSUME v = p, NEW op \in Ops, NEW q \in Users, Notifies(v, op, q)
      PROVE  /\ busy[p] = Doing("notify", op, q) /\ busy'[p] = Idle
             /\ session[q] = "on" => Noted(q, Notice(op, p)) /\ up' = up
  BY <1>7 DEF Notifies, Noted, TypeOK
<1> QED
  BY <1>1, <1>2, <1>3, <1>4, <1>5, <1>6, <1>7 DEF ActorStep

\* What a step may do to the rows about x and y.
Answered(x) == {Doing(at, op, x) : at \in {"delete", "commit"}, op \in {"accept", "reject"}}
LEMMA TablesStep ==
  ASSUME TypeOK, Next, NEW x \in Users, NEW y \in Users
  PROVE  /\ <<x, y>> \in pending' =>
              <<x, y>> \in pending \/ busy'[x] \in {Doing("notify", "send", y), Doing("commit", "send", y)}
         /\ <<x, y>> \in pending =>
              <<x, y>> \in pending' \/ busy'[x] = Doing("commit", "cancel", y) \/ busy'[y] \in Answered(x)
         /\ <<x, y>> \in rows => <<x, y>> \in rows' \/ busy'[y] \in Answered(x)
         /\ {x, y} \in friendships' =>
              \/ {x, y} \in friendships
              \/ busy'[x] = Doing("notify", "accept", y) /\ Told(x, Reply("accept", y))
              \/ busy'[y] = Doing("notify", "accept", x) /\ Told(y, Reply("accept", x))
         /\ {x, y} \in friendships => {x, y} \in friendships' \/ {x, y} \in deleted'
         /\ deleted \subseteq deleted' /\ refused \subseteq refused'
<1>1. PICK v \in Users : ActorStep(v)
  BY StepCases
<1>2. CASE UNCHANGED tables
  BY <1>2 DEF tables, requests
<1>3. ASSUME NEW at \in Silent, NEW op \in Ops, NEW q \in Users, Proceeds(v, at, op, q)
      PROVE  /\ busy'[v] = Doing(at, op, q) /\ UNCHANGED <<friendships, deleted, refused>>
             /\ <<x, y>> \in pending' \ pending => at = "commit" /\ op = "send" /\ x = v /\ y = q
             /\ <<x, y>> \in pending \ pending' =>
                  \/ at = "commit" /\ op = "cancel" /\ x = v /\ y = q
                  \/ at \in {"delete", "commit"} /\ op \in {"accept", "reject"} /\ x = q /\ y = v
             /\ <<x, y>> \in rows \ rows' => at = "commit" /\ op \in {"accept", "reject"} /\ x = q /\ y = v
  <2>1. busy'[v] = Doing(at, op, q) /\ UNCHANGED <<friendships, deleted, refused>> /\ Goes(v, at, op, q)
    BY <1>3 DEF Proceeds, TypeOK
  <2> QED
    BY <2>1 DEF Goes
<1>4. ASSUME NEW op \in Ops, NEW q \in Users, Answers(v, op, q)
      PROVE  /\ busy'[v] = Doing("notify", op, q) /\ Told(v, Reply(op, q))
             /\ <<x, y>> \in pending' \ pending => op = "send" /\ x = v /\ y = q
             /\ pending \subseteq pending' /\ rows \subseteq rows'
             /\ {x, y} \in friendships' \ friendships => op = "accept" /\ {x, y} = {v, q}
             /\ {x, y} \in friendships \ friendships' => {x, y} \in deleted'
             /\ deleted \subseteq deleted' /\ refused \subseteq refused'
  <2>1. busy'[v] = Doing("notify", op, q) /\ Told(v, Reply(op, q))
    BY <1>4 DEF Answers, Told, TypeOK
  <2>2. CASE op = "send"
    BY <1>4, <2>1, <2>2 DEF Answers
  <2>3. CASE op # "send"
    <3>1. UNCHANGED pending
      BY <1>4, <2>3 DEF Answers, Done
    <3> QED
      BY <1>4, <2>1, <2>3, <3>1 DEF Answers, Ops
  <2> QED
    BY <2>2, <2>3
<1>5. ASSUME NEW op \in Ops, NEW q \in Users, {x, y} = {v, q}
      PROVE  (x = v /\ y = q) \/ (x = q /\ y = v)
  BY <1>5
<1>6. CASE \E op \in Ops, q \in Users : Answers(v, op, q)
  <2>1. PICK op \in Ops, q \in Users : Answers(v, op, q)
    BY <1>6
  <2> QED
    BY <1>4, <1>5, <2>1
<1>7. CASE \E at \in Silent, op \in Ops, q \in Users : Proceeds(v, at, op, q)
  <2>1. PICK at \in Silent, op \in Ops, q \in Users : Proceeds(v, at, op, q)
    BY <1>7
  <2>2. at \in {"delete", "commit"} /\ op \in {"accept", "reject"} => Doing(at, op, q) \in Answered(q)
    BY DEF Answered
  <2> QED
    BY <1>3, <2>1, <2>2
<1>8. CASE \E op \in Ops, q \in Users : Fails(v, op, q)
  BY <1>8 DEF Fails
<1> QED
  BY <1>1, <1>2, <1>6, <1>7, <1>8 DEF LogsIn, Presses, Shows, Closes, Delivers, Refuses, Queried, Notifies, ActorStep

-----------------------------------------------------------------------------
\* p ought to be in a list ("in") or not ("out"): the messages that make it so,
\* the ones that undo it, and the lists for which it is so.
Right(k, p, side) == IF side = "in" THEN Adds(k, p) ELSE Drops(k, p)
Wrong(k, p, side) == IF side = "in" THEN Drops(k, p) ELSE Adds(k, p)
Good(p, side) == {l \in SUBSET Users : p \in l <=> side = "in"}

\* u's list k is right about p, or will be: behind every message that would make
\* it wrong there is one that makes it right, and one of these, or the answer to
\* a query, comes if it is not right already.
Synced(u, k, p, side, B) ==
  /\ Settled(down[u], inbox[u], busy[p], Wrong(k, p, side), Right(k, p, side), B)
  /\ \/ lists[u][k] \in Good(p, side)
     \/ Asks(up[u], k)
     \/ Coming(down[u], inbox[u], busy[p], Right(k, p, side), B)

\* A shown message that makes a list right does, and only a wrong one undoes it.
LEMMA Sides ==
  ASSUME NEW l \in Lists, NEW m \in Message, NEW k \in Kinds, NEW p \in Users, NEW side \in {"in", "out"}
  PROVE  /\ Wrong(k, p, side) \cap Right(k, p, side) = {}
         /\ m \in Right(k, p, side) => Shown(l, m)[k] \in Good(p, side)
         /\ l[k] \in Good(p, side) /\ m \notin Wrong(k, p, side) => Shown(l, m)[k] \in Good(p, side)
<1>1. Shown(l, m) \in Lists
  BY Fields, ListsStay DEF Shown, Lists
<1>2. Shown(l, m)[k] \in SUBSET Users
  BY <1>1 DEF Lists
<1>3. p \in Shown(l, m)[k] <=> m \in Adds(k, p) \/ (p \in l[k] /\ m \notin Drops(k, p))
  BY ListShown
<1>4. Adds(k, p) \cap Drops(k, p) = {}
  BY AddsOrDrops
<1>5. CASE side = "in"
  BY <1>2, <1>3, <1>4, <1>5 DEF Right, Wrong, Good
<1>6. CASE side = "out"
  BY <1>2, <1>3, <1>4, <1>6 DEF Right, Wrong, Good
<1> QED
  BY <1>5, <1>6

\* Synced survives a step that is not about u ...
LEMMA SyncedSame ==
  ASSUME NEW u, NEW k, NEW p, NEW side, NEW B, Synced(u, k, p, side, B),
         Same(u), Asks(up[u], k) => Asks(up'[u], k), busy[p] \in B => busy'[p] \in B
  PROVE  Synced(u, k, p, side, B)'
  BY DEF Synced, Same, Settled, Coming

\* ... holds while p's thread is about to tell u ...
LEMMA SyncedBusy ==
  ASSUME NEW u, NEW k, NEW p, NEW side, NEW B, busy'[p] \in B
  PROVE  Synced(u, k, p, side, B)'
  BY DEF Synced, Settled, Coming

\* ... survives an answer of u's own thread, unless it is wrong and nothing that
\* puts it right is behind it ...
LEMMA SyncedTold ==
  ASSUME TypeOK, NEW u \in Users, NEW p \in Users, NEW k \in Kinds, NEW side \in {"in", "out"}, NEW B,
         Synced(u, k, p, side, B), NEW m \in Message, Told(u, m),
         m \notin Wrong(k, p, side) \/ Has(inbox[u], Right(k, p, side)),
         Asks(up[u], k) => Asks(up'[u], k) \/ m \in Right(k, p, side),
         busy[p] \in B => busy'[p] \in B
  PROVE  Synced(u, k, p, side, B)'
<1> DEFINE X == Wrong(k, p, side)
           Y == Right(k, p, side)
<1>1. down[u] \in Seq(Message) /\ inbox[u] \in Seq(Message) /\ lists[u] \in Lists
  BY WiderSequence DEF TypeOK, Message
<1>2. X \cap Y = {}
  BY <1>1, Sides
<1>3. /\ Settled(down[u], inbox[u], busy[p], X, Y, B)
      /\ lists[u][k] \in Good(p, side) \/ Asks(up[u], k) \/ Coming(down[u], inbox[u], busy[p], Y, B)
  BY DEF Synced
<1>4. down'[u] = Append(down[u], m) /\ inbox'[u] = inbox[u] /\ lists'[u] = lists[u]
  BY DEF Told
<1>5. m \notin X \/ Has(inbox[u], Y)
  OBVIOUS
<1>6. Asks(up[u], k) => Asks(up'[u], k) \/ m \in Y
  OBVIOUS
<1> HIDE DEF X, Y
<1>7. Settled(Append(down[u], m), inbox[u], busy'[p], X, Y, B)
  BY <1>1, <1>2, <1>3, <1>5, Moves
<1>8. Coming(down[u], inbox[u], busy[p], Y, B) => Coming(Append(down[u], m), inbox[u], busy'[p], Y, B)
  BY <1>1, Arrives
<1>9. m \in Y => Coming(Append(down[u], m), inbox[u], busy'[p], Y, B)
  BY <1>1, HasAppend DEF Coming
<1> QED
  BY <1>3, <1>4, <1>6, <1>7, <1>8, <1>9 DEF Synced, X, Y

\* ... survives a notification, unless it is wrong ...
LEMMA SyncedNoted ==
  ASSUME TypeOK, NEW u \in Users, NEW p \in Users, NEW k \in Kinds, NEW side \in {"in", "out"}, NEW B,
         Synced(u, k, p, side, B), NEW m \in Note, Noted(u, m), Asks(up[u], k) => Asks(up'[u], k),
         \/ m \in Right(k, p, side)
         \/ m \notin Wrong(k, p, side) /\ (busy[p] \in B => busy'[p] \in B)
  PROVE  Synced(u, k, p, side, B)'
<1> DEFINE X == Wrong(k, p, side)
           Y == Right(k, p, side)
<1>1. down[u] \in Seq(Message) /\ inbox[u] \in Seq(Message) /\ lists[u] \in Lists /\ m \in Message
  BY WiderSequence DEF TypeOK, Message
<1>2. X \cap Y = {}
  BY <1>1, Sides
<1>3. /\ Settled(down[u], inbox[u], busy[p], X, Y, B)
      /\ lists[u][k] \in Good(p, side) \/ Asks(up[u], k) \/ Coming(down[u], inbox[u], busy[p], Y, B)
  BY DEF Synced
<1>4. down'[u] = down[u] /\ inbox'[u] = Append(inbox[u], m) /\ lists'[u] = lists[u]
  BY DEF Noted
<1>5. m \in Y \/ (m \notin X /\ (busy[p] \in B => busy'[p] \in B))
  OBVIOUS
<1> HIDE DEF X, Y
<1>6. CASE m \in Y
  <2>1. Has(Append(inbox[u], m), Y)
    BY <1>1, <1>6, HasAppend
  <2>2. Follow(Append(inbox[u], m), X, Y)
    BY <1>1, <1>2, <1>6, FollowAppend
  <2> QED
    BY <1>4, <2>1, <2>2 DEF Synced, Settled, Coming, X, Y
<1>7. CASE m \notin X /\ (busy[p] \in B => busy'[p] \in B)
  <2>1. Settled(down[u], Append(inbox[u], m), busy'[p], X, Y, B)
    BY <1>1, <1>2, <1>3, <1>7, Moves
  <2>2. Coming(down[u], inbox[u], busy[p], Y, B) => Coming(down[u], Append(inbox[u], m), busy'[p], Y, B)
    BY <1>1, <1>7, Arrives
  <2> QED
    BY <1>3, <1>4, <2>1, <2>2 DEF Synced, X, Y
<1> QED
  BY <1>5, <1>6, <1>7

\* ... and survives every message that moves on, or is shown.
LEMMA SyncedMoved ==
  ASSUME TypeOK, NEW u \in Users, NEW p \in Users, NEW k \in Kinds, NEW side \in {"in", "out"}, NEW B,
         Synced(u, k, p, side, B), Delivered(u) \/ Displayed(u), up'[u] = up[u], busy'[p] = busy[p]
  PROVE  Synced(u, k, p, side, B)'
<1> DEFINE X == Wrong(k, p, side)
           Y == Right(k, p, side)
<1>1. down[u] \in Seq(Message) /\ inbox[u] \in Seq(Message) /\ lists[u] \in Lists
  BY WiderSequence DEF TypeOK, Message
<1>2. X \cap Y = {}
  BY AddsOrDrops DEF Right, Wrong
<1>3. /\ Settled(down[u], inbox[u], busy[p], X, Y, B)
      /\ lists[u][k] \in Good(p, side) \/ Asks(up[u], k) \/ Coming(down[u], inbox[u], busy[p], Y, B)
  BY DEF Synced
<1>4. \A m \in Message : /\ m \in Y => Shown(lists[u], m)[k] \in Good(p, side)
                         /\ lists[u][k] \in Good(p, side) /\ m \notin X => Shown(lists[u], m)[k] \in Good(p, side)
  BY <1>1, Sides
<1> HIDE DEF X, Y
<1>5. CASE Delivered(u)
  <2>1. Settled(Append(down[u], Head(inbox[u])), Tail(inbox[u]), busy[p], X, Y, B)
    BY <1>1, <1>2, <1>3, <1>5, Moves DEF Delivered
  <2>2. Coming(down[u], inbox[u], busy[p], Y, B) =>
          Coming(Append(down[u], Head(inbox[u])), Tail(inbox[u]), busy[p], Y, B)
    BY <1>1, <1>5, Arrives DEF Delivered
  <2> QED
    BY <1>3, <1>5, <2>1, <2>2 DEF Delivered, Synced, X, Y
<1>6. CASE Displayed(u)
  <2> DEFINE m == Head(down[u])
  <2>1. down[u] # <<>> /\ m \in Message /\ Tail(down[u]) \in Seq(Message)
    BY <1>1, <1>6 DEF Displayed
  <2>2. Settled(Tail(down[u]), inbox[u], busy[p], X, Y, B)
    BY <1>1, <1>2, <1>3, <2>1, Moves
  <2>3. m \in X => Coming(Tail(down[u]), inbox[u], busy[p], Y, B)
    BY <1>1, <1>3, <2>1, FollowTail DEF Settled, Coming
  <2>4. Coming(down[u], inbox[u], busy[p], Y, B) => m \in Y \/ Coming(Tail(down[u]), inbox[u], busy[p], Y, B)
    BY <1>1, <2>1, Arrives
  <2>5. down'[u] = Tail(down[u]) /\ inbox'[u] = inbox[u] /\ lists'[u] = Shown(lists[u], m)
    BY <1>6 DEF Displayed
  <2> HIDE DEF m
  <2>6. \/ lists'[u][k] \in Good(p, side)
        \/ Asks(up[u], k)
        \/ Coming(Tail(down[u]), inbox[u], busy[p], Y, B)
    BY <1>3, <1>4, <2>1, <2>3, <2>4, <2>5
  <2> QED
    BY <2>2, <2>5, <2>6 DEF Synced, X, Y
<1> QED
  BY <1>5, <1>6

\* An answer that is right makes a list synced, if no notification contradicts it.
LEMMA SyncedNow ==
  ASSUME TypeOK, NEW u \in Users, NEW p \in Users, NEW k \in Kinds, NEW side \in {"in", "out"}, NEW B,
         NEW m \in Message, Told(u, m), m \in Right(k, p, side), ~Has(inbox[u], Wrong(k, p, side))
  PROVE  Synced(u, k, p, side, B)'
<1> DEFINE X == Wrong(k, p, side)
           Y == Right(k, p, side)
<1>1. down[u] \in Seq(Message) /\ X \cap Y = {} /\ m \in Y
  BY AddsOrDrops DEF TypeOK, Message, Right, Wrong
<1>2. down'[u] = Append(down[u], m) /\ inbox'[u] = inbox[u]
  BY DEF Told
<1>3. Follow(inbox[u], X, Y)
  BY FollowNone
<1> HIDE DEF X, Y
<1>4. Follow(Append(down[u], m), X, Y) /\ Has(Append(down[u], m), Y)
  BY <1>1, FollowAppend, HasAppend
<1> QED
  BY <1>2, <1>3, <1>4 DEF Synced, Settled, Coming, X, Y

\* A client that has not logged in waits for nothing.
Fresh(u) ==
  session[u] = "none" =>
    up[u] = <<>> /\ down[u] = <<>> /\ inbox[u] = <<>> /\ busy[u] = Idle /\ lists[u] = NoLists

\* A client that logs in fetches everything.
LEMMA SyncedLogin ==
  ASSUME NEW u \in Users, NEW p, NEW k \in Kinds, NEW side, NEW B, Fresh(u), LogsIn(u)
  PROVE  Synced(u, k, p, side, B)'
<1>1. down'[u] = <<>> /\ inbox'[u] = <<>> /\ Asks(up'[u], k)
  BY DEF Fresh, LogsIn
<1>2. ASSUME NEW X, NEW Y PROVE Follow(<<>>, X, Y)
  BY DEF Follow
<1> QED
  BY <1>1, <1>2 DEF Synced, Settled

\* A session begins and ends only with its own client.
LEMMA SessionStep ==
  ASSUME TypeOK, Next, NEW u \in Users
  PROVE  session'[u] = session[u] \/ LogsIn(u) \/ session'[u] = "closed"
<1>1. PICK v \in Users : ActorStep(v)
  BY StepCases
<1>2. CASE LogsIn(v) \/ Closes(v)
  <2>1. CASE v = u
    BY <1>2, <2>1 DEF Closes, TypeOK
  <2>2. CASE v # u
    BY <1>2, <2>2 DEF LogsIn, Closes, TypeOK
  <2> QED
    BY <2>1, <2>2
<1> QED
  BY <1>1, <1>2 DEF Presses, Shows, Delivers, Answers, Proceeds, Fails, Refuses, Queried, Notifies, ActorStep

\* Nothing happens to a client that has not logged in.
LEMMA FreshStep ==
  ASSUME TypeOK, Next, NEW u \in Users, Fresh(u)
  PROVE  Fresh(u)'
<1> SUFFICES ASSUME session'[u] = "none"
             PROVE  (up[u] = <<>> /\ down[u] = <<>> /\ inbox[u] = <<>> /\ busy[u] = Idle /\ lists[u] = NoLists)'
  BY DEF Fresh
<1>1. session[u] = "none"
  BY SessionStep DEF LogsIn, TypeOK
<1>2. up[u] = <<>> /\ down[u] = <<>> /\ inbox[u] = <<>> /\ busy[u] = Idle /\ lists[u] = NoLists
  BY <1>1 DEF Fresh
<1>3. ASSUME NEW v \in Users, Works(v) PROVE v # u /\ up'[u] = up[u]
  BY <1>2, <1>3 DEF Works
<1>4. PICK v \in Users : ActorStep(v)
  BY StepCases
<1>5. CASE LogsIn(v)
  BY <1>1, <1>2, <1>5 DEF LogsIn, TypeOK
<1>6. CASE Presses(v) \/ Shows(v) \/ Closes(v)
  BY <1>1, <1>2, <1>6 DEF Presses, Shows, Closes, TypeOK
<1>7. CASE Delivers(v)
  BY <1>2, <1>7 DEF Delivers, TypeOK
<1>8. ASSUME NEW op \in Ops, NEW q \in Users, Answers(v, op, q), Works(v)
      PROVE  (up[u] = <<>> /\ down[u] = <<>> /\ inbox[u] = <<>> /\ busy[u] = Idle /\ lists[u] = NoLists)'
  BY <1>2, <1>3, <1>8 DEF Answers, TypeOK
<1>9. ASSUME NEW at, NEW op, NEW q, Proceeds(v, at, op, q) \/ Fails(v, op, q) \/ Refuses, Works(v)
      PROVE  (up[u] = <<>> /\ down[u] = <<>> /\ inbox[u] = <<>> /\ busy[u] = Idle /\ lists[u] = NoLists)'
  BY <1>2, <1>3, <1>9 DEF Proceeds, Fails, Refuses, TypeOK
<1>10. ASSUME NEW k \in Kinds, Queried(v, k), Works(v)
       PROVE  (up[u] = <<>> /\ down[u] = <<>> /\ inbox[u] = <<>> /\ busy[u] = Idle /\ lists[u] = NoLists)'
  BY <1>2, <1>3, <1>10 DEF Queried, TypeOK
<1>11. ASSUME NEW op \in Ops, NEW q \in Users, Notifies(v, op, q)
       PROVE  (up[u] = <<>> /\ down[u] = <<>> /\ inbox[u] = <<>> /\ busy[u] = Idle /\ lists[u] = NoLists)'
  BY <1>1, <1>2, <1>11 DEF Notifies, TypeOK
<1> QED
  BY <1>4, <1>5, <1>6, <1>7, <1>8, <1>9, <1>10, <1>11 DEF ActorStep

-----------------------------------------------------------------------------
\* The invariant of each list: what a user of the table ought to see there, with
\* the half-done requests of the other user that are about to tell, or to fail.
\* An answer that takes a request out comes after the notification of it, and one
\* that puts a request in before the notification that it is answered.
Asking(u) == {Doing("commit", "send", u), Doing("notify", "send", u)}
Ending(u, p) ==
  \E at \in {"commit", "befriend"}, op \in {"accept", "reject"} : busy[u] = Doing(at, op, p)
ReceivedInv(u, p) ==
  <<p, u>> \in pending /\ <<"send", <<p, u>>>> \notin refused =>
    /\ busy[p] \notin {Doing("commit", "cancel", u), Doing("notify", "cancel", u)}
    /\ session[u] = "on" =>
         /\ Synced(u, "received", p, "in", Asking(u))
         /\ Ending(u, p) => Has(inbox[u], Adds("received", p)) \/ busy[p] \in Asking(u)

Answering(u) ==
  {Doing(at, op, u) : at \in {"delete", "commit", "befriend", "notify"}, op \in {"accept", "reject"}}
Spoiled(u, p) == \E op \in Ops \ {"send"} : <<op, <<u, p>>>> \in refused
\* u repeats a request that is gone.
Late(u, p) ==
  \/ busy[u] = Doing("commit", "send", p) /\ <<u, p>> \notin pending
  \/ busy[u] \in {Doing("begin", "send", p), Doing("update", "send", p)} /\ <<u, p>> \notin rows
SentInv(u, p) ==
  session[u] = "on" /\ ~Spoiled(u, p) =>
    /\ <<u, p>> \notin pending =>
         busy[u] = Doing("commit", "cancel", p) \/ Synced(u, "sent", p, "out", Answering(u))
    /\ Late(u, p) => Has(inbox[u], Drops("sent", p)) \/ busy[p] \in Answering(u)

Befriending(u) == {Doing("notify", "accept", u)}
FriendInv(u, p) ==
  session[u] = "on" /\ {u, p} \in friendships /\ {u, p} \notin deleted =>
    Synced(u, "friends", p, "in", Befriending(u))

\* None of the messages Z is on its way: nothing ends a friendship that neither
\* user has ended, and nothing starts one that is not in the table.
Clean(d, i, b, Z, B) == ~Has(d, Z) /\ ~Has(i, Z) /\ b \notin B
Deletes(p) == {m \in Drops("friends", p) : m.kind # "fetched"}
Deleting(u) == {Doing("notify", "delete", u)}
StrangerInv(u, p) ==
  {u, p} \notin deleted =>
    /\ Clean(down[u], inbox[u], busy[p], Deletes(p), Deleting(u))
    /\ {u, p} \notin friendships =>
         /\ Clean(down[u], inbox[u], busy[p], Adds("friends", p), Befriending(u))
         /\ p \notin lists[u].friends

ListsInv ==
  /\ \A u \in Users : Fresh(u)
  /\ \A u, p \in Users : ReceivedInv(u, p)
  /\ \A u, p \in Users : SentInv(u, p)
  /\ \A u, p \in Users : FriendInv(u, p)
  /\ \A u, p \in Users : StrangerInv(u, p)

\* Which answers and notifications say what about p.
LEMMA ReplySays ==
  ASSUME NEW op \in Ops, NEW q \in Users, NEW p \in Users, NEW k \in Kinds
  PROVE  /\ Reply(op, q) \in Message
         /\ Reply(op, q) \in Adds(k, p) <=>
              q = p /\ (\/ k = "sent" /\ op = "send"
                        \/ k = "friends" /\ op = "accept")
         /\ Reply(op, q) \in Drops(k, p) <=>
              q = p /\ (\/ k = "sent" /\ op = "cancel"
                        \/ k = "received" /\ op \in {"accept", "reject"}
                        \/ k = "friends" /\ op = "delete")
<1>1. Reply(op, q).kind = "response" /\ Reply(op, q).op = op /\ Reply(op, q).to = q
  BY DEF Reply
<1>2. Reply(op, q) \in Message
  BY DEF Reply, Response, Message
<1> QED
  BY <1>1, <1>2 DEF Adds, Drops

\* The same of notifications ...
LEMMA NoticeSays ==
  ASSUME NEW op \in Ops, NEW q \in Users, NEW p \in Users, NEW k \in Kinds
  PROVE  /\ Notice(op, q) \in Note /\ Notice(op, q) \in Message
         /\ Notice(op, q) \in Adds(k, p) <=>
              q = p /\ (\/ k = "received" /\ op = "send"
                        \/ k = "friends" /\ op = "accept")
         /\ Notice(op, q) \in Drops(k, p) <=>
              q = p /\ (\/ k = "received" /\ op = "cancel"
                        \/ k = "sent" /\ op \in {"accept", "reject"}
                        \/ k = "friends" /\ op = "delete")
<1>1. Notice(op, q).kind = "note" /\ Notice(op, q).op = op /\ Notice(op, q).from = q
  BY DEF Notice
<1>2. Notice(op, q) \in Note /\ Notice(op, q) \in Message
  BY DEF Notice, Note, Message
<1> QED
  BY <1>1, <1>2 DEF Adds, Drops

\* ... and of fetched lists.
LEMMA RowsSay ==
  ASSUME NEW j \in Kinds, NEW u \in Users, NEW p \in Users, NEW k \in Kinds
  PROVE  /\ Rows(j, Table(u, j)) \in Message
         /\ Rows(j, Table(u, j)) \in Adds(k, p) <=> j = k /\ p \in Table(u, k)
         /\ Rows(j, Table(u, j)) \in Drops(k, p) <=> j = k /\ p \notin Table(u, k)
<1> DEFINE s == Table(u, j)
<1>1. s \subseteq Users
  BY DEF Table, Kinds
<1> HIDE DEF s
<1>2. Rows(j, s).kind = "fetched" /\ Rows(j, s).list = j /\ Rows(j, s).users = s
  BY DEF Rows
<1>3. Rows(j, s) \in Message
  BY <1>1 DEF Rows, Fetched, Message
<1>4. /\ Rows(j, s) \in Adds(k, p) <=> j = k /\ p \in s
      /\ Rows(j, s) \in Drops(k, p) <=> j = k /\ p \notin s
  BY <1>2, <1>3 DEF Adds, Drops
<1> QED
  BY <1>3, <1>4 DEF s

\* The fields of a half-done request determine it.
LEMMA DoingFields ==
  ASSUME NEW at, NEW op, NEW q
  PROVE  /\ Doing(at, op, q).at = at /\ Doing(at, op, q).op = op /\ Doing(at, op, q).to = q
         /\ \A x, y, z : Doing(at, op, q) = Doing(x, y, z) => at = x /\ op = y /\ q = z
         /\ at # "idle" => Doing(at, op, q) # Idle
<1>1. \A x, y, z : Doing(x, y, z).at = x /\ Doing(x, y, z).op = y /\ Doing(x, y, z).to = z
  BY DEF Doing
<1> QED
  BY <1>1, IdleFields

\* What a step may do to a half-done request, by its fields: a thread goes on
\* with it, tells of it when it is done, and then its peer, or it fails.
LEMMA ThreadFields ==
  ASSUME TypeOK, Next, NEW p \in Users
  PROVE  \/ busy'[p] = busy[p]
         \/ /\ busy'[p].at = "notify" /\ busy'[p].op \in Ops /\ busy'[p].to \in Users
            /\ busy'[p] = Doing("notify", busy'[p].op, busy'[p].to)
            /\ Done(busy'[p].op, p, busy'[p].to)
            /\ Told(p, Reply(busy'[p].op, busy'[p].to))
         \/ /\ busy'[p].at \in Silent /\ busy'[p].op \in Ops /\ busy'[p].to \in Users
            /\ busy'[p] = Doing(busy'[p].at, busy'[p].op, busy'[p].to)
            /\ Goes(p, busy'[p].at, busy'[p].op, busy'[p].to)
         \/ /\ busy[p].at = "commit" /\ busy[p].op \in Ops /\ busy[p].to \in Users
            /\ busy[p] = Doing("commit", busy[p].op, busy[p].to)
            /\ busy'[p] = Idle
            /\ <<busy[p].op, Subject(p, busy[p].op, busy[p].to)>> \in refused'
         \/ /\ busy[p].at = "notify" /\ busy[p].op \in Ops /\ busy[p].to \in Users
            /\ busy[p] = Doing("notify", busy[p].op, busy[p].to)
            /\ busy'[p] = Idle
            /\ session[busy[p].to] = "on" => Noted(busy[p].to, Notice(busy[p].op, p)) /\ up' = up
<1>1. ASSUME NEW at, NEW op, NEW q, NEW b, b = Doing(at, op, q)
      PROVE  b.at = at /\ b.op = op /\ b.to = q
  BY <1>1, DoingFields
<1>2. ASSUME NEW op \in Ops, NEW q \in Users,
             busy'[p] = Doing("notify", op, q), Done(op, p, q), Told(p, Reply(op, q))
      PROVE  /\ busy'[p].at = "notify" /\ busy'[p].op \in Ops /\ busy'[p].to \in Users
             /\ busy'[p] = Doing("notify", busy'[p].op, busy'[p].to)
             /\ Done(busy'[p].op, p, busy'[p].to)
             /\ Told(p, Reply(busy'[p].op, busy'[p].to))
  <2>1. busy'[p].at = "notify" /\ busy'[p].op = op /\ busy'[p].to = q
    BY <1>1, <1>2
  <2>2. Done(busy'[p].op, p, busy'[p].to)
    BY <1>2, <2>1 DEF Done
  <2> QED
    BY <1>2, <2>1, <2>2
<1>3. ASSUME NEW at \in Silent, NEW op \in Ops, NEW q \in Users, busy'[p] = Doing(at, op, q), Goes(p, at, op, q)
      PROVE  /\ busy'[p].at \in Silent /\ busy'[p].op \in Ops /\ busy'[p].to \in Users
             /\ busy'[p] = Doing(busy'[p].at, busy'[p].op, busy'[p].to)
             /\ Goes(p, busy'[p].at, busy'[p].op, busy'[p].to)
  <2>1. busy'[p].at = at /\ busy'[p].op = op /\ busy'[p].to = q
    BY <1>1, <1>3
  <2>2. Goes(p, busy'[p].at, busy'[p].op, busy'[p].to)
    BY <1>3, <2>1 DEF Goes
  <2> QED
    BY <1>3, <2>1, <2>2
<1>4. ASSUME NEW op \in Ops, NEW q \in Users,
             busy[p] = Doing("commit", op, q), <<op, Subject(p, op, q)>> \in refused'
      PROVE  /\ busy[p].at = "commit" /\ busy[p].op \in Ops /\ busy[p].to \in Users
             /\ busy[p] = Doing("commit", busy[p].op, busy[p].to)
             /\ <<busy[p].op, Subject(p, busy[p].op, busy[p].to)>> \in refused'
  <2>1. busy[p].at = "commit" /\ busy[p].op = op /\ busy[p].to = q
    BY <1>1, <1>4
  <2> QED
    BY <1>4, <2>1
<1>5. ASSUME NEW op \in Ops, NEW q \in Users, busy[p] = Doing("notify", op, q),
             session[q] = "on" => Noted(q, Notice(op, p)) /\ up' = up
      PROVE  /\ busy[p].at = "notify" /\ busy[p].op \in Ops /\ busy[p].to \in Users
             /\ busy[p] = Doing("notify", busy[p].op, busy[p].to)
             /\ session[busy[p].to] = "on" => Noted(busy[p].to, Notice(busy[p].op, p)) /\ up' = up
  <2>1. busy[p].at = "notify" /\ busy[p].op = op /\ busy[p].to = q
    BY <1>1, <1>5
  <2> QED
    BY <1>5, <2>1
<1> QED
  BY <1>2, <1>3, <1>4, <1>5, ThreadStep

\* A pending request is, or will be, in the list of the user it is for.
LEMMA ReceivedStep ==
  ASSUME TypeOK, Next, NEW u \in Users, NEW p \in Users, u # p, Fresh(u), ReceivedInv(u, p)
  PROVE  ReceivedInv(u, p)'
<1> SUFFICES ASSUME <<p, u>> \in pending', <<"send", <<p, u>>>> \notin refused'
             PROVE  /\ busy'[p] \notin {Doing("commit", "cancel", u), Doing("notify", "cancel", u)}
                    /\ session'[u] = "on" =>
                         /\ Synced(u, "received", p, "in", Asking(u))'
                         /\ Ending(u, p)' => Has(inbox'[u], Adds("received", p)) \/ busy'[p] \in Asking(u)
  BY DEF ReceivedInv
<1>0. /\ "received" \in Kinds /\ Right("received", p, "in") = Adds("received", p)
      /\ Wrong("received", p, "in") = Drops("received", p)
  BY DEF Kinds, Right, Wrong
<1>1. CASE busy'[p] \in Asking(u)
  <2>1. Synced(u, "received", p, "in", Asking(u))'
    BY <1>1, SyncedBusy
  <2> QED
    BY <1>1, <2>1, DoingFields DEF Asking
<1>2. CASE busy'[p] \notin Asking(u)
  <2>1. <<p, u>> \in pending /\ <<"send", <<p, u>>>> \notin refused
    BY <1>2, TablesStep DEF Asking
  <2>2. busy[p] # Doing("commit", "cancel", u) /\ busy[p] # Doing("notify", "cancel", u)
    BY <2>1 DEF ReceivedInv
  <2>3. busy'[p] # Doing("commit", "cancel", u) /\ busy'[p] # Doing("notify", "cancel", u)
    <3>1. ASSUME busy'[p] = Doing("commit", "cancel", u) PROVE FALSE
      <4>1. busy'[p].at = "commit" /\ busy'[p].op = "cancel" /\ busy'[p].to = u
        BY <3>1, DoingFields
      <4>2. Goes(p, "commit", "cancel", u)
        BY <2>2, <3>1, <4>1, ThreadFields, IdleFields
      <4> QED
        BY <4>2 DEF Goes
    <3>2. ASSUME busy'[p] = Doing("notify", "cancel", u) PROVE FALSE
      <4>1. busy'[p].at = "notify" /\ busy'[p].op = "cancel" /\ busy'[p].to = u
        BY <3>2, DoingFields
      <4>2. Done("cancel", p, u)
        BY <2>2, <3>2, <4>1, ThreadFields, IdleFields DEF Silent
      <4> QED
        BY <2>2, <4>2 DEF Done
    <3> QED
      BY <3>1, <3>2
  <2> SUFFICES ASSUME session'[u] = "on"
               PROVE  /\ Synced(u, "received", p, "in", Asking(u))'
                      /\ Ending(u, p)' => Has(inbox'[u], Adds("received", p))
    BY <2>3
  <2>4. CASE LogsIn(u)
    <3>1. Synced(u, "received", p, "in", Asking(u))'
      BY <1>0, <2>4, SyncedLogin
    <3>2. ~Ending(u, p)'
      BY <2>4, DoingFields DEF LogsIn, Fresh, Ending
    <3> QED
      BY <3>1, <3>2
  <2>5. CASE session[u] = "on"
    <3>1. /\ Synced(u, "received", p, "in", Asking(u))
          /\ Ending(u, p) => Has(inbox[u], Adds("received", p)) \/ busy[p] \in Asking(u)
      BY <2>1, <2>5 DEF ReceivedInv
    <3>2. CASE busy[p] \in Asking(u)
      <4>1. busy[p].at \in {"commit", "notify"} /\ busy[p].op = "send" /\ busy[p].to = u
        BY <3>2, DoingFields DEF Asking
      <4>2. busy'[p] # busy[p] /\ busy[p] # Idle
        BY <1>2, <3>2, <4>1, IdleFields
      <4>3. Noted(u, Notice("send", p)) /\ up' = up
        <5>1. CASE busy'[p] = Idle
          BY <2>5, <4>1, <4>2, <5>1, ThreadFields, IdleFields DEF Subject, Silent
        <5>2. ASSUME NEW op, NEW q, Done(op, p, q) PROVE op = "send" /\ q = u
          BY <4>1, <4>2, <5>2, DoingFields DEF Done
        <5>3. ASSUME NEW at, NEW op, NEW q, Goes(p, at, op, q) PROVE FALSE
          BY <4>1, <4>2, <5>3, DoingFields DEF Goes
        <5> QED
          BY <1>2, <4>2, <5>1, <5>2, <5>3, ThreadFields DEF Asking
      <4>4. Notice("send", p) \in Note /\ Notice("send", p) \in Message /\ Notice("send", p) \in Adds("received", p)
        BY <1>0, NoticeSays DEF Ops
      <4>5. Synced(u, "received", p, "in", Asking(u))'
        BY <1>0, <3>1, <4>3, <4>4, SyncedNoted
      <4>6. inbox'[u] = Append(inbox[u], Notice("send", p)) /\ inbox[u] \in Seq(Message)
        BY <4>3, WiderSequence DEF Noted, TypeOK, Message
      <4>7. Has(inbox'[u], Adds("received", p))
        BY <4>4, <4>6, HasAppend
      <4> QED
        BY <4>5, <4>7
    <3>3. CASE busy[p] \notin Asking(u)
      <4>1. Ending(u, p) => Has(inbox[u], Adds("received", p))
        BY <3>1, <3>3
      <4>2. Synced(u, "received", p, "in", Asking(u))'
        <5>1. CASE Same(u) /\ \A k \in Kinds : Asks(up[u], k) /\ session'[u] = session[u] => Asks(up'[u], k)
          BY <1>0, <2>5, <3>1, <3>3, <5>1, SyncedSame
        <5>2. ASSUME NEW op \in Ops, NEW q \in Users,
                     Told(u, Reply(op, q)), Done(op, u, q),
                     \A k \in Kinds : Asks(up[u], k) => Asks(up'[u], k)
              PROVE  Synced(u, "received", p, "in", Asking(u))'
          <6>1. Reply(op, q) \in Drops("received", p) => q = p /\ op \in {"accept", "reject"}
            BY <1>0, ReplySays
          <6>2. q = p /\ op \in {"accept", "reject"} => Ending(u, p)
            BY <5>2 DEF Done, Ending
          <6>3. Reply(op, q) \notin Drops("received", p) \/ Has(inbox[u], Adds("received", p))
            BY <4>1, <6>1, <6>2
          <6>4. Reply(op, q) \in Message
            BY ReplySays DEF Kinds
          <6> QED
            BY <1>0, <3>1, <3>3, <5>2, <6>3, <6>4, SyncedTold
        <5>3. ASSUME NEW k \in Kinds, Told(u, Rows(k, Table(u, k))),
                     \A j \in Kinds : Asks(up[u], j) => j = k \/ Asks(up'[u], j)
              PROVE  Synced(u, "received", p, "in", Asking(u))'
          <6>1. k = "received" => p \in Table(u, k)
            BY <2>1 DEF Table
          <6>2. /\ Rows(k, Table(u, k)) \in Message
                /\ Rows(k, Table(u, k)) \notin Drops("received", p)
                /\ k = "received" => Rows(k, Table(u, k)) \in Adds("received", p)
            BY <1>0, <6>1, RowsSay
          <6> QED
            BY <1>0, <3>1, <3>3, <5>3, <6>2, SyncedTold
        <5>4. ASSUME NEW op \in Ops, NEW q \in Users,
                     Noted(u, Notice(op, q)), busy[q] = Doing("notify", op, u), up' = up
              PROVE  Synced(u, "received", p, "in", Asking(u))'
          <6>1. Notice(op, q) \notin Drops("received", p)
            BY <1>0, <2>2, <5>4, NoticeSays
          <6>2. Notice(op, q) \in Note
            BY NoticeSays DEF Kinds
          <6> QED
            BY <1>0, <3>1, <3>3, <5>4, <6>1, <6>2, SyncedNoted
        <5>5. CASE (Delivered(u) \/ Displayed(u)) /\ UNCHANGED <<up, busy, tables>>
          BY <1>0, <3>1, <5>5, SyncedMoved
        <5> QED
          BY <5>1, <5>2, <5>3, <5>4, <5>5, ClientStep DEF Left, Event
      <4>3. ASSUME Ending(u, p)' PROVE Has(inbox'[u], Adds("received", p))
        <5>1. PICK at \in {"commit", "befriend"}, op \in {"accept", "reject"} : busy'[u] = Doing(at, op, p)
          BY <4>3 DEF Ending
        <5>2. busy'[u].at = at /\ busy'[u].op = op /\ busy'[u].to = p
          BY <5>1, DoingFields
        <5>3. Ending(u, p)
          <6>1. CASE busy'[u] = busy[u]
            BY <5>1, <6>1 DEF Ending
          <6>2. CASE Goes(u, at, op, p)
            BY <6>2 DEF Goes, Ending
          <6> QED
            BY <5>1, <5>2, <6>1, <6>2, ThreadFields, IdleFields
        <5>4. Has(inbox[u], Adds("received", p)) /\ busy[u] # Idle
          BY <4>1, <5>3, DoingFields DEF Ending
        <5>5. ASSUME NEW m \in Note, Noted(u, m) PROVE Has(inbox'[u], Adds("received", p))
          BY <5>4, <5>5, HasAppend DEF Noted, TypeOK
        <5>6. inbox'[u] = inbox[u] \/ \E o \in Ops, q \in Users : Noted(u, Notice(o, q))
          BY <5>4, ClientStep DEF Same, Told, Displayed, Delivered, Left, Event
        <5> QED
          BY <5>4, <5>5, <5>6, NoticeSays DEF Kinds
      <4> QED
        BY <4>2, <4>3
    <3> QED
      BY <3>2, <3>3
  <2> QED
    BY <2>4, <2>5, SessionStep
<1> QED
  BY <1>1, <1>2

-----------------------------------------------------------------------------
\* The states of a thread that is about to tell u of an answer.
LEMMA AnsweringFields ==
  ASSUME NEW u, NEW b
  PROVE  /\ b \in Answering(u) =>
              /\ b # Idle /\ b.to = u /\ b.op \in {"accept", "reject"}
              /\ b.at \in {"delete", "commit", "befriend", "notify"}
         /\ \A at \in {"delete", "commit", "befriend", "notify"}, op \in {"accept", "reject"} :
              Doing(at, op, u) \in Answering(u)
         /\ b \in Answered(u) => b \in Answering(u)
<1>1. ASSUME b \in Answering(u)
      PROVE  /\ b # Idle /\ b.to = u /\ b.op \in {"accept", "reject"}
             /\ b.at \in {"delete", "commit", "befriend", "notify"}
  <2>1. PICK at \in {"delete", "commit", "befriend", "notify"}, op \in {"accept", "reject"} : b = Doing(at, op, u)
    BY <1>1 DEF Answering
  <2> QED
    BY <2>1, DoingFields
<1>2. \A at \in {"delete", "commit", "befriend", "notify"}, op \in {"accept", "reject"} :
        Doing(at, op, u) \in Answering(u)
  BY DEF Answering
<1>3. b \in Answered(u) => b \in Answering(u)
  BY <1>2 DEF Answered
<1> QED
  BY <1>1, <1>2, <1>3

\* It tells him, or fails.
LEMMA AnsweringStep ==
  ASSUME TypeOK, Next, NEW u \in Users, NEW p \in Users,
         busy[p] \in Answering(u), busy'[p] \notin Answering(u), session[u] = "on", ~Spoiled(u, p)'
  PROVE  \E op \in {"accept", "reject"} : Noted(u, Notice(op, p)) /\ up' = up
<1>1. /\ busy[p] # Idle /\ busy[p].to = u /\ busy[p].op \in {"accept", "reject"}
      /\ busy[p].at \in {"delete", "commit", "befriend", "notify"}
      /\ busy'[p] # busy[p]
  BY AnsweringFields
<1>2. ASSUME NEW op, NEW q, Done(op, p, q) PROVE Doing("notify", op, q) \in Answering(u)
  <2>1. op \in {"accept", "reject"} /\ q = u
    BY <1>1, <1>2, DoingFields DEF Done
  <2> QED
    BY <2>1, AnsweringFields
<1>3. ASSUME NEW at, NEW op, NEW q, Goes(p, at, op, q) PROVE Doing(at, op, q) \in Answering(u)
  <2>1. op \in {"accept", "reject"} /\ q = u /\ at \in {"commit", "befriend"}
    BY <1>1, <1>3, DoingFields DEF Goes
  <2> QED
    BY <2>1, AnsweringFields
<1>4. <<busy[p].op, Subject(p, busy[p].op, u)>> \notin refused'
  <2>1. busy[p].op \in Ops \ {"send"}
    BY <1>1 DEF Ops
  <2> QED
    BY <1>1, <2>1 DEF Spoiled, Subject
<1> QED
  BY <1>1, <1>2, <1>3, <1>4, ThreadFields

\* A request that is not pending is not, or will not be, in the list of the user
\* who sent it.
LEMMA SentStep ==
  ASSUME TypeOK, Next, NEW u \in Users, NEW p \in Users, Fresh(u), SentInv(u, p)
  PROVE  SentInv(u, p)'
<1> SUFFICES ASSUME session'[u] = "on", ~Spoiled(u, p)'
             PROVE  /\ <<u, p>> \notin pending' =>
                         \/ busy'[u] = Doing("commit", "cancel", p)
                         \/ Synced(u, "sent", p, "out", Answering(u))'
                    /\ Late(u, p)' => Has(inbox'[u], Drops("sent", p)) \/ busy'[p] \in Answering(u)
  BY DEF SentInv, Answering
<1>0. /\ "sent" \in Kinds /\ Right("sent", p, "out") = Drops("sent", p)
      /\ Wrong("sent", p, "out") = Adds("sent", p)
      /\ ~Spoiled(u, p)
  <2>1. ~Spoiled(u, p)
    BY TablesStep DEF Spoiled
  <2> QED
    BY <2>1 DEF Kinds, Right, Wrong
<1>1. CASE LogsIn(u)
  <2>1. Synced(u, "sent", p, "out", Answering(u))'
    BY <1>0, <1>1, SyncedLogin
  <2>2. busy'[u] = Idle
    BY <1>1 DEF LogsIn, Fresh
  <2>3. ~Late(u, p)'
    BY <2>2, DoingFields DEF Late
  <2> QED
    BY <2>1, <2>3
<1>2. CASE busy'[p] \in Answering(u)
  BY <1>2, SyncedBusy
<1>3. CASE session[u] = "on" /\ busy'[p] \notin Answering(u)
  <2>0. /\ <<u, p>> \notin pending =>
             busy[u] = Doing("commit", "cancel", p) \/ Synced(u, "sent", p, "out", Answering(u))
        /\ Late(u, p) => Has(inbox[u], Drops("sent", p)) \/ busy[p] \in Answering(u)
    BY <1>0, <1>3 DEF SentInv
  <2>1. ASSUME NEW op \in {"accept", "reject"}
        PROVE  Notice(op, p) \in Note /\ Notice(op, p) \in Drops("sent", p)
    BY <1>0, NoticeSays DEF Ops
  <2>2. ASSUME Late(u, p)' PROVE Has(inbox'[u], Drops("sent", p))
    <3>1. Late(u, p)
      <4>1. /\ <<u, p>> \in pending => <<u, p>> \in pending' \/ busy'[u] = Doing("commit", "cancel", p)
            /\ <<u, p>> \in rows => <<u, p>> \in rows'
        BY <1>3, TablesStep, AnsweringFields
      <4>2. CASE busy'[u] = busy[u]
        <5>1. busy'[u] # Doing("commit", "cancel", p)
          BY <2>2, DoingFields DEF Late
        <5> QED
          BY <2>2, <4>1, <4>2, <5>1 DEF Late
      <4>3. CASE busy'[u] # busy[u]
        <5>1. PICK at \in {"begin", "update", "commit"} : busy'[u] = Doing(at, "send", p)
          BY <2>2 DEF Late
        <5>2. busy'[u].at = at /\ busy'[u].op = "send" /\ busy'[u].to = p
          BY <5>1, DoingFields
        <5>3. Goes(u, at, "send", p)
          BY <4>3, <5>2, ThreadFields, IdleFields
        <5>4. CASE at = "begin"
          <6>1. <<u, p>> \in rows'
            BY <5>3, <5>4 DEF Goes
          <6>2. <<u, p>> \notin rows'
            BY <2>2, <5>1, <5>4, DoingFields DEF Late
          <6> QED
            BY <6>1, <6>2
        <5>5. CASE at = "update"
          <6>1. busy[u] = Doing("begin", "send", p) /\ rows' = rows
            BY <5>3, <5>5, DoingFields DEF Goes
          <6>2. <<u, p>> \notin rows'
            BY <2>2, <5>1, <5>5, DoingFields DEF Late
          <6> QED
            BY <6>1, <6>2 DEF Late
        <5>6. CASE at = "commit"
          <6>1. busy[u] = Doing("update", "send", p) /\ pending' = pending \cup ({<<u, p>>} \cap rows)
            BY <5>3, <5>6 DEF Goes
          <6>2. <<u, p>> \notin pending'
            BY <2>2, <5>1, <5>6, DoingFields DEF Late
          <6> QED
            BY <6>1, <6>2 DEF Late
        <5> QED
          BY <5>4, <5>5, <5>6
      <4> QED
        BY <4>2, <4>3
    <3>2. CASE busy[p] \in Answering(u)
      <4>1. PICK op \in {"accept", "reject"} : Noted(u, Notice(op, p))
        BY <1>3, <3>2, AnsweringStep
      <4> QED
        BY <2>1, <4>1, HasAppend DEF Noted, TypeOK
    <3>3. CASE busy[p] \notin Answering(u)
      <4>1. Has(inbox[u], Drops("sent", p)) /\ busy[u] # Idle
        BY <2>0, <3>1, <3>3, DoingFields DEF Late
      <4>2. ASSUME NEW m \in Note, Noted(u, m) PROVE Has(inbox'[u], Drops("sent", p))
        BY <4>1, <4>2, HasAppend DEF Noted, TypeOK
      <4>3. inbox'[u] = inbox[u] \/ \E o \in Ops, q \in Users : Noted(u, Notice(o, q))
        BY <4>1, ClientStep DEF Same, Told, Displayed, Delivered, Left, Event
      <4> QED
        BY <4>1, <4>2, <4>3, NoticeSays DEF Kinds
    <3> QED
      BY <3>2, <3>3
  <2>3. ASSUME <<u, p>> \notin pending', busy'[u] # Doing("commit", "cancel", p)
        PROVE  Synced(u, "sent", p, "out", Answering(u))'
    <3>1. <<u, p>> \notin pending
      BY <1>3, <2>3, TablesStep, AnsweringFields
    \* The answer to the cancellation, behind which there is no notification.
    <3>2. CASE busy[u] = Doing("commit", "cancel", p)
      <4>1. /\ busy[u].at = "commit" /\ busy[u].op = "cancel" /\ busy[u].to = p
            /\ busy[u] # Idle /\ busy'[u] # busy[u]
        BY <2>3, <3>2, DoingFields
      <4>2. ASSUME NEW op, NEW q, Done(op, u, q) PROVE op = "cancel" /\ q = p
        BY <4>1, <4>2, DoingFields DEF Done
      <4>3. ASSUME NEW at, NEW op, NEW q, Goes(u, at, op, q) PROVE FALSE
        BY <4>1, <4>3, DoingFields DEF Goes
      <4>4. <<"cancel", Subject(u, "cancel", p)>> \notin refused'
        BY DEF Spoiled, Subject, Ops
      <4>5. Told(u, Reply("cancel", p))
        BY <4>1, <4>2, <4>3, <4>4, ThreadFields
      <4>6. Reply("cancel", p) \in Message /\ Reply("cancel", p) \in Drops("sent", p)
        BY <1>0, ReplySays DEF Ops
      <4>7. ~Has(inbox[u], Adds("sent", p))
        <5>1. \A m \in Note : m \notin Adds("sent", p)
          BY DEF Adds, Note
        <5> QED
          BY <5>1 DEF Has, TypeOK
      <4> QED
        BY <1>0, <4>5, <4>6, <4>7, SyncedNow
    <3>3. CASE busy[u] # Doing("commit", "cancel", p)
      <4>1. Synced(u, "sent", p, "out", Answering(u))
        BY <2>0, <3>1, <3>3
      <4>2. CASE busy[p] \in Answering(u)
        <5>1. PICK op \in {"accept", "reject"} : Noted(u, Notice(op, p)) /\ up' = up
          BY <1>3, <4>2, AnsweringStep
        <5>2. Notice(op, p) \in Note /\ Notice(op, p) \in Drops("sent", p)
          BY <2>1
        <5> QED
          BY <1>0, <4>1, <5>1, <5>2, SyncedNoted
      <4>3. CASE busy[p] \notin Answering(u)
        <5>1. CASE Same(u) /\ \A k \in Kinds : Asks(up[u], k) /\ session'[u] = session[u] => Asks(up'[u], k)
          BY <1>0, <1>3, <4>1, <4>3, <5>1, SyncedSame
        <5>2. ASSUME NEW op \in Ops, NEW q \in Users, Told(u, Reply(op, q)), Done(op, u, q),
                     \A k \in Kinds : Asks(up[u], k) => Asks(up'[u], k)
              PROVE  Synced(u, "sent", p, "out", Answering(u))'
          <6>1. Reply(op, q) \in Adds("sent", p) => q = p /\ op = "send"
            BY <1>0, ReplySays
          <6>2. q = p /\ op = "send" => Late(u, p)
            BY <2>3, <3>1, <5>2 DEF Done, Late
          <6>3. Reply(op, q) \notin Adds("sent", p) \/ Has(inbox[u], Drops("sent", p))
            BY <2>0, <4>3, <6>1, <6>2
          <6>4. Reply(op, q) \in Message
            BY ReplySays DEF Kinds
          <6> QED
            BY <1>0, <4>1, <4>3, <5>2, <6>3, <6>4, SyncedTold
        <5>3. ASSUME NEW k \in Kinds, Told(u, Rows(k, Table(u, k))),
                     \A j \in Kinds : Asks(up[u], j) => j = k \/ Asks(up'[u], j)
              PROVE  Synced(u, "sent", p, "out", Answering(u))'
          <6>1. k = "sent" => p \notin Table(u, k)
            BY <3>1 DEF Table
          <6>2. /\ Rows(k, Table(u, k)) \in Message
                /\ Rows(k, Table(u, k)) \notin Adds("sent", p)
                /\ k = "sent" => Rows(k, Table(u, k)) \in Drops("sent", p)
            BY <1>0, <6>1, RowsSay
          <6> QED
            BY <1>0, <4>1, <4>3, <5>3, <6>2, SyncedTold
        <5>4. ASSUME NEW op \in Ops, NEW q \in Users, Noted(u, Notice(op, q)), up' = up
              PROVE  Synced(u, "sent", p, "out", Answering(u))'
          <6>1. Notice(op, q) \in Note /\ Notice(op, q) \notin Adds("sent", p)
            BY <1>0, NoticeSays
          <6> QED
            BY <1>0, <4>1, <4>3, <5>4, <6>1, SyncedNoted
        <5>5. CASE (Delivered(u) \/ Displayed(u)) /\ UNCHANGED <<up, busy, tables>>
          BY <1>0, <4>1, <5>5, SyncedMoved
        <5> QED
          BY <5>1, <5>2, <5>3, <5>4, <5>5, ClientStep DEF Left, Event
      <4> QED
        BY <4>2, <4>3
    <3> QED
      BY <3>2, <3>3
  <2> QED
    BY <2>2, <2>3
<1> QED
  BY <1>1, <1>2, <1>3, SessionStep

\* Friends who never deleted each other are, or will be, in each other's list.
LEMMA FriendStep ==
  ASSUME TypeOK, Next, NEW u \in Users, NEW p \in Users, {u, p} \in friendships' => u # p,
         Fresh(u), FriendInv(u, p), StrangerInv(u, p)
  PROVE  FriendInv(u, p)'
<1> SUFFICES ASSUME session'[u] = "on", {u, p} \in friendships', {u, p} \notin deleted'
             PROVE  Synced(u, "friends", p, "in", Befriending(u))'
  BY DEF FriendInv, Befriending
<1>0. /\ "friends" \in Kinds /\ Right("friends", p, "in") = Adds("friends", p)
      /\ Wrong("friends", p, "in") = Drops("friends", p)
  BY DEF Kinds, Right, Wrong
<1>1. CASE LogsIn(u)
  BY <1>0, <1>1, SyncedLogin
<1>2. CASE busy'[p] \in Befriending(u)
  BY <1>2, SyncedBusy
<1>3. CASE session[u] = "on" /\ busy'[p] \notin Befriending(u)
  <2>0. /\ {u, p} \notin deleted
        /\ Clean(down[u], inbox[u], busy[p], Deletes(p), Deleting(u))
    BY TablesStep DEF StrangerInv
  <2>1. CASE {u, p} \notin friendships
    <3>1. Told(u, Reply("accept", p))
      BY <1>3, <2>1, TablesStep DEF Befriending
    <3>2. Reply("accept", p) \in Message /\ Reply("accept", p) \in Adds("friends", p)
      BY <1>0, ReplySays DEF Ops
    <3>3. ~Has(inbox[u], Drops("friends", p))
      <4>1. \A m \in Note : m \in Drops("friends", p) => m \in Deletes(p)
        BY DEF Deletes, Note
      <4> QED
        BY <2>0, <4>1 DEF Clean, Has, TypeOK
    <3> QED
      BY <1>0, <3>1, <3>2, <3>3, SyncedNow
  <2>2. CASE {u, p} \in friendships
    <3>1. Synced(u, "friends", p, "in", Befriending(u))
      BY <1>3, <2>0, <2>2 DEF FriendInv
    <3>2. CASE busy[p] \in Befriending(u)
      <4>1. /\ busy[p].to = u /\ busy'[p] # busy[p] /\ busy[p] # Idle
            /\ busy[p].at = "notify" /\ busy[p].op = "accept"
        BY <1>3, <3>2, DoingFields DEF Befriending
      <4>2. Noted(u, Notice("accept", p)) /\ up' = up
        <5>1. CASE busy'[p] = Idle
          BY <1>3, <4>1, <5>1, ThreadFields, IdleFields DEF Silent
        <5>2. ASSUME NEW op, NEW q, Done(op, p, q) PROVE FALSE
          BY <4>1, <5>2, DoingFields DEF Done
        <5>3. ASSUME NEW at, NEW op, NEW q, Goes(p, at, op, q) PROVE FALSE
          BY <4>1, <5>3, DoingFields DEF Goes
        <5> QED
          BY <4>1, <5>1, <5>2, <5>3, ThreadFields
      <4>3. Notice("accept", p) \in Note /\ Notice("accept", p) \in Adds("friends", p)
        BY <1>0, NoticeSays DEF Ops
      <4> QED
        BY <1>0, <3>1, <4>2, <4>3, SyncedNoted
    <3>3. CASE busy[p] \notin Befriending(u)
      <4>1. CASE Same(u) /\ \A k \in Kinds : Asks(up[u], k) /\ session'[u] = session[u] => Asks(up'[u], k)
        BY <1>0, <1>3, <3>1, <3>3, <4>1, SyncedSame
      <4>2. ASSUME NEW op \in Ops, NEW q \in Users, Told(u, Reply(op, q)), Done(op, u, q),
                   \A k \in Kinds : Asks(up[u], k) => Asks(up'[u], k)
            PROVE  Synced(u, "friends", p, "in", Befriending(u))'
        <5>1. Reply(op, q) \notin Drops("friends", p) /\ Reply(op, q) \in Message
          <6>1. /\ Reply(op, q) \in Message
                /\ Reply(op, q) \in Drops("friends", p) => q = p /\ op = "delete"
            BY <1>0, ReplySays
          <6>2. ~(q = p /\ op = "delete")
            BY <4>2 DEF Done
          <6> QED
            BY <6>1, <6>2
        <5> QED
          BY <1>0, <3>1, <3>3, <4>2, <5>1, SyncedTold
      <4>3. ASSUME NEW k \in Kinds, Told(u, Rows(k, Table(u, k))),
                   \A j \in Kinds : Asks(up[u], j) => j = k \/ Asks(up'[u], j)
            PROVE  Synced(u, "friends", p, "in", Befriending(u))'
        <5>1. k = "friends" => p \in Table(u, k)
          BY <2>2 DEF Table
        <5>2. /\ Rows(k, Table(u, k)) \in Message
              /\ Rows(k, Table(u, k)) \notin Drops("friends", p)
              /\ k = "friends" => Rows(k, Table(u, k)) \in Adds("friends", p)
          BY <1>0, <5>1, RowsSay
        <5> QED
          BY <1>0, <3>1, <3>3, <4>3, <5>2, SyncedTold
      <4>4. ASSUME NEW op \in Ops, NEW q \in Users, Noted(u, Notice(op, q)),
                   busy[q] = Doing("notify", op, u), up' = up
            PROVE  Synced(u, "friends", p, "in", Befriending(u))'
        <5>1. Notice(op, q) \in Note /\ Notice(op, q) \notin Drops("friends", p)
          BY <1>0, <2>0, <4>4, NoticeSays DEF Clean, Deleting
        <5> QED
          BY <1>0, <3>1, <3>3, <4>4, <5>1, SyncedNoted
      <4>5. CASE (Delivered(u) \/ Displayed(u)) /\ UNCHANGED <<up, busy, tables>>
        BY <1>0, <3>1, <4>5, SyncedMoved
      <4> QED
        BY <4>1, <4>2, <4>3, <4>4, <4>5, ClientStep DEF Left, Event
    <3> QED
      BY <3>2, <3>3
  <2> QED
    BY <2>1, <2>2
<1> QED
  BY <1>1, <1>2, <1>3, SessionStep

\* A queue stays free of messages that nobody sends.
LEMMA CleanStep ==
  ASSUME TypeOK, Next, NEW u \in Users, NEW p \in Users, NEW Z, NEW B,
         Clean(down[u], inbox[u], busy[p], Z, B), busy'[p] \notin B,
         \A op \in Ops, q \in Users : Done(op, u, q) => Reply(op, q) \notin Z,
         \A k \in Kinds : UNCHANGED tables => Rows(k, Table(u, k)) \notin Z,
         \A op \in Ops, q \in Users : busy[q] = Doing("notify", op, u) => Notice(op, q) \notin Z
  PROVE  Clean(down[u], inbox[u], busy[p], Z, B)'
<1>1. down[u] \in Seq(Message) /\ inbox[u] \in Seq(Message)
  BY WiderSequence DEF TypeOK, Message
<1>2. ~Has(down[u], Z) /\ ~Has(inbox[u], Z)
  BY DEF Clean
<1>3. ASSUME NEW m \in Message, m \notin Z PROVE ~Has(Append(down[u], m), Z) /\ ~Has(Append(inbox[u], m), Z)
  BY <1>1, <1>2, <1>3, HasAppend
<1>4. ~Has(down'[u], Z) /\ ~Has(inbox'[u], Z)
  <2>1. CASE Same(u) \/ Left(u)
    BY <1>2, <2>1 DEF Same, Left
  <2>2. ASSUME NEW op \in Ops, NEW q \in Users, Told(u, Reply(op, q)), Done(op, u, q)
        PROVE  ~Has(down'[u], Z) /\ ~Has(inbox'[u], Z)
    BY <1>2, <1>3, <2>2, ReplySays DEF Told, Kinds
  <2>3. ASSUME NEW k \in Kinds, Told(u, Rows(k, Table(u, k))), UNCHANGED tables
        PROVE  ~Has(down'[u], Z) /\ ~Has(inbox'[u], Z)
    BY <1>2, <1>3, <2>3, RowsSay DEF Told
  <2>4. ASSUME NEW op \in Ops, NEW q \in Users, Noted(u, Notice(op, q)), busy[q] = Doing("notify", op, u)
        PROVE  ~Has(down'[u], Z) /\ ~Has(inbox'[u], Z)
    BY <1>2, <1>3, <2>4, NoticeSays DEF Noted, Kinds
  <2>5. CASE Delivered(u)
    <3>1. Head(inbox[u]) \in Message /\ Head(inbox[u]) \notin Z /\ ~Has(Tail(inbox[u]), Z)
      BY <1>1, <1>2, <2>5, HasTail DEF Delivered
    <3> QED
      BY <1>3, <2>5, <3>1 DEF Delivered
  <2>6. CASE Displayed(u)
    BY <1>1, <1>2, <2>6, HasTail DEF Displayed
  <2> QED
    BY <2>1, <2>2, <2>3, <2>4, <2>5, <2>6, ClientStep DEF Event
<1> QED
  BY <1>4 DEF Clean

\* Nothing on its way makes friends of two users who are not, or ends a
\* friendship that neither has ended.
LEMMA StrangerStep ==
  ASSUME TypeOK, Next, NEW u \in Users, NEW p \in Users, StrangerInv(u, p)
  PROVE  StrangerInv(u, p)'
<1> SUFFICES ASSUME {u, p} \notin deleted'
             PROVE  /\ Clean(down[u], inbox[u], busy[p], Deletes(p), Deleting(u))'
                    /\ {u, p} \notin friendships' =>
                         /\ Clean(down[u], inbox[u], busy[p], Adds("friends", p), Befriending(u))'
                         /\ p \notin lists'[u].friends
  BY DEF StrangerInv
<1>0. "friends" \in Kinds /\ {u, p} = {p, u}
  BY DEF Kinds
<1>1. /\ {u, p} \notin deleted
      /\ Clean(down[u], inbox[u], busy[p], Deletes(p), Deleting(u))
  BY TablesStep DEF StrangerInv
<1>2. Clean(down[u], inbox[u], busy[p], Deletes(p), Deleting(u))'
  <2>1. busy[p] # Doing("notify", "delete", u)
    BY <1>1 DEF Clean, Deleting
  <2>2. busy'[p] # Doing("notify", "delete", u)
    <3> SUFFICES ASSUME busy'[p] = Doing("notify", "delete", u) PROVE FALSE
      OBVIOUS
    <3>1. busy'[p].at = "notify" /\ busy'[p].op = "delete" /\ busy'[p].to = u
      BY DoingFields
    <3>2. Done("delete", p, u)
      BY <2>1, <3>1, ThreadFields, IdleFields DEF Silent
    <3> QED
      BY <1>0, <3>2 DEF Done
  <2>3. ASSUME NEW op \in Ops, NEW q \in Users, Done(op, u, q) PROVE Reply(op, q) \notin Deletes(p)
    <3>1. Reply(op, q) \in Drops("friends", p) => q = p /\ op = "delete"
      BY <1>0, ReplySays
    <3>2. ~(q = p /\ op = "delete")
      BY <2>3 DEF Done
    <3> QED
      BY <3>1, <3>2 DEF Deletes
  <2>4. ASSUME NEW k \in Kinds PROVE Rows(k, Table(u, k)) \notin Deletes(p)
    BY DEF Deletes, Rows
  <2>5. ASSUME NEW op \in Ops, NEW q \in Users, busy[q] = Doing("notify", op, u) PROVE Notice(op, q) \notin Deletes(p)
    BY <1>0, <2>1, <2>5, NoticeSays DEF Deletes
  <2> QED
    BY <1>1, <2>2, <2>3, <2>4, <2>5, CleanStep DEF Deleting, Deletes
<1>3. ASSUME {u, p} \notin friendships'
      PROVE  /\ Clean(down[u], inbox[u], busy[p], Adds("friends", p), Befriending(u))'
             /\ p \notin lists'[u].friends
  <2>1. /\ {u, p} \notin friendships
        /\ Clean(down[u], inbox[u], busy[p], Adds("friends", p), Befriending(u))
        /\ p \notin lists[u].friends
    BY <1>1, <1>3, TablesStep DEF StrangerInv
  <2>2. busy[p] # Doing("notify", "accept", u)
    BY <2>1 DEF Clean, Befriending
  <2>3. busy'[p] # Doing("notify", "accept", u)
    <3> SUFFICES ASSUME busy'[p] = Doing("notify", "accept", u) PROVE FALSE
      OBVIOUS
    <3>1. busy'[p].at = "notify" /\ busy'[p].op = "accept" /\ busy'[p].to = u
      BY DoingFields
    <3>2. Done("accept", p, u)
      BY <2>2, <3>1, ThreadFields, IdleFields DEF Silent
    <3> QED
      BY <1>0, <1>3, <3>2 DEF Done
  <2>4. ASSUME NEW op \in Ops, NEW q \in Users, Done(op, u, q) PROVE Reply(op, q) \notin Adds("friends", p)
    BY <1>0, <1>3, <2>4, ReplySays DEF Done
  <2>5. ASSUME NEW k \in Kinds PROVE Rows(k, Table(u, k)) \notin Adds("friends", p)
    <3>1. k = "friends" => p \notin Table(u, k)
      BY <2>1 DEF Table
    <3> QED
      BY <1>0, <3>1, RowsSay
  <2>6. ASSUME NEW op \in Ops, NEW q \in Users, busy[q] = Doing("notify", op, u)
        PROVE  Notice(op, q) \notin Adds("friends", p)
    BY <1>0, <2>2, <2>6, NoticeSays
  <2>7. Clean(down[u], inbox[u], busy[p], Adds("friends", p), Befriending(u))'
    BY <2>1, <2>3, <2>4, <2>5, <2>6, CleanStep DEF Befriending, Adds
  <2>8. p \notin lists'[u].friends
    <3>1. CASE Displayed(u)
      <4>1. down[u] \in Seq(Message) /\ down[u] # <<>> /\ lists[u] \in Lists
        BY <3>1 DEF TypeOK, Message, Displayed
      <4>2. Head(down[u]) \in Message /\ Head(down[u]) \notin Adds("friends", p)
        BY <2>1, <4>1, HasTail DEF Clean
      <4>3. p \notin Shown(lists[u], Head(down[u]))["friends"]
        BY <1>0, <2>1, <4>1, <4>2, ListShown
      <4> QED
        BY <3>1, <4>3 DEF Displayed
    <3>2. CASE Left(u)
      BY <1>0, <3>2 DEF Left, NoLists
    <3>3. CASE lists'[u] = lists[u]
      BY <2>1, <3>3
    <3> QED
      BY <3>1, <3>2, <3>3, ClientStep DEF Same, Told, Noted, Delivered, Event
  <2> QED
    BY <2>7, <2>8
<1> QED
  BY <1>2, <1>3

-----------------------------------------------------------------------------
\* All of them together are inductive.
LEMMA ListsStep ==
  ASSUME TypeOK, ConsentInv', ListsInv, [Next]_vars
  PROVE  ListsInv'
<1>1. CASE UNCHANGED vars
  <2>1. UNCHANGED <<session, lists, up, down, busy, inbox, rows, pending, refused, friendships, deleted>>
    BY <1>1 DEF vars, client, tables, requests
  <2>2. \A u \in Users : Fresh(u)'
    BY <2>1 DEF ListsInv, Fresh
  <2>3. \A u, p \in Users : ReceivedInv(u, p)'
    BY <2>1 DEF ListsInv, ReceivedInv, Ending, Synced, Settled, Coming, Asks
  <2>4. \A u, p \in Users : SentInv(u, p)'
    BY <2>1 DEF ListsInv, SentInv, Spoiled, Late, Synced, Settled, Coming, Asks
  <2>5. \A u, p \in Users : FriendInv(u, p)'
    BY <2>1 DEF ListsInv, FriendInv, Synced, Settled, Coming, Asks
  <2>6. \A u, p \in Users : StrangerInv(u, p)'
    BY <2>1 DEF ListsInv, StrangerInv, Clean
  <2> QED
    BY <2>2, <2>3, <2>4, <2>5, <2>6 DEF ListsInv
<1>2. CASE Next
  <2>1. ASSUME NEW u \in Users PROVE Fresh(u)'
    BY <1>2, FreshStep DEF ListsInv
  <2>2. ASSUME NEW u \in Users, NEW p \in Users PROVE ReceivedInv(u, p)'
    <3>1. CASE u = p
      <4>1. <<p, u>> \notin pending'
        BY <3>1 DEF ConsentInv, PendingAsked, AskedAnother
      <4> QED
        BY <4>1 DEF ReceivedInv
    <3>2. CASE u # p
      BY <1>2, <3>2, ReceivedStep DEF ListsInv
    <3> QED
      BY <3>1, <3>2
  <2>3. ASSUME NEW u \in Users, NEW p \in Users PROVE SentInv(u, p)'
    BY <1>2, SentStep DEF ListsInv
  <2>4. ASSUME NEW u \in Users, NEW p \in Users PROVE FriendInv(u, p)'
    <3>1. {u, p} \in friendships' => u # p
      BY DEF ConsentInv, FriendsConsented
    <3> QED
      BY <1>2, <3>1, FriendStep DEF ListsInv
  <2>5. ASSUME NEW u \in Users, NEW p \in Users PROVE StrangerInv(u, p)'
    BY <1>2, StrangerStep DEF ListsInv
  <2> QED
    BY <2>1, <2>2, <2>3, <2>4, <2>5 DEF ListsInv
<1> QED
  BY <1>1, <1>2

\* They hold before anybody has logged in.
LEMMA ListsInit == Init => ListsInv
<1> SUFFICES ASSUME Init PROVE ListsInv
  OBVIOUS
<1>1. \A u \in Users : /\ session[u] = "none" /\ up[u] = <<>> /\ down[u] = <<>> /\ inbox[u] = <<>>
                       /\ busy[u] = Idle /\ lists[u] = NoLists
  BY DEF Init
<1>2. pending = {} /\ friendships = {}
  BY DEF Init
<1>3. ASSUME NEW u \in Users, NEW p \in Users PROVE StrangerInv(u, p)
  <2>1. NoLists.friends = {}
    BY DEF NoLists, Kinds
  <2>2. Idle \notin Deleting(u) /\ Idle \notin Befriending(u)
    BY DoingFields DEF Deleting, Befriending
  <2> QED
    BY <1>1, <2>1, <2>2 DEF StrangerInv, Clean, Has
<1> QED
  BY <1>1, <1>2, <1>3 DEF ListsInv, Fresh, ReceivedInv, SentInv, FriendInv

\* They hold throughout.
LEMMA ListsHold == Spec => [](TypeOK /\ ConsentInv /\ ListsInv)
<1>1. Init => TypeOK /\ ConsentInv /\ ListsInv
  BY ConsentInit, ListsInit
<1>2. TypeOK /\ ConsentInv /\ ListsInv /\ [Next]_vars => (TypeOK /\ ConsentInv /\ ListsInv)'
  BY TypeStep, ConsentStep, ListsStep
<1> QED
  BY <1>1, <1>2, PTL DEF Spec

\* Nothing is left to do about the lists of a client that waits for nothing.
LEMMA QuietIsRight ==
  ASSUME NEW u \in Users, NEW p \in Users, NEW k \in Kinds, NEW side, NEW B,
         \A b \in B : b # Idle /\ b.to = u, Quiet(u), Synced(u, k, p, side, B)
  PROVE  lists[u][k] \in Good(p, side)
<1>1. up[u] = <<>> /\ down[u] = <<>> /\ inbox[u] = <<>>
  BY DEF Quiet
<1>2. busy[p] \notin B
  BY DEF Quiet
<1>3. \A Y : ~Has(<<>>, Y)
  BY DEF Has
<1> QED
  BY <1>1, <1>2, <1>3 DEF Synced, Coming, Asks

\* The half-done requests that the invariants name are all about u.
LEMMA AboutUser ==
  ASSUME NEW u, NEW b \in Asking(u) \cup Answering(u) \cup Befriending(u)
  PROVE  b # Idle /\ b.to = u
  BY DoingFields, AnsweringFields DEF Asking, Befriending

\* No request is overlooked: the answer to the query of the login and the
\* notifications of later requests reach the list in the order in which the
\* tables changed (ConnectionManager.cpp, ClientHandler.cpp), and no answer of
\* the user's own thread takes out a request whose notification comes first,
\* however the calls of updateRequestStatus overlap; only one that was sent again
\* and answered with a failure (ContactRepository.cpp:60) is not notified.
THEOREM NoRequestOverlooked == Spec => []RequestsShown
<1>1. ConsentInv /\ ListsInv => RequestsShown
  <2> SUFFICES ASSUME ConsentInv, ListsInv, NEW u \in Users, NEW p \in Users, Quiet(u),
                      <<"send", <<p, u>>>> \notin refused, p \in Table(u, "received")
               PROVE  p \in lists[u].received
    BY DEF RequestsShown
  <2>1. <<p, u>> \in pending /\ "received" \in Kinds
    BY DEF Table, Kinds
  <2>2. Synced(u, "received", p, "in", Asking(u))
    BY <2>1 DEF ListsInv, ReceivedInv, Quiet
  <2>3. lists[u].received \in Good(p, "in")
    BY <2>1, <2>2, QuietIsRight, AboutUser
  <2> QED
    BY <2>3 DEF Good
<1> QED
  BY <1>1, ListsHold, PTL

\* Nobody waits for an answer in vain: whatever ends a request, a message that
\* takes it out of its sender's list follows the last one that put it in, however
\* the calls of updateRequestStatus overlap; only when that which ended it was
\* answered with a failure (ContactHandler.cpp:50, 63) does none come.
THEOREM NoAnswerLost == Spec => []SentIsPending
<1>1. TypeOK /\ ListsInv => SentIsPending
  <2> SUFFICES ASSUME TypeOK, ListsInv, NEW u \in Users, NEW p \in Users, Quiet(u),
                      \A op \in Ops \ {"send"} : <<op, <<u, p>>>> \notin refused, p \in lists[u].sent
               PROVE  p \in Table(u, "sent")
    BY DEF SentIsPending
  <2>1. "sent" \in Kinds /\ ~Spoiled(u, p)
    BY DEF Kinds, Spoiled
  <2>2. <<u, p>> \in pending
    <3> SUFFICES ASSUME <<u, p>> \notin pending PROVE FALSE
      OBVIOUS
    <3>1. busy[u] # Doing("commit", "cancel", p)
      BY DoingFields DEF Quiet
    <3>2. Synced(u, "sent", p, "out", Answering(u))
      BY <2>1, <3>1 DEF ListsInv, SentInv, Quiet
    <3>3. lists[u].sent \in Good(p, "out")
      BY <2>1, <3>2, QuietIsRight, AboutUser
    <3> QED
      BY <3>3 DEF Good
  <2> QED
    BY <2>2 DEF Table
<1> QED
  BY <1>1, ListsHold, PTL

\* Two users who never deleted each other agree with the table on whether they
\* are friends: the one side of it is that a new friend arrives at both, the
\* other that nothing on its way makes a friend of anyone else.
THEOREM FriendsInStep == Spec => []FriendsAgree
<1>1. ConsentInv /\ ListsInv => FriendsAgree
  <2> SUFFICES ASSUME ConsentInv, ListsInv, NEW u \in Users, NEW p \in Users, Quiet(u), {u, p} \notin deleted
               PROVE  p \in lists[u].friends <=> p \in Table(u, "friends")
    BY DEF FriendsAgree
  <2>1. p \in Table(u, "friends") <=> {u, p} \in friendships
    <3>1. {u, p} \in friendships => u # p
      BY DEF ConsentInv, FriendsConsented
    <3> QED
      BY <3>1 DEF Table
  <2>2. CASE {u, p} \in friendships
    <3>1. Synced(u, "friends", p, "in", Befriending(u)) /\ "friends" \in Kinds
      BY <2>2 DEF ListsInv, FriendInv, Quiet, Kinds
    <3>2. lists[u].friends \in Good(p, "in")
      BY <3>1, QuietIsRight, AboutUser
    <3> QED
      BY <2>1, <2>2, <3>2 DEF Good
  <2>3. CASE {u, p} \notin friendships
    BY <2>1, <2>3 DEF ListsInv, StrangerInv
  <2> QED
    BY <2>2, <2>3
<1> QED
  BY <1>1, ListsHold, PTL
=============================================================================

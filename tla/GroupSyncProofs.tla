-------------------------- MODULE GroupSyncProofs --------------------------
(***************************************************************************)
(* Theorems about GroupSync, for any numbers of users, groups, clients and *)
(* starts of the server, and their proofs.                                 *)
(***************************************************************************)
EXTENDS GroupSync, TLAPS

\* The requests that change the tables.
Change == Sent \ {Fetch}

\* What each statement is part of.
OpOf(s) ==
  CASE s \in {"create", "enrol"} -> {"create"}
    [] s \in {"member", "invite"} -> {"invite"}
    [] OTHER -> {"create", "invite"}

\* A creation that has got to group_members has its row in groups, and one that
\* is over has made a member; no other request makes one.
ServerInv ==
  /\ Store!TypeOK
  /\ \A u \in Users : /\ step[u] \notin {"find", "drop", "take"}
                      /\ step[u] # "idle" => asked[u].op \in OpOf(step[u])
                      /\ step[u] = "enrol" => creator[Store!Group(u)] = u
                      /\ step[u] = "done" /\ asked[u].op = "create" => Store!Row(u) \in members
  /\ MembersAreFounders

Created(a) == a.type = "GROUP_CREATE_RESPONSE" /\ a.success
AnswerTrue(u, a) ==
  /\ Created(a) => <<a.groupName, u>> \in members
  /\ a.type = "GROUP_FETCH_RESPONSE" /\ a.groups # {} => \E g \in Names : <<g, u>> \in members

\* The client will list a group that it has created.
Promised(u, g) ==
  \/ \E i \in DOMAIN down[u] : Created(down[u][i]) /\ down[u][i].groupName = g
  \/ step[u] = "done" /\ asked[u].op = "create" /\ Store!Group(u) = g

Listed(u) ==
  /\ session[u] = "on" => \A g \in groups[u] \ {Empty} : <<g, u>> \in members
  /\ session[u] \notin {"on", "cut"} => groups[u] = {} /\ founded[u] = {}
  /\ session[u] = "on" => \A g \in founded[u] : g \in groups[u] \/ Promised(u, g)

Answered(u) == \A i \in DOMAIN down[u] : AnswerTrue(u, down[u][i])

\* ListedIsOwn and InviterIsMember, of one user.
OwnListed(u) ==
  /\ \A g \in groups[u] \ {Empty} : creator[g] = u
  /\ session[u] = "on" /\ Empty \in groups[u] => \E g \in Names : <<g, u>> \in members
Waiting(u) == {up[u][i] : i \in DOMAIN up[u]} \cup {asked[u]}
Inviting(u) == \A r \in Waiting(u) : r \in Sent /\ r.op = "invite" => <<r.group, u>> \in members

ClientOf(u) == Listed(u) /\ Answered(u) /\ OwnListed(u) /\ Inviting(u)
ClientInv == \A u \in Users : ClientOf(u)

IInv == TypeOK /\ ServerInv /\ ClientInv

LEMMA Appended ==
  ASSUME NEW S, NEW s \in Seq(S), NEW x \in S
  PROVE  /\ Append(s, x) \in Seq(S)
         /\ DOMAIN s = 1 .. Len(s) /\ DOMAIN Append(s, x) = 1 .. Len(s) + 1 /\ Len(s) \in Nat
         /\ \A i \in 1 .. Len(s) : Append(s, x)[i] = s[i]
         /\ Append(s, x)[Len(s) + 1] = x
  OBVIOUS

LEMMA Taken ==
  ASSUME NEW S, NEW s \in Seq(S), s # <<>>
  PROVE  /\ Head(s) \in S /\ Head(s) = s[1] /\ 1 \in DOMAIN s /\ Tail(s) \in Seq(S)
         /\ \A i \in DOMAIN Tail(s) : i + 1 \in DOMAIN s /\ Tail(s)[i] = s[i + 1]
         /\ \A i \in DOMAIN s : i # 1 => i - 1 \in DOMAIN Tail(s) /\ Tail(s)[i - 1] = s[i]
  OBVIOUS

\* The requests that the clients send.
LEMMA ChangeFields ==
  ASSUME NEW r \in Change
  PROVE  /\ r \in Store!Request /\ r # Nobody /\ r.op \in {"create", "invite"} /\ r.group \in Names
         /\ r.op = "invite" => r.invitee \in Users
  BY NobodyIsNoRequest DEF Change, Sent, Store!Request

LEMMA AskedFields ==
  ASSUME ServerInv, NEW u \in Users, step[u] # "idle"
  PROVE  /\ asked[u] \in Store!Request /\ asked[u] # Nobody
         /\ asked[u].op \in {"create", "invite"} /\ Store!Group(u) \in Names /\ asked[u].group \in Names
         /\ asked[u].op = "invite" => asked[u].invitee \in Users
<1>1. asked[u] \in Store!Request /\ asked[u] # Nobody
  BY DEF ServerInv, Store!TypeOK
<1>2. asked[u].op \in {"create", "invite"}
  BY DEF ServerInv, OpOf
<1> QED
  BY <1>1, <1>2 DEF Store!Request, Store!Group

\* One thread goes on with its request; the others stay where they are.
LEMMA GotoKeeps ==
  ASSUME Store!TypeOK, NEW u \in Users, NEW s \in Store!Steps \ {"idle"}, step[u] # "idle", Store!Goto(u, s)
  PROVE  /\ asked' = asked /\ step' \in [Users -> Store!Steps]
         /\ step'[u] = s /\ \A v \in Users \ {u} : step'[v] = step[v]
         /\ \A v \in Users : asked'[v] = Nobody <=> step'[v] = "idle"
         /\ \A v \in Users : Store!Group(v)' = Store!Group(v) /\ Store!Row(v)' = Store!Row(v)
  BY DEF Store!TypeOK, Store!Goto, Store!Group, Store!Row

\* What no step of the server but its end takes back.
Grows ==
  /\ members \subseteq members'
  /\ \A g \in Names : creator[g] # Nobody => creator'[g] = creator[g]

LEMMA ServerReceives ==
  ASSUME ServerInv, NEW u \in Users, NEW r \in Change, Store!Receive(u, r)
  PROVE  ServerInv' /\ Grows /\ asked'[u] = r /\ \A v \in Users \ {u} : asked'[v] = asked[v] /\ step'[v] = step[v]
<1>1. /\ step[u] = "idle" /\ asked' = [asked EXCEPT ![u] = r]
      /\ step' = [step EXCEPT ![u] = Store!FirstStep(r.op)] /\ UNCHANGED <<creator, members, invited>>
  BY DEF Store!Receive, Store!tables
<1>2. Store!FirstStep(r.op) \in {"create", "member"} /\ r.op \in OpOf(Store!FirstStep(r.op))
  BY ChangeFields DEF Store!FirstStep, OpOf
<1>3. asked'[u] = r /\ step'[u] = Store!FirstStep(r.op)
      /\ \A v \in Users \ {u} : asked'[v] = asked[v] /\ step'[v] = step[v]
  BY <1>1 DEF ServerInv, Store!TypeOK
<1>4. Store!TypeOK'
  BY <1>1, <1>2, ChangeFields DEF ServerInv, Store!TypeOK, Store!Steps
<1>5. \A v \in Users \ {u} : Store!Group(v)' = Store!Group(v) /\ Store!Row(v)' = Store!Row(v)
  BY <1>3 DEF Store!Group, Store!Row
<1>6. MembersAreFounders' /\ Grows
  BY <1>1 DEF ServerInv, MembersAreFounders, Grows
<1>7. ASSUME NEW v \in Users
      PROVE  /\ step'[v] \notin {"find", "drop", "take"}
             /\ step'[v] # "idle" => asked'[v].op \in OpOf(step'[v])
             /\ step'[v] = "enrol" => creator'[Store!Group(v)'] = v
             /\ step'[v] = "done" /\ asked'[v].op = "create" => Store!Row(v)' \in members'
  BY <1>1, <1>2, <1>3, <1>5 DEF ServerInv
<1> QED
  BY <1>3, <1>4, <1>6, <1>7 DEF ServerInv

LEMMA ServerGoesOn ==
  ASSUME ServerInv, NEW u \in Users,
         \/ Store!Create(u) \/ Store!CheckMember(u) \/ Store!Invite(u) \/ Store!Enrol(u)
         \/ \E s \in {"create", "enrol", "member", "invite"} : Store!Fails(u, s)
  PROVE  /\ ServerInv' /\ Grows /\ step[u] # "idle" /\ step[u] # "done" /\ step'[u] # "idle" /\ asked' = asked
         /\ \A v \in Users \ {u} : step'[v] = step[v]
<1> DEFINE Kept == /\ ServerInv' /\ Grows /\ step[u] # "idle" /\ step[u] # "done" /\ step'[u] # "idle" /\ asked' = asked
                   /\ \A v \in Users \ {u} : step'[v] = step[v]
<1>0. Store!TypeOK
  BY DEF ServerInv
<1>1. ASSUME NEW s \in {"invite", "failed"}, step[u] \in {"create", "enrol", "member", "invite"},
             s = "invite" => step[u] = "member", Store!Goto(u, s), UNCHANGED <<creator, members, invited>>
      PROVE  Kept
  <2>1. s \in Store!Steps \ {"idle"} /\ step[u] # "idle"
    BY <1>1 DEF Store!Steps
  <2>2. /\ asked' = asked /\ step' \in [Users -> Store!Steps]
        /\ step'[u] = s /\ \A v \in Users \ {u} : step'[v] = step[v]
        /\ \A v \in Users : asked'[v] = Nobody <=> step'[v] = "idle"
        /\ \A v \in Users : Store!Group(v)' = Store!Group(v) /\ Store!Row(v)' = Store!Row(v)
    BY <1>0, <1>1, <2>1, GotoKeeps
  <2>3. asked[u].op \in OpOf(s)
    BY <1>1, <2>1, AskedFields DEF ServerInv, OpOf
  <2>4. Store!TypeOK'
    BY <1>0, <1>1, <2>2 DEF Store!TypeOK
  <2> QED
    BY <1>1, <2>1, <2>2, <2>3, <2>4 DEF ServerInv, MembersAreFounders, Grows
<1>2. CASE Store!Create(u)
  <2>1. /\ step[u] = "create" /\ Store!Goto(u, "enrol") /\ UNCHANGED <<members, invited>>
        /\ creator[Store!Group(u)] = Nobody /\ creator' = [creator EXCEPT ![Store!Group(u)] = u]
        /\ "enrol" \in Store!Steps \ {"idle"}
    BY <1>2 DEF Store!Create, Store!Steps
  <2>2. /\ asked' = asked /\ step' \in [Users -> Store!Steps]
        /\ step'[u] = "enrol" /\ \A v \in Users \ {u} : step'[v] = step[v]
        /\ \A v \in Users : asked'[v] = Nobody <=> step'[v] = "idle"
        /\ \A v \in Users : Store!Group(v)' = Store!Group(v) /\ Store!Row(v)' = Store!Row(v)
    BY <1>0, <2>1, GotoKeeps
  <2>3. Store!Group(u) \in Names
    BY <2>1, AskedFields
  <2>4. creator'[Store!Group(u)] = u /\ \A g \in Names : creator[g] # Nobody => creator'[g] = creator[g]
    BY <1>0, <2>1, <2>3 DEF Store!TypeOK
  <2>5. Store!TypeOK'
    BY <1>0, <2>1, <2>2, <2>3 DEF Store!TypeOK
  <2>6. MembersAreFounders'
    BY <2>1, <2>4, NobodyIsNoUser DEF ServerInv, MembersAreFounders
  <2>7. ASSUME NEW v \in Users
        PROVE  /\ step'[v] \notin {"find", "drop", "take"}
               /\ step'[v] # "idle" => asked'[v].op \in OpOf(step'[v])
               /\ step'[v] = "enrol" => creator'[Store!Group(v)] = v
               /\ step'[v] = "done" /\ asked'[v].op = "create" => Store!Row(v) \in members'
    <3>1. CASE v = u
      BY <2>1, <2>2, <2>4, <3>1 DEF ServerInv, OpOf
    <3>2. CASE v # u
      <4>1. step[v] = "enrol" => Store!Group(v) \in Names
        BY AskedFields
      <4> QED
        BY <2>1, <2>2, <2>4, <3>2, <4>1, NobodyIsNoUser DEF ServerInv
    <3> QED
      BY <3>1, <3>2
  <2>8. ServerInv'
    BY <2>2, <2>5, <2>6, <2>7 DEF ServerInv
  <2> QED
    BY <2>1, <2>2, <2>4, <2>8 DEF Grows
<1>3. CASE Store!Enrol(u)
  <2>1. /\ step[u] = "enrol" /\ Store!Goto(u, "done") /\ UNCHANGED <<creator, invited>>
        /\ members' = members \cup {Store!Row(u)} /\ "done" \in Store!Steps \ {"idle"}
    BY <1>3 DEF Store!Enrol, Store!Steps
  <2>2. /\ asked' = asked /\ step' \in [Users -> Store!Steps]
        /\ step'[u] = "done" /\ \A v \in Users \ {u} : step'[v] = step[v]
        /\ \A v \in Users : asked'[v] = Nobody <=> step'[v] = "idle"
        /\ \A v \in Users : Store!Group(v)' = Store!Group(v) /\ Store!Row(v)' = Store!Row(v)
    BY <1>0, <2>1, GotoKeeps
  <2>3. Store!Group(u) \in Names /\ creator[Store!Group(u)] = u /\ asked[u].op = "create"
    BY <2>1, AskedFields DEF ServerInv, OpOf
  <2>4. Store!TypeOK'
    BY <1>0, <2>1, <2>2, <2>3 DEF Store!TypeOK, Store!Row
  <2>5. MembersAreFounders'
    BY <2>1, <2>3 DEF ServerInv, MembersAreFounders, Store!Row
  <2>6. ServerInv'
    BY <2>1, <2>2, <2>3, <2>4, <2>5 DEF ServerInv, OpOf
  <2> QED
    BY <2>1, <2>2, <2>6 DEF Grows
<1>4. CASE Store!CheckMember(u)
  BY <1>1, <1>4 DEF Store!CheckMember, Store!tables
<1>5. CASE Store!Invite(u)
  <2> DEFINE row == <<Store!Group(u), asked[u].invitee>>
  <2>1. /\ step[u] = "invite" /\ Store!Goto(u, "done") /\ UNCHANGED <<creator, members>>
        /\ invited' = invited \cup {row} /\ "done" \in Store!Steps \ {"idle"}
    BY <1>5 DEF Store!Invite, Store!Steps
  <2>2. /\ asked' = asked /\ step' \in [Users -> Store!Steps]
        /\ step'[u] = "done" /\ \A v \in Users \ {u} : step'[v] = step[v]
        /\ \A v \in Users : asked'[v] = Nobody <=> step'[v] = "idle"
        /\ \A v \in Users : Store!Group(v)' = Store!Group(v) /\ Store!Row(v)' = Store!Row(v)
    BY <1>0, <2>1, GotoKeeps
  <2>3. asked[u].op = "invite"
    BY <2>1 DEF ServerInv, OpOf
  <2>4. row \in Names \X Users
    BY <2>1, <2>3, AskedFields
  <2>5. Store!TypeOK'
    BY <1>0, <2>1, <2>2, <2>4 DEF Store!TypeOK
  <2>6. ServerInv'
    BY <2>1, <2>2, <2>3, <2>5 DEF ServerInv, OpOf, MembersAreFounders
  <2> QED
    BY <2>1, <2>2, <2>6 DEF Grows
<1>6. CASE \E s \in {"create", "enrol", "member", "invite"} : Store!Fails(u, s)
  BY <1>1, <1>6 DEF Store!Fails, Store!tables
<1> QED
  BY <1>2, <1>3, <1>4, <1>5, <1>6

LEMMA ServerReplies ==
  ASSUME ServerInv, NEW u \in Users, Store!Reply(u)
  PROVE  /\ ServerInv' /\ Grows /\ step[u] \in {"done", "failed"} /\ step'[u] = "idle" /\ asked'[u] = Nobody
         /\ \A v \in Users \ {u} : asked'[v] = asked[v] /\ step'[v] = step[v]
<1>1. /\ step[u] \in {"done", "failed"} /\ UNCHANGED <<creator, members, invited>>
      /\ step' = [step EXCEPT ![u] = "idle"] /\ asked' = [asked EXCEPT ![u] = Nobody]
  BY DEF Store!Reply, Store!tables
<1>2. /\ step'[u] = "idle" /\ asked'[u] = Nobody
      /\ \A v \in Users \ {u} : asked'[v] = asked[v] /\ step'[v] = step[v]
  BY <1>1 DEF ServerInv, Store!TypeOK
<1>3. Store!TypeOK'
  BY <1>1 DEF ServerInv, Store!TypeOK, Store!Steps
<1>4. \A v \in Users \ {u} : Store!Group(v)' = Store!Group(v) /\ Store!Row(v)' = Store!Row(v)
  BY <1>2 DEF Store!Group, Store!Row
<1>5. ServerInv'
  BY <1>1, <1>2, <1>3, <1>4 DEF ServerInv, MembersAreFounders
<1> QED
  BY <1>1, <1>2, <1>5 DEF Grows

LEMMA ServerStays ==
  ASSUME ServerInv, UNCHANGED server
  PROVE  ServerInv' /\ Grows
  BY DEF server, ServerInv, Store!TypeOK, Store!Group, Store!Row, MembersAreFounders, Grows

\* What a step leaves alone stays true.
LEMMA Stays ==
  ASSUME IInv, Grows, NEW u \in Users
  PROVE  /\ /\ session'[u] = session[u] /\ groups'[u] = groups[u] /\ founded'[u] = founded[u]
            /\ \A g : Promised(u, g) => Promised(u, g)'
            => Listed(u)'
         /\ down'[u] = down[u] => Answered(u)'
         /\ session'[u] = session[u] /\ groups'[u] = groups[u] => OwnListed(u)'
         /\ (\A r : r \in Waiting(u)' /\ r \in Change => r \in Waiting(u)) => Inviting(u)'
         /\ down'[u] = down[u] /\ asked'[u] = asked[u] /\ (step[u] = "done" => step'[u] = step[u])
              => \A g : Promised(u, g) => Promised(u, g)'
<1> USE DEF IInv, ClientInv, ClientOf
<1>1. /\ session'[u] = session[u] /\ groups'[u] = groups[u] /\ founded'[u] = founded[u]
      /\ \A g : Promised(u, g) => Promised(u, g)'
      => Listed(u)'
  BY DEF Listed, Grows
<1>2. down'[u] = down[u] => Answered(u)'
  BY DEF Answered, AnswerTrue, Grows
<1>3. session'[u] = session[u] /\ groups'[u] = groups[u] => OwnListed(u)'
  <2>1. groups[u] \ {Empty} \subseteq Names
    BY DEF TypeOK
  <2> QED
    BY <2>1, NobodyIsNoUser DEF OwnListed, Grows
<1>4. (\A r : r \in Waiting(u)' /\ r \in Change => r \in Waiting(u)) => Inviting(u)'
  <2>1. \A r : r \in Sent /\ r.op = "invite" => r \in Change
    BY DEF Change, Fetch
  <2> QED
    BY <2>1 DEF Inviting, Grows
<1>5. down'[u] = down[u] /\ asked'[u] = asked[u] /\ (step[u] = "done" => step'[u] = step[u])
        => \A g : Promised(u, g) => Promised(u, g)'
  BY DEF Promised, Store!Group
<1> QED
  BY <1>1, <1>2, <1>3, <1>4, <1>5

\* A user whom a step does not touch.
LEMMA OthersStay ==
  ASSUME IInv, Grows, NEW u \in Users,
         session'[u] = session[u], groups'[u] = groups[u], founded'[u] = founded[u], up'[u] = up[u],
         down'[u] = down[u], asked'[u] = asked[u], step[u] = "done" => step'[u] = step[u]
  PROVE  ClientOf(u)'
<1>1. Waiting(u)' = Waiting(u)
  BY DEF Waiting
<1>2. \A g : Promised(u, g) => Promised(u, g)'
  BY Stays
<1> QED
  BY <1>1, <1>2, Stays DEF ClientOf

\* An answer more.
LEMMA TellStep ==
  ASSUME IInv, Grows, NEW u \in Users, NEW a \in Response \cup Fetched \cup Notification, Tell(u, a),
         AnswerTrue(u, a)'
  PROVE  /\ down' \in [Users -> Seq(Response \cup Fetched \cup Notification)]
         /\ \A v \in Users \ {u} : down'[v] = down[v]
         /\ Answered(u)'
         /\ \A g : (\E i \in DOMAIN down[u] : Created(down[u][i]) /\ down[u][i].groupName = g) => Promised(u, g)'
         /\ \A g : Created(a) /\ a.groupName = g => Promised(u, g)'
<1>1. /\ down'[u] = Append(down[u], a) /\ down[u] \in Seq(Response \cup Fetched \cup Notification)
      /\ \A v \in Users \ {u} : down'[v] = down[v]
  BY DEF Tell, TypeOK, IInv
<1>2. /\ Append(down[u], a) \in Seq(Response \cup Fetched \cup Notification)
      /\ DOMAIN down[u] = 1 .. Len(down[u]) /\ DOMAIN down'[u] = 1 .. Len(down[u]) + 1 /\ Len(down[u]) \in Nat
      /\ \A i \in 1 .. Len(down[u]) : down'[u][i] = down[u][i]
      /\ down'[u][Len(down[u]) + 1] = a
  BY <1>1, Appended
<1>3. down' \in [Users -> Seq(Response \cup Fetched \cup Notification)]
  BY <1>2 DEF Tell, TypeOK, IInv
<1>4. Answered(u)'
  <2> SUFFICES ASSUME NEW i \in DOMAIN down'[u], NEW x, x = down'[u][i] PROVE AnswerTrue(u, x)'
    BY DEF Answered
  <2>1. CASE i = Len(down[u]) + 1
    BY <1>2, <2>1 DEF AnswerTrue
  <2>2. CASE i \in 1 .. Len(down[u])
    <3>1. AnswerTrue(u, down[u][i])
      BY <1>2, <2>2 DEF IInv, ClientInv, ClientOf, Answered
    <3> QED
      BY <1>2, <2>2, <3>1 DEF AnswerTrue, Grows
  <2> QED
    BY <1>2, <2>1, <2>2
<1>5. \A i \in DOMAIN down[u] : i \in DOMAIN down'[u] /\ down'[u][i] = down[u][i]
  BY <1>2
<1>6. Len(down[u]) + 1 \in DOMAIN down'[u] /\ down'[u][Len(down[u]) + 1] = a
  BY <1>2
<1>7. \A g : (\E i \in DOMAIN down[u] : Created(down[u][i]) /\ down[u][i].groupName = g) => Promised(u, g)'
  BY <1>5 DEF Promised, Created
<1>8. Created(a) => Promised(u, a.groupName)'
  BY <1>6 DEF Promised, Created
<1> QED
  BY <1>1, <1>3, <1>4, <1>7, <1>8

-----------------------------------------------------------------------------
LEMMA StepKeeps == IInv /\ [Next]_vars => IInv'
<1> SUFFICES ASSUME IInv, [Next]_vars PROVE IInv'
  OBVIOUS
<1> USE Bounds
<1>0. TypeOK /\ ServerInv /\ Store!TypeOK /\ \A u \in Users : ClientOf(u)
  BY DEF IInv, ClientInv, ServerInv
<1> DEFINE Messages == Response \cup Fetched \cup Notification
\* It is enough to look at the user whose step it is.
<1>1. ASSUME NEW u \in Users, ServerInv', Grows, TypeOK', ClientOf(u)',
             \A v \in Users \ {u} :
               /\ session'[v] = session[v] /\ groups'[v] = groups[v] /\ founded'[v] = founded[v] /\ up'[v] = up[v]
               /\ down'[v] = down[v] /\ asked'[v] = asked[v] /\ (step[v] = "done" => step'[v] = step[v])
      PROVE  IInv'
  <2>1. ASSUME NEW v \in Users \ {u} PROVE ClientOf(v)'
    BY <1>1, OthersStay
  <2> QED
    BY <1>1, <2>1 DEF IInv, ClientInv
<1>2. CASE UNCHANGED vars
  <2>1. ServerInv' /\ Grows
    BY <1>0, <1>2, ServerStays DEF vars, server
  <2>2. TypeOK'
    BY <1>0, <1>2, <2>1 DEF vars, TypeOK, ServerInv
  <2>3. \A u \in Users : ClientOf(u)'
    BY <1>0, <1>2, <2>1, OthersStay DEF vars
  <2> QED
    BY <2>1, <2>2, <2>3 DEF IInv, ClientInv
<1>3. ASSUME NEW u \in Users, Login(u) PROVE IInv'
  <2>1. ServerInv' /\ Grows
    BY <1>0, <1>3, ServerStays DEF Login
  <2>2. /\ session[u] = "none" /\ session' = [session EXCEPT ![u] = "on"] /\ up' = [up EXCEPT ![u] = <<Fetch>>]
        /\ UNCHANGED <<server, groups, down, founded>>
    BY <1>3 DEF Login
  <2>3. /\ session'[u] = "on" /\ up'[u] = <<Fetch>> /\ groups'[u] = {} /\ founded'[u] = {}
        /\ \A v \in Users \ {u} : session'[v] = session[v] /\ up'[v] = up[v]
    BY <1>0, <2>2 DEF TypeOK, ClientOf, Listed
  <2>4. TypeOK'
    <3>1. <<Fetch>> \in Seq(Sent)
      BY DEF Sent
    <3>2. Store!TypeOK'
      BY <2>1 DEF ServerInv
    <3> QED
      BY <1>0, <1>3, <3>1, <3>2 DEF Login, TypeOK
  <2>5. ClientOf(u)'
    <3>1. Listed(u)' /\ OwnListed(u)'
      BY <2>3 DEF Listed, OwnListed
    <3>2. Answered(u)'
      BY <2>1, <2>2, Stays
    <3>3. \A r : r \in Waiting(u)' /\ r \in Change => r \in Waiting(u)
      BY <2>2, <2>3 DEF Waiting, Change, server
    <3>4. Inviting(u)'
      BY <2>1, <3>3, Stays
    <3> QED
      BY <3>1, <3>2, <3>4 DEF ClientOf
  <2> QED
    BY <1>1, <2>1, <2>2, <2>3, <2>4, <2>5 DEF server
<1>4. ASSUME NEW u \in Users, NEW r \in Sent \ {Fetch}, Press(u, r) PROVE IInv'
  <2>1. ServerInv' /\ Grows
    BY <1>0, <1>4, ServerStays DEF Press
  <2>2. /\ MayAsk(u, r) /\ up' = IF session[u] = "on" THEN [up EXCEPT ![u] = Append(@, r)] ELSE up
        /\ UNCHANGED <<server, session, groups, down, founded>>
    BY <1>4 DEF Press, client
  <2>3. /\ up'[u] = IF session[u] = "on" THEN Append(up[u], r) ELSE up[u]
        /\ \A v \in Users \ {u} : up'[v] = up[v]
        /\ up[u] \in Seq(Sent) /\ r \in Sent
    BY <1>0, <2>2 DEF TypeOK
  <2>4. Append(up[u], r) \in Seq(Sent)
    BY <2>3, Appended
  <2>5. TypeOK'
    <3>1. up' \in [Users -> Seq(Sent)]
      BY <1>0, <2>2, <2>4 DEF TypeOK
    <3>2. Store!TypeOK'
      BY <2>1 DEF ServerInv
    <3> QED
      BY <1>0, <1>4, <3>1, <3>2 DEF Press, client, TypeOK
  <2>6. ClientOf(u)'
    <3>1. \A g : Promised(u, g) => Promised(u, g)'
      BY <2>1, <2>2, Stays DEF server
    <3>2. Listed(u)' /\ OwnListed(u)' /\ Answered(u)'
      BY <2>1, <2>2, <3>1, Stays
    <3>3. CASE session[u] # "on"
      <4>1. \A x : x \in Waiting(u)' /\ x \in Change => x \in Waiting(u)
        BY <2>2, <2>3, <3>3 DEF Waiting, server
      <4> QED
        BY <2>1, <3>2, <4>1, Stays DEF ClientOf
    <3>4. CASE session[u] = "on"
      <4>1. r.op = "invite" => <<r.group, u>> \in members
        <5>1. r.op = "invite" => r.group \in groups[u] \ {Empty}
          BY <2>2, <1>4, ChangeFields, EmptyIsNoName DEF MayAsk, Change
        <5> QED
          BY <1>0, <3>4, <5>1 DEF ClientOf, Listed
      <4>2. \A x \in Waiting(u)' : x \in Waiting(u) \/ x = r
        <5>1. \A i \in DOMAIN up'[u] : (i \in DOMAIN up[u] /\ up'[u][i] = up[u][i]) \/ up'[u][i] = r
          BY <2>3, <3>4, Appended
        <5> QED
          BY <2>2, <5>1 DEF Waiting, server
      <4>3. Inviting(u)'
        BY <1>0, <2>1, <4>1, <4>2 DEF Inviting, ClientOf, Grows
      <4> QED
        BY <3>2, <4>3 DEF ClientOf
    <3> QED
      BY <3>3, <3>4
  <2> QED
    BY <1>1, <2>1, <2>2, <2>3, <2>5, <2>6 DEF server
<1>5. ASSUME NEW u \in Users, Receive(u) PROVE IInv'
  <2> DEFINE r == Head(up[u])
  <2>1. /\ up[u] # <<>> /\ r # Fetch /\ Store!Receive(u, r) /\ up' = [up EXCEPT ![u] = Tail(@)]
        /\ UNCHANGED <<client, counters, down, inbox, founded>>
    BY <1>5 DEF Receive
  <2>2. /\ r \in Sent /\ r = up[u][1] /\ 1 \in DOMAIN up[u] /\ Tail(up[u]) \in Seq(Sent)
        /\ \A i \in DOMAIN Tail(up[u]) : i + 1 \in DOMAIN up[u] /\ Tail(up[u])[i] = up[u][i + 1]
    BY <1>0, <2>1, Taken DEF TypeOK
  <2> HIDE DEF r
  <2>3. r \in Change
    BY <2>1, <2>2 DEF Change
  <2>4. ServerInv' /\ Grows /\ asked'[u] = r /\ \A v \in Users \ {u} : asked'[v] = asked[v] /\ step'[v] = step[v]
    BY <1>0, <2>1, <2>3, ServerReceives
  <2>5. up'[u] = Tail(up[u]) /\ \A v \in Users \ {u} : up'[v] = up[v]
    BY <1>0, <2>1 DEF TypeOK
  <2>6. TypeOK'
    <3>1. Store!TypeOK' /\ up' \in [Users -> Seq(Sent)]
      BY <1>0, <2>1, <2>2, <2>4 DEF ServerInv, TypeOK
    <3> QED
      BY <1>0, <2>1, <3>1 DEF TypeOK, client, counters
  <2>7. ClientOf(u)'
    <3>1. step[u] = "idle"
      BY <2>1 DEF Store!Receive
    <3>2. \A g : Promised(u, g) => Promised(u, g)'
      BY <2>1, <3>1 DEF Promised
    <3>3. Listed(u)' /\ OwnListed(u)' /\ Answered(u)'
      BY <2>1, <2>4, <3>2, Stays DEF client
    <3>4. \A x \in Waiting(u)' : x \in Waiting(u)
      BY <2>2, <2>4, <2>5 DEF Waiting
    <3> QED
      BY <2>4, <3>3, <3>4, Stays DEF ClientOf
  <2> QED
    BY <1>1, <2>1, <2>4, <2>5, <2>6, <2>7 DEF client
<1>6. ASSUME NEW u \in Users, Statement(u) PROVE IInv'
  <2>1. /\ ServerInv' /\ Grows /\ step[u] # "idle" /\ step[u] # "done" /\ asked' = asked
        /\ \A v \in Users \ {u} : step'[v] = step[v]
    BY <1>0, <1>6, ServerGoesOn DEF Statement
  <2>2. UNCHANGED <<client, counters, up, down, inbox, founded>>
    BY <1>6 DEF Statement
  <2>3. TypeOK'
    BY <1>0, <2>1, <2>2 DEF TypeOK, ServerInv, client, counters
  <2>4. ClientOf(u)'
    BY <2>1, <2>2, OthersStay DEF client
  <2> QED
    BY <1>1, <2>1, <2>2, <2>3, <2>4 DEF client
<1>7. ASSUME NEW u \in Users, Enrol(u) PROVE IInv'
  <2>1. /\ ServerInv' /\ Grows /\ step[u] # "idle" /\ step[u] # "done" /\ asked' = asked
        /\ \A v \in Users \ {u} : step'[v] = step[v]
    BY <1>0, <1>7, ServerGoesOn DEF Enrol
  <2>2. /\ UNCHANGED <<client, counters, up, down, inbox>>
        /\ founded' = IF session[u] = "on" THEN [founded EXCEPT ![u] = @ \cup {Store!Group(u)}] ELSE founded
    BY <1>7 DEF Enrol
  <2>3. /\ step[u] = "enrol" /\ step'[u] = "done" /\ asked[u].op = "create" /\ Store!Group(u) \in Names
    BY <1>0, <1>7, AskedFields DEF Enrol, Store!Enrol, Store!Goto, ServerInv, OpOf, Store!TypeOK
  <2>4. /\ \A v \in Users \ {u} : founded'[v] = founded[v]
        /\ \A g \in founded'[u] : g \in founded[u] \/ (session[u] = "on" /\ g = Store!Group(u))
    BY <1>0, <2>2 DEF TypeOK
  <2>5. TypeOK'
    <3>1. Store!TypeOK'
      BY <2>1 DEF ServerInv
    <3>2. founded' \in [Users -> SUBSET Names]
      BY <1>0, <2>2, <2>3 DEF TypeOK
    <3> QED
      BY <1>0, <2>1, <2>2, <3>1, <3>2 DEF TypeOK, client, counters
  <2>6. ClientOf(u)'
    <3>1. \A g : Promised(u, g) => Promised(u, g)'
      BY <2>1, <2>2, Stays
    <3>2. Promised(u, Store!Group(u))'
      BY <2>1, <2>3 DEF Promised, Store!Group
    <3>3. Listed(u)'
      <4>1. session' = session /\ groups' = groups
        BY <2>2 DEF client
      <4>2. Listed(u) /\ Store!Group(u)' = Store!Group(u)
        BY <1>0, <2>1 DEF ClientOf, Store!Group
      <4>3. session'[u] = "on" => \A g \in groups'[u] \ {Empty} : <<g, u>> \in members'
        BY <2>1, <4>1, <4>2 DEF Listed, Grows
      <4>4. session'[u] \notin {"on", "cut"} => groups'[u] = {} /\ founded'[u] = {}
        BY <2>4, <4>1, <4>2 DEF Listed
      <4>5. session'[u] = "on" => \A g \in founded'[u] : g \in groups'[u] \/ Promised(u, g)'
        <5> SUFFICES ASSUME session[u] = "on", NEW g \in founded'[u], g \notin groups[u]
                     PROVE  Promised(u, g)'
          BY <4>1
        <5>1. CASE g \in founded[u]
          BY <3>1, <4>2, <5>1 DEF Listed
        <5>2. CASE g = Store!Group(u)
          BY <2>1, <2>3, <4>2, <5>2 DEF Promised
        <5> QED
          BY <2>4, <5>1, <5>2
      <4> QED
        BY <4>3, <4>4, <4>5 DEF Listed
    <3>4. OwnListed(u)' /\ Answered(u)'
      BY <2>1, <2>2, Stays DEF client
    <3>5. Inviting(u)'
      BY <2>1, <2>2, Stays DEF Waiting
    <3> QED
      BY <3>3, <3>4, <3>5 DEF ClientOf
  <2> QED
    BY <1>1, <2>1, <2>2, <2>4, <2>5, <2>6 DEF client
<1>8. ASSUME NEW u \in Users, Answer(u) PROVE IInv'
  <2>1. Store!Reply(u) /\ UNCHANGED <<client, counters, up, founded>>
    BY <1>8 DEF Answer
  <2>2. /\ ServerInv' /\ Grows /\ step[u] \in {"done", "failed"} /\ step'[u] = "idle" /\ asked'[u] = Nobody
        /\ \A v \in Users \ {u} : asked'[v] = asked[v] /\ step'[v] = step[v]
    BY <1>0, <2>1, ServerReplies
  <2>3. /\ asked[u].group \in Names /\ asked[u].op \in {"create", "invite"} /\ Store!Group(u) = asked[u].group
        /\ (asked[u].op = "invite" => asked[u].invitee \in Users)
    BY <1>0, <2>2, AskedFields DEF Store!Group
  <2>4. PICK a \in Response : /\ Tell(u, a) /\ a.groupName = Store!Group(u)
                              /\ Created(a) <=> asked[u].op = "create" /\ step[u] = "done"
    <3>1. PICK type \in {"GROUP_CREATE_RESPONSE", "GROUP_INVITE_RESPONSE"} :
            /\ Tell(u, [type |-> type, success |-> step[u] = "done", groupName |-> asked[u].group])
            /\ type = "GROUP_CREATE_RESPONSE" <=> asked[u].op = "create"
      BY <1>8, <2>3 DEF Answer
    <3> DEFINE a == [type |-> type, success |-> step[u] = "done", groupName |-> asked[u].group]
    <3>2. a \in Response /\ a.groupName = Store!Group(u) /\ (Created(a) <=> asked[u].op = "create" /\ step[u] = "done")
      BY <2>3, <3>1 DEF Response, Created
    <3> QED
      BY <3>1, <3>2
  <2>5. AnswerTrue(u, a)'
    <3>1. Created(a) => <<a.groupName, u>> \in members'
      <4>1. step[u] = "done" /\ asked[u].op = "create" => Store!Row(u) \in members
        BY <1>0 DEF ServerInv
      <4> QED
        BY <2>2, <2>4, <4>1 DEF Store!Row, Grows
    <3> QED
      BY <3>1 DEF AnswerTrue, Response
  <2>6. inbox' \in [Users -> Seq(Notification)]
    <3>1. CASE inbox' = inbox
      BY <1>0, <3>1 DEF TypeOK
    <3>2. ASSUME NEW v \in Users, NEW n \in Notification, inbox' = [inbox EXCEPT ![v] = Append(@, n)]
          PROVE  inbox' \in [Users -> Seq(Notification)]
      <4>1. Append(inbox[v], n) \in Seq(Notification)
        BY <1>0, Appended DEF TypeOK
      <4> QED
        BY <1>0, <3>2, <4>1 DEF TypeOK
    <3>3. ASSUME asked[u].op = "invite"
          PROVE  [type |-> "GROUP_INVITE_NOTIFICATION", groupName |-> asked[u].group,
                  inviter |-> u, invitee |-> asked[u].invitee] \in Notification
      BY <2>3, <3>3 DEF Notification
    <3> QED
      BY <1>8, <2>3, <3>1, <3>2, <3>3 DEF Answer
  <2>7. /\ down' \in [Users -> Seq(Messages)]
        /\ \A v \in Users \ {u} : down'[v] = down[v]
        /\ Answered(u)'
        /\ \A g : (\E i \in DOMAIN down[u] : Created(down[u][i]) /\ down[u][i].groupName = g) => Promised(u, g)'
        /\ \A g : Created(a) /\ a.groupName = g => Promised(u, g)'
    BY <2>2, <2>4, <2>5, TellStep
  <2>8. TypeOK'
    BY <1>0, <2>1, <2>2, <2>6, <2>7 DEF TypeOK, ServerInv, client, counters
  <2>9. ClientOf(u)'
    <3>1. \A g : Promised(u, g) => Promised(u, g)'
      <4>1. \A g : step[u] = "done" /\ asked[u].op = "create" /\ Store!Group(u) = g => Promised(u, g)'
        BY <2>4, <2>7
      <4> QED
        BY <2>7, <4>1 DEF Promised
    <3>2. Listed(u)' /\ OwnListed(u)'
      BY <2>1, <2>2, <3>1, Stays DEF client
    <3>3. \A x : x \in Waiting(u)' /\ x \in Change => x \in Waiting(u)
      BY <2>1, <2>2, ChangeFields DEF Waiting
    <3> QED
      BY <2>2, <2>7, <3>2, <3>3, Stays DEF ClientOf
  <2> QED
    BY <1>1, <2>1, <2>2, <2>7, <2>8, <2>9 DEF client
<1>9. ASSUME NEW u \in Users, ServeFetch(u) PROVE IInv'
  <2>1. PICK rows \in {UserGroups(u), {}} : Tell(u, [type |-> "GROUP_FETCH_RESPONSE", groups |-> rows])
    BY <1>9 DEF ServeFetch
  <2> DEFINE a == [type |-> "GROUP_FETCH_RESPONSE", groups |-> rows]
  <2>2. /\ up[u] # <<>> /\ up' = [up EXCEPT ![u] = Tail(@)]
        /\ UNCHANGED <<server, client, counters, inbox, founded>>
    BY <1>9 DEF ServeFetch
  <2>3. ServerInv' /\ Grows
    BY <1>0, <2>2, ServerStays
  <2>4. rows \subseteq Row /\ \A row \in rows : <<row.groupName, u>> \in members /\ row.groupName \in Names
    BY DEF UserGroups, Row
  <2>5. a \in Fetched
    BY <2>4 DEF Fetched
  <2>6. AnswerTrue(u, a)'
    BY <2>2, <2>4 DEF AnswerTrue, Created, server
  <2> HIDE DEF a
  <2>7. Tell(u, a)
    BY <2>1 DEF a
  <2>8. /\ down' \in [Users -> Seq(Messages)]
        /\ \A v \in Users \ {u} : down'[v] = down[v]
        /\ Answered(u)'
        /\ \A g : (\E i \in DOMAIN down[u] : Created(down[u][i]) /\ down[u][i].groupName = g) => Promised(u, g)'
    BY <2>3, <2>5, <2>6, <2>7, TellStep
  <2>9. /\ Tail(up[u]) \in Seq(Sent) /\ up'[u] = Tail(up[u]) /\ \A v \in Users \ {u} : up'[v] = up[v]
        /\ \A i \in DOMAIN Tail(up[u]) : i + 1 \in DOMAIN up[u] /\ Tail(up[u])[i] = up[u][i + 1]
    BY <1>0, <2>2, Taken DEF TypeOK
  <2>10. TypeOK'
    BY <1>0, <2>2, <2>3, <2>8, <2>9 DEF TypeOK, ServerInv, client, counters
  <2>11. ClientOf(u)'
    <3>1. \A g : Promised(u, g) => Promised(u, g)'
      <4>1. ~(step[u] = "done")
        BY <1>9 DEF ServeFetch
      <4> QED
        BY <2>8, <4>1 DEF Promised
    <3>2. Listed(u)' /\ OwnListed(u)'
      BY <2>2, <2>3, <3>1, Stays DEF client
    <3>3. \A x \in Waiting(u)' : x \in Waiting(u)
      BY <2>2, <2>9 DEF Waiting, server
    <3> QED
      BY <2>3, <2>8, <3>2, <3>3, Stays DEF ClientOf
  <2> QED
    BY <1>1, <2>2, <2>3, <2>8, <2>9, <2>10, <2>11 DEF client, server
<1>10. ASSUME NEW u \in Users, Deliver(u) PROVE IInv'
  <2> DEFINE next == Head(inbox[u])
  <2>1. /\ step[u] = "idle" /\ inbox[u] # <<>> /\ Tell(u, next) /\ inbox' = [inbox EXCEPT ![u] = Tail(@)]
        /\ UNCHANGED <<server, client, counters, up, founded>>
    BY <1>10 DEF Deliver
  <2>2. ServerInv' /\ Grows
    BY <1>0, <2>1, ServerStays
  <2>3. Tail(inbox[u]) \in Seq(Notification) /\ \E n \in Notification : Tell(u, n)
    BY <1>0, <2>1, Taken DEF TypeOK
  <2> PICK n \in Notification : Tell(u, n)
    BY <2>3
  <2> HIDE DEF next
  <2>4. AnswerTrue(u, n)'
    BY <2>3 DEF AnswerTrue, Created, Notification
  <2>5. /\ down' \in [Users -> Seq(Messages)]
        /\ \A v \in Users \ {u} : down'[v] = down[v]
        /\ Answered(u)'
        /\ \A g : (\E i \in DOMAIN down[u] : Created(down[u][i]) /\ down[u][i].groupName = g) => Promised(u, g)'
    BY <2>1, <2>2, <2>3, <2>4, TellStep
  <2>6. TypeOK'
    BY <1>0, <2>1, <2>2, <2>3, <2>5 DEF TypeOK, ServerInv, client, counters
  <2>7. ClientOf(u)'
    <3>1. \A g : Promised(u, g) => Promised(u, g)'
      BY <2>1, <2>5 DEF Promised
    <3>2. Listed(u)' /\ OwnListed(u)'
      BY <2>1, <2>2, <3>1, Stays DEF client
    <3>3. Inviting(u)'
      BY <2>1, <2>2, Stays DEF Waiting, server
    <3> QED
      BY <2>5, <3>2, <3>3 DEF ClientOf
  <2> QED
    BY <1>1, <2>1, <2>2, <2>5, <2>6, <2>7 DEF client, server
<1>11. ASSUME NEW u \in Users, Show(u) PROVE IInv'
  <2>0. PICK a : a = Head(down[u])
    OBVIOUS
  <2>1. /\ session[u] = "on" /\ down[u] # <<>> /\ down' = [down EXCEPT ![u] = Tail(@)]
        /\ groups' = [groups EXCEPT ![u] = @ \cup NewGroups(a)]
        /\ invitations' = [invitations EXCEPT ![u] = @ \cup NewInvitations(u, a)]
        /\ UNCHANGED <<server, session, counters, up, inbox, founded>>
    BY <1>11, <2>0 DEF Show
  <2>2. ServerInv' /\ Grows
    BY <1>0, <2>1, ServerStays
  <2>3. /\ a \in Messages /\ a = down[u][1] /\ 1 \in DOMAIN down[u] /\ Tail(down[u]) \in Seq(Messages)
        /\ \A i \in DOMAIN Tail(down[u]) : i + 1 \in DOMAIN down[u] /\ Tail(down[u])[i] = down[u][i + 1]
        /\ \A i \in DOMAIN down[u] : i # 1 => i - 1 \in DOMAIN Tail(down[u]) /\ Tail(down[u])[i - 1] = down[u][i]
    BY <1>0, <2>0, <2>1, Taken DEF TypeOK
  <2>4. AnswerTrue(u, a)
    BY <1>0, <2>3 DEF ClientOf, Answered
  <2>5. /\ Created(a) => a.groupName \in Names
        /\ a.type = "GROUP_FETCH_RESPONSE" => a.groups \subseteq Row
        /\ a.type = "GROUP_INVITE_NOTIFICATION" => a.groupName \in Names
        /\ Created(a) => a.type # "GROUP_FETCH_RESPONSE"
    BY <2>3 DEF Response, Fetched, Notification, Created
  <2>6. \A row \in Row : AsString(row) = Empty
    BY RowIsNoString DEF AsString
  <2>7. /\ Created(a) => NewGroups(a) = {a.groupName}
        /\ a.type = "GROUP_FETCH_RESPONSE" => NewGroups(a) \subseteq {Empty} /\ (a.groups = {} => NewGroups(a) = {})
        /\ ~Created(a) /\ a.type # "GROUP_FETCH_RESPONSE" => NewGroups(a) = {}
    BY <2>5, <2>6 DEF NewGroups, Created
  <2>8. /\ \A g \in NewGroups(a) \ {Empty} : g \in Names /\ <<g, u>> \in members
        /\ Empty \in NewGroups(a) => \E g \in Names : <<g, u>> \in members
        /\ NewGroups(a) \subseteq Names \cup {Empty}
    BY <2>4, <2>5, <2>7 DEF AnswerTrue
  <2>9. NewInvitations(u, a) \subseteq Names
    BY <2>5 DEF NewInvitations
  <2>10. TypeOK'
    <3>1. Store!TypeOK' /\ groups' \in [Users -> SUBSET (Names \cup {Empty})]
          /\ invitations' \in [Users -> SUBSET Names] /\ down' \in [Users -> Seq(Messages)]
      BY <1>0, <2>1, <2>2, <2>3, <2>8, <2>9 DEF TypeOK, ServerInv
    <3> QED
      BY <1>0, <2>1, <3>1 DEF TypeOK, counters
  <2>11. /\ groups'[u] = groups[u] \cup NewGroups(a) /\ down'[u] = Tail(down[u])
         /\ \A v \in Users \ {u} : groups'[v] = groups[v] /\ down'[v] = down[v]
    BY <1>0, <2>1 DEF TypeOK
  <2>12. ClientOf(u)'
    <3>1. \A g : Promised(u, g) => Promised(u, g)' \/ g \in NewGroups(a)
      <4> SUFFICES ASSUME NEW g, Promised(u, g) PROVE Promised(u, g)' \/ g \in NewGroups(a)
        OBVIOUS
      <4>1. ASSUME NEW i \in DOMAIN down[u], Created(down[u][i]), down[u][i].groupName = g
            PROVE  Promised(u, g)' \/ g \in NewGroups(a)
        <5>1. CASE i = 1
          BY <2>3, <2>7, <4>1, <5>1
        <5>2. CASE i # 1
          <6>1. i - 1 \in DOMAIN down'[u] /\ down'[u][i - 1] = down[u][i]
            BY <2>3, <2>11, <5>2
          <6> QED
            BY <4>1, <6>1 DEF Promised, Created
        <5> QED
          BY <5>1, <5>2
      <4>2. CASE step[u] = "done" /\ asked[u].op = "create" /\ Store!Group(u) = g
        BY <2>1, <4>2 DEF Promised, server, Store!Group
      <4> QED
        BY <4>1, <4>2 DEF Promised
    <3>2. Listed(u)'
      BY <1>0, <2>1, <2>2, <2>8, <2>11, <3>1 DEF ClientOf, Listed, Grows
    <3>3. Answered(u)'
      <4>1. \A i \in DOMAIN down'[u] : i + 1 \in DOMAIN down[u] /\ down'[u][i] = down[u][i + 1]
        BY <2>3, <2>11
      <4>2. \A i \in DOMAIN down[u] : AnswerTrue(u, down[u][i])
        BY <1>0 DEF ClientOf, Answered
      <4>3. members' = members
        BY <2>1 DEF server
      <4>4. ASSUME NEW i \in DOMAIN down'[u], NEW x, x = down'[u][i] PROVE AnswerTrue(u, x)'
        <5>1. AnswerTrue(u, x)
          BY <4>1, <4>2, <4>4
        <5> QED
          BY <4>3, <5>1 DEF AnswerTrue, Created
      <4> QED
        BY <4>4 DEF Answered, AnswerTrue, Created
    <3>4. OwnListed(u)'
      BY <1>0, <2>1, <2>8, <2>11 DEF ClientOf, OwnListed, server, ServerInv, MembersAreFounders
    <3>5. Inviting(u)'
      BY <2>1, <2>2, Stays DEF Waiting, server
    <3> QED
      BY <3>2, <3>3, <3>4, <3>5 DEF ClientOf
  <2> QED
    BY <1>1, <2>1, <2>2, <2>10, <2>11, <2>12 DEF server
<1>12. ASSUME NEW u \in Users, Close(u) PROVE IInv'
  <2>1. /\ session' = [session EXCEPT ![u] = IF @ = "on" THEN "closed" ELSE "none"]
        /\ groups' = [groups EXCEPT ![u] = {}] /\ invitations' = [invitations EXCEPT ![u] = {}]
        /\ founded' = [founded EXCEPT ![u] = {}]
        /\ UNCHANGED <<server, counters, down, inbox>>
    BY <1>12 DEF Close
  <2>2. ServerInv' /\ Grows
    BY <1>0, <2>1, ServerStays
  <2>3. PICK n \in 0 .. Len(up[u]) : up' = [up EXCEPT ![u] = SubSeq(@, 1, n)]
    BY <1>12 DEF Close
  <2>4. /\ session'[u] \in {"closed", "none"} /\ groups'[u] = {} /\ founded'[u] = {} /\ up'[u] = SubSeq(up[u], 1, n)
        /\ \A v \in Users \ {u} : session'[v] = session[v] /\ groups'[v] = groups[v] /\ founded'[v] = founded[v]
                                  /\ up'[v] = up[v]
    BY <1>0, <2>1, <2>3 DEF TypeOK
  <2>5. /\ up'[u] \in Seq(Sent)
        /\ \A i \in DOMAIN up'[u] : i \in DOMAIN up[u] /\ up'[u][i] = up[u][i]
    <3>1. up[u] \in Seq(Sent)
      BY <1>0 DEF TypeOK
    <3> QED
      BY <2>4, <3>1
  <2>6. TypeOK'
    <3>1. Store!TypeOK' /\ up' \in [Users -> Seq(Sent)]
      BY <1>0, <2>2, <2>3, <2>4, <2>5 DEF TypeOK, ServerInv
    <3> QED
      BY <1>0, <2>1, <3>1 DEF TypeOK, counters
  <2>7. ClientOf(u)'
    <3>1. Listed(u)' /\ OwnListed(u)'
      BY <2>4 DEF Listed, OwnListed
    <3>2. Answered(u)'
      BY <2>1, <2>2, Stays
    <3>3. \A x \in Waiting(u)' : x \in Waiting(u)
      BY <2>1, <2>5 DEF Waiting, server
    <3> QED
      BY <2>2, <3>1, <3>2, <3>3, Stays DEF ClientOf
  <2> QED
    BY <1>1, <2>1, <2>2, <2>4, <2>6, <2>7 DEF server
<1>13. ASSUME NEW u \in Users, Disconnected(u) PROVE IInv'
  <2>1. /\ session[u] = "closed" /\ session' = [session EXCEPT ![u] = "none"]
        /\ down' = [down EXCEPT ![u] = <<>>] /\ inbox' = [inbox EXCEPT ![u] = <<>>]
        /\ UNCHANGED <<server, groups, invitations, counters, up, founded>>
    BY <1>13 DEF Disconnected
  <2>2. ServerInv' /\ Grows
    BY <1>0, <2>1, ServerStays
  <2>3. /\ session'[u] = "none" /\ down'[u] = <<>> /\ groups'[u] = {} /\ founded'[u] = {}
        /\ \A v \in Users \ {u} : session'[v] = session[v] /\ down'[v] = down[v]
    BY <1>0, <2>1 DEF TypeOK, ClientOf, Listed
  <2>4. TypeOK'
    <3>1. Store!TypeOK' /\ down' \in [Users -> Seq(Messages)]
      BY <1>0, <2>1, <2>2 DEF TypeOK, ServerInv
    <3> QED
      BY <1>0, <2>1, <3>1 DEF TypeOK, counters
  <2>5. ClientOf(u)'
    <3>1. Listed(u)' /\ OwnListed(u)' /\ Answered(u)'
      BY <2>3 DEF Listed, OwnListed, Answered
    <3>2. Inviting(u)'
      BY <2>1, <2>2, Stays DEF Waiting, server
    <3> QED
      BY <3>1, <3>2 DEF ClientOf
  <2> QED
    BY <1>1, <2>1, <2>2, <2>3, <2>4, <2>5 DEF server
<1>14. CASE ServerRestart
  <2>1. /\ members' \in {{}, members} /\ asked' = [u \in Users |-> Nobody] /\ step' = [u \in Users |-> "idle"]
        /\ UNCHANGED <<creator, invited, groups, invitations, counters, founded>>
        /\ session' = [u \in Users |-> CASE session[u] = "on" -> "cut" [] session[u] = "closed" -> "none"
                                         [] OTHER -> session[u]]
        /\ up' = NoMessages /\ down' = NoMessages /\ inbox' = NoMessages
    BY <1>14 DEF ServerRestart, Store!Restart
  <2>2. \A u \in Users : /\ session'[u] \in {"cut", "none"} /\ session'[u] = "none" => session[u] \in {"closed", "none"}
                         /\ up'[u] = <<>> /\ down'[u] = <<>> /\ asked'[u] = Nobody /\ step'[u] = "idle"
    BY <1>0, <2>1 DEF TypeOK, NoMessages
  <2>3. ServerInv'
    <3>1. Store!TypeOK'
      BY <1>0, <2>1 DEF Store!TypeOK, Store!Steps
    <3>2. MembersAreFounders'
      BY <1>0, <2>1 DEF ServerInv, MembersAreFounders
    <3> QED
      BY <2>2, <3>1, <3>2 DEF ServerInv
  <2>4. TypeOK'
    <3>1. Store!TypeOK' /\ session' \in [Users -> {"none", "on", "cut", "closed"}]
      BY <1>0, <2>1, <2>3 DEF TypeOK, ServerInv
    <3>2. /\ up' \in [Users -> Seq(Sent)] /\ down' \in [Users -> Seq(Messages)]
          /\ inbox' \in [Users -> Seq(Notification)]
      BY <2>1 DEF NoMessages
    <3> QED
      BY <1>0, <2>1, <3>1, <3>2 DEF TypeOK, counters
  <2>5. ASSUME NEW u \in Users PROVE ClientOf(u)'
    <3>1. Listed(u)' /\ OwnListed(u)'
      BY <1>0, <2>1, <2>2 DEF ClientOf, Listed, OwnListed
    <3>2. Answered(u)'
      BY <2>2 DEF Answered
    <3>3. Inviting(u)'
      BY <2>2, ChangeFields DEF Inviting, Waiting, Change, Fetch
    <3> QED
      BY <3>1, <3>2, <3>3 DEF ClientOf
  <2> QED
    BY <2>3, <2>4, <2>5 DEF IInv, ClientInv
<1> QED
  BY <1>2, <1>3, <1>4, <1>5, <1>6, <1>7, <1>8, <1>9, <1>10, <1>11, <1>12, <1>13, <1>14 DEF Next, Server

LEMMA IInvHolds == Spec => []IInv
<1>1. Init => IInv
  <2> SUFFICES ASSUME Init PROVE IInv
    OBVIOUS
  <2>1. /\ creator = [g \in Names |-> Nobody] /\ members = {} /\ invited = {}
        /\ asked = [u \in Users |-> Nobody] /\ step = [u \in Users |-> "idle"]
    BY DEF Init, Store!Init
  <2>2. ServerInv
    BY <2>1 DEF ServerInv, Store!TypeOK, Store!Steps, MembersAreFounders
  <2>3. TypeOK
    BY <2>2, Bounds DEF ServerInv, TypeOK, Init, NoLists, NoMessages
  <2>4. ASSUME NEW u \in Users PROVE ClientOf(u)
    <3>1. /\ session[u] = "none" /\ groups[u] = {} /\ founded[u] = {} /\ up[u] = <<>> /\ down[u] = <<>>
          /\ asked[u] = Nobody
      BY <2>1 DEF Init, NoLists, NoMessages
    <3>2. Inviting(u)
      BY <3>1, ChangeFields DEF Inviting, Waiting, Change, Fetch
    <3> QED
      BY <3>1, <3>2 DEF ClientOf, Listed, OwnListed, Answered
  <2> QED
    BY <2>2, <2>3, <2>4 DEF IInv, ClientInv
<1> QED
  BY <1>1, StepKeeps, PTL DEF Spec

\* The lists, queues, tables and half-done requests have their types, for any
\* numbers of users, groups, clients and starts of the server.
THEOREM TypeCorrect == Spec => []TypeOK
<1>1. IInv => TypeOK
  BY DEF IInv
<1> QED
  BY <1>1, IInvHolds, PTL

\* A name in a client's list stands for a group its user founded, and the blank
\* entry for a membership of hers, although lists are made of answers that may
\* be old, and a start of the server drops members.
THEOREM ListsAreOwn == Spec => []ListedIsOwn
<1>1. IInv => ListedIsOwn
  BY DEF IInv, ClientInv, ClientOf, OwnListed, ListedIsOwn
<1> QED
  BY <1>1, IInvHolds, PTL

\* Whatever invitation is on its way to the server comes from a member: the
\* client's look at its list is as good as the server's at the table.
THEOREM InvitersAreMembers == Spec => []InviterIsMember
<1>1. IInv => InviterIsMember
  BY DEF IInv, ClientInv, ClientOf, Inviting, Waiting, InviterIsMember
<1> QED
  BY <1>1, IInvHolds, PTL

\* A group that the open client has founded is in its list once nothing is on
\* its way to the client.
THEOREM FoundersSeeTheirs == Spec => []FoundedIsListed
<1>1. IInv => FoundedIsListed
  BY DEF IInv, ClientInv, ClientOf, Listed, Promised, Quiet, FoundedIsListed
<1> QED
  BY <1>1, IInvHolds, PTL

\* With this client every member of a group is its founder.
THEOREM OnlyFounders == Spec => []MembersAreFounders
<1>1. IInv => MembersAreFounders
  BY DEF IInv, ServerInv
<1> QED
  BY <1>1, IInvHolds, PTL
=============================================================================

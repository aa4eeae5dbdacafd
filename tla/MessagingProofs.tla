-------------------------- MODULE MessagingProofs --------------------------
(***************************************************************************)
(* Theorems about Messaging, for any number of users, messages and         *)
(* conversations, and their proofs.                                        *)
(***************************************************************************)
EXTENDS Messaging, TLAPS, WellFoundedInduction

\* What an answer brings on the screen.
Content(a) == IF a.kind = "history" THEN a.msgs ELSE <<a.msg>>

\* u's messages stand in s in the order of their numbers, each once.
InOrderOf(s, u) ==
  \A i, j \in DOMAIN s :
    i < j /\ s[i].from = u /\ s[j].from = u /\ s[i].id > 0 /\ s[j].id > 0 => s[i].id < s[j].id

\* u's messages in s are older than number n.
Before(s, u, n) == \A i \in DOMAIN s : s[i].from = u /\ s[i].id > 0 => s[i].id < n

\* Induction over numbers, for a set in place of a predicate.
LEMMA Least ==
  ASSUME NEW T \in SUBSET Nat, T # {}
  PROVE  \E n \in T : \A m \in T : n <= m
<1> DEFINE R == OpToRel(<, Nat)
<1>1. IsWellFoundedOn(R, Nat)
  BY NatLessThanWellFounded
<1>2. \A x, y \in Nat : <<x, y>> \in R <=> x < y
  BY DEF OpToRel
<1> HIDE DEF R
<1>3. PICK n \in T : \A m \in T : ~ (<<m, n>> \in R)
  BY <1>1, WFMin
<1>4. \A m \in T : n <= m
  <2> SUFFICES ASSUME NEW m \in T PROVE n <= m
    OBVIOUS
  <2>1. m \in Nat /\ n \in Nat /\ ~ (m < n)
    BY <1>2, <1>3
  <2> QED
    BY <2>1
<1> QED
  BY <1>4

LEMMA Induction ==
  ASSUME NEW T \in SUBSET Nat, 0 \in T, \A n \in T : n + 1 \in T
  PROVE  T = Nat
<1> SUFFICES ASSUME Nat \ T # {} PROVE FALSE
  OBVIOUS
<1>1. PICK n \in Nat \ T : \A m \in Nat \ T : n <= m
  BY Least
<1>2. n - 1 \in T
  BY <1>1
<1> QED
  BY <1>2

\* What a sequence holds when something is put at its end or taken from it.
LEMMA Appended ==
  ASSUME NEW S, NEW s \in Seq(S), NEW x \in S
  PROVE  /\ Append(s, x) \in Seq(S)
         /\ DOMAIN s = 1 .. Len(s) /\ DOMAIN Append(s, x) = 1 .. Len(s) + 1 /\ Len(s) \in Nat
         /\ \A i \in 1 .. Len(s) : Append(s, x)[i] = s[i]
         /\ Append(s, x)[Len(s) + 1] = x
  OBVIOUS

LEMMA Taken ==
  ASSUME NEW S, NEW s \in Seq(S), s # <<>>
  PROVE  /\ Head(s) \in S /\ Head(s) = s[1] /\ Tail(s) \in Seq(S)
         /\ Len(s) \in Nat \ {0} /\ DOMAIN s = 1 .. Len(s) /\ DOMAIN Tail(s) = 1 .. Len(s) - 1
         /\ \A i \in 1 .. Len(s) - 1 : Tail(s)[i] = s[i + 1]
  OBVIOUS

-----------------------------------------------------------------------------
\* The rows of a table up to each number that belong to a conversation.
Selects(f, s, u, p) ==
  f = [n \in 0 .. Len(s) |->
        IF n = 0 THEN <<>>
        ELSE IF Between(s[n], u, p) THEN Append(f[n - 1], s[n]) ELSE f[n - 1]]

\* Such a function exists.
LEMMA Selected ==
  ASSUME NEW s \in Seq(Message), NEW u, NEW p
  PROVE  \E f : Selects(f, s, u, p)
<1> DEFINE Rows(g, n) == IF n = 0 THEN <<>>
                         ELSE IF Between(s[n], u, p) THEN Append(g[n - 1], s[n]) ELSE g[n - 1]
           Until(n) == \E g : g = [i \in 0 .. n |-> Rows(g, i)]
           T == {n \in Nat : Until(n)}
<1>1. 0 \in T
  <2> DEFINE g == [i \in 0 .. 0 |-> <<>>]
  <2>1. g = [i \in 0 .. 0 |-> Rows(g, i)]
    OBVIOUS
  <2> QED
    BY <2>1
<1>2. ASSUME NEW n \in T PROVE n + 1 \in T
  <2>1. PICK g : g = [i \in 0 .. n |-> Rows(g, i)]
    OBVIOUS
  <2> DEFINE h == [i \in 0 .. n + 1 |-> IF i = n + 1 THEN Rows(g, i) ELSE g[i]]
  <2>2. \A i \in 0 .. n + 1 : h[i] = Rows(h, i)
    <3> SUFFICES ASSUME NEW i \in 0 .. n + 1 PROVE h[i] = Rows(h, i)
      OBVIOUS
    <3>1. i # 0 => h[i - 1] = g[i - 1]
      OBVIOUS
    <3>2. Rows(h, i) = Rows(g, i)
      BY <3>1
    <3>3. ASSUME i # n + 1 PROVE g[i] = Rows(g, i)
      <4>1. i \in 0 .. n
        BY <3>3
      <4> QED
        BY <2>1, <4>1
    <3> QED
      BY <3>2, <3>3
  <2>3. h = [i \in 0 .. n + 1 |-> Rows(h, i)]
    BY <2>2
  <2>4. Until(n + 1)
    <3> HIDE DEF h
    <3> QED
      BY <2>3
  <2>5. n + 1 \in Nat
    OBVIOUS
  <2> HIDE DEF Until
  <2> QED
    BY <2>4, <2>5
<1>3. T = Nat
  <2> HIDE DEF Until
  <2> QED
    BY <1>1, <1>2, Induction
<1>4. Until(Len(s))
  <2> HIDE DEF Until
  <2>1. Len(s) \in Nat
    OBVIOUS
  <2> QED
    BY <1>3, <2>1
<1> QED
  BY <1>4 DEF Selects

\* What the answer to a fetch carries.
LEMMA Conversations ==
  ASSUME messages \in Seq(Message), NEW u, NEW p
  PROVE  /\ Conversation(u, p) \in Seq(Message)
         /\ Elements(Conversation(u, p)) \subseteq Stored
         /\ \A m \in Stored : Between(m, u, p) => m \in Elements(Conversation(u, p))
         /\ \A v : InOrderOf(messages, v) => InOrderOf(Conversation(u, p), v)
<1> DEFINE f == CHOOSE g : Selects(g, messages, u, p)
           Good(n) ==
             /\ f[n] \in Seq(Message)
             /\ \A i \in DOMAIN f[n] : \E k \in 1 .. n : f[n][i] = messages[k]
             /\ \A k \in 1 .. n : Between(messages[k], u, p) => \E i \in DOMAIN f[n] : f[n][i] = messages[k]
             /\ \A v : InOrderOf(messages, v) => InOrderOf(f[n], v)
           T == {n \in Nat : n <= Len(messages) => Good(n)}
<1>1. Conversation(u, p) = f[Len(messages)]
  BY DEF Conversation, Selects
<1>2. Selects(f, messages, u, p)
  BY Selected
<1> HIDE DEF f
<1>3. f[0] = <<>> /\ \A n \in 0 .. Len(messages) - 1 :
        f[n + 1] = IF Between(messages[n + 1], u, p) THEN Append(f[n], messages[n + 1]) ELSE f[n]
  <2>1. Len(messages) \in Nat
    OBVIOUS
  <2>2. \A n \in 0 .. Len(messages) :
          f[n] = IF n = 0 THEN <<>>
                 ELSE IF Between(messages[n], u, p) THEN Append(f[n - 1], messages[n]) ELSE f[n - 1]
    <3> DEFINE R(n) == IF n = 0 THEN <<>>
                       ELSE IF Between(messages[n], u, p) THEN Append(f[n - 1], messages[n]) ELSE f[n - 1]
    <3>1. f = [n \in 0 .. Len(messages) |-> R(n)]
      BY <1>2 DEF Selects
    <3> HIDE DEF R
    <3>2. \A n \in 0 .. Len(messages) : f[n] = R(n)
      BY <3>1
    <3> QED
      BY <3>2 DEF R
  <2>3. ASSUME NEW n \in 0 .. Len(messages) - 1
        PROVE  n + 1 \in 0 .. Len(messages) /\ n + 1 # 0 /\ (n + 1) - 1 = n
    BY <2>1
  <2>4. f[0] = <<>>
    BY <2>1, <2>2
  <2> QED
    BY <2>2, <2>3, <2>4
<1>4. Good(0)
  BY <1>3 DEF InOrderOf
<1>5. ASSUME NEW n \in Nat, n + 1 <= Len(messages), Good(n) PROVE Good(n + 1)
  <2>1. /\ messages[n + 1] \in Message /\ n \in 0 .. Len(messages) - 1
        /\ \A k \in 1 .. n + 1 : k \in 1 .. n \/ k = n + 1
    BY <1>5
  <2>2. CASE ~ Between(messages[n + 1], u, p)
    <3>1. f[n + 1] = f[n]
      BY <1>3, <2>1, <2>2
    <3> QED
      BY <1>5, <2>1, <2>2, <3>1
  <2>3. CASE Between(messages[n + 1], u, p)
    <3>1. f[n + 1] = Append(f[n], messages[n + 1])
      BY <1>3, <2>1, <2>3
    <3>2. /\ f[n + 1] \in Seq(Message)
          /\ DOMAIN f[n] = 1 .. Len(f[n]) /\ DOMAIN f[n + 1] = 1 .. Len(f[n]) + 1 /\ Len(f[n]) \in Nat
          /\ \A i \in 1 .. Len(f[n]) : f[n + 1][i] = f[n][i]
          /\ f[n + 1][Len(f[n]) + 1] = messages[n + 1]
      BY <1>5, <2>1, <3>1, Appended
    <3>3. ASSUME NEW i \in DOMAIN f[n + 1] PROVE \E k \in 1 .. n + 1 : f[n + 1][i] = messages[k]
      <4>1. CASE i = Len(f[n]) + 1
        BY <2>1, <3>2, <4>1
      <4>2. CASE i \in 1 .. Len(f[n])
        <5>1. PICK k \in 1 .. n : f[n][i] = messages[k]
          BY <1>5, <3>2, <4>2
        <5>2. k \in 1 .. n + 1 /\ f[n + 1][i] = messages[k]
          BY <3>2, <4>2, <5>1
        <5> QED
          BY <5>2
      <4> QED
        BY <3>2, <4>1, <4>2
    <3>4. ASSUME NEW k \in 1 .. n + 1, Between(messages[k], u, p)
          PROVE  \E i \in DOMAIN f[n + 1] : f[n + 1][i] = messages[k]
      <4>1. CASE k = n + 1
        BY <3>2, <4>1
      <4>2. CASE k \in 1 .. n
        <5>1. PICK i \in DOMAIN f[n] : f[n][i] = messages[k]
          BY <1>5, <3>4, <4>2
        <5>2. i \in DOMAIN f[n + 1] /\ f[n + 1][i] = messages[k]
          BY <3>2, <5>1
        <5> QED
          BY <5>2
      <4> QED
        BY <2>1, <4>1, <4>2
    <3>5. ASSUME NEW v, InOrderOf(messages, v) PROVE InOrderOf(f[n + 1], v)
      <4> SUFFICES ASSUME NEW i \in DOMAIN f[n + 1], NEW j \in DOMAIN f[n + 1], i < j,
                          f[n + 1][i].from = v, f[n + 1][j].from = v,
                          f[n + 1][i].id > 0, f[n + 1][j].id > 0
                   PROVE  f[n + 1][i].id < f[n + 1][j].id
        BY DEF InOrderOf
      <4>1. CASE j \in 1 .. Len(f[n])
        <5>1. InOrderOf(f[n], v)
          BY <1>5, <3>5
        <5>2. i \in 1 .. Len(f[n])
          BY <3>2, <4>1
        <5>3. i \in DOMAIN f[n] /\ j \in DOMAIN f[n] /\ f[n + 1][i] = f[n][i] /\ f[n + 1][j] = f[n][j]
          BY <3>2, <4>1, <5>2
        <5> QED
          BY <5>1, <5>3 DEF InOrderOf
      <4>2. CASE j = Len(f[n]) + 1
        <5>1. PICK k \in 1 .. n : f[n + 1][i] = messages[k]
          BY <1>5, <3>2, <4>2
        <5>2. k \in DOMAIN messages /\ n + 1 \in DOMAIN messages /\ k < n + 1
          BY <1>5
        <5> QED
          BY <3>2, <3>5, <4>2, <5>1, <5>2 DEF InOrderOf
      <4> QED
        BY <3>2, <4>1, <4>2
    <3> QED
      BY <3>2, <3>3, <3>4, <3>5
  <2> QED
    BY <2>2, <2>3
<1> HIDE DEF Good
<1>6. Good(Len(messages))
  <2>1. 0 \in T
    BY <1>4
  <2>2. ASSUME NEW n \in T PROVE n + 1 \in T
    BY <1>5, <2>2
  <2>3. T = Nat
    BY <2>1, <2>2, Induction
  <2>4. Len(messages) \in Nat /\ Len(messages) <= Len(messages)
    OBVIOUS
  <2> QED
    BY <2>3, <2>4
<1> QED
  BY <1>1, <1>6 DEF Good, Elements, Stored

-----------------------------------------------------------------------------
LEMMA Kinds ==
  /\ \A r \in Request : /\ r.kind = "send" => r.msg \in Message
                        /\ r.kind = "fetch" => r.peer \in Users
                        /\ r.kind \in {"send", "fetch"}
  /\ \A a \in Answer : /\ a.kind = "history" => a.msgs \in Seq(Message)
                       /\ a.kind = "ack" => a.msg \in Entry
                       /\ a.kind = "note" => a.msg \in Message
                       /\ a.kind \in {"ack", "note", "history"}
  /\ \A b \in Busy : b # Idle => b.at \in {"notify", "ack", "failed"} /\ b.msg \in Message
  /\ Idle.at = "idle"
  /\ Message \subseteq Entry
<1>1. \A r \in Request : /\ r.kind = "send" => r.msg \in Message
                         /\ r.kind = "fetch" => r.peer \in Users
                         /\ r.kind \in {"send", "fetch"}
  BY DEF Request
<1>2. \A a \in Answer : /\ a.kind = "history" => a.msgs \in Seq(Message)
                        /\ a.kind = "ack" => a.msg \in Entry
                        /\ a.kind = "note" => a.msg \in Message
                        /\ a.kind \in {"ack", "note", "history"}
  BY DEF Answer
<1>3. \A b \in Busy : b # Idle => b.at \in {"notify", "ack", "failed"} /\ b.msg \in Message
  BY DEF Busy
<1> QED
  BY <1>1, <1>2, <1>3 DEF Idle, Entry

LEMMA MessageFields ==
  /\ \A m \in Message : m.from \in Users /\ m.to \in Users /\ m.id \in Nat /\ m.id > 0
  /\ \A e \in Entry : e.from \in Users /\ e.id \in Nat
  /\ \A m \in Message : FailedText(m) \in Entry /\ FailedText(m).id = 0 /\ FailedText(m).from = m.from
  BY Bounds DEF Message, Entry, FailedText

\* The content of an answer is a sequence of entries.
LEMMA Contents ==
  ASSUME NEW a \in Answer
  PROVE  Content(a) \in Seq(Entry)
<1>1. CASE a.kind = "history"
  <2>1. a.msgs \in Seq(Message)
    BY <1>1, Kinds
  <2> QED
    BY <1>1, <2>1 DEF Content, Entry
<1>2. CASE a.kind # "history"
  <2>1. a.msg \in Entry
    BY <1>2, Kinds
  <2> QED
    BY <1>2, <2>1 DEF Content
<1> QED
  BY <1>1, <1>2

\* What Show puts on the screen is the content, alone or at the end.
LEMMA Showing ==
  ASSUME TypeOK, NEW u \in Users, Show(u)
  PROVE  /\ Head(down[u]) \in Answer /\ Content(Head(down[u])) \in Seq(Entry)
         /\ view'[u] = IF Head(down[u]).kind = "history" THEN Content(Head(down[u]))
                       ELSE Append(view[u], Head(down[u]).msg)
         /\ Head(down[u]).kind # "history" => Head(down[u]).msg \in Entry
         /\ \A v \in Users \ {u} : view'[v] = view[v]
         /\ view' \in [Users -> Seq(Entry)]
<1>1. Head(down[u]) \in Answer
  BY Taken DEF Show, TypeOK
<1>2. /\ view'[u] = IF Head(down[u]).kind = "history" THEN Content(Head(down[u]))
                    ELSE Append(view[u], Head(down[u]).msg)
      /\ \A v \in Users \ {u} : view'[v] = view[v]
  BY DEF Show, TypeOK, Content
<1>3. Head(down[u]).kind # "history" => Head(down[u]).msg \in Entry
  BY <1>1, Kinds
<1>4. view'[u] \in Seq(Entry)
  BY <1>1, <1>2, <1>3, Contents, Appended DEF TypeOK
<1>5. view' \in [Users -> Seq(Entry)]
  BY <1>4 DEF Show, TypeOK
<1> QED
  BY <1>1, <1>2, <1>3, <1>5, Contents

\* What a fetch is answered with: rows of its conversation, and what is missed.
LEMMA Fetched ==
  ASSUME TypeOK, NEW u \in Users, ServeFetch(u)
  PROVE  \E c \in Seq(Message) :
           /\ down' = [down EXCEPT ![u] = Append(@, History(c))]
           /\ Elements(c) \subseteq Stored
           /\ \A v : InOrderOf(messages, v) => InOrderOf(c, v)
           /\ \A m \in Stored : Between(m, u, Head(up[u]).peer) => m \in Elements(c) \cup missed'[u]
           /\ missed' \in [Users -> SUBSET Message]
<1> DEFINE found == Conversation(u, Head(up[u]).peer)
<1>1. /\ found \in Seq(Message) /\ Elements(found) \subseteq Stored
      /\ \A m \in Stored : Between(m, u, Head(up[u]).peer) => m \in Elements(found)
      /\ \A v : InOrderOf(messages, v) => InOrderOf(found, v)
  BY Conversations DEF TypeOK
<1>2. PICK n \in 0 .. Len(found) :
        /\ down' = [down EXCEPT ![u] = Append(@, History(SubSeq(found, 1, n)))]
        /\ missed' = [missed EXCEPT ![u] = Elements(found) \ Elements(SubSeq(found, 1, n))]
  BY DEF ServeFetch, Tell
<1> HIDE DEF found
<1> DEFINE c == SubSeq(found, 1, n)
<1>3. /\ c \in Seq(Message) /\ DOMAIN c \subseteq DOMAIN found
      /\ \A i \in DOMAIN c : c[i] = found[i]
  BY <1>1
<1>4. \A v : InOrderOf(found, v) => InOrderOf(c, v)
  BY <1>3 DEF InOrderOf
<1>5. Elements(c) \subseteq Elements(found)
  BY <1>3 DEF Elements
<1>6. missed' = [missed EXCEPT ![u] = Elements(found) \ Elements(c)]
  BY <1>2
<1>7. down' = [down EXCEPT ![u] = Append(@, History(c))]
  BY <1>2
<1> HIDE DEF c
<1>8. Elements(found) \subseteq Message
  BY <1>1 DEF Elements
<1>9. missed'[u] = Elements(found) \ Elements(c) /\ missed' \in [Users -> SUBSET Message]
  BY <1>6, <1>8 DEF TypeOK
<1> QED
  BY <1>1, <1>3, <1>4, <1>5, <1>7, <1>9

LEMMA TypeStep == TypeOK /\ [Next]_vars => TypeOK'
<1> SUFFICES ASSUME TypeOK, [Next]_vars PROVE TypeOK'
  OBVIOUS
<1> USE Bounds
<1>1. CASE UNCHANGED vars
  BY <1>1 DEF vars, TypeOK
<1>2. ASSUME NEW u \in Users, Login(u) PROVE TypeOK'
  BY <1>2 DEF Login, TypeOK
<1>3. ASSUME NEW u \in Users, NEW p \in Users, Open(u, p) PROVE TypeOK'
  <2>1. Fetch(p) \in Request
    BY DEF Fetch, Request
  <2>2. Append(up[u], Fetch(p)) \in Seq(Request)
    BY <2>1, Appended DEF TypeOK
  <2> QED
    BY <1>3, <2>2 DEF Open, TypeOK
<1>4. ASSUME NEW u \in Users, Press(u) PROVE TypeOK'
  <2> DEFINE m == [from |-> u, to |-> opened[u], id |-> sent + 1]
  <2>1. m \in Message
    BY <1>4 DEF Press, TypeOK, Message
  <2>2. Send(m) \in Request
    BY <2>1 DEF Send, Request
  <2>3. Append(up[u], Send(m)) \in Seq(Request)
    BY <2>2, Appended DEF TypeOK
  <2> HIDE DEF m
  <2>4. up' = [up EXCEPT ![u] = Append(@, Send(m))]
    BY <1>4 DEF Press, m
  <2> QED
    BY <1>4, <2>3, <2>4 DEF Press, TypeOK
<1>5. ASSUME NEW u \in Users, Store(u) PROVE TypeOK'
  <2> DEFINE m == Head(up[u]).msg
  <2>1. m \in Message /\ Tail(up[u]) \in Seq(Request)
    BY <1>5, Kinds, Taken DEF Store, Takes, TypeOK
  <2>2. Append(messages, m) \in Seq(Message)
    BY <2>1, Appended DEF TypeOK
  <2>3. [at |-> "notify", msg |-> m] \in Busy /\ [at |-> "failed", msg |-> m] \in Busy
    BY <2>1 DEF Busy
  <2>4. /\ \/ messages' = Append(messages, m) /\ busy' = [busy EXCEPT ![u] = [at |-> "notify", msg |-> m]]
           \/ messages' = messages /\ busy' = [busy EXCEPT ![u] = [at |-> "failed", msg |-> m]]
        /\ up' = [up EXCEPT ![u] = Tail(@)]
        /\ UNCHANGED <<client, torn, down, inbox, sent, opens, missed>>
    BY <1>5 DEF Store, Takes
  <2> HIDE DEF m
  <2> QED
    BY <2>1, <2>2, <2>3, <2>4 DEF TypeOK, client
<1>6. ASSUME NEW u \in Users, Notify(u) PROVE TypeOK'
  <2>1. busy[u].msg \in Message
    BY <1>6, Kinds DEF Notify, TypeOK
  <2>2. busy[u].msg.to \in Users
    BY <2>1, MessageFields
  <2>3. Append(inbox[busy[u].msg.to], busy[u].msg) \in Seq(Message)
    BY <2>1, <2>2, Appended DEF TypeOK
  <2>4. inbox' \in [Users -> Seq(Message)]
    BY <1>6, <2>2, <2>3 DEF Notify, TypeOK
  <2>5. [at |-> "ack", msg |-> busy[u].msg] \in Busy
    BY <2>1 DEF Busy
  <2> QED
    BY <1>6, <2>4, <2>5 DEF Notify, TypeOK, client
<1>7. ASSUME NEW u \in Users, Acknowledge(u) PROVE TypeOK'
  <2> DEFINE e == IF busy[u].at = "ack" THEN busy[u].msg ELSE FailedText(busy[u].msg)
  <2>1. busy[u].msg \in Message
    BY <1>7, Kinds DEF Acknowledge, TypeOK
  <2>2. e \in Entry
    BY <2>1, Kinds, MessageFields
  <2> HIDE DEF e
  <2>3. Ack(e) \in Answer
    BY <2>2 DEF Ack, Answer
  <2>4. Append(down[u], Ack(e)) \in Seq(Answer)
    BY <2>3, Appended DEF TypeOK
  <2>5. down' = [down EXCEPT ![u] = Append(@, Ack(e))]
    BY <1>7 DEF Acknowledge, Tell, e
  <2>6. busy' \in [Users -> Busy]
    BY <1>7 DEF Acknowledge, TypeOK, Busy
  <2> QED
    BY <1>7, <2>4, <2>5, <2>6 DEF Acknowledge, TypeOK, client
<1>8. ASSUME NEW u \in Users, ServeFetch(u) PROVE TypeOK'
  <2>1. PICK c \in Seq(Message) :
          /\ down' = [down EXCEPT ![u] = Append(@, History(c))]
          /\ missed' \in [Users -> SUBSET Message]
    BY <1>8, Fetched
  <2>2. History(c) \in Answer
    BY <2>1 DEF History, Answer
  <2>3. Append(down[u], History(c)) \in Seq(Answer)
    BY <2>2, Appended DEF TypeOK
  <2>4. Tail(up[u]) \in Seq(Request) /\ up' = [up EXCEPT ![u] = Tail(@)]
    BY <1>8, Taken DEF ServeFetch, Takes, TypeOK
  <2>5. UNCHANGED <<client, torn, busy, inbox, messages, sent, opens>>
    BY <1>8 DEF ServeFetch
  <2> QED
    BY <2>1, <2>3, <2>4, <2>5 DEF TypeOK, client
<1>9. ASSUME NEW u \in Users, Deliver(u) PROVE TypeOK'
  <2>1. Head(inbox[u]) \in Message /\ Tail(inbox[u]) \in Seq(Message)
    BY <1>9, Taken DEF Deliver, TypeOK
  <2>2. Note(Head(inbox[u])) \in Answer
    BY <2>1 DEF Note, Answer
  <2>3. Append(down[u], Note(Head(inbox[u]))) \in Seq(Answer)
    BY <2>2, Appended DEF TypeOK
  <2> QED
    BY <1>9, <2>1, <2>3 DEF Deliver, Tell, TypeOK, client
<1>10. ASSUME NEW u \in Users, Show(u) PROVE TypeOK'
  <2>1. Tail(down[u]) \in Seq(Answer)
    BY <1>10, Taken DEF Show, TypeOK
  <2>2. view' \in [Users -> Seq(Entry)]
    BY <1>10, Showing
  <2> QED
    BY <1>10, <2>1, <2>2 DEF Show, TypeOK
<1>11. ASSUME NEW u \in Users, Close(u) PROVE TypeOK'
  <2>1. \A n \in 0 .. Len(up[u]) : SubSeq(up[u], 1, n) \in Seq(Request)
    BY DEF TypeOK
  <2>2. up' \in [Users -> Seq(Request)]
    BY <1>11, <2>1 DEF Close, TypeOK
  <2> QED
    BY <1>11, <2>2 DEF Close, TypeOK
<1>12. ASSUME NEW u \in Users, Lose(u) PROVE TypeOK'
  <2>1. Tail(up[u]) \in Seq(Request) /\ up' = [up EXCEPT ![u] = Tail(@)]
    BY <1>12, Taken DEF Lose, TypeOK
  <2>2. Conversation(u, Head(up[u]).peer) \in Seq(Message)
    BY Conversations DEF TypeOK
  <2>3. Elements(Conversation(u, Head(up[u]).peer)) \in SUBSET Message
    BY <2>2 DEF Elements
  <2>4. missed' \in [Users -> SUBSET Message]
    BY <1>12, <2>3 DEF Lose, TypeOK
  <2>5. torn' \in [Users -> BOOLEAN]
    BY <1>12 DEF Lose, TypeOK
  <2> QED
    BY <1>12, <2>1, <2>4, <2>5 DEF Lose, TypeOK, client
<1> QED
  BY <1>1, <1>2, <1>3, <1>4, <1>5, <1>6, <1>7, <1>8, <1>9, <1>10, <1>11, <1>12 DEF Next, Server

\* What is on a screen, on its way or in the table has its type, for any
\* numbers of users, messages and conversations.
THEOREM TypeCorrect == Spec => []TypeOK
<1>1. Init => TypeOK
  BY Bounds DEF Init, TypeOK, Busy
<1> QED
  BY <1>1, TypeStep, PTL DEF Spec

-----------------------------------------------------------------------------
\* A message on its way to the server is newer than what its sender has stored
\* and what is before it.
RequestsNumbered ==
  \A u \in Users : \A i \in DOMAIN up[u] : up[u][i].kind = "send" =>
    LET m == up[u][i].msg IN
      /\ m.from = u /\ m.to # u /\ m.id <= sent
      /\ Before(messages, u, m.id)
      /\ \A j \in 1 .. i - 1 : up[u][j].kind = "send" => up[u][j].msg.id < m.id

TableNumbered ==
  /\ \A i \in DOMAIN messages : messages[i].id <= sent /\ messages[i].from # messages[i].to
  /\ \A u \in Users : InOrderOf(messages, u)

\* The message that a thread is busy with is newer than all that its user has
\* been told of her messages.
BusyNumbered ==
  \A u \in Users : busy[u] # Idle =>
    LET m == busy[u].msg IN
      /\ m.from = u /\ m.to # u
      /\ busy[u].at \in {"notify", "ack"} =>
           /\ m \in Stored
           /\ Before(view[u], u, m.id)
           /\ \A k \in DOMAIN down[u] : Before(Content(down[u][k]), u, m.id)

NotesStored ==
  \A u \in Users : \A i \in DOMAIN inbox[u] :
    inbox[u][i] \in Stored /\ inbox[u][i].to = u /\ inbox[u][i].from # u

\* An answer for u brings what is stored, in order, and in an acknowledgement
\* what is newer than all before it.
AnswerTrue(u, a) ==
  /\ \A e \in Elements(Content(a)) : e.id > 0 => e \in Stored
  /\ \A v \in Users : InOrderOf(Content(a), v)
  /\ a.kind = "note" => a.msg.to = u /\ a.msg.from # u
  /\ a.kind = "ack" => a.msg.from = u
Acked(a) == a.kind = "ack" /\ a.msg.id > 0
AnswersTrue ==
  \A u \in Users : \A k \in DOMAIN down[u] :
    /\ AnswerTrue(u, down[u][k])
    /\ Acked(down[u][k]) =>
         /\ Before(view[u], u, down[u][k].msg.id)
         /\ \A j \in 1 .. k - 1 : Before(Content(down[u][j]), u, down[u][k].msg.id)

OthersOpened == \A u \in Users : opened[u] # u

OrderInv ==
  /\ RequestsNumbered /\ TableNumbered /\ BusyNumbered /\ NotesStored /\ AnswersTrue
  /\ OthersOpened /\ ShownIsStored /\ OwnInOrder


LEMMA StoredBefore ==
  ASSUME TypeOK, NEW s, NEW u, NEW n, \A e \in Elements(s) : e.id > 0 => e \in Stored, Before(messages, u, n)
  PROVE  Before(s, u, n)
  BY DEF Elements, Stored, Before

LEMMA StoredGrows ==
  ASSUME TypeOK, NEW m \in Message, messages' = Append(messages, m)
  PROVE  Stored' = Stored \cup {m}
<1>1. /\ DOMAIN messages = 1 .. Len(messages) /\ DOMAIN messages' = 1 .. Len(messages) + 1 /\ Len(messages) \in Nat
      /\ \A i \in 1 .. Len(messages) : messages'[i] = messages[i]
      /\ messages'[Len(messages) + 1] = m
  BY Appended DEF TypeOK
<1> QED
  BY <1>1 DEF Stored, Elements

\* Another answer, of which the same holds.
LEMMA TellStep ==
  ASSUME TypeOK, AnswersTrue, NEW u \in Users, NEW a \in Answer,
         down' = [down EXCEPT ![u] = Append(@, a)], UNCHANGED <<view, messages>>,
         AnswerTrue(u, a),
         Acked(a) => /\ Before(view[u], u, a.msg.id)
                     /\ \A j \in DOMAIN down[u] : Before(Content(down[u][j]), u, a.msg.id)
  PROVE  AnswersTrue'
<1>1. \A v \in Users \ {u} : down'[v] = down[v]
  BY DEF TypeOK
<1>2. /\ DOMAIN down[u] = 1 .. Len(down[u]) /\ DOMAIN down'[u] = 1 .. Len(down[u]) + 1 /\ Len(down[u]) \in Nat
      /\ \A i \in 1 .. Len(down[u]) : down'[u][i] = down[u][i]
      /\ down'[u][Len(down[u]) + 1] = a
  BY Appended DEF TypeOK
<1>3. \A v, b : AnswerTrue(v, b)' <=> AnswerTrue(v, b)
  BY DEF AnswerTrue, Stored
<1>4. ASSUME NEW v \in Users, NEW k \in DOMAIN down'[v]
      PROVE  /\ AnswerTrue(v, down'[v][k])
             /\ Acked(down'[v][k]) =>
                  /\ Before(view'[v], v, down'[v][k].msg.id)
                  /\ \A j \in 1 .. k - 1 : Before(Content(down'[v][j]), v, down'[v][k].msg.id)
  <2>1. CASE v # u
    BY <1>1, <1>4, <2>1 DEF AnswersTrue
  <2>2. CASE v = u /\ k \in 1 .. Len(down[u])
    <3>1. k \in DOMAIN down[u] /\ \A j \in 1 .. k - 1 : down'[u][j] = down[u][j]
      BY <1>2, <2>2
    <3> QED
      BY <1>2, <2>2, <3>1 DEF AnswersTrue
  <2>3. CASE v = u /\ k = Len(down[u]) + 1
    BY <1>2, <2>3
  <2> QED
    BY <1>2, <1>4, <2>1, <2>2, <2>3
<1> QED
  BY <1>3, <1>4 DEF AnswersTrue

\* What is newer than the screen and the answer is newer than the next screen.
LEMMA ShowBefore ==
  ASSUME TypeOK, NEW u \in Users, Show(u), NEW n,
         Before(view[u], u, n), Before(Content(Head(down[u])), u, n)
  PROVE  Before(view'[u], u, n)
<1> DEFINE a == Head(down[u])
<1>1. CASE a.kind = "history"
  BY <1>1, Showing
<1>2. CASE a.kind # "history"
  <2>1. view'[u] = Append(view[u], a.msg) /\ a.msg \in Entry /\ view[u] \in Seq(Entry)
    BY <1>2, Showing DEF TypeOK
  <2>2. Content(a) = <<a.msg>>
    BY <1>2 DEF Content
  <2> HIDE DEF a
  <2>3. a.msg.from = u /\ a.msg.id > 0 => a.msg.id < n
    BY <2>2 DEF Before, a
  <2> QED
    BY <2>1, <2>3, Appended DEF Before
<1> QED
  BY <1>1, <1>2


\* What a step does not touch stays as it was.
LEMMA Untouched ==
  ASSUME OrderInv
  PROVE  /\ UNCHANGED <<up, messages, sent>> => RequestsNumbered'
         /\ UNCHANGED <<messages, sent>> => TableNumbered'
         /\ UNCHANGED <<busy, messages, view, down>> => BusyNumbered'
         /\ UNCHANGED <<inbox, messages>> => NotesStored'
         /\ UNCHANGED <<down, view, messages>> => AnswersTrue'
         /\ UNCHANGED opened => OthersOpened'
         /\ UNCHANGED <<view, messages>> => ShownIsStored'
         /\ UNCHANGED view => OwnInOrder'
<1>1. UNCHANGED <<up, messages, sent>> => RequestsNumbered'
  BY DEF OrderInv, RequestsNumbered
<1>2. UNCHANGED <<messages, sent>> => TableNumbered'
  BY DEF OrderInv, TableNumbered
<1>3. UNCHANGED <<busy, messages, view, down>> => BusyNumbered'
  BY DEF OrderInv, BusyNumbered, Stored
<1>4. UNCHANGED <<inbox, messages>> => NotesStored'
  BY DEF OrderInv, NotesStored, Stored
<1>5. UNCHANGED <<down, view, messages>> => AnswersTrue'
  BY DEF OrderInv, AnswersTrue, AnswerTrue, Stored
<1>6. UNCHANGED opened => OthersOpened'
  BY DEF OrderInv, OthersOpened
<1>7. UNCHANGED <<view, messages>> => ShownIsStored'
  BY DEF OrderInv, ShownIsStored, Shown, Stored
<1>8. UNCHANGED view => OwnInOrder'
  BY DEF OrderInv, OwnInOrder
<1> QED
  BY <1>1, <1>2, <1>3, <1>4, <1>5, <1>6, <1>7, <1>8

\* A request of which RequestsNumbered says what it should.
NewRequest(u, r) == r.kind = "send" =>
  /\ r.msg.from = u /\ r.msg.to # u
  /\ Before(messages, u, r.msg.id)
  /\ \A j \in DOMAIN up[u] : up[u][j].kind = "send" => up[u][j].msg.id < r.msg.id

LEMMA PushedRequest ==
  ASSUME TypeOK, RequestsNumbered, NEW u \in Users, NEW r \in Request, NewRequest(u, r),
         up' = [up EXCEPT ![u] = Append(@, r)], messages' = messages,
         sent' \in Nat, sent <= sent', r.kind = "send" => r.msg.id <= sent'
  PROVE  RequestsNumbered'
<1>1. /\ DOMAIN up[u] = 1 .. Len(up[u]) /\ DOMAIN up'[u] = 1 .. Len(up[u]) + 1 /\ Len(up[u]) \in Nat
      /\ \A i \in 1 .. Len(up[u]) : up'[u][i] = up[u][i]
      /\ up'[u][Len(up[u]) + 1] = r
  BY Appended DEF TypeOK
<1>2. \A v \in Users \ {u} : up'[v] = up[v]
  BY DEF TypeOK
<1>3. \A v \in Users : \A i \in DOMAIN up[v] : up[v][i].kind = "send" => up[v][i].msg.id \in Nat
  BY Kinds, MessageFields DEF TypeOK
<1>4. sent \in Nat
  BY Bounds DEF TypeOK
<1>5. ASSUME NEW v \in Users, NEW i \in DOMAIN up'[v], up'[v][i].kind = "send"
      PROVE  /\ up'[v][i].msg.from = v /\ up'[v][i].msg.to # v /\ up'[v][i].msg.id <= sent'
             /\ Before(messages, v, up'[v][i].msg.id)
             /\ \A j \in 1 .. i - 1 : up'[v][j].kind = "send" => up'[v][j].msg.id < up'[v][i].msg.id
  <2>1. CASE v # u
    BY <1>2, <1>3, <1>4, <1>5, <2>1 DEF RequestsNumbered
  <2>2. CASE v = u /\ i \in 1 .. Len(up[u])
    <3>1. i \in DOMAIN up[u] /\ \A j \in 1 .. i - 1 : up'[u][j] = up[u][j]
      BY <1>1, <2>2
    <3> QED
      BY <1>1, <1>3, <1>4, <1>5, <2>2, <3>1 DEF RequestsNumbered
  <2>3. CASE v = u /\ i = Len(up[u]) + 1
    <3>1. \A j \in 1 .. i - 1 : j \in DOMAIN up[u] /\ up'[u][j] = up[u][j]
      BY <1>1, <2>3
    <3> QED
      BY <1>1, <1>5, <2>3, <3>1 DEF NewRequest
  <2> QED
    BY <1>1, <1>5, <2>1, <2>2, <2>3
<1> QED
  BY <1>5 DEF RequestsNumbered

LEMMA PoppedRequest ==
  ASSUME TypeOK, RequestsNumbered, NEW u \in Users, up[u] # <<>>,
         up' = [up EXCEPT ![u] = Tail(@)], sent' = sent,
         \A v \in Users : \A n \in Nat :
           /\ Before(messages, v, n)
           /\ v = u /\ Head(up[u]).kind = "send" => Head(up[u]).msg.id < n
           => Before(messages', v, n)
  PROVE  RequestsNumbered'
<1>1. /\ Len(up[u]) \in Nat \ {0} /\ DOMAIN up[u] = 1 .. Len(up[u]) /\ DOMAIN up'[u] = 1 .. Len(up[u]) - 1
      /\ \A i \in 1 .. Len(up[u]) - 1 : up'[u][i] = up[u][i + 1]
      /\ Head(up[u]) = up[u][1]
  BY Taken DEF TypeOK
<1>2. \A v \in Users \ {u} : up'[v] = up[v]
  BY DEF TypeOK
<1>3. \A v \in Users : \A i \in DOMAIN up[v] : up[v][i].kind = "send" => up[v][i].msg.id \in Nat
  BY Kinds, MessageFields DEF TypeOK
<1>4. ASSUME NEW v \in Users, NEW i \in DOMAIN up'[v], up'[v][i].kind = "send"
      PROVE  /\ up'[v][i].msg.from = v /\ up'[v][i].msg.to # v /\ up'[v][i].msg.id <= sent
             /\ Before(messages', v, up'[v][i].msg.id)
             /\ \A j \in 1 .. i - 1 : up'[v][j].kind = "send" => up'[v][j].msg.id < up'[v][i].msg.id
  <2>1. CASE v # u
    <3>1. i \in DOMAIN up[v] /\ up'[v] = up[v]
      BY <1>2, <1>4, <2>1
    <3>2. Before(messages, v, up[v][i].msg.id) /\ up[v][i].msg.id \in Nat
      BY <1>3, <1>4, <3>1 DEF RequestsNumbered
    <3> QED
      BY <1>4, <2>1, <3>1, <3>2 DEF RequestsNumbered
  <2>2. CASE v = u
    <3>1. /\ i + 1 \in DOMAIN up[u] /\ 1 \in 1 .. (i + 1) - 1 /\ up'[u][i] = up[u][i + 1]
          /\ \A j \in 1 .. i - 1 : j + 1 \in 1 .. (i + 1) - 1 /\ up'[u][j] = up[u][j + 1]
      BY <1>1, <1>4, <2>2
    <3>2. /\ Before(messages, u, up[u][i + 1].msg.id) /\ up[u][i + 1].msg.id \in Nat
          /\ up[u][1].kind = "send" => up[u][1].msg.id < up[u][i + 1].msg.id
      BY <1>3, <1>4, <2>2, <3>1 DEF RequestsNumbered
    <3>3. Before(messages', u, up[u][i + 1].msg.id)
      BY <1>1, <3>2
    <3> QED
      BY <1>4, <2>2, <3>1, <3>3 DEF RequestsNumbered
  <2> QED
    BY <2>1, <2>2
<1> QED
  BY <1>4 DEF RequestsNumbered

\* The table with one more message.
LEMMA MessageStored ==
  ASSUME TypeOK, OrderInv, NEW u \in Users, NEW m \in Message, m.from = u, m.to # u, m.id <= sent,
         Before(messages, u, m.id), messages' = Append(messages, m), sent' = sent
  PROVE  /\ \A v \in Users : \A n \in Nat : Before(messages, v, n) /\ (v = u => m.id < n) => Before(messages', v, n)
         /\ TableNumbered'
         /\ UNCHANGED inbox => NotesStored'
         /\ UNCHANGED <<down, view>> => AnswersTrue'
         /\ UNCHANGED view => ShownIsStored'
<1>1. /\ DOMAIN messages = 1 .. Len(messages) /\ DOMAIN messages' = 1 .. Len(messages) + 1 /\ Len(messages) \in Nat
      /\ \A i \in 1 .. Len(messages) : messages'[i] = messages[i]
      /\ messages'[Len(messages) + 1] = m
  BY Appended DEF TypeOK
<1>2. Stored \subseteq Stored'
  BY StoredGrows
<1>3. \A v \in Users : \A n \in Nat : Before(messages, v, n) /\ (v = u => m.id < n) => Before(messages', v, n)
  BY <1>1 DEF Before
<1>4. TableNumbered'
  <2>1. \A i \in DOMAIN messages' : messages'[i].id <= sent' /\ messages'[i].from # messages'[i].to
    BY <1>1 DEF OrderInv, TableNumbered
  <2>2. ASSUME NEW v \in Users, NEW i \in DOMAIN messages', NEW j \in DOMAIN messages', i < j,
               messages'[i].from = v, messages'[j].from = v, messages'[i].id > 0, messages'[j].id > 0
        PROVE  messages'[i].id < messages'[j].id
    <3>1. i \in DOMAIN messages /\ messages'[i] = messages[i]
      BY <1>1, <2>2
    <3>2. CASE j \in 1 .. Len(messages)
      <4>1. j \in DOMAIN messages /\ messages'[j] = messages[j]
        BY <1>1, <3>2
      <4>2. InOrderOf(messages, v)
        BY DEF OrderInv, TableNumbered
      <4> QED
        BY <2>2, <3>1, <4>1, <4>2 DEF InOrderOf
    <3>3. CASE j = Len(messages) + 1
      BY <1>1, <2>2, <3>1, <3>3 DEF Before
    <3> QED
      BY <1>1, <3>2, <3>3
  <2> QED
    BY <2>1, <2>2 DEF TableNumbered, InOrderOf
<1>5. UNCHANGED inbox => NotesStored'
  BY <1>2 DEF OrderInv, NotesStored
<1>6. ASSUME UNCHANGED <<down, view>> PROVE AnswersTrue'
  <2>1. \A v, a : AnswerTrue(v, a) => AnswerTrue(v, a)'
    BY <1>2 DEF AnswerTrue
  <2> QED
    BY <1>6, <2>1 DEF OrderInv, AnswersTrue
<1>7. UNCHANGED view => ShownIsStored'
  BY <1>2 DEF OrderInv, ShownIsStored, Shown
<1> QED
  BY <1>3, <1>4, <1>5, <1>6, <1>7

LEMMA OrderStep == TypeOK /\ OrderInv /\ [Next]_vars => OrderInv'
<1> SUFFICES ASSUME TypeOK, OrderInv, [Next]_vars PROVE OrderInv'
  OBVIOUS
<1>1. CASE UNCHANGED vars
  BY <1>1, Untouched DEF vars, OrderInv
<1>2. ASSUME NEW u \in Users, Login(u) PROVE OrderInv'
  BY <1>2, Untouched DEF Login, OrderInv
<1>3. ASSUME NEW u \in Users, NEW p \in Users, Open(u, p) PROVE OrderInv'
  <2>1. Fetch(p) \in Request /\ NewRequest(u, Fetch(p)) /\ Fetch(p).kind # "send"
    BY DEF Fetch, Request, NewRequest
  <2>2. sent \in Nat
    BY Bounds DEF TypeOK
  <2>3. RequestsNumbered'
    <3>1. /\ RequestsNumbered /\ messages' = messages /\ sent' \in Nat /\ sent <= sent'
          /\ up' = [up EXCEPT ![u] = Append(@, Fetch(p))]
      BY <1>3, <2>2 DEF Open, OrderInv
    <3> QED
      BY <2>1, <3>1, PushedRequest
  <2>4. OthersOpened'
    BY <1>3 DEF Open, OrderInv, OthersOpened, TypeOK
  <2> QED
    BY <1>3, <2>3, <2>4, Untouched DEF Open, OrderInv
<1>4. ASSUME NEW u \in Users, Press(u) PROVE OrderInv'
  <2> DEFINE m == [from |-> u, to |-> opened[u], id |-> sent + 1]
  <2>1. sent \in Nat /\ sent' = sent + 1
    BY <1>4, Bounds DEF TypeOK, Press
  <2>2. m \in Message /\ m.from = u /\ m.to # u /\ m.id = sent + 1
    BY <1>4, Bounds DEF Press, TypeOK, Message, OrderInv, OthersOpened
  <2>3. up' = [up EXCEPT ![u] = Append(@, Send(m))]
    BY <1>4 DEF Press
  <2> HIDE DEF m
  <2>4. Send(m) \in Request /\ Send(m).kind = "send" /\ Send(m).msg = m
    BY <2>2 DEF Send, Request
  <2>5. Before(messages, u, m.id)
    <3>1. \A i \in DOMAIN messages : messages[i].id \in Nat /\ messages[i].id <= sent
      BY MessageFields DEF TypeOK, OrderInv, TableNumbered
    <3> QED
      BY <2>1, <2>2, <3>1 DEF Before
  <2>6. \A j \in DOMAIN up[u] : up[u][j].kind = "send" => up[u][j].msg.id < m.id
    <3>1. \A j \in DOMAIN up[u] : up[u][j].kind = "send" => up[u][j].msg.id \in Nat /\ up[u][j].msg.id <= sent
      BY Kinds, MessageFields DEF TypeOK, OrderInv, RequestsNumbered
    <3> QED
      BY <2>1, <2>2, <3>1
  <2>7. NewRequest(u, Send(m))
    BY <2>2, <2>4, <2>5, <2>6 DEF NewRequest
  <2>8. RequestsNumbered'
    <3>1. RequestsNumbered /\ messages' = messages /\ sent' \in Nat /\ sent <= sent' /\ m.id <= sent'
      BY <1>4, <2>1, <2>2 DEF Press, OrderInv
    <3> QED
      BY <2>3, <2>4, <2>7, <3>1, PushedRequest
  <2>9. TableNumbered'
    <3>1. \A i \in DOMAIN messages : messages[i].id \in Nat
      BY MessageFields DEF TypeOK
    <3> QED
      BY <1>4, <2>1, <3>1 DEF Press, OrderInv, TableNumbered
  <2> QED
    BY <1>4, <2>8, <2>9, Untouched DEF Press, OrderInv
<1>5. ASSUME NEW u \in Users, Store(u) PROVE OrderInv'
  <2> DEFINE m == Head(up[u]).msg
  <2>1. /\ up[u] # <<>> /\ Head(up[u]) \in Request /\ Head(up[u]).kind = "send" /\ Head(up[u]) = up[u][1]
        /\ 1 \in DOMAIN up[u]
    BY <1>5, Taken DEF Store, Takes, TypeOK
  <2>2. m \in Message /\ m.id \in Nat
    BY <2>1, Kinds, MessageFields
  <2>3. m.from = u /\ m.to # u /\ m.id <= sent /\ Before(messages, u, m.id)
    BY <2>1 DEF OrderInv, RequestsNumbered
  <2>4. /\ \/ messages' = Append(messages, m) /\ busy' = [busy EXCEPT ![u] = [at |-> "notify", msg |-> m]]
           \/ messages' = messages /\ busy' = [busy EXCEPT ![u] = [at |-> "failed", msg |-> m]]
        /\ up' = [up EXCEPT ![u] = Tail(@)]
        /\ UNCHANGED <<client, torn, down, inbox, sent, opens, missed>>
    BY <1>5 DEF Store, Takes
  <2> HIDE DEF m
  <2>5. CASE /\ messages' = Append(messages, m) /\ busy' = [busy EXCEPT ![u] = [at |-> "notify", msg |-> m]]
    <3>1. \A v \in Users : \A n \in Nat :
            Before(messages, v, n) /\ (v = u => m.id < n) => Before(messages', v, n)
      BY <2>2, <2>3, <2>4, <2>5, MessageStored
    <3>2. \A v \in Users : \A n \in Nat :
            /\ Before(messages, v, n)
            /\ v = u /\ Head(up[u]).kind = "send" => Head(up[u]).msg.id < n
            => Before(messages', v, n)
      BY <2>1, <3>1 DEF m
    <3>9. RequestsNumbered'
      <4>1. RequestsNumbered /\ sent' = sent
        BY <2>4 DEF OrderInv
      <4> QED
        BY <2>1, <2>4, <3>2, <4>1, PoppedRequest
    <3>3. TableNumbered' /\ NotesStored' /\ AnswersTrue' /\ ShownIsStored'
      BY <2>2, <2>3, <2>4, <2>5, MessageStored DEF client
    <3>4. Stored' = Stored \cup {m}
      BY <2>2, <2>5, StoredGrows
    <3>5. Before(view[u], u, m.id)
      BY <2>3, StoredBefore DEF OrderInv, ShownIsStored, Shown, Elements
    <3>6. \A k \in DOMAIN down[u] : Before(Content(down[u][k]), u, m.id)
      BY <2>3, StoredBefore DEF OrderInv, AnswersTrue, AnswerTrue
    <3>7. busy'[u].msg = m /\ \A v \in Users \ {u} : busy'[v] = busy[v]
      BY <2>5 DEF TypeOK
    <3>8. BusyNumbered'
      BY <2>3, <2>4, <3>4, <3>5, <3>6, <3>7 DEF OrderInv, BusyNumbered, client
    <3> QED
      BY <2>4, <3>3, <3>8, <3>9, Untouched DEF OrderInv, client
  <2>6. CASE /\ messages' = messages /\ busy' = [busy EXCEPT ![u] = [at |-> "failed", msg |-> m]]
    <3>1. RequestsNumbered'
      <4>1. /\ RequestsNumbered /\ sent' = sent
            /\ \A v \in Users : \A n \in Nat : Before(messages, v, n) => Before(messages', v, n)
        BY <2>4, <2>6 DEF OrderInv
      <4> QED
        BY <2>1, <2>4, <4>1, PoppedRequest
    <3>2. busy'[u] = [at |-> "failed", msg |-> m] /\ \A v \in Users \ {u} : busy'[v] = busy[v]
      BY <2>6 DEF TypeOK
    <3>3. BusyNumbered'
      BY <2>3, <2>4, <2>6, <3>2 DEF OrderInv, BusyNumbered, client, Stored
    <3> QED
      BY <2>4, <2>6, <3>1, <3>3, Untouched DEF OrderInv, client
  <2> QED
    BY <2>4, <2>5, <2>6
<1>6. ASSUME NEW u \in Users, Notify(u) PROVE OrderInv'
  <2> DEFINE m == busy[u].msg
  <2>1. m \in Message /\ busy[u] # Idle /\ busy[u].at = "notify"
    BY <1>6, Kinds DEF Notify, TypeOK
  <2>2. m.from = u /\ m.to # u /\ m.to \in Users /\ m \in Stored
    BY <2>1, MessageFields DEF OrderInv, BusyNumbered
  <2>3. /\ inbox' = IF session[m.to] = "on" THEN [inbox EXCEPT ![m.to] = Append(@, m)] ELSE inbox
        /\ busy' = [busy EXCEPT ![u] = [at |-> "ack", msg |-> m]]
        /\ UNCHANGED <<client, up, down, messages, sent, opens>>
    BY <1>6 DEF Notify
  <2> HIDE DEF m
  <2>4. busy'[u] = [at |-> "ack", msg |-> m] /\ \A v \in Users \ {u} : busy'[v] = busy[v]
    BY <2>3 DEF TypeOK
  <2>5. /\ m \in Stored' /\ Before(view[u], u, m.id)
        /\ \A k \in DOMAIN down[u] : Before(Content(down[u][k]), u, m.id)
    BY <2>1, <2>3 DEF OrderInv, BusyNumbered, Stored, m
  <2>6. BusyNumbered'
    BY <2>2, <2>3, <2>4, <2>5 DEF OrderInv, BusyNumbered, client, Stored
  <2>7. NotesStored'
    <3>1. CASE inbox' = inbox
      BY <2>3, <3>1 DEF OrderInv, NotesStored, Stored
    <3>2. CASE inbox' = [inbox EXCEPT ![m.to] = Append(@, m)]
      <4>1. inbox[m.to] \in Seq(Message)
        BY <2>2 DEF TypeOK
      <4>2. inbox'[m.to] = Append(inbox[m.to], m) /\ \A v \in Users \ {m.to} : inbox'[v] = inbox[v]
        BY <2>2, <3>2 DEF TypeOK
      <4> QED
        BY <2>1, <2>2, <2>3, <4>1, <4>2, Appended DEF OrderInv, NotesStored, Stored
    <3> QED
      BY <2>3, <3>1, <3>2
  <2> QED
    BY <2>3, <2>6, <2>7, Untouched DEF OrderInv, client
<1>7. ASSUME NEW u \in Users, Acknowledge(u) PROVE OrderInv'
  <2> DEFINE e == IF busy[u].at = "ack" THEN busy[u].msg ELSE FailedText(busy[u].msg)
  <2>1. busy[u].msg \in Message /\ busy[u] # Idle /\ busy[u].at \in {"ack", "failed"}
    BY <1>7, Kinds DEF Acknowledge, TypeOK
  <2>2. /\ e \in Entry /\ e.from = u
        /\ e.id > 0 => busy[u].at = "ack" /\ e = busy[u].msg
    BY <2>1, Kinds, MessageFields DEF OrderInv, BusyNumbered
  <2>3. down' = [down EXCEPT ![u] = Append(@, Ack(e))]
    BY <1>7 DEF Acknowledge, Tell
  <2> HIDE DEF e
  <2>4. Ack(e) \in Answer /\ Content(Ack(e)) = <<e>> /\ Ack(e).kind = "ack" /\ Ack(e).msg = e
    BY <2>2 DEF Ack, Answer, Content
  <2>5. AnswerTrue(u, Ack(e))
    BY <2>1, <2>2, <2>4 DEF AnswerTrue, Elements, InOrderOf, OrderInv, BusyNumbered
  <2>6. Acked(Ack(e)) => /\ Before(view[u], u, Ack(e).msg.id)
                         /\ \A j \in DOMAIN down[u] : Before(Content(down[u][j]), u, Ack(e).msg.id)
    BY <2>1, <2>2, <2>4 DEF Acked, OrderInv, BusyNumbered
  <2>7. UNCHANGED <<client, up, inbox, messages, sent, opens>> /\ busy' = [busy EXCEPT ![u] = Idle]
    BY <1>7 DEF Acknowledge
  <2>8. AnswersTrue'
    BY <2>3, <2>4, <2>5, <2>6, <2>7, TellStep DEF OrderInv, client
  <2>9. BusyNumbered'
    <3>1. busy'[u] = Idle /\ \A v \in Users \ {u} : busy'[v] = busy[v] /\ down'[v] = down[v]
      BY <2>3, <2>7 DEF TypeOK
    <3> QED
      BY <2>7, <3>1 DEF OrderInv, BusyNumbered, client, Stored
  <2> QED
    BY <2>7, <2>8, <2>9, Untouched DEF OrderInv, client
<1>8. ASSUME NEW u \in Users, ServeFetch(u) PROVE OrderInv'
  <2>1. PICK c \in Seq(Message) :
          /\ down' = [down EXCEPT ![u] = Append(@, History(c))]
          /\ Elements(c) \subseteq Stored
          /\ \A v : InOrderOf(messages, v) => InOrderOf(c, v)
    BY <1>8, Fetched
  <2>2. /\ busy[u] = Idle /\ up[u] # <<>> /\ Head(up[u]).kind # "send" /\ up' = [up EXCEPT ![u] = Tail(@)]
        /\ UNCHANGED <<client, busy, inbox, messages, sent, opens>>
    BY <1>8 DEF ServeFetch, Takes
  <2>3. History(c) \in Answer /\ Content(History(c)) = c /\ History(c).kind = "history"
    BY <2>1 DEF History, Answer, Content
  <2>4. AnswerTrue(u, History(c)) /\ ~Acked(History(c))
    BY <2>1, <2>3 DEF AnswerTrue, Acked, OrderInv, TableNumbered
  <2>5. AnswersTrue'
    BY <2>1, <2>2, <2>3, <2>4, TellStep DEF OrderInv, client
  <2>6. RequestsNumbered'
    BY <2>2, PoppedRequest DEF OrderInv
  <2>7. BusyNumbered'
    <3>1. \A v \in Users \ {u} : down'[v] = down[v]
      BY <2>1 DEF TypeOK
    <3> QED
      BY <2>2, <3>1 DEF OrderInv, BusyNumbered, client, Stored
  <2> QED
    BY <2>2, <2>5, <2>6, <2>7, Untouched DEF OrderInv, client
<1>9. ASSUME NEW u \in Users, Deliver(u) PROVE OrderInv'
  <2> DEFINE m == Head(inbox[u])
  <2>1. m \in Message /\ m.id > 0 /\ m \in Stored /\ m.to = u /\ m.from # u
    BY <1>9, Taken, MessageFields DEF Deliver, TypeOK, OrderInv, NotesStored
  <2>2. /\ down' = [down EXCEPT ![u] = Append(@, Note(m))]
        /\ busy[u] = Idle /\ inbox[u] # <<>> /\ inbox' = [inbox EXCEPT ![u] = Tail(@)]
        /\ UNCHANGED <<client, up, busy, messages, sent, opens>>
    BY <1>9 DEF Deliver, Tell
  <2> HIDE DEF m
  <2>3. Note(m) \in Answer /\ Content(Note(m)) = <<m>> /\ Note(m).kind = "note" /\ Note(m).msg = m
    BY <2>1 DEF Note, Answer, Content
  <2>4. AnswerTrue(u, Note(m)) /\ ~Acked(Note(m))
    BY <2>1, <2>3 DEF AnswerTrue, Acked, Elements, InOrderOf
  <2>5. AnswersTrue'
    BY <2>2, <2>3, <2>4, TellStep DEF OrderInv, client
  <2>6. BusyNumbered'
    <3>1. \A v \in Users \ {u} : down'[v] = down[v]
      BY <2>2 DEF TypeOK
    <3> QED
      BY <2>2, <3>1 DEF OrderInv, BusyNumbered, client, Stored
  <2>7. NotesStored'
    <3>1. inbox'[u] = Tail(inbox[u]) /\ \A v \in Users \ {u} : inbox'[v] = inbox[v]
      BY <2>2 DEF TypeOK
    <3>2. \A i \in DOMAIN inbox'[u] : i + 1 \in DOMAIN inbox[u] /\ inbox'[u][i] = inbox[u][i + 1]
      BY <2>2, <3>1, Taken DEF TypeOK
    <3> QED
      BY <2>2, <3>1, <3>2 DEF OrderInv, NotesStored, Stored
  <2> QED
    BY <2>2, <2>5, <2>6, <2>7, Untouched DEF OrderInv, client
<1>10. ASSUME NEW u \in Users, Show(u) PROVE OrderInv'
  <2> DEFINE a == Head(down[u])
  <2>1. /\ a \in Answer /\ a = down[u][1] /\ 1 \in DOMAIN down[u]
        /\ \A k \in DOMAIN down'[u] : k + 1 \in DOMAIN down[u] /\ down'[u][k] = down[u][k + 1] /\ k \in Nat \ {0}
    BY <1>10, Taken DEF Show, TypeOK
  <2>2. /\ \A v \in Users \ {u} : down'[v] = down[v] /\ view'[v] = view[v]
        /\ UNCHANGED <<session, opened, up, busy, inbox, messages, sent, opens>>
    BY <1>10, Showing DEF Show, TypeOK
  <2>3. /\ view'[u] = IF a.kind = "history" THEN Content(a) ELSE Append(view[u], a.msg)
        /\ a.kind # "history" => a.msg \in Entry /\ Content(a) = <<a.msg>>
        /\ view[u] \in Seq(Entry)
    BY <1>10, Showing DEF Content, TypeOK
  <2>4. \A n : Before(view[u], u, n) /\ Before(Content(a), u, n) => Before(view'[u], u, n)
    BY <1>10, ShowBefore
  <2>5. AnswerTrue(u, a) /\ (Acked(a) => Before(view[u], u, a.msg.id))
    BY <2>1 DEF OrderInv, AnswersTrue
  <2> HIDE DEF a
  <2>6. BusyNumbered'
    <3>1. ASSUME busy[u] # Idle, busy[u].at \in {"notify", "ack"}
          PROVE  /\ Before(view'[u], u, busy[u].msg.id)
                 /\ \A k \in DOMAIN down'[u] : Before(Content(down'[u][k]), u, busy[u].msg.id)
      BY <2>1, <2>4, <3>1 DEF OrderInv, BusyNumbered
    <3> QED
      BY <2>2, <3>1 DEF OrderInv, BusyNumbered, Stored
  <2>7. AnswersTrue'
    <3>1. ASSUME NEW k \in DOMAIN down'[u]
          PROVE  /\ AnswerTrue(u, down'[u][k])
                 /\ Acked(down'[u][k]) =>
                      /\ Before(view'[u], u, down'[u][k].msg.id)
                      /\ \A j \in 1 .. k - 1 : Before(Content(down'[u][j]), u, down'[u][k].msg.id)
      <4>1. k + 1 \in DOMAIN down[u] /\ down'[u][k] = down[u][k + 1] /\ 1 \in 1 .. (k + 1) - 1
        BY <2>1
      <4>2. \A j \in 1 .. k - 1 : j + 1 \in 1 .. (k + 1) - 1 /\ down'[u][j] = down[u][j + 1]
        <5>1. \A j \in 1 .. k - 1 : j \in DOMAIN down'[u]
          BY <1>10, Taken, <2>1 DEF Show, TypeOK
        <5> QED
          BY <2>1, <5>1
      <4> QED
        BY <2>1, <2>4, <4>1, <4>2 DEF OrderInv, AnswersTrue
    <3>2. \A v, b : AnswerTrue(v, b)' <=> AnswerTrue(v, b)
      BY <2>2 DEF AnswerTrue, Stored
    <3> QED
      BY <2>2, <3>1, <3>2 DEF OrderInv, AnswersTrue
  <2>8. ShownIsStored'
    <3>1. ASSUME NEW i \in DOMAIN view'[u], view'[u][i].id > 0 PROVE view'[u][i] \in Stored
      <4>1. CASE a.kind = "history"
        BY <2>3, <2>5, <3>1, <4>1 DEF AnswerTrue, Elements
      <4>2. CASE a.kind # "history"
        <5>1. a.msg.id > 0 => a.msg \in Stored
          BY <2>3, <2>5, <4>2 DEF AnswerTrue, Elements
        <5>2. (i \in DOMAIN view[u] /\ view'[u][i] = view[u][i]) \/ view'[u][i] = a.msg
          BY <2>3, <3>1, <4>2, Appended
        <5> QED
          BY <3>1, <5>1, <5>2 DEF OrderInv, ShownIsStored, Shown, Elements
      <4> QED
        BY <4>1, <4>2
    <3> QED
      BY <2>2, <3>1 DEF OrderInv, ShownIsStored, Shown, Stored, Elements
  <2>9. OwnInOrder'
    <3>1. InOrderOf(view'[u], u)
      <4>1. CASE a.kind = "history"
        BY <2>3, <2>5, <4>1 DEF AnswerTrue
      <4>2. CASE a.kind # "history"
        <5>1. a.msg.from = u /\ a.msg.id > 0 => Before(view[u], u, a.msg.id)
          <6>1. a.kind \in {"ack", "note"}
            BY <2>1, <4>2, Kinds
          <6> QED
            BY <2>5, <6>1 DEF AnswerTrue, Acked
        <5>2. InOrderOf(view[u], u)
          BY DEF OrderInv, OwnInOrder, InOrderOf
        <5>3. /\ view'[u] = Append(view[u], a.msg)
              /\ DOMAIN view[u] = 1 .. Len(view[u]) /\ DOMAIN view'[u] = 1 .. Len(view[u]) + 1 /\ Len(view[u]) \in Nat
              /\ \A i \in 1 .. Len(view[u]) : view'[u][i] = view[u][i]
              /\ view'[u][Len(view[u]) + 1] = a.msg
          BY <2>3, <4>2, Appended
        <5> SUFFICES ASSUME NEW i \in DOMAIN view'[u], NEW j \in DOMAIN view'[u], i < j,
                            view'[u][i].from = u, view'[u][j].from = u, view'[u][i].id > 0, view'[u][j].id > 0
                     PROVE  view'[u][i].id < view'[u][j].id
          BY DEF InOrderOf
        <5>4. i \in DOMAIN view[u] /\ view'[u][i] = view[u][i]
          BY <5>3
        <5>5. CASE j \in 1 .. Len(view[u])
          BY <5>2, <5>3, <5>4, <5>5 DEF InOrderOf
        <5>6. CASE j = Len(view[u]) + 1
          BY <5>1, <5>3, <5>4, <5>6 DEF Before
        <5> QED
          BY <5>3, <5>5, <5>6
      <4> QED
        BY <4>1, <4>2
    <3> QED
      BY <2>2, <3>1 DEF OrderInv, OwnInOrder, InOrderOf
  <2> QED
    BY <2>2, <2>6, <2>7, <2>8, <2>9, Untouched DEF OrderInv
<1>11. ASSUME NEW u \in Users, Close(u) PROVE OrderInv'
  <2>1. view'[u] = <<>> /\ opened'[u] = Nobody /\ \A v \in Users \ {u} : view'[v] = view[v] /\ opened'[v] = opened[v]
    BY <1>11 DEF Close, TypeOK
  <2>2. UNCHANGED <<down, busy, inbox, messages, sent, opens>>
    BY <1>11 DEF Close
  <2>3. \A n : Before(view'[u], u, n)
    BY <2>1 DEF Before
  <2>4. RequestsNumbered'
    <3>1. PICK n \in 0 .. Len(up[u]) : up' = [up EXCEPT ![u] = SubSeq(@, 1, n)]
      BY <1>11 DEF Close
    <3>2. /\ \A i \in DOMAIN up'[u] : i \in DOMAIN up[u] /\ up'[u][i] = up[u][i]
          /\ \A i \in DOMAIN up'[u] : \A j \in 1 .. i - 1 : j \in DOMAIN up'[u]
      <4>1. up[u] \in Seq(Request) /\ up'[u] = SubSeq(up[u], 1, n)
        BY <3>1 DEF TypeOK
      <4> QED
        BY <4>1
    <3>3. \A v \in Users \ {u} : up'[v] = up[v]
      BY <3>1 DEF TypeOK
    <3> QED
      BY <2>2, <3>2, <3>3 DEF OrderInv, RequestsNumbered
  <2>5. BusyNumbered'
    BY <2>1, <2>2, <2>3 DEF OrderInv, BusyNumbered, Stored
  <2>6. AnswersTrue'
    <3>1. \A v, b : AnswerTrue(v, b)' <=> AnswerTrue(v, b)
      BY <2>2 DEF AnswerTrue, Stored
    <3> QED
      BY <2>1, <2>2, <2>3, <3>1 DEF OrderInv, AnswersTrue
  <2>7. OthersOpened'
    BY <2>1, NobodyIsNoUser DEF OrderInv, OthersOpened
  <2>8. ShownIsStored' /\ OwnInOrder'
    BY <2>1, <2>2 DEF OrderInv, ShownIsStored, OwnInOrder, Shown, Stored, Elements
  <2> QED
    BY <2>2, <2>4, <2>5, <2>6, <2>7, <2>8, Untouched DEF OrderInv
<1>12. ASSUME NEW u \in Users, Lose(u) PROVE OrderInv'
  <2>1. /\ up[u] # <<>> /\ up' = [up EXCEPT ![u] = Tail(@)]
        /\ UNCHANGED <<client, down, busy, inbox, messages, sent, opens>>
    BY <1>12 DEF Lose
  <2>2. RequestsNumbered'
    BY <2>1, PoppedRequest DEF OrderInv
  <2> QED
    BY <2>1, <2>2, Untouched DEF OrderInv, client
<1> QED
  BY <1>1, <1>2, <1>3, <1>4, <1>5, <1>6, <1>7, <1>8, <1>9, <1>10, <1>11, <1>12 DEF Next, Server

LEMMA OrderInvHolds == Spec => []OrderInv
<1>1. Init => OrderInv
  BY NobodyIsNoUser DEF Init, OrderInv, RequestsNumbered, TableNumbered, BusyNumbered, NotesStored,
     AnswersTrue, OthersOpened, ShownIsStored, OwnInOrder, InOrderOf, Shown, Elements
<1> QED
  BY <1>1, TypeCorrect, OrderStep, PTL DEF Spec

\* What a screen shows as a message is in the table, for any numbers of users,
\* messages and conversations: ShownIsStored of the runs.
THEOREM ShownCorrect == Spec => []ShownIsStored
<1>1. OrderInv => ShownIsStored
  BY DEF OrderInv
<1> QED
  BY <1>1, OrderInvHolds, PTL

\* A user's own messages stand on her screen in the order she sent them, each
\* once, however acknowledgements and fetches are interleaved.
THEOREM OwnCorrect == Spec => []OwnInOrder
<1>1. OrderInv => OwnInOrder
  BY DEF OrderInv
<1> QED
  BY <1>1, OrderInvHolds, PTL

-----------------------------------------------------------------------------
\* The notifications of a message that have not been shown.
Noted(u, m) == \E k \in DOMAIN down[u] : down[u][k].kind = "note" /\ down[u][k].msg = m
NoteWaits(u, m) ==
  \/ \E v \in Users : busy[v].at = "notify" /\ busy[v].msg = m /\ m.to = u
  \/ m \in Elements(inbox[u])
  \/ Noted(u, m)
Twice(u, m) == \E i, j \in DOMAIN view[u] : i < j /\ view[u][i] = m /\ view[u][j] = m

InboxOnce(u) == \A i, j \in DOMAIN inbox[u] : i # j => inbox[u][i] # inbox[u][j]
AnswersOnce(u) ==
  \A k, l \in DOMAIN down[u] :
    k # l /\ down[u][k].kind = "note" /\ down[u][l].kind = "note" => down[u][k].msg # down[u][l].msg
\* A notification is in one place only.
NotedOnce ==
  \A u \in Users :
    /\ InboxOnce(u) /\ AnswersOnce(u)
    /\ \A m \in Message : Noted(u, m) => m \notin Elements(inbox[u])
    /\ \A v \in Users, m \in Message :
         busy[v].at = "notify" /\ busy[v].msg = m => m \notin Elements(inbox[u]) /\ ~Noted(u, m)

NotesInv ==
  /\ NotedOnce
  /\ \A u \in Users, m \in Message : NoteWaits(u, m) => ~Twice(u, m)
  /\ AtMostTwice

\* A message that is not stored is nowhere on its way to a receiver.
LEMMA NotNoted ==
  ASSUME TypeOK, OrderInv, NEW m \in Message, m \notin Stored, NEW u \in Users
  PROVE  m \notin Elements(inbox[u]) /\ ~Noted(u, m) /\ ~Twice(u, m)
<1>1. m \notin Elements(inbox[u])
  BY DEF OrderInv, NotesStored, Elements
<1>2. ~Noted(u, m)
  <2> SUFFICES ASSUME NEW k \in DOMAIN down[u], down[u][k].kind = "note", down[u][k].msg = m PROVE FALSE
    BY DEF Noted
  <2>1. m \in Elements(Content(down[u][k]))
    BY DEF Content, Elements
  <2> QED
    BY <2>1, MessageFields DEF OrderInv, AnswersTrue, AnswerTrue
<1>3. ~Twice(u, m)
  BY MessageFields DEF OrderInv, ShownIsStored, Shown, Twice, Elements
<1> QED
  BY <1>1, <1>2, <1>3

\* Only what others sent is notified.
LEMMA NotedFrom ==
  ASSUME TypeOK, OrderInv, NEW u \in Users, NEW m, NoteWaits(u, m)
  PROVE  m.from # u
<1>1. ASSUME NEW v \in Users, busy[v].at = "notify", busy[v].msg = m, m.to = u PROVE m.from # u
  BY <1>1, Kinds DEF OrderInv, BusyNumbered
<1>2. ASSUME m \in Elements(inbox[u]) PROVE m.from # u
  BY <1>2 DEF OrderInv, NotesStored, Elements
<1>3. ASSUME Noted(u, m) PROVE m.from # u
  BY <1>3 DEF OrderInv, AnswersTrue, AnswerTrue, Noted
<1> QED
  BY <1>1, <1>2, <1>3 DEF NoteWaits

LEMMA NotesUntouched ==
  ASSUME TypeOK, NotesInv, UNCHANGED <<busy, inbox, down, view>>
  PROVE  NotesInv'
<1>1. NotedOnce'
  BY DEF NotesInv, NotedOnce, InboxOnce, AnswersOnce, Noted, Elements
<1>2. \A u \in Users, m \in Message : (NoteWaits(u, m) => ~Twice(u, m))'
  BY DEF NotesInv, NoteWaits, Noted, Twice, Elements
<1>3. AtMostTwice'
  BY DEF NotesInv, AtMostTwice
<1> QED
  BY <1>1, <1>2, <1>3 DEF NotesInv

\* u's next answer.
LEMMA TellNotes ==
  ASSUME TypeOK, NEW u \in Users, NEW a \in Answer, down' = [down EXCEPT ![u] = Append(@, a)]
  PROVE  /\ \A v \in Users \ {u} : down'[v] = down[v]
         /\ \A v \in Users \ {u} : \A m : Noted(v, m)' <=> Noted(v, m)
         /\ \A m : Noted(u, m)' <=> Noted(u, m) \/ (a.kind = "note" /\ a.msg = m)
         /\ \A v \in Users \ {u} : AnswersOnce(v)' <=> AnswersOnce(v)
         /\ AnswersOnce(u) /\ (a.kind = "note" => ~Noted(u, a.msg)) => AnswersOnce(u)'
<1>1. /\ DOMAIN down[u] = 1 .. Len(down[u]) /\ DOMAIN down'[u] = 1 .. Len(down[u]) + 1 /\ Len(down[u]) \in Nat
      /\ \A i \in 1 .. Len(down[u]) : down'[u][i] = down[u][i]
      /\ down'[u][Len(down[u]) + 1] = a
  BY Appended DEF TypeOK
<1>2. \A v \in Users \ {u} : down'[v] = down[v]
  BY DEF TypeOK
<1>3. \A v \in Users \ {u} : \A m : Noted(v, m)' <=> Noted(v, m)
  BY <1>2 DEF Noted
<1>4. \A m : Noted(u, m)' <=> Noted(u, m) \/ (a.kind = "note" /\ a.msg = m)
  <2> SUFFICES ASSUME NEW m PROVE Noted(u, m)' <=> Noted(u, m) \/ (a.kind = "note" /\ a.msg = m)
    OBVIOUS
  <2>1. ASSUME NEW k \in DOMAIN down[u], down[u][k].kind = "note", down[u][k].msg = m PROVE Noted(u, m)'
    <3>1. k \in DOMAIN down'[u] /\ down'[u][k] = down[u][k]
      BY <1>1
    <3> QED
      BY <2>1, <3>1 DEF Noted
  <2>2. ASSUME a.kind = "note", a.msg = m PROVE Noted(u, m)'
    <3>1. Len(down[u]) + 1 \in DOMAIN down'[u]
      BY <1>1
    <3> QED
      BY <1>1, <2>2, <3>1 DEF Noted
  <2>3. ASSUME NEW k \in DOMAIN down'[u], down'[u][k].kind = "note", down'[u][k].msg = m
        PROVE  Noted(u, m) \/ (a.kind = "note" /\ a.msg = m)
    <3>1. k \in 1 .. Len(down[u]) \/ k = Len(down[u]) + 1
      BY <1>1
    <3> QED
      BY <1>1, <2>3, <3>1 DEF Noted
  <2> QED
    BY <2>1, <2>2, <2>3 DEF Noted
<1>5. ASSUME AnswersOnce(u), a.kind = "note" => ~Noted(u, a.msg),
             NEW k \in DOMAIN down'[u], NEW l \in DOMAIN down'[u], k # l,
             down'[u][k].kind = "note", down'[u][l].kind = "note", down'[u][k].msg = down'[u][l].msg
      PROVE  FALSE
  <2>1. (k \in 1 .. Len(down[u]) \/ k = Len(down[u]) + 1) /\ (l \in 1 .. Len(down[u]) \/ l = Len(down[u]) + 1)
    BY <1>1
  <2>2. ~(k \in 1 .. Len(down[u]) /\ l \in 1 .. Len(down[u]))
    BY <1>1, <1>5 DEF AnswersOnce
  <2> QED
    BY <1>1, <1>5, <2>1, <2>2 DEF Noted
<1>6. \A v \in Users \ {u} : AnswersOnce(v)' <=> AnswersOnce(v)
  BY <1>2 DEF AnswersOnce
<1>7. AnswersOnce(u) /\ (a.kind = "note" => ~Noted(u, a.msg)) => AnswersOnce(u)'
  BY <1>5 DEF AnswersOnce
<1> QED
  BY <1>2, <1>3, <1>4, <1>6, <1>7

LEMMA NotesStep == TypeOK /\ OrderInv /\ OrderInv' /\ NotesInv /\ [Next]_vars => NotesInv'
<1> SUFFICES ASSUME TypeOK, OrderInv, OrderInv', NotesInv, [Next]_vars PROVE NotesInv'
  OBVIOUS
<1>1. CASE UNCHANGED vars
  BY <1>1, NotesUntouched DEF vars
<1>2. ASSUME NEW u \in Users, Login(u) \/ Press(u) \/ \E p \in Users : Open(u, p) PROVE NotesInv'
  BY <1>2, NotesUntouched DEF Login, Press, Open
<1>3. ASSUME NEW u \in Users, Store(u) PROVE NotesInv'
  <2> DEFINE m == Head(up[u]).msg
  <2>1. /\ up[u] # <<>> /\ Head(up[u]) \in Request /\ Head(up[u]).kind = "send" /\ Head(up[u]) = up[u][1]
        /\ 1 \in DOMAIN up[u]
    BY <1>3, Taken DEF Store, Takes, TypeOK
  <2>2. m \in Message /\ m.id \in Nat /\ m.id > 0
    BY <2>1, Kinds, MessageFields
  <2>3. m \notin Stored
    BY <2>1, <2>2 DEF OrderInv, RequestsNumbered, Before, Stored, Elements
  <2>4. /\ busy' \in {[busy EXCEPT ![u] = [at |-> "notify", msg |-> m]],
                      [busy EXCEPT ![u] = [at |-> "failed", msg |-> m]]}
        /\ UNCHANGED <<inbox, down, view>>
    BY <1>3 DEF Store, client
  <2> HIDE DEF m
  <2>5. /\ \A v \in Users \ {u} : busy'[v] = busy[v]
        /\ busy'[u].at = "notify" => busy'[u].msg = m
    BY <2>4 DEF TypeOK
  <2>6. \A v \in Users : m \notin Elements(inbox[v]) /\ ~Noted(v, m) /\ ~Twice(v, m)
    BY <2>2, <2>3, NotNoted
  <2>7. \A v \in Users : \A x : /\ Noted(v, x)' <=> Noted(v, x)
                                /\ Twice(v, x)' <=> Twice(v, x)
                                /\ Elements(inbox'[v]) = Elements(inbox[v])
    BY <2>4 DEF Noted, Twice
  <2>8. NotedOnce'
    BY <2>4, <2>5, <2>6, <2>7 DEF NotesInv, NotedOnce, InboxOnce, AnswersOnce
  <2>9. ASSUME NEW v \in Users, NEW x \in Message, NoteWaits(v, x)' PROVE ~Twice(v, x)'
    <3>1. x = m \/ NoteWaits(v, x)
      BY <2>5, <2>7, <2>9 DEF NoteWaits
    <3> QED
      BY <2>6, <2>7, <3>1 DEF NotesInv
  <2>10. AtMostTwice'
    BY <2>4 DEF NotesInv, AtMostTwice
  <2> QED
    BY <2>8, <2>9, <2>10 DEF NotesInv
<1>4. ASSUME NEW u \in Users, Notify(u) PROVE NotesInv'
  <2> DEFINE m == busy[u].msg
  <2>1. m \in Message /\ busy[u] # Idle /\ busy[u].at = "notify"
    BY <1>4, Kinds DEF Notify, TypeOK
  <2>2. m.from = u /\ m.to \in Users
    BY <2>1, MessageFields DEF OrderInv, BusyNumbered
  <2>3. /\ inbox' = IF session[m.to] = "on" THEN [inbox EXCEPT ![m.to] = Append(@, m)] ELSE inbox
        /\ busy' = [busy EXCEPT ![u] = [at |-> "ack", msg |-> m]]
        /\ UNCHANGED <<view, down>>
    BY <1>4 DEF Notify, client
  <2>4. /\ \A v \in Users : m \notin Elements(inbox[v]) /\ ~Noted(v, m)
        /\ \A v \in Users : busy[v].at = "notify" => busy[v].msg.from = v
    BY <2>1, Kinds DEF NotesInv, NotedOnce, OrderInv, BusyNumbered
  <2> HIDE DEF m
  <2>5. busy'[u].at # "notify" /\ \A v \in Users \ {u} : busy'[v] = busy[v]
    BY <2>3 DEF TypeOK
  <2>6. ASSUME NEW v \in Users
        PROVE  \/ inbox'[v] = inbox[v]
               \/ /\ v = m.to
                  /\ inbox'[v] = Append(inbox[v], m)
                  /\ Elements(inbox'[v]) = Elements(inbox[v]) \cup {m}
                  /\ InboxOnce(v)'
    <3>1. CASE inbox'[v] = inbox[v]
      BY <3>1
    <3>2. CASE v = m.to /\ inbox'[v] = Append(inbox[v], m)
      <4>1. /\ DOMAIN inbox[v] = 1 .. Len(inbox[v]) /\ DOMAIN inbox'[v] = 1 .. Len(inbox[v]) + 1 /\ Len(inbox[v]) \in Nat
            /\ \A i \in 1 .. Len(inbox[v]) : inbox'[v][i] = inbox[v][i]
            /\ inbox'[v][Len(inbox[v]) + 1] = m
        <5>1. inbox[v] \in Seq(Message) /\ m \in Message
          BY <2>1 DEF TypeOK, m
        <5> QED
          BY <3>2, <5>1, Appended
      <4>2. Elements(inbox'[v]) = Elements(inbox[v]) \cup {m}
        BY <4>1 DEF Elements
      <4>3. InboxOnce(v)'
        BY <2>4, <4>1 DEF NotesInv, NotedOnce, Elements, InboxOnce
      <4> QED
        BY <3>2, <4>2, <4>3
    <3> QED
      BY <2>2, <2>3, <3>1, <3>2 DEF TypeOK
  <2>7. \A v \in Users : \A x : /\ Noted(v, x)' <=> Noted(v, x)
                                /\ Twice(v, x)' <=> Twice(v, x)
    BY <2>3 DEF Noted, Twice
  <2>8. NotedOnce'
    <3>1. ASSUME NEW v \in Users
          PROVE  /\ InboxOnce(v)'
                 /\ \A x \in Message : Noted(v, x) => x \notin Elements(inbox'[v])
                 /\ \A w \in Users, x \in Message :
                      busy'[w].at = "notify" /\ busy'[w].msg = x => x \notin Elements(inbox'[v])
      <4>1. CASE inbox'[v] = inbox[v]
        BY <2>5, <4>1 DEF NotesInv, NotedOnce, InboxOnce
      <4>2. CASE Elements(inbox'[v]) = Elements(inbox[v]) \cup {m} /\ InboxOnce(v)'
        BY <2>2, <2>4, <2>5, <4>2 DEF NotesInv, NotedOnce
      <4> QED
        BY <2>6, <4>1, <4>2
    <3>2. \A v, w \in Users, x \in Message : busy'[w].at = "notify" /\ busy'[w].msg = x => ~Noted(v, x)
      BY <2>5 DEF NotesInv, NotedOnce
    <3>3. \A v \in Users : AnswersOnce(v)'
      BY <2>3 DEF NotesInv, NotedOnce, AnswersOnce
    <3> QED
      BY <2>7, <3>1, <3>2, <3>3 DEF NotedOnce
  <2>9. ASSUME NEW v \in Users, NEW x \in Message, NoteWaits(v, x)' PROVE ~Twice(v, x)'
    <3>1. NoteWaits(v, x)
      BY <2>1, <2>5, <2>6, <2>7, <2>9 DEF NoteWaits, m
    <3> QED
      BY <2>7, <3>1 DEF NotesInv
  <2>10. AtMostTwice'
    BY <2>3 DEF NotesInv, AtMostTwice
  <2> QED
    BY <2>8, <2>9, <2>10 DEF NotesInv
<1>5. ASSUME NEW u \in Users, NEW a \in Answer, a.kind # "note", down' = [down EXCEPT ![u] = Append(@, a)],
             UNCHANGED <<inbox, view>>, busy' = busy \/ busy' = [busy EXCEPT ![u] = Idle]
      PROVE  NotesInv'
  <2>1. \A v \in Users : busy'[v].at = "notify" => busy'[v] = busy[v]
    BY <1>5, Kinds DEF TypeOK
  <2>2. \A v \in Users : \A x : /\ Noted(v, x)' <=> Noted(v, x)
                                /\ Twice(v, x)' <=> Twice(v, x)
    <3>1. \A v \in Users \ {u} : \A x : Noted(v, x)' <=> Noted(v, x)
      BY <1>5, TellNotes
    <3>2. \A x : Noted(u, x)' <=> Noted(u, x)
      BY <1>5, TellNotes
    <3>3. \A v \in Users : \A x : Twice(v, x)' <=> Twice(v, x)
      BY <1>5 DEF Twice
    <3> QED
      BY <3>1, <3>2, <3>3
  <2>3. \A v \in Users : AnswersOnce(v)'
    <3>1. AnswersOnce(u)'
      BY <1>5, TellNotes DEF NotesInv, NotedOnce
    <3>2. \A v \in Users \ {u} : AnswersOnce(v)'
      BY <1>5, TellNotes DEF NotesInv, NotedOnce
    <3> QED
      BY <3>1, <3>2
  <2>4. NotedOnce'
    BY <1>5, <2>1, <2>2, <2>3 DEF NotesInv, NotedOnce, Elements, InboxOnce
  <2>5. ASSUME NEW v \in Users, NEW x \in Message, NoteWaits(v, x)' PROVE ~Twice(v, x)'
    <3>1. NoteWaits(v, x)
      BY <1>5, <2>1, <2>2, <2>5 DEF NoteWaits, Elements
    <3> QED
      BY <2>2, <3>1 DEF NotesInv
  <2>6. AtMostTwice'
    BY <1>5 DEF NotesInv, AtMostTwice
  <2> QED
    BY <2>4, <2>5, <2>6 DEF NotesInv
<1>6. ASSUME NEW u \in Users, Acknowledge(u) PROVE NotesInv'
  <2> DEFINE e == IF busy[u].at = "ack" THEN busy[u].msg ELSE FailedText(busy[u].msg)
  <2>1. busy[u].msg \in Message
    BY <1>6, Kinds DEF Acknowledge, TypeOK
  <2>2. e \in Entry
    BY <2>1, Kinds, MessageFields
  <2>3. down' = [down EXCEPT ![u] = Append(@, Ack(e))]
    BY <1>6 DEF Acknowledge, Tell
  <2> HIDE DEF e
  <2>4. Ack(e) \in Answer /\ Ack(e).kind # "note"
    BY <2>2 DEF Ack, Answer
  <2>5. UNCHANGED <<inbox, view>> /\ busy' = [busy EXCEPT ![u] = Idle]
    BY <1>6 DEF Acknowledge, client
  <2> QED
    BY <1>5, <2>3, <2>4, <2>5
<1>7. ASSUME NEW u \in Users, ServeFetch(u) PROVE NotesInv'
  <2>1. PICK c \in Seq(Message) : down' = [down EXCEPT ![u] = Append(@, History(c))]
    BY <1>7, Fetched
  <2>2. UNCHANGED <<inbox, view, busy>>
    BY <1>7 DEF ServeFetch, client
  <2>3. History(c) \in Answer /\ History(c).kind # "note"
    BY <2>1 DEF History, Answer
  <2> QED
    BY <1>5, <2>1, <2>2, <2>3
<1>8. ASSUME NEW u \in Users, Deliver(u) PROVE NotesInv'
  <2> DEFINE m == Head(inbox[u])
  <2>1. /\ inbox[u] # <<>> /\ m \in Message
        /\ inbox' = [inbox EXCEPT ![u] = Tail(@)] /\ down' = [down EXCEPT ![u] = Append(@, Note(m))]
        /\ UNCHANGED <<view, busy>>
    BY <1>8, Taken DEF Deliver, Tell, TypeOK, client
  <2>2. /\ \A v \in Users \ {u} : inbox'[v] = inbox[v]
        /\ Elements(inbox[u]) = Elements(inbox'[u]) \cup {m} /\ m \notin Elements(inbox'[u])
        /\ InboxOnce(u)' /\ \A v \in Users \ {u} : InboxOnce(v)'
    <3>1. inbox'[u] = Tail(inbox[u]) /\ \A v \in Users \ {u} : inbox'[v] = inbox[v]
      BY <2>1 DEF TypeOK
    <3>2. /\ Len(inbox[u]) \in Nat \ {0} /\ DOMAIN inbox[u] = 1 .. Len(inbox[u])
          /\ DOMAIN inbox'[u] = 1 .. Len(inbox[u]) - 1 /\ m = inbox[u][1]
          /\ \A i \in 1 .. Len(inbox[u]) - 1 : inbox'[u][i] = inbox[u][i + 1]
      BY <2>1, <3>1, Taken DEF TypeOK
    <3>3. \A i, j \in DOMAIN inbox[u] : i # j => inbox[u][i] # inbox[u][j]
      BY DEF NotesInv, NotedOnce, InboxOnce
    <3>10. /\ 1 \in DOMAIN inbox[u]
           /\ \A i \in DOMAIN inbox'[u] : i + 1 \in DOMAIN inbox[u] /\ i + 1 # 1 /\ inbox'[u][i] = inbox[u][i + 1]
           /\ \A i, j \in DOMAIN inbox'[u] : i # j => i + 1 # j + 1
      BY <3>2
    <3> HIDE DEF m
    <3>4. \A i \in DOMAIN inbox'[u] : inbox'[u][i] \in Elements(inbox[u]) /\ inbox'[u][i] # m
      BY <3>2, <3>3, <3>10 DEF Elements
    <3>5. ASSUME NEW i \in DOMAIN inbox[u] PROVE inbox[u][i] = m \/ inbox[u][i] \in Elements(inbox'[u])
      <4>1. CASE i = 1
        BY <3>2, <4>1
      <4>2. CASE i # 1
        <5>1. i - 1 \in DOMAIN inbox'[u] /\ inbox'[u][i - 1] = inbox[u][i]
          BY <3>2, <4>2
        <5> QED
          BY <5>1 DEF Elements
      <4> QED
        BY <4>1, <4>2
    <3>6. m \in Elements(inbox[u])
      BY <3>2 DEF Elements
    <3>7. InboxOnce(u)'
      BY <3>3, <3>10 DEF InboxOnce
    <3>11. \A v \in Users \ {u} : InboxOnce(v)'
      BY <3>1 DEF NotesInv, NotedOnce, InboxOnce
    <3>8. \A x \in Elements(inbox'[u]) : x \in Elements(inbox[u]) /\ x # m
      BY <3>4 DEF Elements
    <3>9. \A x \in Elements(inbox[u]) : x = m \/ x \in Elements(inbox'[u])
      BY <3>5 DEF Elements
    <3> QED
      BY <3>1, <3>6, <3>7, <3>8, <3>9, <3>11
  <2> HIDE DEF m
  <2>3. Note(m) \in Answer /\ Note(m).kind = "note" /\ Note(m).msg = m
    BY <2>1 DEF Note, Answer
  <2>4. ~Noted(u, m)
    BY <2>1, <2>2 DEF NotesInv, NotedOnce
  <2>5. /\ \A v \in Users \ {u} : down'[v] = down[v]
        /\ \A v \in Users \ {u} : \A x : Noted(v, x)' <=> Noted(v, x)
        /\ \A x : Noted(u, x)' <=> Noted(u, x) \/ m = x
        /\ AnswersOnce(u)' /\ \A v \in Users \ {u} : AnswersOnce(v)'
    <3>1. AnswersOnce(u)'
      <4>1. AnswersOnce(u) /\ ~Noted(u, Note(m).msg)
        BY <2>3, <2>4 DEF NotesInv, NotedOnce
      <4> QED
        BY <2>1, <2>3, <4>1, TellNotes
    <3>2. \A v \in Users \ {u} : AnswersOnce(v)'
      BY <2>1, <2>3, TellNotes DEF NotesInv, NotedOnce
    <3>3. \A v \in Users \ {u} : down'[v] = down[v]
      BY <2>1, <2>3, TellNotes
    <3>4. \A v \in Users \ {u} : \A x : Noted(v, x)' <=> Noted(v, x)
      BY <2>1, <2>3, TellNotes
    <3>5. \A x : Noted(u, x)' <=> Noted(u, x) \/ m = x
      BY <2>1, <2>3, TellNotes
    <3> QED
      BY <3>1, <3>2, <3>3, <3>4, <3>5
  <2>6. NotedOnce'
    <3>1. \A v \in Users, x \in Message : Noted(v, x)' => x \notin Elements(inbox'[v])
      BY <2>2, <2>5 DEF NotesInv, NotedOnce
    <3>2. \A v, w \in Users, x \in Message :
            busy'[w].at = "notify" /\ busy'[w].msg = x => x \notin Elements(inbox'[v]) /\ ~Noted(v, x)'
      BY <2>1, <2>2, <2>5 DEF NotesInv, NotedOnce
    <3> QED
      BY <2>2, <2>5, <3>1, <3>2 DEF NotedOnce
  <2>7. \A v \in Users : \A x : Twice(v, x)' <=> Twice(v, x)
    BY <2>1 DEF Twice
  <2>8. ASSUME NEW v \in Users, NEW x \in Message, NoteWaits(v, x)' PROVE ~Twice(v, x)'
    <3>1. NoteWaits(v, x)
      BY <2>1, <2>2, <2>5, <2>8 DEF NoteWaits
    <3> QED
      BY <2>7, <3>1 DEF NotesInv
  <2>9. AtMostTwice'
    BY <2>1 DEF NotesInv, AtMostTwice
  <2> QED
    BY <2>6, <2>8, <2>9 DEF NotesInv
<1>9. ASSUME NEW u \in Users, Show(u) PROVE NotesInv'
  <2> DEFINE a == Head(down[u])
  <2>1. /\ down[u] # <<>> /\ a \in Answer /\ a = down[u][1] /\ 1 \in DOMAIN down[u]
        /\ \A k \in DOMAIN down'[u] : k + 1 \in DOMAIN down[u] /\ down'[u][k] = down[u][k + 1] /\ k \in Nat \ {0}
    BY <1>9, Taken DEF Show, TypeOK
  <2>2. /\ \A v \in Users \ {u} : down'[v] = down[v] /\ view'[v] = view[v]
        /\ UNCHANGED <<busy, inbox>>
    BY <1>9, Showing DEF Show, TypeOK
  <2>3. /\ view'[u] = IF a.kind = "history" THEN Content(a) ELSE Append(view[u], a.msg)
        /\ a.kind # "history" => a.msg \in Entry
        /\ view[u] \in Seq(Entry) /\ view'[u] \in Seq(Entry)
    BY <1>9, Showing DEF TypeOK
  <2>4. AnswerTrue(u, a)
    BY <2>1 DEF OrderInv, AnswersTrue
  <2> HIDE DEF a
  <2>5. \A x : Noted(u, x)' => Noted(u, x) /\ (a.kind = "note" => a.msg # x)
    <3> SUFFICES ASSUME NEW k \in DOMAIN down'[u], down'[u][k].kind = "note"
                 PROVE  Noted(u, down'[u][k].msg) /\ (a.kind = "note" => a.msg # down'[u][k].msg)
      BY DEF Noted
    <3>1. k + 1 \in DOMAIN down[u] /\ down'[u][k] = down[u][k + 1] /\ k + 1 # 1
      BY <2>1
    <3>2. a.kind = "note" => a.msg # down[u][k + 1].msg
      BY <2>1, <3>1 DEF NotesInv, NotedOnce, AnswersOnce
    <3> QED
      BY <3>1, <3>2 DEF Noted
  <2>6. \A v \in Users \ {u} : \A x : (Noted(v, x)' <=> Noted(v, x)) /\ (Twice(v, x)' <=> Twice(v, x))
    BY <2>2 DEF Noted, Twice
  <2>7. NotedOnce'
    <3>1. AnswersOnce(u)'
      <4>1. \A k, l \in DOMAIN down'[u] : k # l => k + 1 # l + 1
        BY <2>1
      <4> QED
        BY <2>1, <4>1 DEF NotesInv, NotedOnce, AnswersOnce
    <3>2. \A v \in Users \ {u} : AnswersOnce(v)'
      BY <2>2 DEF NotesInv, NotedOnce, AnswersOnce
    <3>3. \A v \in Users : InboxOnce(v)'
      BY <2>2 DEF NotesInv, NotedOnce, InboxOnce
    <3> QED
      BY <2>2, <2>5, <2>6, <3>1, <3>2, <3>3 DEF NotesInv, NotedOnce
  <2>8. \A v \in Users, x \in Message : NoteWaits(v, x)' => NoteWaits(v, x)
    BY <2>2, <2>5, <2>6 DEF NoteWaits
  <2>9. CASE a.kind = "history"
    <3>1. \A v \in Users : InOrderOf(view'[u], v)
      BY <2>3, <2>4, <2>9 DEF AnswerTrue
    <3>2. ASSUME NEW i \in DOMAIN view'[u], NEW j \in DOMAIN view'[u], i < j, view'[u][i].id > 0
          PROVE  view'[u][i] # view'[u][j]
      <4>1. view'[u][i] \in Entry
        BY <2>3
      <4>2. view'[u][i].from \in Users /\ view'[u][i].id \in Nat
        BY <4>1, MessageFields
      <4> QED
        BY <3>1, <3>2, <4>2 DEF InOrderOf
    <3>3. \A x \in Message : ~Twice(u, x)'
      BY <3>2, MessageFields DEF Twice
    <3>4. \A v \in Users, x \in Message : NoteWaits(v, x)' => ~Twice(v, x)'
      BY <2>6, <2>8, <3>3 DEF NotesInv
    <3>5. AtMostTwice'
      BY <2>2, <3>2 DEF NotesInv, AtMostTwice
    <3> QED
      BY <2>7, <3>4, <3>5 DEF NotesInv
  <2>10. CASE a.kind # "history"
    <3>1. /\ DOMAIN view[u] = 1 .. Len(view[u]) /\ DOMAIN view'[u] = 1 .. Len(view[u]) + 1 /\ Len(view[u]) \in Nat
          /\ \A i \in 1 .. Len(view[u]) : view'[u][i] = view[u][i]
          /\ view'[u][Len(view[u]) + 1] = a.msg
      BY <2>3, <2>10, Appended
    <3>2. a.kind = "note" => ~Twice(u, a.msg)
      <4>1. a.kind = "note" => NoteWaits(u, a.msg) /\ a.msg \in Message
        BY <2>1, Kinds DEF NoteWaits, Noted
      <4> QED
        BY <4>1 DEF NotesInv
    <3>3. a.kind = "note" \/ (a.kind = "ack" /\ a.msg.from = u)
      BY <2>1, <2>4, <2>10, Kinds DEF AnswerTrue
    <3>4. \A x : Twice(u, x)' /\ x # a.msg => Twice(u, x)
      <4> SUFFICES ASSUME NEW i \in DOMAIN view'[u], NEW j \in DOMAIN view'[u], i < j,
                          view'[u][i] = view'[u][j], view'[u][i] # a.msg
                   PROVE  Twice(u, view'[u][i])
        BY DEF Twice
      <4>1. i \in 1 .. Len(view[u]) /\ j \in 1 .. Len(view[u])
        BY <3>1
      <4> QED
        BY <3>1, <4>1 DEF Twice
    <3>5. ASSUME NEW v \in Users, NEW x \in Message, NoteWaits(v, x)' PROVE ~Twice(v, x)'
      <4>1. NoteWaits(v, x)
        BY <2>8, <3>5
      <4>2. CASE v # u
        BY <2>6, <4>1, <4>2 DEF NotesInv
      <4>3. CASE v = u /\ x # a.msg
        BY <3>4, <4>1, <4>3 DEF NotesInv
      <4>4. CASE v = u /\ x = a.msg
        <5>1. x.from # u
          BY <4>1, <4>4, NotedFrom
        <5>2. a.kind = "note"
          BY <3>3, <4>4, <5>1
        <5>3. Noted(u, x) /\ ~Noted(u, x)'
          BY <2>1, <2>5, <4>4, <5>2 DEF Noted
        <5>4. \/ \E w \in Users : busy[w].at = "notify" /\ busy[w].msg = x
              \/ x \in Elements(inbox[u])
          BY <2>2, <3>5, <4>4, <5>3 DEF NoteWaits
        <5> QED
          BY <5>3, <5>4 DEF NotesInv, NotedOnce
      <4> QED
        BY <4>2, <4>3, <4>4
    <3>6. AtMostTwice'
      <4> SUFFICES ASSUME NEW i \in DOMAIN view'[u], NEW j \in DOMAIN view'[u], NEW k \in DOMAIN view'[u],
                          i < j, j < k, view'[u][i].id > 0, view'[u][i] = view'[u][j], view'[u][j] = view'[u][k]
                   PROVE  FALSE
        BY <2>2 DEF NotesInv, AtMostTwice
      <4>1. i \in 1 .. Len(view[u]) /\ j \in 1 .. Len(view[u])
        BY <3>1
      <4>2. CASE k \in 1 .. Len(view[u])
        BY <3>1, <4>1, <4>2 DEF NotesInv, AtMostTwice
      <4>3. CASE k = Len(view[u]) + 1
        <5>1. Twice(u, a.msg)
          BY <3>1, <4>1, <4>3 DEF Twice
        <5>2. a.msg.from = u
          BY <3>2, <3>3, <5>1
        <5>3. view'[u][j].id \in Nat
          <6>1. view'[u][j] \in Entry
            BY <2>3
          <6> QED
            BY <6>1, MessageFields
        <5> QED
          BY <3>1, <4>3, <5>2, <5>3 DEF OrderInv, OwnInOrder
      <4> QED
        BY <3>1, <4>2, <4>3
    <3> QED
      BY <2>7, <3>5, <3>6 DEF NotesInv
  <2> QED
    BY <2>9, <2>10
<1>10. ASSUME NEW u \in Users, Close(u) PROVE NotesInv'
  <2>1. view'[u] = <<>> /\ \A v \in Users \ {u} : view'[v] = view[v]
    BY <1>10 DEF Close, TypeOK
  <2>2. UNCHANGED <<down, busy, inbox>>
    BY <1>10 DEF Close
  <2>3. NotedOnce'
    BY <2>2 DEF NotesInv, NotedOnce, InboxOnce, AnswersOnce, Noted, Elements
  <2>4. \A v \in Users : \A x : Twice(v, x)' => Twice(v, x)
    BY <2>1 DEF Twice
  <2>5. \A v \in Users, x \in Message : NoteWaits(v, x)' => NoteWaits(v, x)
    BY <2>2 DEF NoteWaits, Noted, Elements
  <2>6. AtMostTwice'
    BY <2>1 DEF NotesInv, AtMostTwice
  <2> QED
    BY <2>3, <2>4, <2>5, <2>6 DEF NotesInv
<1>11. ASSUME NEW u \in Users, Lose(u) PROVE NotesInv'
  BY <1>11, NotesUntouched DEF Lose, client
<1> QED
  BY <1>1, <1>2, <1>3, <1>4, <1>6, <1>7, <1>8, <1>9, <1>10, <1>11 DEF Next, Server

LEMMA NotesInvHolds == Spec => []NotesInv
<1>1. Init => NotesInv
  BY Kinds DEF Init, NotesInv, NotedOnce, InboxOnce, AnswersOnce, NoteWaits, Noted, Twice, AtMostTwice, Elements
<1> QED
  BY <1>1, TypeCorrect, OrderInvHolds, NotesStep, PTL DEF Spec

\* A screen shows no message three times, however notifications and the
\* answers to fetches overtake each other.
THEOREM TwiceCorrect == Spec => []AtMostTwice
<1>1. NotesInv => AtMostTwice
  BY DEF NotesInv
<1> QED
  BY <1>1, NotesInvHolds, PTL

-----------------------------------------------------------------------------
\* The last answer to a fetch will be that for the open conversation.
FetchesOpen(u) ==
  \A i \in DOMAIN up[u] :
    up[u][i].kind = "fetch" /\ (\A j \in DOMAIN up[u] : j > i => up[u][j].kind # "fetch")
      => up[u][i].peer = opened[u]
Fetching(u) == \E i \in DOMAIN up[u] : up[u][i].kind = "fetch"

\* m is on its way to u's screen or there, and no later history takes it away.
KeptFrom(u, k, m) ==
  \A l \in DOMAIN down[u] : l >= k /\ down[u][l].kind = "history" => m \in Elements(down[u][l].msgs)
Brought(u, m) == \E k \in DOMAIN down[u] : m \in Elements(Content(down[u][k])) /\ KeptFrom(u, k, m)
OnScreen(u, m) == m \in Shown(u) /\ KeptFrom(u, 1, m)
Covered(u, m) ==
  \/ busy[m.from].at = "notify" /\ busy[m.from].msg = m
  \/ m.from = u /\ busy[u].at = "ack" /\ busy[u].msg = m
  \/ m \in Elements(inbox[u])
  \/ Brought(u, m)
  \/ OnScreen(u, m)

AllCovered(u) ==
  session[u] = "on" /\ opened[u] # Nobody /\ ~Fetching(u) =>
    \A m \in Stored : Between(m, u, opened[u]) => Covered(u, m) \/ m \in missed[u]

FetchInv ==
  \A u \in Users :
    /\ session[u] = "on" => FetchesOpen(u)
    /\ session[u] # "on" => opened[u] = Nobody
    /\ session[u] = "none" => up[u] = <<>>

CoverInv == FetchInv /\ \A u \in Users : AllCovered(u)

LEMMA PushedFetch ==
  ASSUME TypeOK, NEW u \in Users, NEW r \in Request, up' = [up EXCEPT ![u] = Append(@, r)]
  PROVE  /\ r.kind # "fetch" => (Fetching(u)' <=> Fetching(u))
         /\ r.kind # "fetch" /\ opened'[u] = opened[u] /\ FetchesOpen(u) => FetchesOpen(u)'
         /\ r.kind = "fetch" => Fetching(u)'
         /\ r.kind = "fetch" /\ r.peer = opened'[u] => FetchesOpen(u)'
         /\ \A v \in Users \ {u} : up'[v] = up[v]
<1>1. /\ DOMAIN up[u] = 1 .. Len(up[u]) /\ DOMAIN up'[u] = 1 .. Len(up[u]) + 1 /\ Len(up[u]) \in Nat
      /\ \A i \in 1 .. Len(up[u]) : up'[u][i] = up[u][i]
      /\ up'[u][Len(up[u]) + 1] = r
  BY Appended DEF TypeOK
<1>2. \A v \in Users \ {u} : up'[v] = up[v]
  BY DEF TypeOK
<1>3. r.kind # "fetch" => (Fetching(u)' <=> Fetching(u))
  BY <1>1 DEF Fetching
<1>4. ASSUME r.kind # "fetch", opened'[u] = opened[u], FetchesOpen(u) PROVE FetchesOpen(u)'
  <2> SUFFICES ASSUME NEW i \in DOMAIN up'[u], up'[u][i].kind = "fetch",
                      \A j \in DOMAIN up'[u] : j > i => up'[u][j].kind # "fetch"
               PROVE  up'[u][i].peer = opened'[u]
    BY DEF FetchesOpen
  <2>1. i \in DOMAIN up[u] /\ up'[u][i] = up[u][i]
    BY <1>1, <1>4
  <2>2. \A j \in DOMAIN up[u] : j > i => up[u][j].kind # "fetch"
    BY <1>1
  <2> QED
    BY <1>4, <2>1, <2>2 DEF FetchesOpen
<1>5. Len(up[u]) + 1 \in DOMAIN up'[u] /\ \A i \in DOMAIN up'[u] : i # Len(up[u]) + 1 => Len(up[u]) + 1 > i
  BY <1>1
<1>6. r.kind = "fetch" => Fetching(u)'
  BY <1>1, <1>5 DEF Fetching
<1>7. r.kind = "fetch" /\ r.peer = opened'[u] => FetchesOpen(u)'
  BY <1>1, <1>5 DEF FetchesOpen
<1> QED
  BY <1>2, <1>3, <1>4, <1>6, <1>7

LEMMA PoppedFetch ==
  ASSUME TypeOK, NEW u \in Users, up[u] # <<>>, up' = [up EXCEPT ![u] = Tail(@)], opened' = opened
  PROVE  /\ FetchesOpen(u) => FetchesOpen(u)'
         /\ Head(up[u]).kind # "fetch" => (Fetching(u)' <=> Fetching(u))
         /\ Head(up[u]).kind = "fetch" /\ FetchesOpen(u) /\ ~Fetching(u)' => Head(up[u]).peer = opened[u]
         /\ \A v \in Users \ {u} : up'[v] = up[v]
<1>1. /\ Len(up[u]) \in Nat \ {0} /\ DOMAIN up[u] = 1 .. Len(up[u]) /\ DOMAIN up'[u] = 1 .. Len(up[u]) - 1
      /\ \A i \in 1 .. Len(up[u]) - 1 : up'[u][i] = up[u][i + 1]
      /\ Head(up[u]) = up[u][1]
  BY Taken DEF TypeOK
<1>2. \A v \in Users \ {u} : up'[v] = up[v]
  BY DEF TypeOK
<1>3. /\ 1 \in DOMAIN up[u]
      /\ \A i \in DOMAIN up'[u] : i + 1 \in DOMAIN up[u] /\ up'[u][i] = up[u][i + 1]
      /\ \A j \in DOMAIN up[u] : j # 1 => j - 1 \in DOMAIN up'[u] /\ up[u][j] = up'[u][j - 1]
  BY <1>1
<1>4. ASSUME FetchesOpen(u) PROVE FetchesOpen(u)'
  <2> SUFFICES ASSUME NEW i \in DOMAIN up'[u], up'[u][i].kind = "fetch",
                      \A j \in DOMAIN up'[u] : j > i => up'[u][j].kind # "fetch"
               PROVE  up'[u][i].peer = opened'[u]
    BY DEF FetchesOpen
  <2>1. ASSUME NEW j \in DOMAIN up[u], j > i + 1 PROVE up[u][j].kind # "fetch"
    <3>1. j - 1 \in DOMAIN up'[u] /\ up[u][j] = up'[u][j - 1] /\ j - 1 > i
      BY <1>1, <2>1
    <3> QED
      BY <3>1
  <2> QED
    BY <1>3, <1>4, <2>1 DEF FetchesOpen
<1>5. Head(up[u]).kind # "fetch" => (Fetching(u)' <=> Fetching(u))
  <2>1. Fetching(u)' => Fetching(u)
    BY <1>3 DEF Fetching
  <2>2. Head(up[u]).kind # "fetch" /\ Fetching(u) => Fetching(u)'
    BY <1>1, <1>3 DEF Fetching
  <2> QED
    BY <2>1, <2>2
<1>6. ASSUME Head(up[u]).kind = "fetch", FetchesOpen(u), ~Fetching(u)' PROVE Head(up[u]).peer = opened[u]
  <2>1. \A j \in DOMAIN up[u] : j > 1 => up[u][j].kind # "fetch"
    <3>1. \A j \in DOMAIN up[u] : j > 1 => j # 1
      BY <1>1
    <3> QED
      BY <1>3, <1>6, <3>1 DEF Fetching
  <2> QED
    BY <1>1, <1>3, <1>6, <2>1 DEF FetchesOpen
<1> QED
  BY <1>2, <1>4, <1>5, <1>6

\* An answer at the end of the queue takes nothing away, unless it is a history.
LEMMA TellCovers ==
  ASSUME TypeOK, NEW u \in Users, NEW a \in Answer, down' = [down EXCEPT ![u] = Append(@, a)], view' = view
  PROVE  /\ \A m : m \in Elements(Content(a)) => Brought(u, m)'
         /\ \A m : a.kind # "history" => /\ Brought(u, m) => Brought(u, m)'
                                         /\ OnScreen(u, m) => OnScreen(u, m)'
         /\ \A v \in Users \ {u} : \A m : /\ Brought(v, m) => Brought(v, m)'
                                          /\ OnScreen(v, m) => OnScreen(v, m)'
<1>1. /\ DOMAIN down[u] = 1 .. Len(down[u]) /\ DOMAIN down'[u] = 1 .. Len(down[u]) + 1 /\ Len(down[u]) \in Nat
      /\ \A i \in 1 .. Len(down[u]) : down'[u][i] = down[u][i]
      /\ down'[u][Len(down[u]) + 1] = a
  BY Appended DEF TypeOK
<1>2. \A v \in Users \ {u} : down'[v] = down[v]
  BY DEF TypeOK
<1>3. ASSUME NEW m, m \in Elements(Content(a)) PROVE Brought(u, m)'
  <2>1. PICK n \in DOMAIN down'[u] : down'[u][n] = a /\ \A l \in DOMAIN down'[u] : l >= n => l = n
    <3>1. /\ Len(down[u]) + 1 \in DOMAIN down'[u]
          /\ \A l \in DOMAIN down'[u] : l >= Len(down[u]) + 1 => l = Len(down[u]) + 1
      BY <1>1
    <3> QED
      BY <1>1, <3>1
  <2>2. a.kind = "history" => m \in Elements(a.msgs)
    BY <1>3 DEF Content
  <2>3. KeptFrom(u, n, m)'
    BY <2>1, <2>2 DEF KeptFrom
  <2> QED
    BY <1>3, <2>1, <2>3 DEF Brought
<1>4. ASSUME NEW m, a.kind # "history" PROVE \A k : KeptFrom(u, k, m) => KeptFrom(u, k, m)'
  BY <1>1, <1>4 DEF KeptFrom
<1>5. ASSUME NEW m, a.kind # "history", Brought(u, m) PROVE Brought(u, m)'
  <2>1. PICK k \in DOMAIN down[u] : m \in Elements(Content(down[u][k])) /\ KeptFrom(u, k, m)
    BY <1>5 DEF Brought
  <2>2. k \in DOMAIN down'[u] /\ down'[u][k] = down[u][k]
    BY <1>1
  <2>3. KeptFrom(u, k, m)'
    BY <1>4, <1>5, <2>1
  <2> QED
    BY <2>1, <2>2, <2>3 DEF Brought
<1>6. ASSUME NEW m, a.kind # "history", OnScreen(u, m) PROVE OnScreen(u, m)'
  BY <1>4, <1>6 DEF OnScreen, Shown
<1>7. ASSUME NEW v \in Users \ {u}, NEW m
      PROVE  (Brought(v, m) => Brought(v, m)') /\ (OnScreen(v, m) => OnScreen(v, m)')
  BY <1>2 DEF Brought, OnScreen, Shown, KeptFrom
<1> QED
  BY <1>3, <1>5, <1>6, <1>7

\* What was brought is shown, and what was shown stays, unless a history is.
LEMMA ShowCovers ==
  ASSUME TypeOK, NEW u \in Users, Show(u), NEW m, Brought(u, m) \/ OnScreen(u, m)
  PROVE  Brought(u, m)' \/ OnScreen(u, m)'
<1> DEFINE a == Head(down[u])
<1>1. /\ a \in Answer /\ a = down[u][1] /\ 1 \in DOMAIN down[u] /\ DOMAIN down[u] \subseteq Nat \ {0}
      /\ \A k \in DOMAIN down'[u] : k + 1 \in DOMAIN down[u] /\ down'[u][k] = down[u][k + 1] /\ k \in Nat \ {0}
      /\ \A k \in DOMAIN down[u] : k # 1 => k - 1 \in DOMAIN down'[u] /\ down'[u][k - 1] = down[u][k]
  <2>1. down[u] # <<>> /\ down'[u] = Tail(down[u]) /\ down[u] \in Seq(Answer)
    BY DEF Show, TypeOK
  <2> QED
    BY <2>1, Taken
<1>2. /\ view'[u] = IF a.kind = "history" THEN Content(a) ELSE Append(view[u], a.msg)
      /\ a.kind # "history" => a.msg \in Entry /\ Content(a) = <<a.msg>>
      /\ view[u] \in Seq(Entry)
  BY Showing DEF Content, TypeOK
<1>3. a.kind = "history" => Content(a) = a.msgs
  BY DEF Content
<1> HIDE DEF a
<1>4. ASSUME NEW k \in Nat \ {0}, KeptFrom(u, k + 1, m) PROVE KeptFrom(u, k, m)'
  <2> SUFFICES ASSUME NEW l \in DOMAIN down'[u], l >= k, down'[u][l].kind = "history"
               PROVE  m \in Elements(down'[u][l].msgs)
    BY DEF KeptFrom
  <2>1. l + 1 \in DOMAIN down[u] /\ down'[u][l] = down[u][l + 1] /\ l + 1 >= k + 1
    BY <1>1
  <2> QED
    BY <1>4, <2>1 DEF KeptFrom
<1>5. KeptFrom(u, 1, m) => KeptFrom(u, 1, m)'
  <2>1. KeptFrom(u, 1, m) => KeptFrom(u, 1 + 1, m)
    BY <1>1 DEF KeptFrom
  <2> QED
    BY <1>4, <2>1
<1>6. m \in Elements(Content(a)) => m \in Shown(u)'
  <2>1. CASE a.kind = "history"
    BY <1>2, <2>1 DEF Elements, Shown
  <2>2. CASE a.kind # "history"
    <3>1. Len(view[u]) + 1 \in DOMAIN view'[u] /\ view'[u][Len(view[u]) + 1] = a.msg
      BY <1>2, <2>2, Appended
    <3>2. Elements(Content(a)) = {a.msg}
      BY <1>2, <2>2 DEF Elements
    <3> QED
      BY <3>1, <3>2 DEF Shown, Elements
  <2> QED
    BY <2>1, <2>2
<1>7. CASE OnScreen(u, m)
  <2>1. CASE a.kind = "history"
    <3>1. m \in Elements(Content(a))
      BY <1>1, <1>3, <1>7, <2>1 DEF OnScreen, KeptFrom
    <3> QED
      BY <1>5, <1>6, <1>7, <3>1 DEF OnScreen
  <2>2. CASE a.kind # "history"
    <3>1. \A i \in DOMAIN view[u] : i \in DOMAIN view'[u] /\ view'[u][i] = view[u][i]
      BY <1>2, <2>2, Appended
    <3>2. m \in Shown(u)'
      BY <1>7, <3>1 DEF OnScreen, Shown, Elements
    <3> QED
      BY <1>5, <1>7, <3>2 DEF OnScreen
  <2> QED
    BY <2>1, <2>2
<1>8. ASSUME NEW k \in DOMAIN down[u], m \in Elements(Content(down[u][k])), KeptFrom(u, k, m)
      PROVE  Brought(u, m)' \/ OnScreen(u, m)'
  <2>1. CASE k = 1
    BY <1>1, <1>5, <1>6, <1>8, <2>1 DEF OnScreen
  <2>2. CASE k # 1
    <3>1. k - 1 \in DOMAIN down'[u] /\ down'[u][k - 1] = down[u][k] /\ k - 1 \in Nat \ {0} /\ (k - 1) + 1 = k
      BY <1>1, <2>2
    <3>2. KeptFrom(u, k - 1, m)'
      BY <1>4, <1>8, <3>1
    <3> QED
      BY <1>8, <3>1, <3>2 DEF Brought
  <2> QED
    BY <2>1, <2>2
<1> QED
  BY <1>7, <1>8 DEF Brought


LEMMA FetchStep == TypeOK /\ FetchInv /\ [Next]_vars => FetchInv'
<1> SUFFICES ASSUME TypeOK, FetchInv, [Next]_vars PROVE FetchInv'
  OBVIOUS
<1>1. CASE UNCHANGED <<session, opened, up>>
  BY <1>1 DEF FetchInv, FetchesOpen
<1>2. ASSUME NEW u \in Users, Login(u) PROVE FetchInv'
  <2>1. up[u] = <<>> /\ opened[u] = Nobody
    BY <1>2 DEF Login, FetchInv
  <2>2. UNCHANGED <<up, opened>> /\ \A v \in Users \ {u} : session'[v] = session[v]
    BY <1>2 DEF Login, TypeOK
  <2>3. session'[u] = "on"
    BY <1>2 DEF Login, TypeOK
  <2>4. FetchesOpen(u)'
    BY <2>1, <2>2 DEF FetchesOpen
  <2>5. \A v \in Users : FetchesOpen(v)' <=> FetchesOpen(v)
    BY <2>2 DEF FetchesOpen
  <2> QED
    BY <2>1, <2>2, <2>3, <2>4, <2>5 DEF FetchInv
<1>3. ASSUME NEW u \in Users, NEW p \in Users, Open(u, p) PROVE FetchInv'
  <2>1. Fetch(p) \in Request /\ Fetch(p).kind = "fetch" /\ Fetch(p).peer = p
    BY DEF Fetch, Request
  <2>2. /\ session[u] = "on" /\ session' = session /\ up' = [up EXCEPT ![u] = Append(@, Fetch(p))]
        /\ opened'[u] = p /\ \A v \in Users \ {u} : opened'[v] = opened[v]
    BY <1>3 DEF Open, TypeOK
  <2>3. FetchesOpen(u)' /\ \A v \in Users \ {u} : up'[v] = up[v]
    BY <2>1, <2>2, PushedFetch
  <2>4. \A v \in Users \ {u} : FetchesOpen(v)' <=> FetchesOpen(v)
    BY <2>2, <2>3 DEF FetchesOpen
  <2> QED
    BY <2>2, <2>3, <2>4 DEF FetchInv
<1>4. ASSUME NEW u \in Users, Press(u) PROVE FetchInv'
  <2> DEFINE m == [from |-> u, to |-> opened[u], id |-> sent + 1]
  <2>1. m \in Message
    BY <1>4, Bounds DEF Press, TypeOK, Message
  <2>2. /\ session[u] = "on" /\ UNCHANGED <<session, opened>>
        /\ up' = [up EXCEPT ![u] = Append(@, Send(m))]
    BY <1>4 DEF Press
  <2> HIDE DEF m
  <2>3. Send(m) \in Request /\ Send(m).kind # "fetch"
    BY <2>1 DEF Send, Request
  <2>4. FetchesOpen(u) => FetchesOpen(u)'
    BY <2>2, <2>3, PushedFetch
  <2>5. \A v \in Users \ {u} : up'[v] = up[v]
    BY <2>2, <2>3, PushedFetch
  <2>6. \A v \in Users \ {u} : FetchesOpen(v)' <=> FetchesOpen(v)
    BY <2>2, <2>5 DEF FetchesOpen
  <2> QED
    BY <2>2, <2>4, <2>5, <2>6 DEF FetchInv
<1>5. ASSUME NEW u \in Users, Store(u) \/ ServeFetch(u) \/ Lose(u) PROVE FetchInv'
  <2>1. up[u] # <<>> /\ up' = [up EXCEPT ![u] = Tail(@)] /\ UNCHANGED <<session, opened>>
    BY <1>5 DEF Store, ServeFetch, Takes, Lose, client
  <2>2. FetchesOpen(u) => FetchesOpen(u)'
    BY <2>1, PoppedFetch
  <2>3. \A v \in Users \ {u} : up'[v] = up[v]
    BY <2>1, PoppedFetch
  <2>4. \A v \in Users \ {u} : FetchesOpen(v)' <=> FetchesOpen(v)
    BY <2>1, <2>3 DEF FetchesOpen
  <2> QED
    BY <2>1, <2>2, <2>3, <2>4 DEF FetchInv
<1>6. ASSUME NEW u \in Users, Close(u) PROVE FetchInv'
  <2>1. /\ session'[u] = "closed" /\ opened'[u] = Nobody
        /\ \A v \in Users \ {u} : session'[v] = session[v] /\ opened'[v] = opened[v] /\ up'[v] = up[v]
    BY <1>6 DEF Close, TypeOK
  <2>2. \A v \in Users \ {u} : FetchesOpen(v)' <=> FetchesOpen(v)
    BY <2>1 DEF FetchesOpen
  <2> QED
    BY <2>1, <2>2 DEF FetchInv
<1>7. ASSUME NEW u \in Users, Notify(u) \/ Acknowledge(u) \/ Deliver(u) \/ Show(u) PROVE FetchInv'
  <2>1. UNCHANGED <<session, opened, up>>
    BY <1>7 DEF Notify, Acknowledge, Deliver, Show, client
  <2> QED
    BY <1>1, <2>1
<1> QED
  BY <1>1, <1>2, <1>3, <1>4, <1>5, <1>6, <1>7 DEF Next, Server, vars

LEMMA CoverStep == TypeOK /\ OrderInv /\ CoverInv /\ [Next]_vars => CoverInv'
<1> SUFFICES ASSUME TypeOK, OrderInv, CoverInv, [Next]_vars,
                    NEW v \in Users, session'[v] = "on", opened'[v] # Nobody, ~Fetching(v)',
                    NEW m \in Stored', Between(m, v, opened'[v]), m \notin missed'[v]
             PROVE  Covered(v, m)'
  BY FetchStep DEF CoverInv, AllCovered
<1> USE DEF Covered
<1>1. ASSUME session[v] = "on", opened[v] = opened'[v], ~Fetching(v), m \in Stored, missed'[v] = missed[v]
      PROVE  Covered(v, m)
  BY <1>1 DEF CoverInv, AllCovered
<1>2. ASSUME UNCHANGED <<busy, inbox, down, view>>, Covered(v, m) PROVE Covered(v, m)'
  BY <1>2 DEF Elements, Brought, OnScreen, KeptFrom, Shown
<1>3. m.from \in Users /\ m \in Message
  <2>1. messages' \in Seq(Message)
    BY TypeStep DEF TypeOK
  <2> QED
    BY <2>1, MessageFields DEF Stored, Elements
<1>4. CASE UNCHANGED vars
  BY <1>1, <1>2, <1>4 DEF vars, Fetching, Stored
<1>5. ASSUME NEW u \in Users, Login(u) PROVE Covered(v, m)'
  <2>1. u # v
    BY <1>5 DEF Login, CoverInv, FetchInv
  <2> QED
    BY <1>1, <1>2, <1>5, <2>1 DEF Login, Fetching, Stored, TypeOK
<1>6. ASSUME NEW u \in Users, NEW p \in Users, Open(u, p) PROVE Covered(v, m)'
  <2>1. Fetch(p) \in Request /\ Fetch(p).kind = "fetch"
    BY DEF Fetch, Request
  <2>2. Fetching(u)' /\ \A w \in Users \ {u} : up'[w] = up[w]
    BY <1>6, <2>1, PushedFetch DEF Open
  <2>3. v # u
    BY <2>2
  <2> QED
    BY <1>1, <1>2, <1>6, <2>2, <2>3 DEF Open, Fetching, Stored, TypeOK
<1>7. ASSUME NEW u \in Users, Press(u) PROVE Covered(v, m)'
  <2> DEFINE x == [from |-> u, to |-> opened[u], id |-> sent + 1]
  <2>1. x \in Message /\ up' = [up EXCEPT ![u] = Append(@, Send(x))]
    BY <1>7, Bounds DEF Press, TypeOK, Message
  <2> HIDE DEF x
  <2>2. Send(x) \in Request /\ Send(x).kind # "fetch"
    BY <2>1 DEF Send, Request
  <2>3. Fetching(u)' <=> Fetching(u)
    BY <2>1, <2>2, PushedFetch
  <2>4. \A w \in Users \ {u} : up'[w] = up[w]
    BY <2>1, <2>2, PushedFetch
  <2>5. ~Fetching(v)
    BY <2>3, <2>4 DEF Fetching
  <2> QED
    BY <1>1, <1>2, <1>7, <2>5 DEF Press, Stored
<1>8. ASSUME NEW u \in Users, Store(u) PROVE Covered(v, m)'
  <2> DEFINE x == Head(up[u]).msg
  <2>1. /\ busy[u] = Idle /\ up[u] # <<>> /\ Head(up[u]).kind = "send" /\ up' = [up EXCEPT ![u] = Tail(@)]
        /\ \/ messages' = Append(messages, x) /\ busy' = [busy EXCEPT ![u] = [at |-> "notify", msg |-> x]]
           \/ messages' = messages /\ busy' = [busy EXCEPT ![u] = [at |-> "failed", msg |-> x]]
        /\ UNCHANGED <<session, opened, view, down, inbox, missed>>
    BY <1>8 DEF Store, Takes, client
  <2>2. x \in Message /\ x.from = u
    <3>1. Head(up[u]) \in Request /\ Head(up[u]) = up[u][1] /\ 1 \in DOMAIN up[u]
      BY <2>1, Taken DEF TypeOK
    <3> QED
      BY <2>1, <3>1, Kinds DEF OrderInv, RequestsNumbered
  <2> HIDE DEF x
  <2>3. Fetching(u)' <=> Fetching(u)
    BY <2>1, PoppedFetch
  <2>4. \A w \in Users \ {u} : up'[w] = up[w]
    BY <2>1, PoppedFetch
  <2>5. ~Fetching(v)
    BY <2>3, <2>4 DEF Fetching
  <2>6. \A w \in Users \ {u} : busy'[w] = busy[w]
    BY <2>1 DEF TypeOK
  <2>7. CASE m \in Stored
    <3>1. Covered(v, m)
      BY <1>1, <2>1, <2>5, <2>7
    <3>2. /\ Brought(v, m)' <=> Brought(v, m)
          /\ OnScreen(v, m)' <=> OnScreen(v, m)
          /\ Elements(inbox'[v]) = Elements(inbox[v])
      BY <2>1 DEF Brought, OnScreen, KeptFrom, Shown
    <3> QED
      BY <1>3, <2>1, <2>6, <3>1, <3>2 DEF Idle
  <2>8. CASE m \notin Stored
    <3>1. messages' = Append(messages, x) /\ busy' = [busy EXCEPT ![u] = [at |-> "notify", msg |-> x]]
      BY <2>1, <2>8 DEF Stored
    <3>2. m = x
      BY <2>2, <2>8, <3>1, StoredGrows
    <3> QED
      BY <2>2, <3>1, <3>2 DEF TypeOK
  <2> QED
    BY <2>7, <2>8
<1>9. ASSUME NEW u \in Users, Notify(u) PROVE Covered(v, m)'
  <2> DEFINE x == busy[u].msg
  <2>1. x \in Message /\ x.from = u /\ busy[u].at = "notify"
    BY <1>9, Kinds DEF Notify, TypeOK, OrderInv, BusyNumbered
  <2>2. x.to \in Users
    BY <2>1, MessageFields
  <2>3. /\ inbox' = IF session[x.to] = "on" THEN [inbox EXCEPT ![x.to] = Append(@, x)] ELSE inbox
        /\ busy' = [busy EXCEPT ![u] = [at |-> "ack", msg |-> x]]
        /\ UNCHANGED <<session, opened, view, up, down, messages, missed>>
    BY <1>9 DEF Notify, client
  <2>4. Covered(v, m)
    BY <1>1, <2>3 DEF Fetching, Stored
  <2>5. /\ Brought(v, m)' <=> Brought(v, m)
        /\ OnScreen(v, m)' <=> OnScreen(v, m)
    BY <2>3 DEF Brought, OnScreen, KeptFrom, Shown
  <2>6. busy'[u] = [at |-> "ack", msg |-> x] /\ \A w \in Users \ {u} : busy'[w] = busy[w]
    BY <2>3 DEF TypeOK
  <2>10. session[x.to] = "on" \/ v # x.to
    BY <2>3
  <2> HIDE DEF x
  <2>7. /\ \A y \in Elements(inbox[v]) : y \in Elements(inbox'[v])
        /\ v = x.to => x \in Elements(inbox'[v])
    <3>1. CASE inbox' = inbox /\ v # x.to
      BY <3>1
    <3>2. CASE inbox' = [inbox EXCEPT ![x.to] = Append(@, x)]
      <4>1. CASE v # x.to
        BY <3>2, <4>1 DEF TypeOK
      <4>2. CASE v = x.to
        <5>1. inbox'[v] = Append(inbox[v], x) /\ inbox[v] \in Seq(Message)
          BY <3>2, <4>2 DEF TypeOK
        <5>2. /\ \A i \in DOMAIN inbox[v] : i \in DOMAIN inbox'[v] /\ inbox'[v][i] = inbox[v][i]
              /\ Len(inbox[v]) + 1 \in DOMAIN inbox'[v] /\ inbox'[v][Len(inbox[v]) + 1] = x
          BY <2>1, <5>1, Appended
        <5> QED
          BY <5>2 DEF Elements
      <4> QED
        BY <4>1, <4>2
    <3> QED
      BY <2>3, <2>10, <3>1, <3>2
  <2>8. CASE m.from = u /\ busy[u].msg = m
    <3>1. m = x /\ v \in {m.from, m.to}
      BY <2>8 DEF x, Between
    <3> QED
      BY <2>1, <2>6, <2>7, <3>1
  <2>9. CASE ~(m.from = u /\ busy[u].msg = m)
    <3>1. busy[m.from].at = "notify" /\ busy[m.from].msg = m => busy'[m.from] = busy[m.from]
      BY <1>3, <2>6, <2>9
    <3>2. m.from = v /\ busy[v].at = "ack" => busy'[v] = busy[v]
      BY <2>1, <2>6
    <3> QED
      BY <2>4, <2>5, <2>7, <3>1, <3>2
  <2> QED
    BY <2>8, <2>9
<1>10. ASSUME NEW u \in Users, NEW a \in Answer, down' = [down EXCEPT ![u] = Append(@, a)],
              UNCHANGED <<session, opened, view, messages>>,
              (u = v /\ a.kind = "history") \/ missed'[v] = missed[v],
              u = v => m \in Elements(Content(a)) \/ (a.kind # "history" /\ ~Fetching(v)),
              u # v => up'[v] = up[v],
              \A w \in Users : busy'[w] = busy[w] \/ busy[w].at # "notify",
              \/ busy'[v] = busy[v]
              \/ busy[v].at # "ack"
              \/ u = v /\ Elements(Content(a)) = {busy[v].msg},
              u = v => \A y \in Elements(inbox[v]) : y \in Elements(inbox'[v]) \/ y \in Elements(Content(a)),
              u # v => inbox'[v] = inbox[v]
       PROVE  Covered(v, m)'
  <2>1. \A y : y \in Elements(Content(a)) => Brought(u, y)'
    BY <1>10, TellCovers
  <2>2. a.kind # "history" => (Brought(u, m) => Brought(u, m)') /\ (OnScreen(u, m) => OnScreen(u, m)')
    BY <1>10, TellCovers
  <2>3. u # v => (Brought(v, m) => Brought(v, m)') /\ (OnScreen(v, m) => OnScreen(v, m)')
    BY <1>10, TellCovers
  <2>4. CASE u = v /\ m \in Elements(Content(a))
    BY <2>1, <2>4
  <2>5. CASE ~(u = v /\ m \in Elements(Content(a)))
    <3>1. ~Fetching(v)
      BY <1>10, <2>5 DEF Fetching
    <3>7. missed'[v] = missed[v]
      BY <1>10, <2>5
    <3>8. session[v] = "on" /\ opened[v] = opened'[v] /\ m \in Stored
      BY <1>10 DEF Stored, Elements
    <3>2. Covered(v, m)
      BY <1>1, <3>1, <3>7, <3>8
    <3>3. ASSUME busy[m.from].at = "notify", busy[m.from].msg = m PROVE Covered(v, m)'
      BY <1>3, <1>10, <3>3
    <3>4. ASSUME m.from = v, busy[v].at = "ack", busy[v].msg = m PROVE Covered(v, m)'
      BY <1>10, <2>5, <3>4
    <3>5. ASSUME m \in Elements(inbox[v]) PROVE Covered(v, m)'
      BY <1>10, <2>5, <3>5
    <3>6. ASSUME Brought(v, m) \/ OnScreen(v, m) PROVE Covered(v, m)'
      BY <1>10, <2>2, <2>3, <2>5, <3>6
    <3> QED
      BY <3>2, <3>3, <3>4, <3>5, <3>6
  <2> QED
    BY <2>4, <2>5
<1>11. ASSUME NEW u \in Users, Acknowledge(u) PROVE Covered(v, m)'
  <2> DEFINE e == IF busy[u].at = "ack" THEN busy[u].msg ELSE FailedText(busy[u].msg)
  <2>1. busy[u].msg \in Message /\ busy[u].at \in {"ack", "failed"}
    BY <1>11, Kinds DEF Acknowledge, TypeOK
  <2>2. e \in Entry /\ (busy[u].at = "ack" => e = busy[u].msg)
    BY <2>1, Kinds, MessageFields
  <2>3. down' = [down EXCEPT ![u] = Append(@, Ack(e))]
    BY <1>11 DEF Acknowledge, Tell
  <2> HIDE DEF e
  <2>4. Ack(e) \in Answer /\ Ack(e).kind # "history" /\ Elements(Content(Ack(e))) = {e}
    BY <2>2 DEF Ack, Answer, Content, Elements
  <2>5. UNCHANGED <<session, opened, view, up, inbox, messages, missed>> /\ busy' = [busy EXCEPT ![u] = Idle]
    BY <1>11 DEF Acknowledge, client
  <2>6. \A w \in Users \ {u} : busy'[w] = busy[w]
    BY <2>5 DEF TypeOK
  <2>7. ~Fetching(v)
    BY <2>5 DEF Fetching
  <2>8. \A w \in Users : busy'[w] = busy[w] \/ busy[w].at # "notify"
    BY <2>1, <2>6
  <2>9. \/ busy'[v] = busy[v]
        \/ busy[v].at # "ack"
        \/ u = v /\ Elements(Content(Ack(e))) = {busy[v].msg}
    BY <2>2, <2>4, <2>6
  <2> QED
    BY <1>10, <2>3, <2>4, <2>5, <2>7, <2>8, <2>9
<1>12. ASSUME NEW u \in Users, ServeFetch(u) PROVE Covered(v, m)'
  <2> DEFINE p == Head(up[u]).peer
  <2>1. /\ up[u] # <<>> /\ Head(up[u]).kind = "fetch" /\ up' = [up EXCEPT ![u] = Tail(@)]
        /\ UNCHANGED <<session, opened, view, busy, inbox, messages>>
    BY <1>12 DEF ServeFetch, Takes, client
  <2>2. PICK c \in Seq(Message) :
          /\ down' = [down EXCEPT ![u] = Append(@, History(c))]
          /\ \A y \in Stored : Between(y, u, p) => y \in Elements(c) \cup missed'[u]
    BY <1>12, Fetched
  <2>3. u = v => p = opened[u]
    BY <2>1, PoppedFetch DEF CoverInv, FetchInv
  <2>4. \A w \in Users \ {u} : up'[w] = up[w]
    BY <2>1, PoppedFetch
  <2>7. u # v => missed'[v] = missed[v]
    BY <1>12 DEF ServeFetch, TypeOK
  <2> HIDE DEF p
  <2>5. u = v => m \in Elements(c)
    BY <2>1, <2>2, <2>3 DEF Stored
  <2>6. History(c) \in Answer /\ Content(History(c)) = c /\ History(c).kind = "history"
    BY <2>2 DEF History, Answer, Content
  <2> QED
    BY <1>10, <2>1, <2>2, <2>4, <2>5, <2>6, <2>7
<1>13. ASSUME NEW u \in Users, Deliver(u) PROVE Covered(v, m)'
  <2> DEFINE x == Head(inbox[u])
  <2>1. /\ inbox[u] # <<>> /\ x \in Message
        /\ inbox' = [inbox EXCEPT ![u] = Tail(@)] /\ down' = [down EXCEPT ![u] = Append(@, Note(x))]
        /\ UNCHANGED <<session, opened, view, up, busy, messages, missed>>
    BY <1>13, Taken DEF Deliver, Tell, TypeOK, client
  <2>2. /\ \A w \in Users \ {u} : inbox'[w] = inbox[w]
        /\ \A y \in Elements(inbox[u]) : y \in Elements(inbox'[u]) \/ y = x
    <3>1. inbox'[u] = Tail(inbox[u]) /\ \A w \in Users \ {u} : inbox'[w] = inbox[w]
      BY <2>1 DEF TypeOK
    <3>2. /\ Len(inbox[u]) \in Nat \ {0} /\ DOMAIN inbox[u] = 1 .. Len(inbox[u])
          /\ DOMAIN inbox'[u] = 1 .. Len(inbox[u]) - 1 /\ x = inbox[u][1]
          /\ \A i \in 1 .. Len(inbox[u]) - 1 : inbox'[u][i] = inbox[u][i + 1]
      BY <2>1, <3>1, Taken DEF TypeOK
    <3> HIDE DEF x
    <3>3. ASSUME NEW i \in DOMAIN inbox[u] PROVE inbox[u][i] = x \/ inbox[u][i] \in Elements(inbox'[u])
      <4>1. CASE i = 1
        BY <3>2, <4>1
      <4>2. CASE i # 1
        <5>1. i - 1 \in DOMAIN inbox'[u] /\ inbox'[u][i - 1] = inbox[u][i]
          BY <3>2, <4>2
        <5> QED
          BY <5>1 DEF Elements
      <4> QED
        BY <4>1, <4>2
    <3> QED
      BY <3>1, <3>3 DEF Elements
  <2> HIDE DEF x
  <2>3. Note(x) \in Answer /\ Note(x).kind # "history" /\ Elements(Content(Note(x))) = {x}
    BY <2>1 DEF Note, Answer, Content, Elements
  <2>4. ~Fetching(v)
    BY <2>1 DEF Fetching
  <2> QED
    BY <1>10, <2>1, <2>2, <2>3, <2>4
<1>14. ASSUME NEW u \in Users, Show(u) PROVE Covered(v, m)'
  <2>1. UNCHANGED <<session, opened, up, busy, inbox, messages, missed>>
    BY <1>14 DEF Show
  <2>2. \A w \in Users \ {u} : down'[w] = down[w] /\ view'[w] = view[w]
    BY <1>14 DEF Show, TypeOK
  <2>3. Covered(v, m)
    BY <1>1, <2>1 DEF Fetching, Stored
  <2>4. Brought(v, m) \/ OnScreen(v, m) => Brought(v, m)' \/ OnScreen(v, m)'
    <3>1. CASE v = u
      BY <1>14, <3>1, ShowCovers
    <3>2. CASE v # u
      BY <2>2, <3>2 DEF Brought, OnScreen, KeptFrom, Shown
    <3> QED
      BY <3>1, <3>2
  <2> QED
    BY <2>1, <2>3, <2>4
<1>15. ASSUME NEW u \in Users, Close(u) PROVE Covered(v, m)'
  <2>1. v # u
    BY <1>15 DEF Close, TypeOK
  <2>2. /\ session'[v] = session[v] /\ opened'[v] = opened[v] /\ view'[v] = view[v] /\ up'[v] = up[v]
        /\ UNCHANGED <<down, busy, inbox, messages, missed>>
    BY <1>15, <2>1 DEF Close, TypeOK
  <2>3. Covered(v, m)
    BY <1>1, <2>2 DEF Fetching, Stored
  <2> QED
    BY <2>2, <2>3 DEF Brought, OnScreen, KeptFrom, Shown
<1>16. ASSUME NEW u \in Users, Lose(u) PROVE Covered(v, m)'
  <2>1. /\ up[u] # <<>> /\ up' = [up EXCEPT ![u] = Tail(@)]
        /\ UNCHANGED <<session, opened, view, down, busy, inbox, messages>>
        /\ missed' = IF Head(up[u]).kind = "fetch"
                       THEN [missed EXCEPT ![u] = Elements(Conversation(u, Head(up[u]).peer))]
                       ELSE missed
    BY <1>16 DEF Lose, client
  <2>2. \A w \in Users \ {u} : up'[w] = up[w] /\ missed'[w] = missed[w]
    BY <2>1, PoppedFetch DEF TypeOK
  <2>3. CASE u = v /\ Head(up[u]).kind = "fetch"
    <3>1. Head(up[u]).peer = opened[u]
      BY <2>1, <2>3, PoppedFetch DEF CoverInv, FetchInv
    <3>2. m \in Elements(Conversation(u, Head(up[u]).peer))
      BY <2>1, <2>3, <3>1, Conversations DEF TypeOK, Stored
    <3> QED
      BY <2>1, <2>3, <3>2 DEF TypeOK
  <2>4. CASE ~(u = v /\ Head(up[u]).kind = "fetch")
    <3>1. missed'[v] = missed[v]
      BY <2>1, <2>2, <2>4
    <3>2. ~Fetching(v)
      BY <2>1, <2>2, <2>4, PoppedFetch DEF Fetching
    <3> QED
      BY <1>1, <1>2, <2>1, <3>1, <3>2 DEF Stored
  <2> QED
    BY <2>3, <2>4
<1> HIDE DEF Covered
<1> QED
  BY <1>4, <1>5, <1>6, <1>7, <1>8, <1>9, <1>11, <1>12, <1>13, <1>14, <1>15, <1>16 DEF Next, Server

\* When nothing about a user is on its way, her screen holds every stored
\* message of the conversation she has open, but for those that were stored
\* when its fetch was lost or its query failed: however fetches,
\* acknowledgements, notifications and logins were interleaved, and for any
\* numbers of them.
THEOREM NothingIsMissing == Spec => []NothingMissing
<1>1. Init => CoverInv
  BY DEF Init, CoverInv, FetchInv, AllCovered
<1>2. TypeOK /\ CoverInv => NothingMissing
  <2> SUFFICES ASSUME TypeOK, CoverInv, NEW u \in Users, Quiet(u), opened[u] # Nobody,
                      NEW m \in Stored, Between(m, u, opened[u]), m \notin missed[u]
               PROVE  m \in Shown(u)
    BY DEF NothingMissing
  <2>1. session[u] = "on" /\ ~Fetching(u) /\ down[u] = <<>> /\ inbox[u] = <<>>
    BY DEF Quiet, Fetching
  <2>2. Covered(u, m)
    BY <2>1 DEF CoverInv, AllCovered
  <2>3. ~(busy[m.from].at = "notify" /\ busy[m.from].msg = m)
    <3>1. m.from \in Users /\ (m.from = u \/ m.to = u)
      BY MessageFields DEF TypeOK, Stored, Between
    <3> QED
      BY <3>1 DEF Quiet, Idle
  <2> QED
    BY <2>1, <2>2, <2>3 DEF Covered, Brought, OnScreen, Elements, Quiet, Idle
<1> QED
  BY <1>1, <1>2, TypeCorrect, OrderInvHolds, CoverStep, PTL DEF Spec
=============================================================================

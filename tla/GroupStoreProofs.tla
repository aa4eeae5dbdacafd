-------------------------- MODULE GroupStoreProofs --------------------------
(***************************************************************************)
(* For any users and group names: the statement-level GroupStore keeps the *)
(* promise of module Groups, and success responses are true.               *)
(***************************************************************************)
EXTENDS GroupStore, TLAPS

\* What each step is part of.
OpOf(s) ==
  CASE s = "create" -> {"create"}
    [] s = "enrol" -> {"create", "accept"}
    [] s \in {"find", "drop"} -> {"delete"}
    [] s \in {"member", "invite"} -> {"invite"}
    [] s = "take" -> {"accept", "reject"}
    [] OTHER -> {"create", "delete", "invite", "accept", "reject"}

OpsFit == \A u \in Users : step[u] # "idle" => asked[u].op \in OpOf(step[u])

\* What a thread has found out stays true until it acts: nobody else deletes
\* its user's group, and members are only dropped with all threads.
FoundOutHolds ==
  \A u \in Users :
    /\ step[u] = "drop" => creator[Group(u)] = u
    /\ step[u] = "invite" => Row(u) \in members
    /\ step[u] = "enrol" /\ asked[u].op = "create" => creator[Group(u)] = u

IInv == TypeOK /\ OpsFit /\ FoundOutHolds /\ AnswerIsTrue

LEMMA InitHolds == Init => IInv /\ Promise!Init
BY DEF Init, IInv, TypeOK, Steps, OpsFit, FoundOutHolds, AnswerIsTrue, Promise!Init, Stage

LEMMA RequestFields ==
  ASSUME NEW r \in Request
  PROVE  /\ r # Nobody /\ r.group \in Names
         /\ r.op \in {"create", "delete", "invite", "accept", "reject"}
         /\ r.op = "invite" => r.invitee \in Users
BY NobodyIsNoRequest DEF Request

LEMMA AskedFields ==
  ASSUME TypeOK, NEW u \in Users, step[u] # "idle"
  PROVE  asked[u] \in Request /\ asked[u] # Nobody /\ Group(u) \in Names
BY RequestFields DEF TypeOK, Group

\* One thread goes on with its request; the others stay where they are.
LEMMA GotoKeeps ==
  ASSUME TypeOK, NEW u \in Users, NEW s \in Steps \ {"idle"}, step[u] # "idle", Goto(u, s)
  PROVE  /\ asked' = asked /\ step' \in [Users -> Steps]
         /\ step'[u] = s /\ \A v \in Users \ {u} : step'[v] = step[v]
         /\ \A v \in Users : asked'[v] = Nobody <=> step'[v] = "idle"
         /\ \A v \in Users : Group(v)' = Group(v) /\ Row(v)' = Row(v)
BY DEF TypeOK, Goto, Group, Row

\* The abstract request of u goes on from the stage of one step to that of another.
LEMMA StageGoes ==
  ASSUME TypeOK, NEW u \in Users, NEW s \in Steps, Goto(u, s)
  PROVE  Promise!Goes(u, Stage(step[u]), Stage(s))
<1>1. step' = [step EXCEPT ![u] = s] /\ asked' = asked  BY DEF Goto
<1>2. [v \in Users |-> Stage(step[v])][u] = Stage(step[u])  OBVIOUS
<1>3. [v \in Users |-> Stage(step'[v])] = [[v \in Users |-> Stage(step[v])] EXCEPT ![u] = Stage(s)]
  BY <1>1 DEF TypeOK
<1> QED  BY <1>1, <1>2, <1>3 DEF Promise!Goes

LEMMA Stages ==
  /\ Stage("idle") = "none" /\ Stage("enrol") = "owed" /\ Stage("done") = "done"
  /\ Stage("failed") = "failed"
  /\ \A s \in {"create", "find", "drop", "member", "invite", "take"} : Stage(s) = "asked"
BY DEF Stage

\* A query, and a step of the thread that the promise does not see.
LEMMA Unseen ==
  ASSUME TypeOK, NEW u \in Users, NEW s \in Steps, Goto(u, s), Stage(step[u]) = Stage(s), UNCHANGED tables
  PROVE  UNCHANGED Promise!vars
<1>1. step' = [step EXCEPT ![u] = s] /\ asked' = asked  BY DEF Goto
<1>2. [v \in Users |-> Stage(step'[v])] = [v \in Users |-> Stage(step[v])]
  BY <1>1 DEF TypeOK
<1> QED  BY <1>1, <1>2 DEF Promise!vars, tables

-----------------------------------------------------------------------------
LEMMA ReceiveStep ==
  ASSUME IInv, NEW u \in Users, NEW r \in Request, Receive(u, r)
  PROVE  IInv' /\ Promise!Next
<1> USE DEF IInv
<1>1. asked[u] = Nobody  BY DEF Receive, TypeOK
<1>2. FirstStep(r.op) \in {"create", "find", "member", "take"} /\ r.op \in OpOf(FirstStep(r.op))
  BY RequestFields DEF FirstStep, OpOf
<1>3. /\ asked' = [asked EXCEPT ![u] = r] /\ step' = [step EXCEPT ![u] = FirstStep(r.op)]
      /\ UNCHANGED tables
  BY DEF Receive
<1>4. TypeOK'  BY <1>2, <1>3, RequestFields DEF TypeOK, tables, Steps
<1>5. OpsFit'  BY <1>2, <1>3 DEF OpsFit, TypeOK
<1>6. FoundOutHolds' /\ AnswerIsTrue'
  BY <1>2, <1>3 DEF FoundOutHolds, AnswerIsTrue, TypeOK, Group, Row, tables
<1>7. Promise!Next
  <2>1. step[u] = "idle"  BY DEF Receive
  <2>2. [v \in Users |-> Stage(step'[v])] = [[v \in Users |-> Stage(step[v])] EXCEPT ![u] = "asked"]
    BY <1>2, <1>3, Stages DEF TypeOK
  <2>3. [v \in Users |-> Stage(step[v])][u] = "none"  BY <2>1, Stages
  <2>4. Promise!Ask(u, r)  BY <1>3, <2>2, <2>3 DEF Promise!Ask, tables
  <2>5. r \in Promise!Request  BY DEF Promise!Request, Request
  <2> QED  BY <2>4, <2>5 DEF Promise!Next
<1> QED  BY <1>4, <1>5, <1>6, <1>7

LEMMA FailStep ==
  ASSUME IInv, NEW u \in Users, NEW s \in Steps \ {"idle", "done", "failed"}, Fails(u, s)
  PROVE  IInv' /\ Promise!Next
<1> USE DEF IInv
<1>1. "failed" \in Steps \ {"idle"} /\ step[u] # "idle" /\ Goto(u, "failed")  BY DEF Fails, Steps
<1>2. UNCHANGED tables  BY DEF Fails
<1>3. OpOf("failed") = {"create", "delete", "invite", "accept", "reject"}  BY DEF OpOf
<1>4. asked[u].op \in OpOf("failed")  BY <1>1, <1>3, AskedFields, RequestFields
<1>5. IInv'
  BY <1>1, <1>2, <1>4, GotoKeeps DEF TypeOK, OpsFit, FoundOutHolds, AnswerIsTrue, tables
<1>6. Stage(step[u]) \in {"asked", "owed"}
  <2>1. step[u] = s  BY DEF Fails
  <2>2. s \in {"create", "enrol", "find", "drop", "member", "invite", "take"}  BY DEF Steps
  <2> QED  BY <2>1, <2>2, Stages
<1>7. Promise!Goes(u, Stage(step[u]), "failed")
  BY <1>1, StageGoes, Stages
<1>8. Promise!Fail(u)  BY <1>2, <1>6, <1>7 DEF Promise!Fail, tables
<1> QED  BY <1>5, <1>8 DEF Promise!Next

LEMMA CreateStep ==
  ASSUME IInv, NEW u \in Users, Create(u)
  PROVE  IInv' /\ Promise!Next
<1> USE DEF IInv
<1>1. "enrol" \in Steps \ {"idle"} /\ step[u] = "create" /\ Goto(u, "enrol")  BY DEF Create, Steps
<1>2. asked[u].op = "create"  BY <1>1 DEF OpsFit, OpOf
<1>3. creator' = [creator EXCEPT ![Group(u)] = u] /\ creator[Group(u)] = Nobody
      /\ UNCHANGED <<members, invited>>
  BY DEF Create
<1>4. Group(u) \in Names /\ asked[u] # Nobody  BY <1>1, AskedFields
<1>5. \A v \in Users : creator[Group(v)] = v /\ Group(v) \in Names => creator'[Group(v)] = v
  BY <1>3, NobodyIsNoUser DEF TypeOK
<1>6. \A v \in Users : step[v] # "idle" => Group(v) \in Names  BY AskedFields
<1>7. TypeOK'  BY <1>1, <1>3, <1>4, GotoKeeps DEF TypeOK
<1>8. OpsFit'  BY <1>1, <1>2, GotoKeeps DEF OpsFit, OpOf
<1>9. creator'[Group(u)] = u  BY <1>3, <1>4 DEF TypeOK
<1>10. FoundOutHolds' /\ AnswerIsTrue'
  BY <1>1, <1>3, <1>5, <1>6, <1>9, GotoKeeps DEF FoundOutHolds, AnswerIsTrue
<1>11. Promise!Next
  <2>1. Promise!Goes(u, "asked", "owed")  BY <1>1, StageGoes, Stages
  <2>2. Promise!Found(u)
    BY <1>2, <1>3, <2>1 DEF Promise!Found, Promise!Asks, Promise!Goes, Promise!Group, Group
  <2> QED  BY <2>2 DEF Promise!Next
<1> QED  BY <1>7, <1>8, <1>10, <1>11

LEMMA EnrolStep ==
  ASSUME IInv, NEW u \in Users, Enrol(u)
  PROVE  IInv' /\ Promise!Next
<1> USE DEF IInv
<1>1. "done" \in Steps \ {"idle"} /\ step[u] = "enrol" /\ Goto(u, "done")  BY DEF Enrol, Steps
<1>2. asked[u].op \in {"create", "accept"}  BY <1>1 DEF OpsFit, OpOf
<1>3. members' = members \cup {Row(u)} /\ UNCHANGED <<creator, invited>>  BY DEF Enrol
<1>4. Group(u) \in Names /\ asked[u] # Nobody  BY <1>1, AskedFields
<1>5. TypeOK'  BY <1>1, <1>3, <1>4, GotoKeeps DEF TypeOK, Row
<1>6. OpsFit'  BY <1>1, <1>2, GotoKeeps DEF OpsFit, OpOf
<1>7. FoundOutHolds' /\ AnswerIsTrue'
  BY <1>1, <1>3, GotoKeeps DEF FoundOutHolds, AnswerIsTrue
<1>8. Promise!Next
  <2>1. Promise!Goes(u, "owed", "done")  BY <1>1, StageGoes, Stages
  <2>2. Row(u) \notin members  BY DEF Enrol
  <2>3. asked[u].op = "create" => creator[Group(u)] = u  BY <1>1 DEF FoundOutHolds
  <2>4. Promise!Join(u)
    BY <1>3, <2>1, <2>2, <2>3 DEF Promise!Join, Promise!Group, Promise!Row, Group, Row
  <2> QED  BY <2>4 DEF Promise!Next
<1> QED  BY <1>5, <1>6, <1>7, <1>8

\* A query: the thread goes on with what it found out.
LEMMA QueryStep ==
  ASSUME IInv, NEW u \in Users, FindCreator(u) \/ CheckMember(u)
  PROVE  IInv' /\ UNCHANGED Promise!vars
<1> USE DEF IInv
<1>1. CASE FindCreator(u)
  <2>1. "drop" \in Steps \ {"idle"} /\ step[u] = "find" /\ Goto(u, "drop") /\ UNCHANGED tables
    BY <1>1 DEF FindCreator, Steps
  <2>2. asked[u].op = "delete" /\ creator[Group(u)] = u  BY <1>1, <2>1 DEF OpsFit, OpOf, FindCreator
  <2>3. OpsFit'  BY <2>1, <2>2, GotoKeeps DEF OpsFit, OpOf
  <2>4. UNCHANGED Promise!vars  BY <2>1, Unseen, Stages
  <2> QED  BY <2>1, <2>2, <2>3, <2>4, GotoKeeps DEF TypeOK, FoundOutHolds, AnswerIsTrue, tables
<1>2. CASE CheckMember(u)
  <2>1. "invite" \in Steps \ {"idle"} /\ step[u] = "member" /\ Goto(u, "invite") /\ UNCHANGED tables
    BY <1>2 DEF CheckMember, Steps
  <2>2. asked[u].op = "invite" /\ Row(u) \in members  BY <1>2, <2>1 DEF OpsFit, OpOf, CheckMember
  <2>3. OpsFit'  BY <2>1, <2>2, GotoKeeps DEF OpsFit, OpOf
  <2>4. UNCHANGED Promise!vars  BY <2>1, Unseen, Stages
  <2> QED  BY <2>1, <2>2, <2>3, <2>4, GotoKeeps DEF TypeOK, FoundOutHolds, AnswerIsTrue, tables
<1> QED  BY <1>1, <1>2

LEMMA DropStep ==
  ASSUME IInv, NEW u \in Users, Drop(u)
  PROVE  IInv' /\ Promise!Next
<1> USE DEF IInv
<1>1. "done" \in Steps \ {"idle"} /\ step[u] = "drop" /\ Goto(u, "done")  BY DEF Drop, Steps
<1>2. asked[u].op = "delete" /\ creator[Group(u)] = u  BY <1>1 DEF OpsFit, OpOf, FoundOutHolds
<1>3. creator' = [creator EXCEPT ![Group(u)] = Nobody] /\ UNCHANGED <<members, invited>>  BY DEF Drop
<1>4. Group(u) \in Names /\ asked[u] # Nobody  BY <1>1, AskedFields
<1>5. \A v \in Users \ {u} : creator[Group(v)] = v /\ Group(v) \in Names => creator'[Group(v)] = v
  BY <1>2, <1>3 DEF TypeOK
<1>6. \A v \in Users : step[v] # "idle" => Group(v) \in Names  BY AskedFields
<1>7. TypeOK'  BY <1>1, <1>3, <1>4, GotoKeeps DEF TypeOK
<1>8. OpsFit'  BY <1>1, <1>2, GotoKeeps DEF OpsFit, OpOf
<1>9. FoundOutHolds' /\ AnswerIsTrue'
  BY <1>1, <1>2, <1>3, <1>5, <1>6, GotoKeeps DEF FoundOutHolds, AnswerIsTrue
<1>10. Promise!Next
  <2>1. Promise!Goes(u, "asked", "done")  BY <1>1, StageGoes, Stages
  <2>2. Promise!Dissolve(u)
    BY <1>2, <1>3, <2>1 DEF Promise!Dissolve, Promise!Asks, Promise!Goes, Promise!Group, Group
  <2> QED  BY <2>2 DEF Promise!Next
<1> QED  BY <1>7, <1>8, <1>9, <1>10

LEMMA InviteStep ==
  ASSUME IInv, NEW u \in Users, Invite(u)
  PROVE  IInv' /\ Promise!Next
<1> USE DEF IInv
<1>1. "done" \in Steps \ {"idle"} /\ step[u] = "invite" /\ Goto(u, "done")  BY DEF Invite, Steps
<1>2. asked[u].op = "invite" /\ Row(u) \in members  BY <1>1 DEF OpsFit, OpOf, FoundOutHolds
<1>3. invited' = invited \cup {<<Group(u), asked[u].invitee>>} /\ UNCHANGED <<creator, members>>
  BY DEF Invite
<1>4. Group(u) \in Names /\ asked[u] # Nobody /\ asked[u].invitee \in Users
  BY <1>1, <1>2, AskedFields, RequestFields
<1>5. TypeOK'  BY <1>1, <1>3, <1>4, GotoKeeps DEF TypeOK
<1>6. OpsFit'  BY <1>1, <1>2, GotoKeeps DEF OpsFit, OpOf
<1>7. FoundOutHolds' /\ AnswerIsTrue'
  BY <1>1, <1>2, <1>3, GotoKeeps DEF FoundOutHolds, AnswerIsTrue
<1>8. Promise!Next
  <2>1. Promise!Goes(u, "asked", "done")  BY <1>1, StageGoes, Stages
  <2>2. <<Group(u), asked[u].invitee>> \notin invited  BY DEF Invite
  <2>3. Promise!Invite(u)
    BY <1>2, <1>3, <2>1, <2>2
       DEF Promise!Invite, Promise!Asks, Promise!Goes, Promise!Group, Promise!Row, Group, Row
  <2> QED  BY <2>3 DEF Promise!Next
<1> QED  BY <1>5, <1>6, <1>7, <1>8

LEMMA TakeStep ==
  ASSUME IInv, NEW u \in Users, Take(u)
  PROVE  IInv' /\ Promise!Next
<1> USE DEF IInv
<1> DEFINE s == IF asked[u].op = "accept" THEN "enrol" ELSE "done"
<1>1. s \in Steps \ {"idle"} /\ step[u] = "take" /\ Goto(u, s)  BY DEF Take, Steps
<1>2. asked[u].op \in {"accept", "reject"}  BY <1>1 DEF OpsFit, OpOf
<1>3. invited' = invited \ {Row(u)} /\ UNCHANGED <<creator, members>>  BY DEF Take
<1>4. Group(u) \in Names /\ asked[u] # Nobody  BY <1>1, AskedFields
<1>5. s \in {"enrol", "done"} /\ (s = "enrol" => asked[u].op = "accept")
      /\ (s = "done" => asked[u].op = "reject")
  BY <1>2
<1> HIDE DEF s
<1>6. TypeOK'  BY <1>1, <1>3, <1>4, GotoKeeps DEF TypeOK
<1>7. OpsFit'  BY <1>1, <1>2, <1>5, GotoKeeps DEF OpsFit, OpOf
<1>8. FoundOutHolds' /\ AnswerIsTrue'
  BY <1>1, <1>3, <1>5, GotoKeeps DEF FoundOutHolds, AnswerIsTrue
<1>9. Promise!Next
  <2>1. Promise!Goes(u, "asked", Stage(s))  BY <1>1, StageGoes, Stages
  <2>2. Stage(s) = IF s = "enrol" THEN "owed" ELSE "done"  BY <1>5, Stages
  <2>3. Promise!Settle(u)
    BY <1>2, <1>3, <1>5, <2>1, <2>2
       DEF Promise!Settle, Promise!Asks, Promise!Goes, Promise!Group, Promise!Row, Group, Row
  <2> QED  BY <2>3 DEF Promise!Next
<1> QED  BY <1>6, <1>7, <1>8, <1>9

LEMMA ReplyStep ==
  ASSUME IInv, NEW u \in Users, Reply(u)
  PROVE  IInv' /\ Promise!Next
<1> USE DEF IInv
<1>1. TypeOK'  BY DEF Reply, TypeOK, Steps, tables
<1>2. OpsFit' /\ FoundOutHolds' /\ AnswerIsTrue'
  BY DEF Reply, TypeOK, OpsFit, FoundOutHolds, AnswerIsTrue, Group, Row, tables
<1>3. Promise!Next
  <2>1. step[u] \in {"done", "failed"} /\ step' = [step EXCEPT ![u] = "idle"]  BY DEF Reply
  <2>2. [v \in Users |-> Stage(step'[v])] = [[v \in Users |-> Stage(step[v])] EXCEPT ![u] = "none"]
    BY <2>1, Stages DEF TypeOK
  <2>3. [v \in Users |-> Stage(step[v])][u] \in {"done", "failed"}  BY <2>1, Stages
  <2>4. Promise!Answer(u)  BY <2>2, <2>3 DEF Promise!Answer, Reply, tables
  <2> QED  BY <2>4 DEF Promise!Next
<1> QED  BY <1>1, <1>2, <1>3

LEMMA RestartStep ==
  ASSUME IInv, Restart
  PROVE  IInv' /\ Promise!Next
<1>1. IInv'  BY DEF Restart, IInv, TypeOK, Steps, OpsFit, FoundOutHolds, AnswerIsTrue
<1>2. [v \in Users |-> Stage(step'[v])] = [v \in Users |-> "none"]  BY Stages DEF Restart
<1>3. Promise!Next  BY <1>2 DEF Restart, Promise!Next, Promise!Start
<1> QED  BY <1>1, <1>3

-----------------------------------------------------------------------------
LEMMA StepImplements ==
  ASSUME IInv, [Next]_vars
  PROVE  IInv' /\ [Promise!Next]_(Promise!vars)
<1>1. CASE UNCHANGED vars
  BY <1>1 DEF vars, IInv, TypeOK, OpsFit, FoundOutHolds, AnswerIsTrue, Group, Row, Promise!vars
<1>2. ASSUME NEW u \in Users, Serve(u)
      PROVE  IInv' /\ [Promise!Next]_(Promise!vars)
  BY <1>2, FailStep, CreateStep, EnrolStep, QueryStep, DropStep, InviteStep, TakeStep, ReplyStep DEF Serve
<1> QED  BY <1>1, <1>2, ReceiveStep, RestartStep DEF Next

\* Types, for any users and group names.
THEOREM TypeCorrect == Spec => []TypeOK
<1>1. IInv => TypeOK  BY DEF IInv
<1> QED  BY <1>1, InitHolds, StepImplements, PTL DEF Spec

\* Whoever is told that a group was created, or an invitation accepted, finds it
\* so, whatever other users' requests, failures and starts of the server did.
THEOREM AnswersAreTrue == Spec => []AnswerIsTrue
<1>1. IInv => AnswerIsTrue  BY DEF IInv
<1> QED  BY <1>1, InitHolds, StepImplements, PTL DEF Spec

\* Checking in one statement and acting in another is as good as doing both at
\* once, as long as every user has one session; and of a creation or an
\* acceptance both steps are done when success is answered.
THEOREM RequestsKeepPromise == Spec => PromiseKept
BY InitHolds, StepImplements, PTL DEF Spec, PromiseKept, Promise!Spec
=============================================================================

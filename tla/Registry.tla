------------------------------ MODULE Registry ------------------------------
(***************************************************************************)
(* What registration and login promise: a free name is taken in one step,  *)
(* by one password, for good; who is admitted gave the password of the     *)
(* account.  Accounts implements this.                                     *)
(***************************************************************************)
CONSTANTS Names, Passwords, NoPassword

VARIABLES
  account,     \* the password of each name, NoPassword while it is free
  admitted     \* the logins that were accepted, as <<name, password>>

vars == <<account, admitted>>

Init == account \in [Names -> Passwords \cup {NoPassword}] /\ admitted = {}

Register(n, pw) ==
  /\ account[n] = NoPassword
  /\ account' = [account EXCEPT ![n] = pw]
  /\ UNCHANGED admitted

Admit(n, pw) ==
  /\ account[n] = pw
  /\ admitted' = admitted \cup {<<n, pw>>}
  /\ UNCHANGED account

Next == \E n \in Names, pw \in Passwords : Register(n, pw) \/ Admit(n, pw)

Spec == Init /\ [][Next]_vars
=============================================================================

--------------------------- MODULE AccountContract ---------------------------
(***************************************************************************)
(* What the administration of accounts promises, without requests, steps,  *)
(* batches or columns: each change of a user is made once; who may not     *)
(* sign in any more is signed out with that very change; who is deleted    *)
(* for good is deleted once and never comes back; and only changes that    *)
(* were made are reported or logged.                                       *)
(***************************************************************************)
CONSTANTS Users, Changes

VARIABLES
  account,    \* per user: absent, open to sign-ins, closed to them, or erased
  signedIn,   \* users who are signed in
  made,       \* changes that were made, each with its user
  erasures,   \* those of them that erased the user
  told,       \* those that were reported as done
  logged      \* those with an audit row

outcome == <<erasures, told, logged>>
vars == <<account, signedIn, made, outcome>>

Standing == {"open", "closed"}

Init ==
  /\ account \in [Users -> Standing \cup {"absent"}]
  /\ signedIn = {} /\ made = {} /\ erasures = {} /\ told = {} /\ logged = {}

Make(c, u) ==
  /\ made' = made \cup {<<c, u>>}
  /\ \A x \in made : x[1] # c

Create(u) ==
  /\ account[u] = "absent"
  /\ \E a \in Standing : account' = [account EXCEPT ![u] = a]
  /\ UNCHANGED <<signedIn, outcome>>

Update(u) ==
  /\ account[u] \in Standing
  /\ \E a \in Standing :
       /\ account' = [account EXCEPT ![u] = a]
       /\ signedIn' \in {signedIn, signedIn \ {u}}
       /\ a = "closed" => u \notin signedIn'
  /\ UNCHANGED outcome

Erase(c, u) ==
  /\ account[u] \in Standing
  /\ account' = [account EXCEPT ![u] = "erased"]
  /\ signedIn' = signedIn \ {u}
  /\ erasures' = erasures \cup {<<c, u>>}
  /\ UNCHANGED <<told, logged>>

\* An update of a user who is erased meanwhile has nothing to write.
UpdateNobody(u) ==
  /\ account[u] = "erased"
  /\ UNCHANGED <<account, signedIn, outcome>>

Report(x) ==
  /\ told' \in {told, told \cup {x}} /\ logged' \in {logged, logged \cup {x}}
  /\ UNCHANGED <<account, signedIn, made, erasures>>

SignIn(u) ==
  /\ account[u] = "open"
  /\ signedIn' = signedIn \cup {u}
  /\ UNCHANGED <<account, made, outcome>>

SignOut(u) ==
  /\ signedIn' = signedIn \ {u}
  /\ UNCHANGED <<account, made, outcome>>

Next ==
  \/ \E u \in Users : SignOut(u) \/ SignIn(u)
  \/ \E u \in Users, c \in Changes :
       /\ Make(c, u)
       /\ Create(u) \/ Update(u) \/ Erase(c, u) \/ UpdateNobody(u)
  \/ \E x \in made : Report(x)

Spec == Init /\ [][Next]_vars
=============================================================================

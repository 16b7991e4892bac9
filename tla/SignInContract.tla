--------------------------- MODULE SignInContract ---------------------------
(***************************************************************************)
(* What the sign-ins of an account promise, without tokens, locks or open  *)
(* transactions: a sign-in goes on, whatever replaces its tokens, until it *)
(* is signed out, alone, with its device or with all others, and then it   *)
(* is over for good.                                                       *)
(***************************************************************************)
CONSTANTS SignIns, Devices

VARIABLES
  on,     \* sign-ins going on, each with its device
  over    \* sign-ins that have ended

vars == <<on, over>>

Init == on = {} /\ over = {}

SignIn(s, d) ==
  /\ s \notin over /\ \A x \in on : x[1] # s
  /\ on' = on \cup {<<s, d>>}
  /\ UNCHANGED over

SignOut(S) ==
  /\ on' = on \ S
  /\ over' = over \cup {x[1] : x \in S}

LeaveDevice(d) == SignOut({x \in on : x[2] = d})

LeaveAll == SignOut(on)

Next ==
  \/ \E s \in SignIns, d \in Devices : SignIn(s, d)
  \/ \E x \in on : SignOut({x})
  \/ \E d \in Devices : LeaveDevice(d)
  \/ LeaveAll

Spec == Init /\ [][Next]_vars
=============================================================================

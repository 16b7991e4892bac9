---------------------------- MODULE CodeContract ----------------------------
(***************************************************************************)
(* What redemption promises of a code, without requests, snapshots, rows   *)
(* or devices: each use is given to another user, and no use comes back.   *)
(***************************************************************************)
EXTENDS Naturals

CONSTANTS Codes, Users, MaxUses

VARIABLES
  granted,   \* how often a code has been given to a user
  left,      \* uses a code has left
  erased     \* users deleted for good

vars == <<granted, left, erased>>

Init ==
  /\ granted = [c \in Codes |-> [u \in Users |-> 0]]
  /\ left = MaxUses
  /\ erased = {}

Give(c, u) ==
  /\ left[c] > 0 /\ granted[c][u] = 0 /\ u \notin erased
  /\ granted' = [granted EXCEPT ![c][u] = 1]
  /\ left' = [left EXCEPT ![c] = @ - 1]
  /\ UNCHANGED erased

\* The uses of an erased user stay used.
Erase(u) ==
  /\ u \notin erased
  /\ erased' = erased \cup {u}
  /\ UNCHANGED <<granted, left>>

Next == \E u \in Users : Erase(u) \/ \E c \in Codes : Give(c, u)

Spec == Init /\ [][Next]_vars
=============================================================================

-------------------------- MODULE BillingContract --------------------------
(***************************************************************************)
(* What the billing service promises for one account, without processes:   *)
(* a reservation freezes its estimate out of the available credits and     *)
(* ends once, charged at most that estimate or given back.                 *)
(***************************************************************************)
EXTENDS Integers

CONSTANTS BillIds, Costs, Opening, TopUps

VARIABLES balance, reserved, status, cost, actual

vars == <<balance, reserved, status, cost, actual>>

Init ==
  /\ balance = Opening /\ reserved = 0
  /\ status = [b \in BillIds |-> "none"]
  /\ cost = [b \in BillIds |-> 0]
  /\ actual = [b \in BillIds |-> 0]

Reserve(b, c) ==
  /\ status[b] = "none"
  /\ c <= balance - reserved
  /\ status' = [status EXCEPT ![b] = "pending"]
  /\ cost' = [cost EXCEPT ![b] = c]
  /\ reserved' = reserved + c
  /\ UNCHANGED <<balance, actual>>

\* The whole hold is lifted and the actual cost leaves the balance.
Charge(b, real) ==
  /\ status[b] = "pending"
  /\ status' = [status EXCEPT ![b] = "settled"]
  /\ actual' = [actual EXCEPT ![b] = real]
  /\ reserved' = reserved - cost[b]
  /\ balance' = balance - real
  /\ UNCHANGED cost

Release(b) ==
  /\ status[b] = "pending"
  /\ status' = [status EXCEPT ![b] = "refunded"]
  /\ reserved' = reserved - cost[b]
  /\ UNCHANGED <<balance, cost, actual>>

Grant(amount) ==
  /\ balance' = balance + amount
  /\ UNCHANGED <<reserved, status, cost, actual>>

Next ==
  \/ \E b \in BillIds : \/ Release(b)
                        \/ \E c \in Costs : Reserve(b, c)
                        \/ \E real \in 0 .. cost[b] : Charge(b, real)
  \/ \E amount \in TopUps : Grant(amount)

Spec == Init /\ [][Next]_vars
=============================================================================

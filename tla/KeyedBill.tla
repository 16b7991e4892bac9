----------------------------- MODULE KeyedBill -----------------------------
(***************************************************************************)
(* What Billing guarantees about the bill of an idempotency key, whatever  *)
(* interleaves with it: the interface PlatformAi relies on.                *)
(***************************************************************************)
CONSTANT Keys

VARIABLES
  bill,     \* status of the key's bill, "none" before the preauth
  paid,     \* keys whose bill has been charged
  lapsed    \* keys whose bill is past preauth_expires_at

vars == <<bill, paid, lapsed>>

Init ==
  /\ bill = [k \in Keys |-> "none"]
  /\ paid = {} /\ lapsed = {}

\* There is one bill for the key.
Open(k) ==
  /\ bill[k] = "none"
  /\ bill' = [bill EXCEPT ![k] = "pending"]
  /\ UNCHANGED <<paid, lapsed>>

\* Once and in time, though possibly after a refund the commit did not see.
Pay(k) ==
  /\ bill[k] \in {"pending", "refunded"}
  /\ k \notin paid /\ k \notin lapsed
  /\ bill' = [bill EXCEPT ![k] = "settled"]
  /\ paid' = paid \cup {k}
  /\ UNCHANGED lapsed

\* Refunded or released; a charged bill only once it has lapsed.
End(k) ==
  /\ bill[k] = "pending" \/ (bill[k] = "settled" /\ k \in lapsed)
  /\ bill' = [bill EXCEPT ![k] = "refunded"]
  /\ UNCHANGED <<paid, lapsed>>

Lapse(k) ==
  /\ bill[k] # "none"
  /\ lapsed' = lapsed \cup {k}
  /\ UNCHANGED <<bill, paid>>

Next == \E k \in Keys : Open(k) \/ Pay(k) \/ End(k) \/ Lapse(k)

Spec == Init /\ [][Next]_vars
=============================================================================

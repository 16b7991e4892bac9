--------------------------- MODULE BillingKeyed ---------------------------
(***************************************************************************)
(* Billing as its callers see it: one bill per idempotency key.            *)
(***************************************************************************)
EXTENDS Billing

HasBill(k) == \E b \in BillIds : billKey[b] = k
BillOf(k) == CHOOSE b \in BillIds : billKey[b] = k

KeyBill == [k \in Keys |-> IF HasBill(k) THEN status[BillOf(k)] ELSE "none"]
KeysPaid == {k \in Keys : <<"billing.settle", k>> \in idem}
KeysLapsed == {k \in Keys : HasBill(k) /\ BillOf(k) \in lapsed}

Keyed == INSTANCE KeyedBill WITH bill <- KeyBill, paid <- KeysPaid, lapsed <- KeysLapsed

\* Under all interleavings the bill of a key is opened once, charged at most once
\* and in time, and never pending again: what the AI pipeline builds on.
ImplementsKeyedBill == Keyed!Spec
=============================================================================

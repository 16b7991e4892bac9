----------------------------- MODULE MCBilling -----------------------------
(***************************************************************************)
(* Model checking of Billing: the symmetry of its model values, and what   *)
(* the repository's documentation and tests say of the account, as far as  *)
(* its interleavings keep it and where they do not.                        *)
(***************************************************************************)
EXTENDS BillingKeyed, TLC

\* Bills, sessions and keys are each interchangeable; liveness runs use no symmetry.
Symmetry == Permutations(BillIds) \cup Permutations(Sessions) \cup Permutations(Keys)

\* A bill that was settled or refunded is neither refunded, charged nor released any
\* more (BILL_ALREADY_SETTLED, BILL_NOT_PENDING).
Closed(b) == status[b] \in {"settled", "refunded"}
ClosedIsFinal ==
  [][\A b \in BillIds :
       Closed(b) => <<status[b], charged[b], held[b]>>' = <<status[b], charged[b], held[b]>>]_vars
=============================================================================

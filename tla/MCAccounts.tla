----------------------------- MODULE MCAccounts -----------------------------
(***************************************************************************)
(* Model checking of Accounts and Resources.                               *)
(***************************************************************************)
EXTENDS Resources, TLC

Symmetry == Permutations(Users) \cup Permutations(Requests) \cup Permutations(Versions)

\* Bounds: one request of two is a batch; one user at a time redeems a code or holds a
\* ticket, beside requests for one user only - a batch is a series of the same transactions.
Batching == {p \in Requests : req[p] # None /\ req[p].batch}
Bound ==
  /\ Cardinality(Batching) <= 1
  /\ Cardinality(redeeming \cup coded) <= 1
  /\ redeeming \cup coded # {} => Batching = {}
  /\ ticket # None => \A p \in Requests : req[p] # None => req[p].todo = <<ticket.user>>
=============================================================================

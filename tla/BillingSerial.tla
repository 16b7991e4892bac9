--------------------------- MODULE BillingSerial ---------------------------
(***************************************************************************)
(* Billing with its requests served one at a time: no process starts while *)
(* another is between two transactions.  Time, crashes, expiry batches and *)
(* idempotency keys are as in Billing.  It implements BillingContract, so  *)
(* whatever Billing does beyond the contract comes from interleavings.     *)
(***************************************************************************)
EXTENDS Billing

Alone(p) == \A q \in Procs \ {p} : pc[q] = "idle"

SerialNext ==
  \/ \E s \in Sessions : Alone(s) /\ SessionNext(s)
  \/ Alone(Worker) /\ WorkerNext
  \/ (\A p \in Procs : pc[p] = "idle") /\ \E amount \in TopUps : GrantQuota(amount)
  \/ \E b \in BillIds : Lapse(b)
  \/ \E k \in Keys : KeyAges(k)
  \/ \E p \in Procs : Crash(p)

SerialSpec == Init /\ [][SerialNext]_vars

Contract == INSTANCE BillingContract

\* Every transaction of the service is one step of the contract, or changes none of
\* its variables: no hold released twice, no charge beyond a hold, no key row lost.
ImplementsContract == Contract!Spec

\* The holds are exactly the pending estimates, and the ledger of a bill agrees.
HoldsExact ==
  /\ reserved = Cardinality(HeldUnits(status, cost))
  /\ \A b \in BillIds : held[b] = IF status[b] = "pending" THEN cost[b] ELSE 0

\* A rollback of _recordIdempotency never undoes a write the caller reported, and
\* the row constraints never refuse a settlement.
NoWriteRefused ==
  \A b \in BillIds : status[b] = "pending" =>
    /\ \A op \in {"billing.settle", "billing.expire_preauth", "billing.refund"} : ~Conflict(op, b)
    /\ \A real \in RealCosts(b) : RowAllowed(balance - real, Lifted(b))
=============================================================================

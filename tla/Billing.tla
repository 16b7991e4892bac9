------------------------------- MODULE Billing -------------------------------
(***************************************************************************)
(* The prepaid credit account of one user: app/services/billing_service.py *)
(* with the routes of app/routers/billing.py, the expiry worker of         *)
(* scripts/ and the two ways credits are added.                            *)
(*                                                                         *)
(* A transaction that first locks the rows it writes (SELECT ... FOR       *)
(* UPDATE) and holds the locks to its commit is one action.  A process     *)
(* interleaves with the others wherever the code gives its locks up or     *)
(* never took one:                                                         *)
(*   - between the unlocked read of a bill and the settlement of it;       *)
(*   - between the lookup of an idempotency key and the reservation;       *)
(*   - between two refunds of one expiry batch: each refund commits, which *)
(*     releases the locks on the rest of the batch;                        *)
(*   - between the unlocked read of the balance and the admin's grant.     *)
(*                                                                         *)
(* An object a session still holds is not refreshed by a later SELECT of   *)
(* its row (no populate_existing, expire_on_commit=False in app/db.py), so *)
(* a process decides on the status it PINNED, not on the row, until a      *)
(* rollback expires the object.                                            *)
(***************************************************************************)
EXTENDS Integers, FiniteSets

CONSTANTS
  Sessions,        \* request sessions (server threads) that can be open at once
  Worker,          \* the maintenance worker's session
  BillIds,         \* bill identities; bounds the number of preauths
  Keys,            \* Idempotency-Key values clients send
  NoKey,           \* no header: the bill gets the unique key "auto:<billId>"
  Costs, MaxCost,  \* quotes the price table can give, and the largest
  Origins,         \* operations a bill can be preauthorised under
  Opening,         \* the balance the user starts with
  TopUps,          \* amounts of a grant
  MaxGranted       \* bound: no grant beyond this total

ASSUME SessionsAssumption == Worker \notin Sessions
ASSUME KeysAssumption == NoKey \notin Keys
ASSUME CostsAssumption == MaxCost \in Nat /\ Costs \subseteq 0 .. MaxCost
ASSUME MoneyAssumption == /\ Opening \in Nat
                          /\ TopUps \subseteq Nat
                          /\ MaxGranted \in Nat
ASSUME OriginsAssumption == Origins \subseteq {"billing.preauth", "platform_ai.preauth"}
ASSUME BillIdsAssumption == IsFiniteSet(BillIds)

VARIABLES
  balance, reserved,   \* user_balance
  status,              \* bills.status; "none": no such row yet
  billKey, cost,       \* bills.idempotency_key, bills.estimated_cost
  origin, actual,      \* the operation that created the bill; bills.actual_cost
  lapsed,              \* bills whose preauth_expires_at has passed
  idem,                \* idempotency_keys rows, as <<operation, key>>
  oldKeys,             \* keys whose 24 h idempotency window is over
  charged, held,       \* per bill, -sum of balance_delta and sum of reserved_delta in balance_ledger
  ledgerGranted,       \* sum of the grant rows of balance_ledger
  pc, pins, req, seen  \* per process: where it is, bill statuses it holds, its
                       \* preauth request, the balance it read

rows == <<balance, reserved, status, billKey, cost, origin, actual, idem, charged, held, ledgerGranted>>
clock == <<lapsed, oldKeys>>
local == <<pc, pins, req, seen>>
vars == <<rows, clock, local>>

Procs == Sessions \cup {Worker}
Status == {"none", "pending", "settled", "refunded"}
Pin == Status \cup {"unloaded"}   \* "none": not held; "unloaded": expired by a rollback
NoPins == [b \in BillIds |-> "none"]
Request == {r \in [origin : Origins, key : Keys \cup {NoKey}, cost : Costs] :
              r.origin = "platform_ai.preauth" => r.key # NoKey}
NoReq == [origin |-> "none", key |-> NoKey, cost |-> 0]
Operation == Origins \cup {"billing.settle", "billing.refund", "billing.expire_preauth",
                           "platform_ai.refund"}

Init ==
  /\ balance = Opening /\ reserved = 0
  /\ status = [b \in BillIds |-> "none"]
  /\ billKey = [b \in BillIds |-> NoKey]
  /\ cost = [b \in BillIds |-> 0]
  /\ origin = [b \in BillIds |-> "none"]
  /\ actual = [b \in BillIds |-> 0]
  /\ lapsed = {} /\ idem = {} /\ oldKeys = {}
  /\ charged = [b \in BillIds |-> 0]
  /\ held = [b \in BillIds |-> 0]
  /\ ledgerGranted = 0
  /\ pc = [p \in Procs |-> "idle"]
  /\ pins = [p \in Procs |-> NoPins]
  /\ req = [p \in Procs |-> NoReq]
  /\ seen = [p \in Procs |-> 0]

-----------------------------------------------------------------------------
(* The transactions of the service.                                        *)

\* max(0, x - y).  (Mutant: without the cut-off.)
MonusUncut(x, y) == x - y
Monus(x, y) == IF x >= y THEN x - y ELSE 0

\* The (operation, key) row is there already: its insert fails and _recordIdempotency
\* rolls back all the transaction had flushed, while its caller reports success.
\* (Mutant: the insert ignores duplicates.)
ConflictIgnored(op, b) == FALSE
Conflict(op, b) == billKey[b] # NoKey /\ <<op, billKey[b]>> \in idem
Recorded(op, b) == IF billKey[b] = NoKey THEN idem ELSE idem \cup {<<op, billKey[b]>>}

\* reserved without the bill's hold.  (Mutant: lifts actual_cost instead.)
LiftedActual(b) == Monus(reserved, actual[b])
Lifted(b) == Monus(reserved, cost[b])

\* refund() once it has found the bill pending: the hold is given back.
RefundTxn(op, b) ==
  \/ /\ Conflict(op, b)
     /\ UNCHANGED rows
  \/ /\ ~Conflict(op, b)
     /\ reserved' = Lifted(b)
     /\ status' = [status EXCEPT ![b] = "refunded"]
     /\ held' = [held EXCEPT ![b] = @ - cost[b]]
     /\ idem' = Recorded(op, b)
     /\ UNCHANGED <<balance, billKey, cost, origin, actual, charged, ledgerGranted>>

\* The columns are UNSIGNED and CHECK (reserved <= balance).
RowAllowed(bal, res) == bal >= 0 /\ res <= bal

\* settle() once it has found the bill pending and in time.
SettleTxn(b, real) ==
  \/ /\ Conflict("billing.settle", b) \/ ~RowAllowed(balance - real, Lifted(b))
     /\ UNCHANGED rows
  \/ /\ ~Conflict("billing.settle", b)
     /\ RowAllowed(balance - real, Lifted(b))
     /\ reserved' = Lifted(b)
     /\ balance' = balance - real
     /\ status' = [status EXCEPT ![b] = "settled"]
     /\ actual' = [actual EXCEPT ![b] = real]
     /\ charged' = [charged EXCEPT ![b] = @ + real]
     /\ held' = [held EXCEPT ![b] = @ - cost[b]]
     /\ idem' = Recorded("billing.settle", b)
     /\ UNCHANGED <<billKey, cost, origin, ledgerGranted>>

-----------------------------------------------------------------------------
(* Sessions.                                                               *)

Close(p) ==
  /\ pc' = [pc EXCEPT ![p] = "idle"]
  /\ pins' = [pins EXCEPT ![p] = NoPins]
  /\ req' = [req EXCEPT ![p] = NoReq]
  /\ seen' = [seen EXCEPT ![p] = 0]

\* What follows the expiry batch: the rest of preauth(), or nothing (/me, worker).
After(r) == IF r = NoReq THEN "idle" ELSE IF r.key = NoKey THEN "reserve" ELSE "lookup"

-----------------------------------------------------------------------------
(* releaseExpiredPreauths: the batch.                                      *)

\* pending and past preauth_expires_at.  (Mutant: skips the "auto:" bills.)
ExpiredKeyed == {b \in BillIds : status[b] = "pending" /\ b \in lapsed /\ billKey[b] # NoKey}
Expired == {b \in BillIds : status[b] = "pending" /\ b \in lapsed}

\* One refund of process p's batch; v are the statuses it holds, r its request.
\* The commit keeps the other objects as they are, a rollback expires them.
ReleaseOne(p, b, v, r) ==
  LET rest == [v EXCEPT ![b] = "none"]
      kept == IF Conflict("billing.expire_preauth", b)
              THEN [c \in BillIds |-> IF rest[c] = "none" THEN "none" ELSE "unloaded"]
              ELSE rest
  IN  /\ RefundTxn("billing.expire_preauth", b)
      /\ pins' = [pins EXCEPT ![p] = kept]
      /\ pc' = [pc EXCEPT ![p] = IF rest = NoPins THEN After(r) ELSE "releasing"]
      /\ req' = [req EXCEPT ![p] = r]
      /\ UNCHANGED <<clock, seen>>

\* The locking SELECT and the first refund, under the locks of the SELECT.
ReleaseFirst(p, r) ==
  /\ pc[p] = "idle"
  /\ \E b \in Expired :
       ReleaseOne(p, b, [c \in BillIds |-> IF c \in Expired THEN "pending" ELSE "none"], r)

\* A later refund of the batch, which locks the row again but decides on the pin.
ReleaseNext(p) ==
  /\ pc[p] = "releasing"
  /\ \E b \in BillIds : pins[p][b] = "pending" /\ ReleaseOne(p, b, pins[p], req[p])

\* After a rollback, reading bill.billId loads the row again, without a lock.
ReleaseReload(p) ==
  /\ pc[p] = "releasing"
  /\ \A c \in BillIds : pins[p][c] \in {"none", "unloaded"}
  /\ \E b \in BillIds : /\ pins[p][b] = "unloaded"
                        /\ pins' = [pins EXCEPT ![p][b] = status[b]]
  /\ UNCHANGED <<rows, clock, pc, req, seen>>

\* refund() raises BILL_NOT_PENDING or BILL_ALREADY_SETTLED: the batch is abandoned.
ReleaseRefused(p) ==
  /\ pc[p] = "releasing"
  /\ \E b \in BillIds : pins[p][b] \in {"settled", "refunded"}
  /\ Close(p)
  /\ UNCHANGED <<rows, clock>>

-----------------------------------------------------------------------------
(* preauth.                                                                *)

\* No expired bill to release first.
PreauthStart(s, r) ==
  /\ pc[s] = "idle" /\ Expired = {}
  /\ pc' = [pc EXCEPT ![s] = After(r)]
  /\ req' = [req EXCEPT ![s] = r]
  /\ UNCHANGED <<rows, clock, pins, seen>>

\* _findIdempotencyHit, without a lock.  A row in its window answers: the recorded
\* bill for the same request, IDEMPOTENCY_CONFLICT for another body.
KeyHit(r) == <<r.origin, r.key>> \in idem /\ r.key \notin oldKeys

PreauthLookup(s) ==
  /\ pc[s] = "lookup"
  /\ IF KeyHit(req[s])
     THEN Close(s)
     ELSE pc' = [pc EXCEPT ![s] = "reserve"] /\ UNCHANGED <<pins, req, seen>>
  /\ UNCHANGED <<rows, clock>>

\* UNIQUE (user_id, idempotency_key) on bills, and the unique key of idempotency_keys.
\* (Mutant: neither constraint.)
KeyTakenUnchecked(r) == FALSE
KeyTaken(r) ==
  /\ r.key # NoKey
  /\ \/ \E b \in BillIds : status[b] # "none" /\ billKey[b] = r.key
     \/ <<r.origin, r.key>> \in idem

\* Under the lock on the balance: reserve the quote, insert bill, ledger and key rows.
PreauthReserve(s) ==
  /\ pc[s] = "reserve"
  /\ balance - reserved >= req[s].cost
  /\ ~KeyTaken(req[s])
  /\ \E b \in BillIds :
       /\ status[b] = "none"
       /\ status' = [status EXCEPT ![b] = "pending"]
       /\ billKey' = [billKey EXCEPT ![b] = req[s].key]
       /\ cost' = [cost EXCEPT ![b] = req[s].cost]
       /\ origin' = [origin EXCEPT ![b] = req[s].origin]
       /\ held' = [held EXCEPT ![b] = req[s].cost]
  /\ reserved' = reserved + req[s].cost
  /\ idem' = IF req[s].key = NoKey THEN idem ELSE idem \cup {<<req[s].origin, req[s].key>>}
  /\ Close(s)
  /\ UNCHANGED <<balance, actual, charged, ledgerGranted, clock>>

\* INSUFFICIENT_BALANCE, or the insert of the bill violates the unique key.
PreauthFails(s) ==
  /\ pc[s] = "reserve"
  /\ balance - reserved < req[s].cost \/ KeyTaken(req[s])
  /\ Close(s)
  /\ UNCHANGED <<rows, clock>>

-----------------------------------------------------------------------------
(* Settlement and refund.                                                  *)

\* settleFixed, settleMetered and settleTokens read the bill without a lock and
\* keep it.  A bill read settled or refunded changes nothing, so it opens nothing.
CommitRead(s, b) ==
  /\ pc[s] = "idle"
  /\ status[b] = "pending"
  /\ pc' = [pc EXCEPT ![s] = "commit"]
  /\ pins' = [pins EXCEPT ![s][b] = status[b]]
  /\ UNCHANGED <<rows, clock, req, seen>>

\* Fixed and metered bills cost their quote; a token bill what the provider
\* reports, capped at the quote.
\* (Mutant: not capped.)
RealCostsUncapped(b) == 0 .. cost[b] + 1
RealCosts(b) == IF origin[b] = "platform_ai.preauth" THEN 0 .. cost[b] ELSE {cost[b]}

\* settle() on the bill the session holds: it locks the row, but decides on the pin.
\* (Mutant: without the check of preauth_expires_at.)
CommitSettleLate(s) ==
  /\ pc[s] = "commit"
  /\ \E b \in BillIds : pins[s][b] = "pending" /\ \E real \in RealCosts(b) : SettleTxn(b, real)
  /\ Close(s)
  /\ UNCHANGED clock

CommitSettle(s) ==
  /\ pc[s] = "commit"
  /\ \E b \in BillIds :
       /\ pins[s][b] = "pending"
       /\ IF b \in lapsed
          THEN RefundTxn("billing.expire_preauth", b)
          ELSE \E real \in RealCosts(b) : SettleTxn(b, real)
  /\ Close(s)
  /\ UNCHANGED clock

\* refund() on a bill the session does not hold: read under the lock.
RefundOps(b) == {"billing.refund"} \cup
                IF origin[b] = "platform_ai.preauth" THEN {"platform_ai.refund"} ELSE {}

\* (Mutant: the status is not checked.)
RefundUnchecked(s, b) ==
  /\ pc[s] = "idle" /\ status[b] # "none"
  /\ \E op \in RefundOps(b) : RefundTxn(op, b)
  /\ UNCHANGED <<clock, local>>

Refund(s, b) ==
  /\ pc[s] = "idle"
  /\ status[b] = "pending"
  /\ \E op \in RefundOps(b) : RefundTxn(op, b)
  /\ UNCHANGED <<clock, local>>

-----------------------------------------------------------------------------
(* Credits added.                                                          *)

\* _grantQuotaInternal: under the lock on the balance.  (Mutant: without a ledger row.)
GrantQuotaUnlogged(amount) ==
  /\ ledgerGranted + amount <= MaxGranted
  /\ balance' = balance + amount
  /\ UNCHANGED <<reserved, status, billKey, cost, origin, actual, idem, charged, held, ledgerGranted, clock, local>>

GrantQuota(amount) ==
  /\ ledgerGranted + amount <= MaxGranted
  /\ balance' = balance + amount
  /\ ledgerGranted' = ledgerGranted + amount
  /\ UNCHANGED <<reserved, status, billKey, cost, origin, actual, idem, charged, held, clock, local>>

\* The admin's grantBalance reads the balance without a lock ...
GrantRead(s) ==
  /\ pc[s] = "idle"
  /\ pc' = [pc EXCEPT ![s] = "grant"]
  /\ seen' = [seen EXCEPT ![s] = balance]
  /\ UNCHANGED <<rows, clock, pins, req>>

\* ... and writes the sum, if the row constraints let it.
GrantWrite(s, amount) ==
  /\ pc[s] = "grant"
  /\ ledgerGranted + amount <= MaxGranted
  /\ IF RowAllowed(seen[s] + amount, reserved)
     THEN /\ balance' = seen[s] + amount
          /\ ledgerGranted' = ledgerGranted + amount
          /\ UNCHANGED <<reserved, status, billKey, cost, origin, actual, idem, charged, held>>
     ELSE UNCHANGED rows
  /\ Close(s)
  /\ UNCHANGED clock

-----------------------------------------------------------------------------
(* Time and failure.                                                       *)

\* preauth_expires_at (15 minutes) and the key's window (24 hours) pass.
Lapse(b) ==
  /\ status[b] # "none" /\ b \notin lapsed
  /\ lapsed' = lapsed \cup {b}
  /\ UNCHANGED <<rows, oldKeys, local>>

KeyAges(k) ==
  /\ k \notin oldKeys
  /\ \E b \in lapsed : billKey[b] = k
  /\ oldKeys' = oldKeys \cup {k}
  /\ UNCHANGED <<rows, lapsed, local>>

\* A process dies, loses its connection or is a deadlock victim: its open
\* transaction is rolled back, the ones it committed stay.
Crash(p) ==
  /\ pc[p] # "idle"
  /\ Close(p)
  /\ UNCHANGED <<rows, clock>>

-----------------------------------------------------------------------------
Release(p) == ReleaseNext(p) \/ ReleaseReload(p) \/ ReleaseRefused(p)

SessionNext(s) ==
  \/ \E r \in Request : PreauthStart(s, r)
  \/ \E r \in Request \cup {NoReq} : ReleaseFirst(s, r)   \* NoReq: GET /me
  \/ Release(s)
  \/ PreauthLookup(s) \/ PreauthReserve(s) \/ PreauthFails(s)
  \/ \E b \in BillIds : CommitRead(s, b) \/ Refund(s, b)
  \/ CommitSettle(s)
  \/ GrantRead(s) \/ \E amount \in TopUps : GrantWrite(s, amount)

WorkerNext == ReleaseFirst(Worker, NoReq) \/ Release(Worker)

Next ==
  \/ \E s \in Sessions : SessionNext(s)
  \/ WorkerNext
  \/ \E amount \in TopUps : GrantQuota(amount)
  \/ \E b \in BillIds : Lapse(b)
  \/ \E k \in Keys : KeyAges(k)
  \/ \E p \in Procs : Crash(p)

Spec == Init /\ [][Next]_vars

\* The worker runs a batch every MAINTENANCE_INTERVAL_SEC, for ever; time passes.
FairSpec == Spec /\ WF_vars(WorkerNext) /\ \A b \in BillIds : WF_vars(Lapse(b))

-----------------------------------------------------------------------------
(* Properties.                                                             *)

RowsOK ==
  /\ balance \in Nat /\ reserved \in Nat /\ ledgerGranted \in Nat
  /\ status \in [BillIds -> Status]
  /\ billKey \in [BillIds -> Keys \cup {NoKey}]
  /\ cost \in [BillIds -> 0 .. MaxCost] /\ actual \in [BillIds -> Nat]
  /\ charged \in [BillIds -> Nat] /\ held \in [BillIds -> Int]
  /\ origin \in [BillIds -> Origins \cup {"none"}]
  /\ idem \subseteq Operation \X Keys

ClockOK == lapsed \subseteq BillIds /\ oldKeys \subseteq Keys

LocalsOK ==
  /\ pc \in [Procs -> {"idle", "lookup", "reserve", "releasing", "commit", "grant"}]
  /\ pins \in [Procs -> [BillIds -> Pin]]
  /\ req \in [Procs -> Request \cup {NoReq}]
  /\ seen \in [Procs -> Nat]

\* The columns and the sessions' locals are well typed; no credit column goes
\* below zero, although max(0, ...) and stale writes are involved.
TypeOK == RowsOK /\ ClockOK /\ LocalsOK

\* However requests with the same Idempotency-Key interleave, and after the key's
\* window is over, at most one bill exists for it (preauth, two tables, no lock
\* between the lookup and the insert).
OneBillPerKey ==
  \A b, c \in BillIds :
    billKey[b] # NoKey /\ billKey[b] = billKey[c] => b = c

\* A bill created under an Idempotency-Key is charged at most once, and exactly the
\* actual cost it shows, although concurrent commits all decide on a stale
\* "pending": only the unique (operation, key) row stops the second one (settle).
KeyedBillChargedOnce ==
  \A b \in BillIds :
    billKey[b] # NoKey =>
      charged[b] = IF <<"billing.settle", billKey[b]>> \in idem THEN actual[b] ELSE 0

\* The bills an expiry batch still has to release were given up by its locks, and
\* any of them may be refunded meanwhile, but none is ever charged: so a batch
\* never hands back the hold of a bill that was paid for (releaseExpiredPreauths).
BatchNeverHoldsPaidBill ==
  \A p \in Procs : pc[p] = "releasing" =>
    \A b \in BillIds : pins[p][b] # "none" => status[b] \in {"pending", "refunded"}

\* What makes the three inductive.  Rows: a bill id not used yet has no key and no
\* charge, and every idempotency row belongs to a bill's key.
FreshBills == \A b \in BillIds : status[b] = "none" => billKey[b] = NoKey /\ charged[b] = 0
KeyRowsHaveBills == \A row \in idem : \E b \in BillIds : billKey[b] = row[2]
RowInv == FreshBills /\ KeyRowsHaveBills /\ OneBillPerKey /\ KeyedBillChargedOnce

\* Locals: only existing bills are pinned, and a batch pins lapsed ones.
PinsExist == \A p \in Procs, b \in BillIds : pins[p][b] # "none" => status[b] # "none"
BatchLapsed ==
  \A p \in Procs : pc[p] = "releasing" =>
    \A b \in BillIds : pins[p][b] # "none" => b \in lapsed
PinInv == PinsExist /\ BatchLapsed /\ BatchNeverHoldsPaidBill

\* The inductive invariant: what is recorded agrees with the bills, and what a
\* process holds agrees with what can still happen to it.
AccountInv == TypeOK /\ RowInv /\ PinInv

\* The credits that pending bills hold, one unit per element.
HeldUnits(st, co) ==
  {u \in BillIds \X (1 .. MaxCost) : st[u[1]] = "pending" /\ u[2] <= co[u[1]]}

\* Nothing is frozen without a pending bill to release it: reserved never exceeds
\* the sum of the pending estimates, even when a hold is released twice.
HoldsBacked == reserved <= Cardinality(HeldUnits(status, cost))

\* A bill that left "pending" never returns to it, and the only way out of
\* "settled" is the refund of a lapsed bill (settle on a stale object).
StatusMovesForward ==
  [][\A b \in BillIds :
       /\ status'[b] = "pending" => status[b] \in {"none", "pending"}
       /\ status'[b] = "none" => status[b] = "none"
       /\ status[b] = "settled" /\ status'[b] # "settled" => b \in lapsed]_vars

\* The append-only ledger explains the balance (balance_ledger.py): every change of
\* user_balance comes with its row, in whatever order charges, refunds and grants commit.
\* The one change that does not is an admin's grant that writes a sum it read before another
\* one committed, and it is off by what that one had changed (grantBalance takes no lock).
ChargedUnits(ch) == UNION {{b} \X (1 .. ch[b]) : b \in BillIds}
Explained == ledgerGranted - Cardinality(ChargedUnits(charged))
LedgerMoves ==
  [][LET unexplained == (balance' - balance) - (Explained' - Explained)
     IN  \/ unexplained = 0
         \/ \E s \in Sessions : pc[s] = "grant" /\ pc'[s] = "idle" /\ unexplained = seen[s] - balance]_vars

\* Every reservation ends: charged, refunded, or released by the worker, even
\* if sessions and the worker keep dying between their transactions.
PendingEnds == \A b \in BillIds : status[b] = "pending" ~> status[b] # "pending"
=============================================================================

---------------------------- MODULE BillingProofs ----------------------------
(***************************************************************************)
(* Proofs about Billing, for every number of sessions, bills and keys.     *)
(***************************************************************************)
EXTENDS BillingKeyed, BillingSerial, FiniteSetTheorems, TLAPS

USE SessionsAssumption, KeysAssumption, CostsAssumption, MoneyAssumption, OriginsAssumption

\* Subtraction cut off at zero (max(0, ...) in the code) stays a natural number.
LEMMA MonusNat == \A x, y \in Nat : Monus(x, y) \in Nat
  BY DEF Monus

-----------------------------------------------------------------------------
(* Type correctness.                                                       *)

LEMMA InitType == Init => TypeOK
  BY DEF Init, TypeOK, NoPins, NoReq, Status, Pin, Procs, RowsOK, ClockOK, LocalsOK

LEMMA RefundTxnType ==
  ASSUME RowsOK, NEW b \in BillIds, NEW op \in Operation, RefundTxn(op, b)
  PROVE  RowsOK'
<1>1. CASE UNCHANGED rows
  BY <1>1 DEF RowsOK, rows
<1>2. CASE ~Conflict(op, b)
  <2>0. cost[b] \in Nat
    BY DEF RowsOK
  <2>1. reserved' \in Nat
    BY <1>2, <2>0, MonusNat DEF RefundTxn, Lifted, RowsOK, rows
  <2>2. status' \in [BillIds -> Status]
    BY <1>2 DEF RefundTxn, RowsOK, Status, rows
  <2>3. held' \in [BillIds -> Int]
    BY <1>2, <2>0 DEF RefundTxn, RowsOK, rows
  <2>4. idem' \subseteq Operation \X Keys
    BY <1>2 DEF RefundTxn, RowsOK, Recorded, rows
  <2>5. UNCHANGED <<balance, billKey, cost, origin, actual, charged, ledgerGranted>>
    BY <1>2 DEF RefundTxn, rows
  <2> QED BY <2>1, <2>2, <2>3, <2>4, <2>5 DEF RowsOK
<1> QED BY <1>1, <1>2 DEF RefundTxn

LEMMA SettleTxnType ==
  ASSUME RowsOK, NEW b \in BillIds, NEW real \in Nat, SettleTxn(b, real)
  PROVE  RowsOK'
<1>1. CASE UNCHANGED rows
  BY <1>1 DEF RowsOK, rows
<1>2. CASE /\ ~Conflict("billing.settle", b)
           /\ RowAllowed(balance - real, Lifted(b))
           /\ ~UNCHANGED rows
  <2>0. cost[b] \in Nat /\ balance \in Nat
    BY DEF RowsOK
  <2>1. reserved' \in Nat
    BY <1>2, <2>0, MonusNat DEF SettleTxn, Lifted, RowsOK
  <2>2. balance' \in Nat
    BY <1>2, <2>0 DEF SettleTxn, RowAllowed
  <2>3. status' \in [BillIds -> Status]
    BY <1>2 DEF SettleTxn, RowsOK, Status
  <2>4. actual' \in [BillIds -> Nat] /\ charged' \in [BillIds -> Nat] /\ held' \in [BillIds -> Int]
    BY <1>2, <2>0 DEF SettleTxn, RowsOK
  <2>5. idem' \subseteq Operation \X Keys
    BY <1>2 DEF SettleTxn, RowsOK, Recorded, Operation
  <2>6. UNCHANGED <<billKey, cost, origin, ledgerGranted>>
    BY <1>2 DEF SettleTxn
  <2> QED BY <2>1, <2>2, <2>3, <2>4, <2>5, <2>6 DEF RowsOK
<1> QED BY <1>1, <1>2 DEF SettleTxn

LEMMA CloseType ==
  ASSUME LocalsOK, NEW p \in Procs, Close(p)
  PROVE  LocalsOK'
  BY DEF LocalsOK, Close, NoPins, Pin, Status

LEMMA ReleaseOneType ==
  ASSUME TypeOK, NEW p \in Procs, NEW b \in BillIds, NEW v \in [BillIds -> Pin],
         NEW r \in Request \cup {NoReq}, ReleaseOne(p, b, v, r)
  PROVE  TypeOK'
<1>1. RowsOK'
  BY RefundTxnType DEF ReleaseOne, Operation, TypeOK, RowsOK, ClockOK, LocalsOK
<1>2. ClockOK'
  BY DEF ReleaseOne, ClockOK, clock, TypeOK, RowsOK, LocalsOK
<1>3. LocalsOK'
  <2> DEFINE rest == [v EXCEPT ![b] = "none"]
             kept == IF Conflict("billing.expire_preauth", b)
                     THEN [c \in BillIds |-> IF rest[c] = "none" THEN "none" ELSE "unloaded"]
                     ELSE rest
  <2>1. kept \in [BillIds -> Pin]
    BY DEF Pin, Status
  <2>2. pins' \in [Procs -> [BillIds -> Pin]]
    BY <2>1 DEF ReleaseOne, LocalsOK, TypeOK, RowsOK, ClockOK
  <2>3. After(r) \in {"idle", "lookup", "reserve"}
    BY DEF After
  <2>4. pc' \in [Procs -> {"idle", "lookup", "reserve", "releasing", "commit", "grant"}]
    BY <2>3 DEF ReleaseOne, LocalsOK, TypeOK, RowsOK, ClockOK
  <2>5. req' \in [Procs -> Request \cup {NoReq}] /\ seen' \in [Procs -> Nat]
    BY DEF ReleaseOne, LocalsOK, TypeOK, RowsOK, ClockOK
  <2> QED BY <2>2, <2>4, <2>5 DEF LocalsOK
<1> QED BY <1>1, <1>2, <1>3 DEF TypeOK, RowsOK, ClockOK, LocalsOK

LEMMA ReleaseFirstType ==
  ASSUME TypeOK, NEW p \in Procs, NEW r \in Request \cup {NoReq}, ReleaseFirst(p, r)
  PROVE  TypeOK'
<1> DEFINE v == [c \in BillIds |-> IF c \in Expired THEN "pending" ELSE "none"]
<1>1. PICK b \in Expired : ReleaseOne(p, b, v, r)
  BY DEF ReleaseFirst
<1>2. b \in BillIds /\ v \in [BillIds -> Pin]
  BY DEF Expired, Pin, Status
<1> HIDE DEF v
<1> QED BY <1>1, <1>2, ReleaseOneType

LEMMA RequestFields ==
  \A r \in Request \cup {NoReq} :
    /\ r.origin \in Origins \cup {"none"} /\ r.key \in Keys \cup {NoKey} /\ r.cost \in 0 .. MaxCost
    /\ r.key # NoKey => r.origin \in Origins /\ r.key \in Keys
<1>1. \A r \in Request : r.origin \in Origins /\ r.key \in Keys \cup {NoKey} /\ r.cost \in Costs
  BY DEF Request
<1>2. NoReq.origin = "none" /\ NoReq.key = NoKey /\ NoReq.cost = 0
  BY DEF NoReq
<1>3. 0 \in 0 .. MaxCost /\ Costs \subseteq 0 .. MaxCost
  OBVIOUS
<1>4. TAKE r \in Request \cup {NoReq}
<1>5. CASE r \in Request
  BY <1>1, <1>3, <1>5
<1>6. CASE r = NoReq
  BY <1>2, <1>3, <1>6
<1> QED BY <1>5, <1>6

LEMMA ReserveType ==
  ASSUME TypeOK, NEW s \in Procs, PreauthReserve(s)
  PROVE  TypeOK'
<1> DEFINE r == req[s]
<1>1. /\ r.origin \in Origins \cup {"none"} /\ r.key \in Keys \cup {NoKey} /\ r.cost \in 0 .. MaxCost
      /\ r.key # NoKey => r.origin \in Origins /\ r.key \in Keys
  BY RequestFields DEF TypeOK, RowsOK, ClockOK, LocalsOK
<1> HIDE DEF r
<1>2. RowsOK'
  <2>1. reserved' \in Nat
    BY <1>1 DEF PreauthReserve, TypeOK, r, RowsOK, ClockOK, LocalsOK
  <2>2. PICK b \in BillIds :
           /\ status' = [status EXCEPT ![b] = "pending"]
           /\ billKey' = [billKey EXCEPT ![b] = r.key]
           /\ cost' = [cost EXCEPT ![b] = r.cost]
           /\ origin' = [origin EXCEPT ![b] = r.origin]
           /\ held' = [held EXCEPT ![b] = r.cost]
    BY DEF PreauthReserve, r
  <2>3. status' \in [BillIds -> Status] /\ billKey' \in [BillIds -> Keys \cup {NoKey}]
    BY <2>2, <1>1 DEF TypeOK, Status, RowsOK, ClockOK, LocalsOK
  <2>4. cost' \in [BillIds -> 0 .. MaxCost] /\ held' \in [BillIds -> Int]
    BY <2>2, <1>1 DEF TypeOK, RowsOK, ClockOK, LocalsOK
  <2>5. origin' \in [BillIds -> Origins \cup {"none"}]
    BY <2>2, <1>1 DEF TypeOK, RowsOK, ClockOK, LocalsOK
  <2>6. idem' \subseteq Operation \X Keys
    BY <1>1 DEF PreauthReserve, TypeOK, Operation, r, RowsOK, ClockOK, LocalsOK
  <2>7. UNCHANGED <<balance, actual, charged, ledgerGranted>>
    BY DEF PreauthReserve
  <2> QED BY <2>1, <2>3, <2>4, <2>5, <2>6, <2>7 DEF TypeOK, RowsOK, ClockOK, LocalsOK
<1>3. LocalsOK'
  BY CloseType DEF PreauthReserve, TypeOK, RowsOK, ClockOK, LocalsOK
<1>4. ClockOK'
  BY DEF PreauthReserve, ClockOK, clock, TypeOK, RowsOK, LocalsOK
<1> QED BY <1>2, <1>3, <1>4 DEF TypeOK, RowsOK, ClockOK, LocalsOK

LEMMA SessionType ==
  ASSUME TypeOK, NEW s \in Sessions, SessionNext(s)
  PROVE  TypeOK'
<1> s \in Procs
  BY DEF Procs
<1>1. ASSUME NEW r \in Request, PreauthStart(s, r) PROVE TypeOK'
  BY <1>1 DEF PreauthStart, TypeOK, After, rows, clock, RowsOK, ClockOK, LocalsOK
<1>2. ASSUME NEW r \in Request \cup {NoReq}, ReleaseFirst(s, r) PROVE TypeOK'
  BY <1>2, ReleaseFirstType
<1>3. ASSUME ReleaseNext(s) PROVE TypeOK'
  BY <1>3, ReleaseOneType DEF ReleaseNext, TypeOK, RowsOK, ClockOK, LocalsOK
<1>4. ASSUME ReleaseReload(s) PROVE TypeOK'
  BY <1>4 DEF ReleaseReload, TypeOK, Pin, rows, clock, RowsOK, ClockOK, LocalsOK
<1>5. CASE ReleaseRefused(s) \/ PreauthFails(s)
  <2> LocalsOK'
    BY <1>5, CloseType DEF ReleaseRefused, PreauthFails, TypeOK, RowsOK, ClockOK, LocalsOK
  <2> QED BY <1>5 DEF ReleaseRefused, PreauthFails, RowsOK, ClockOK, rows, clock, TypeOK, LocalsOK
<1>6. CASE PreauthLookup(s)
  <2> LocalsOK'
    <3>1. CASE Close(s)
      BY <3>1, CloseType DEF TypeOK, RowsOK, ClockOK, LocalsOK
    <3>2. CASE ~Close(s)
      BY <1>6, <3>2 DEF PreauthLookup, LocalsOK, TypeOK, RowsOK, ClockOK
    <3> QED BY <3>1, <3>2
  <2> QED BY <1>6 DEF PreauthLookup, RowsOK, ClockOK, rows, clock, TypeOK, LocalsOK
<1>7. CASE PreauthReserve(s)
  BY <1>7, ReserveType
<1>8. ASSUME NEW b \in BillIds, CommitRead(s, b) PROVE TypeOK'
  BY <1>8 DEF CommitRead, TypeOK, Pin, rows, clock, RowsOK, ClockOK, LocalsOK
<1>9. ASSUME NEW b \in BillIds, Refund(s, b) PROVE TypeOK'
  <2>1. RowsOK'
    BY <1>9, RefundTxnType DEF Refund, RefundOps, Operation, TypeOK, RowsOK, ClockOK, LocalsOK
  <2> QED BY <1>9, <2>1 DEF Refund, LocalsOK, ClockOK, local, clock, TypeOK, RowsOK
<1>10. CASE CommitSettle(s)
  <2>1. PICK b \in BillIds :
           IF b \in lapsed THEN RefundTxn("billing.expire_preauth", b)
           ELSE \E real \in RealCosts(b) : SettleTxn(b, real)
    BY <1>10 DEF CommitSettle
  <2>2. RealCosts(b) \subseteq Nat
    BY DEF RealCosts, TypeOK, RowsOK, ClockOK, LocalsOK
  <2>3. RowsOK'
    BY <2>1, <2>2, RefundTxnType, SettleTxnType DEF Operation, TypeOK, RowsOK, ClockOK, LocalsOK
  <2>4. LocalsOK'
    BY <1>10, CloseType DEF CommitSettle, TypeOK, RowsOK, ClockOK, LocalsOK
  <2> QED BY <1>10, <2>3, <2>4 DEF CommitSettle, ClockOK, clock, TypeOK, RowsOK, LocalsOK
<1>11. CASE GrantRead(s)
  BY <1>11 DEF GrantRead, TypeOK, rows, clock, RowsOK, ClockOK, LocalsOK
<1>12. ASSUME NEW amount \in TopUps, GrantWrite(s, amount) PROVE TypeOK'
  <2>1. LocalsOK'
    BY <1>12, CloseType DEF GrantWrite, TypeOK, RowsOK, ClockOK, LocalsOK
  <2>2. RowsOK'
    BY <1>12 DEF GrantWrite, TypeOK, RowsOK, rows, ClockOK, LocalsOK
  <2> QED BY <1>12, <2>1, <2>2 DEF GrantWrite, ClockOK, clock, TypeOK, RowsOK, LocalsOK
<1> QED
  BY <1>1, <1>2, <1>3, <1>4, <1>5, <1>6, <1>7, <1>8, <1>9, <1>10, <1>11, <1>12
  DEF SessionNext, Release

LEMMA NextType == TypeOK /\ [Next]_vars => TypeOK'
<1> SUFFICES ASSUME TypeOK, [Next]_vars PROVE TypeOK'
  OBVIOUS
<1>1. ASSUME NEW s \in Sessions, SessionNext(s) PROVE TypeOK'
  BY <1>1, SessionType
<1>2. CASE WorkerNext
  <2> Worker \in Procs
    BY DEF Procs
  <2>1. CASE ReleaseFirst(Worker, NoReq)
    BY <2>1, ReleaseFirstType
  <2>2. CASE ReleaseNext(Worker)
    BY <2>2, ReleaseOneType DEF ReleaseNext, TypeOK, RowsOK, ClockOK, LocalsOK
  <2>3. CASE ReleaseReload(Worker)
    BY <2>3 DEF ReleaseReload, TypeOK, Pin, rows, clock, RowsOK, ClockOK, LocalsOK
  <2>4. CASE ReleaseRefused(Worker)
    <3> LocalsOK'
      BY <2>4, CloseType DEF ReleaseRefused, TypeOK, RowsOK, ClockOK, LocalsOK
    <3> QED BY <2>4 DEF ReleaseRefused, RowsOK, ClockOK, rows, clock, TypeOK, LocalsOK
  <2> QED BY <1>2, <2>1, <2>2, <2>3, <2>4 DEF WorkerNext, Release
<1>3. ASSUME NEW amount \in TopUps, GrantQuota(amount) PROVE TypeOK'
  BY <1>3 DEF GrantQuota, TypeOK, clock, local, RowsOK, ClockOK, LocalsOK
<1>4. ASSUME NEW b \in BillIds, Lapse(b) PROVE TypeOK'
  BY <1>4 DEF Lapse, TypeOK, rows, local, RowsOK, ClockOK, LocalsOK
<1>5. ASSUME NEW k \in Keys, KeyAges(k) PROVE TypeOK'
  BY <1>5 DEF KeyAges, TypeOK, rows, local, RowsOK, ClockOK, LocalsOK
<1>6. ASSUME NEW p \in Procs, Crash(p) PROVE TypeOK'
  <2> LocalsOK'
    BY <1>6, CloseType DEF Crash, TypeOK, RowsOK, ClockOK, LocalsOK
  <2> QED BY <1>6 DEF Crash, RowsOK, ClockOK, rows, clock, TypeOK, LocalsOK
<1>7. CASE UNCHANGED vars
  BY <1>7 DEF TypeOK, vars, rows, clock, local, RowsOK, ClockOK, LocalsOK
<1> QED BY <1>1, <1>2, <1>3, <1>4, <1>5, <1>6, <1>7 DEF Next

\* Every reachable state of the account and its processes is well typed: no credit
\* column goes below zero, whatever the interleaving.
THEOREM TypeCorrect == Spec => []TypeOK
  BY InitType, NextType, PTL DEF Spec

-----------------------------------------------------------------------------
(* The steps, as far as statuses and pins go.                              *)

\* What one step may do to the status of a bill.
StatusStep ==
  \A b \in BillIds :
    \/ status'[b] = status[b]
    \/ status[b] = "none" /\ status'[b] = "pending"
    \/ status[b] = "pending" /\ status'[b] = "refunded"
    \/ status[b] # "none" /\ b \in lapsed /\ status'[b] = "refunded"
    \/ status[b] # "none" /\ b \notin lapsed /\ status'[b] = "settled"

LEMMA RefundStatus ==
  ASSUME TypeOK, NEW b \in BillIds, NEW op, RefundTxn(op, b),
         status[b] = "pending" \/ (status[b] # "none" /\ b \in lapsed)
  PROVE  StatusStep
<1>1. CASE UNCHANGED rows
  BY <1>1 DEF StatusStep, rows
<1>2. CASE ~UNCHANGED rows
  BY <1>2 DEF RefundTxn, StatusStep, TypeOK, RowsOK
<1> QED BY <1>1, <1>2

LEMMA SettleStatus ==
  ASSUME TypeOK, NEW b \in BillIds, NEW real, SettleTxn(b, real), status[b] # "none", b \notin lapsed
  PROVE  StatusStep
<1>1. CASE UNCHANGED rows
  BY <1>1 DEF StatusStep, rows
<1>2. CASE ~UNCHANGED rows
  BY <1>2 DEF SettleTxn, StatusStep, TypeOK, RowsOK
<1> QED BY <1>1, <1>2

LEMMA UnchangedStatus == UNCHANGED rows => StatusStep
  BY DEF rows, StatusStep

LEMMA ReleaseFirstStatus ==
  ASSUME TypeOK, NEW p \in Procs, NEW r, ReleaseFirst(p, r)
  PROVE  StatusStep
  BY RefundStatus DEF ReleaseFirst, ReleaseOne, Expired

LEMMA ReleaseStatus ==
  ASSUME TypeOK, PinInv, NEW p \in Procs, Release(p)
  PROVE  StatusStep
<1>1. CASE ReleaseNext(p)
  BY <1>1, RefundStatus DEF ReleaseNext, ReleaseOne, PinInv, PinsExist, BatchLapsed
<1>2. CASE ReleaseReload(p) \/ ReleaseRefused(p)
  BY <1>2, UnchangedStatus DEF ReleaseReload, ReleaseRefused, rows
<1> QED BY <1>1, <1>2 DEF Release

LEMMA SessionStatus ==
  ASSUME TypeOK, PinInv, NEW s \in Sessions, SessionNext(s)
  PROVE  StatusStep
<1> s \in Procs
  BY DEF Procs
<1>1. ASSUME NEW r \in Request \cup {NoReq}, ReleaseFirst(s, r) PROVE StatusStep
  BY <1>1, ReleaseFirstStatus
<1>2. CASE Release(s)
  BY <1>2, ReleaseStatus
<1>3. CASE PreauthReserve(s)
  BY <1>3 DEF PreauthReserve, StatusStep, TypeOK, RowsOK
<1>4. ASSUME NEW b \in BillIds, Refund(s, b) PROVE StatusStep
  BY <1>4, RefundStatus DEF Refund
<1>5. CASE CommitSettle(s)
  BY <1>5, RefundStatus, SettleStatus DEF CommitSettle, PinInv, PinsExist
<1>6. ASSUME NEW amount \in TopUps, GrantWrite(s, amount) PROVE StatusStep
  BY <1>6 DEF GrantWrite, StatusStep, rows
<1>7. CASE \/ \E r \in Request : PreauthStart(s, r)
           \/ PreauthLookup(s) \/ PreauthFails(s) \/ GrantRead(s)
           \/ \E b \in BillIds : CommitRead(s, b)
  BY <1>7, UnchangedStatus
  DEF PreauthStart, PreauthLookup, PreauthFails, GrantRead, CommitRead, rows
<1> QED BY <1>1, <1>2, <1>3, <1>4, <1>5, <1>6, <1>7 DEF SessionNext

LEMMA NextStatus == TypeOK /\ PinInv /\ [Next]_vars => StatusStep
<1> SUFFICES ASSUME TypeOK, PinInv, [Next]_vars PROVE StatusStep
  OBVIOUS
<1> Worker \in Procs
  BY DEF Procs
<1>1. CASE \E s \in Sessions : SessionNext(s)
  BY <1>1, SessionStatus
<1>2. CASE WorkerNext
  BY <1>2, ReleaseFirstStatus, ReleaseStatus DEF WorkerNext
<1>3. CASE \E amount \in TopUps : GrantQuota(amount)
  BY <1>3 DEF GrantQuota, StatusStep
<1>4. CASE \/ \E b \in BillIds : Lapse(b)
           \/ \E k \in Keys : KeyAges(k)
           \/ \E p \in Procs : Crash(p)
           \/ UNCHANGED vars
  BY <1>4, UnchangedStatus DEF Lapse, KeyAges, Crash, vars, rows
<1> QED BY <1>1, <1>2, <1>3, <1>4 DEF Next

\* What one step may do to the pins: a pin that was not there is on a pending bill,
\* and a batch pins nothing it did not hold except expired bills.
PinStep ==
  /\ lapsed \subseteq lapsed'
  /\ \A p \in Procs, b \in BillIds : pins'[p][b] # "none" =>
       \/ pins[p][b] # "none" /\ (pc'[p] = "releasing" => pc[p] = "releasing")
       \/ status[b] = "pending" /\ (pc'[p] = "releasing" => b \in lapsed)

LEMMA ClosePins ==
  ASSUME LocalsOK, NEW p \in Procs, Close(p), UNCHANGED lapsed
  PROVE  PinStep
  BY DEF LocalsOK, Close, NoPins, PinStep

LEMMA ReleaseOnePins ==
  ASSUME TypeOK, NEW p \in Procs, NEW b \in BillIds, NEW v \in [BillIds -> Pin], NEW r,
         ReleaseOne(p, b, v, r),
         \A c \in BillIds : v[c] # "none" =>
           \/ pins[p][c] # "none" /\ pc[p] = "releasing"
           \/ status[c] = "pending" /\ c \in lapsed
  PROVE  PinStep
<1> DEFINE rest == [v EXCEPT ![b] = "none"]
           kept == IF Conflict("billing.expire_preauth", b)
                   THEN [c \in BillIds |-> IF rest[c] = "none" THEN "none" ELSE "unloaded"]
                   ELSE rest
<1>1. \A c \in BillIds : kept[c] # "none" => v[c] # "none"
  OBVIOUS
<1>2. pins' = [pins EXCEPT ![p] = kept]
  BY DEF ReleaseOne
<1>3. \A q \in Procs \ {p} : pc'[q] = pc[q]
  BY DEF ReleaseOne, TypeOK, LocalsOK
<1> HIDE DEF kept
<1>4. \A q \in Procs : pins'[q] = IF q = p THEN kept ELSE pins[q]
  BY <1>2 DEF TypeOK, LocalsOK
<1>5. lapsed' = lapsed
  BY DEF ReleaseOne, clock
<1> QED BY <1>1, <1>3, <1>4, <1>5 DEF PinStep

LEMMA ReleaseFirstPins ==
  ASSUME TypeOK, NEW p \in Procs, NEW r, ReleaseFirst(p, r)
  PROVE  PinStep
<1> DEFINE v == [c \in BillIds |-> IF c \in Expired THEN "pending" ELSE "none"]
<1>1. PICK b \in Expired : ReleaseOne(p, b, v, r)
  BY DEF ReleaseFirst
<1>2. /\ b \in BillIds /\ v \in [BillIds -> Pin]
      /\ \A c \in BillIds : v[c] # "none" => status[c] = "pending" /\ c \in lapsed
  BY DEF Expired, Pin, Status
<1> HIDE DEF v
<1> QED BY <1>1, <1>2, ReleaseOnePins

LEMMA ReleasePins ==
  ASSUME TypeOK, NEW p \in Procs, Release(p)
  PROVE  PinStep
<1>1. CASE ReleaseNext(p)
  BY <1>1, ReleaseOnePins DEF ReleaseNext, TypeOK, LocalsOK
<1>2. CASE ReleaseReload(p)
  BY <1>2 DEF ReleaseReload, PinStep, TypeOK, LocalsOK, clock
<1>3. CASE ReleaseRefused(p)
  BY <1>3, ClosePins DEF ReleaseRefused, TypeOK, clock
<1> QED BY <1>1, <1>2, <1>3 DEF Release

LEMMA UnchangedPins == UNCHANGED <<lapsed, pc, pins>> => PinStep
  BY DEF PinStep

LEMMA SessionPins ==
  ASSUME TypeOK, NEW s \in Sessions, SessionNext(s)
  PROVE  PinStep
<1> s \in Procs
  BY DEF Procs
<1>1. ASSUME NEW r \in Request, PreauthStart(s, r) PROVE PinStep
  BY <1>1 DEF PreauthStart, PinStep, After, TypeOK, LocalsOK, clock
<1>2. ASSUME NEW r \in Request \cup {NoReq}, ReleaseFirst(s, r) PROVE PinStep
  BY <1>2, ReleaseFirstPins
<1>3. CASE Release(s)
  BY <1>3, ReleasePins
<1>4. CASE PreauthLookup(s)
  <2>1. CASE Close(s)
    BY <1>4, <2>1, ClosePins DEF PreauthLookup, TypeOK, clock
  <2>2. CASE ~Close(s)
    BY <1>4, <2>2 DEF PreauthLookup, PinStep, TypeOK, LocalsOK, clock
  <2> QED BY <2>1, <2>2
<1>5. CASE PreauthReserve(s) \/ PreauthFails(s) \/ CommitSettle(s)
  BY <1>5, ClosePins DEF PreauthReserve, PreauthFails, CommitSettle, TypeOK, clock
<1>6. ASSUME NEW b \in BillIds, CommitRead(s, b) PROVE PinStep
  BY <1>6 DEF CommitRead, PinStep, TypeOK, LocalsOK, clock
<1>7. ASSUME NEW b \in BillIds, Refund(s, b) PROVE PinStep
  BY <1>7, UnchangedPins DEF Refund, local, clock
<1>8. CASE GrantRead(s)
  BY <1>8 DEF GrantRead, PinStep, TypeOK, LocalsOK, clock
<1>9. ASSUME NEW amount \in TopUps, GrantWrite(s, amount) PROVE PinStep
  BY <1>9, ClosePins DEF GrantWrite, TypeOK, clock
<1> QED BY <1>1, <1>2, <1>3, <1>4, <1>5, <1>6, <1>7, <1>8, <1>9 DEF SessionNext

LEMMA NextPins == TypeOK /\ [Next]_vars => PinStep
<1> SUFFICES ASSUME TypeOK, [Next]_vars PROVE PinStep
  OBVIOUS
<1> Worker \in Procs
  BY DEF Procs
<1>1. CASE \E s \in Sessions : SessionNext(s)
  BY <1>1, SessionPins
<1>2. CASE WorkerNext
  BY <1>2, ReleaseFirstPins, ReleasePins DEF WorkerNext
<1>3. CASE \E b \in BillIds : Lapse(b)
  BY <1>3 DEF Lapse, PinStep, local
<1>4. CASE \E p \in Procs : Crash(p)
  BY <1>4, ClosePins DEF Crash, TypeOK, clock
<1>5. CASE \/ \E amount \in TopUps : GrantQuota(amount)
           \/ \E k \in Keys : KeyAges(k)
           \/ UNCHANGED vars
  BY <1>5, UnchangedPins DEF GrantQuota, KeyAges, vars, local, clock
<1> QED BY <1>1, <1>2, <1>3, <1>4, <1>5 DEF Next

\* The pins agree with the rows after every step.
LEMMA PinInvStep ==
  ASSUME TypeOK, PinInv, StatusStep, PinStep
  PROVE  PinInv'
  BY DEF PinInv, PinsExist, BatchLapsed, BatchNeverHoldsPaidBill, StatusStep, PinStep

-----------------------------------------------------------------------------
(* The rows.                                                               *)

LEMMA UnchangedRowInv == RowInv /\ UNCHANGED rows => RowInv'
  BY DEF RowInv, FreshBills, KeyRowsHaveBills, OneBillPerKey, KeyedBillChargedOnce, rows

\* A refund leaves keys and charges alone and records no "billing.settle".
LEMMA RefundRowInv ==
  ASSUME TypeOK, RowInv, NEW b \in BillIds, NEW op \in Operation \ {"billing.settle"},
         RefundTxn(op, b)
  PROVE  RowInv'
<1>1. CASE UNCHANGED rows
  BY <1>1, UnchangedRowInv
<1>2. CASE ~UNCHANGED rows
  <2>1. /\ status' = [status EXCEPT ![b] = "refunded"]
        /\ idem' = Recorded(op, b)
        /\ UNCHANGED <<billKey, actual, charged>>
    BY <1>2 DEF RefundTxn
  <2>2. FreshBills'
    BY <2>1 DEF RowInv, FreshBills, TypeOK, RowsOK
  <2>3. KeyRowsHaveBills'
    BY <2>1 DEF RowInv, KeyRowsHaveBills, Recorded
  <2>4. OneBillPerKey'
    BY <2>1 DEF RowInv, OneBillPerKey
  <2>5. \A k : <<"billing.settle", k>> \in idem' <=> <<"billing.settle", k>> \in idem
    BY <2>1 DEF Recorded
  <2>6. KeyedBillChargedOnce'
    BY <2>1, <2>5 DEF RowInv, KeyedBillChargedOnce
  <2> QED BY <2>2, <2>3, <2>4, <2>6 DEF RowInv
<1> QED BY <1>1, <1>2

\* A settlement that commits charges its bill, and for a keyed bill records it: the
\* row was not there before, so neither was a charge.
LEMMA SettleRowInv ==
  ASSUME TypeOK, RowInv, NEW b \in BillIds, NEW real \in Nat, SettleTxn(b, real),
         status[b] # "none"
  PROVE  RowInv'
<1>1. CASE UNCHANGED rows
  BY <1>1, UnchangedRowInv
<1>2. CASE ~UNCHANGED rows
  <2>1. /\ ~Conflict("billing.settle", b)
        /\ status' = [status EXCEPT ![b] = "settled"]
        /\ actual' = [actual EXCEPT ![b] = real]
        /\ charged' = [charged EXCEPT ![b] = @ + real]
        /\ idem' = Recorded("billing.settle", b)
        /\ UNCHANGED billKey
    BY <1>2 DEF SettleTxn
  <2>2. FreshBills'
    BY <2>1 DEF RowInv, FreshBills, TypeOK, RowsOK
  <2>3. KeyRowsHaveBills'
    BY <2>1 DEF RowInv, KeyRowsHaveBills, Recorded
  <2>4. OneBillPerKey'
    BY <2>1 DEF RowInv, OneBillPerKey
  <2>5. ASSUME NEW c \in BillIds, billKey[c] # NoKey
        PROVE  charged'[c] = IF <<"billing.settle", billKey[c]>> \in idem' THEN actual'[c] ELSE 0
    <3>1. CASE c = b
      <4>1. charged[b] = 0
        BY <2>1, <2>5, <3>1 DEF Conflict, RowInv, KeyedBillChargedOnce
      <4>2. charged'[b] = real /\ actual'[b] = real
        BY <2>1, <4>1 DEF TypeOK, RowsOK
      <4>3. <<"billing.settle", billKey[b]>> \in idem'
        BY <2>1, <2>5, <3>1 DEF Recorded
      <4> QED BY <3>1, <4>2, <4>3
    <3>2. CASE c # b
      <4>1. billKey[c] # billKey[b]
        BY <2>5, <3>2 DEF RowInv, OneBillPerKey
      <4>2. <<"billing.settle", billKey[c]>> \in idem' <=> <<"billing.settle", billKey[c]>> \in idem
        BY <2>1, <4>1 DEF Recorded
      <4>3. charged'[c] = charged[c] /\ actual'[c] = actual[c]
        BY <2>1, <3>2 DEF TypeOK, RowsOK
      <4> QED BY <2>5, <4>2, <4>3 DEF RowInv, KeyedBillChargedOnce
    <3> QED BY <3>1, <3>2
  <2>6. KeyedBillChargedOnce'
    BY <2>1, <2>5 DEF KeyedBillChargedOnce
  <2> QED BY <2>2, <2>3, <2>4, <2>6 DEF RowInv
<1> QED BY <1>1, <1>2

\* A reservation uses a fresh id and, if keyed, a key no bill and no row has.
LEMMA ReserveRowInv ==
  ASSUME TypeOK, RowInv, NEW s \in Procs, PreauthReserve(s)
  PROVE  RowInv'
<1> DEFINE r == req[s]
<1>0. r.key \in Keys \cup {NoKey} /\ (r.key # NoKey => r.origin \in Origins)
  BY RequestFields DEF TypeOK, LocalsOK
<1>1. PICK b \in BillIds :
         /\ status[b] = "none"
         /\ status' = [status EXCEPT ![b] = "pending"]
         /\ billKey' = [billKey EXCEPT ![b] = r.key]
  BY DEF PreauthReserve
<1>2. /\ ~KeyTaken(r)
      /\ idem' = IF r.key = NoKey THEN idem ELSE idem \cup {<<r.origin, r.key>>}
      /\ UNCHANGED <<actual, charged>>
  BY DEF PreauthReserve
<1>3. \A c \in BillIds : r.key # NoKey => billKey[c] # r.key
  BY <1>2 DEF KeyTaken, RowInv, FreshBills
<1> HIDE DEF r
<1>4. \A c \in BillIds : /\ billKey'[c] = IF c = b THEN r.key ELSE billKey[c]
                         /\ status'[c] = IF c = b THEN "pending" ELSE status[c]
  BY <1>1 DEF TypeOK, RowsOK
<1>5. billKey[b] = NoKey /\ charged[b] = 0
  BY <1>1 DEF RowInv, FreshBills
<1>6. FreshBills'
  BY <1>2, <1>4 DEF RowInv, FreshBills
<1>7. KeyRowsHaveBills'
  <2> SUFFICES ASSUME NEW row \in idem' PROVE \E c \in BillIds : billKey'[c] = row[2]
    BY DEF KeyRowsHaveBills
  <2>1. CASE row \in idem
    <3>1. PICK c \in BillIds : billKey[c] = row[2]
      BY <2>1 DEF RowInv, KeyRowsHaveBills
    <3>2. row[2] # NoKey
      BY <2>1 DEF TypeOK, RowsOK
    <3> QED BY <1>4, <1>5, <3>1, <3>2
  <2>2. CASE row = <<r.origin, r.key>>
    BY <2>2, <1>4
  <2> QED BY <1>2, <2>1, <2>2
<1>8. OneBillPerKey'
  BY <1>3, <1>4 DEF RowInv, OneBillPerKey
<1>9. KeyedBillChargedOnce'
  <2>0. \A k : <<"billing.settle", k>> \in idem' <=> <<"billing.settle", k>> \in idem
    BY <1>0, <1>2
  <2>1. r.key # NoKey => <<"billing.settle", r.key>> \notin idem
    BY <1>3 DEF RowInv, KeyRowsHaveBills
  <2> QED BY <1>2, <1>4, <1>5, <2>0, <2>1 DEF RowInv, KeyedBillChargedOnce
<1> QED BY <1>6, <1>7, <1>8, <1>9 DEF RowInv

LEMMA ReleaseFirstRowInv ==
  ASSUME TypeOK, RowInv, NEW p \in Procs, NEW r, ReleaseFirst(p, r)
  PROVE  RowInv'
  BY RefundRowInv DEF ReleaseFirst, ReleaseOne, Expired, Operation

LEMMA ReleaseRowInv ==
  ASSUME TypeOK, RowInv, NEW p \in Procs, Release(p)
  PROVE  RowInv'
<1>1. CASE ReleaseNext(p)
  BY <1>1, RefundRowInv DEF ReleaseNext, ReleaseOne, Operation
<1>2. CASE ReleaseReload(p) \/ ReleaseRefused(p)
  BY <1>2, UnchangedRowInv DEF ReleaseReload, ReleaseRefused, rows
<1> QED BY <1>1, <1>2 DEF Release

LEMMA NextRowInv == TypeOK /\ RowInv /\ PinInv /\ [Next]_vars => RowInv'
<1> SUFFICES ASSUME TypeOK, RowInv, PinInv, [Next]_vars PROVE RowInv'
  OBVIOUS
<1> Sessions \subseteq Procs /\ Worker \in Procs
  BY DEF Procs
<1>1. ASSUME NEW s \in Sessions, NEW r, ReleaseFirst(s, r) PROVE RowInv'
  BY <1>1, ReleaseFirstRowInv
<1>2. ASSUME NEW s \in Sessions, Release(s) PROVE RowInv'
  BY <1>2, ReleaseRowInv
<1>3. ASSUME NEW s \in Sessions, PreauthReserve(s) PROVE RowInv'
  BY <1>3, ReserveRowInv
<1>4. ASSUME NEW s \in Sessions, NEW b \in BillIds, Refund(s, b) PROVE RowInv'
  BY <1>4, RefundRowInv DEF Refund, RefundOps, Operation
<1>5. ASSUME NEW s \in Sessions, CommitSettle(s) PROVE RowInv'
  <2>1. PICK b \in BillIds :
          /\ pins[s][b] = "pending"
          /\ IF b \in lapsed THEN RefundTxn("billing.expire_preauth", b)
             ELSE \E real \in RealCosts(b) : SettleTxn(b, real)
    BY <1>5 DEF CommitSettle
  <2>2. status[b] # "none" /\ RealCosts(b) \subseteq Nat
    BY <2>1 DEF PinInv, PinsExist, RealCosts, TypeOK, RowsOK
  <2> QED BY <2>1, <2>2, RefundRowInv, SettleRowInv DEF Operation
<1>6. ASSUME NEW amount, GrantQuota(amount) \/ \E s \in Sessions : GrantWrite(s, amount)
      PROVE  RowInv'
  BY <1>6 DEF GrantQuota, GrantWrite, rows,
              RowInv, FreshBills, KeyRowsHaveBills, OneBillPerKey, KeyedBillChargedOnce
<1>7. CASE \/ \E s \in Sessions, r \in Request : PreauthStart(s, r)
           \/ \E s \in Sessions : PreauthLookup(s) \/ PreauthFails(s) \/ GrantRead(s)
           \/ \E s \in Sessions, b \in BillIds : CommitRead(s, b)
           \/ \E b \in BillIds : Lapse(b)
           \/ \E k \in Keys : KeyAges(k)
           \/ \E p \in Procs : Crash(p)
           \/ UNCHANGED vars
  BY <1>7, UnchangedRowInv
  DEF PreauthStart, PreauthLookup, PreauthFails, GrantRead, CommitRead, Lapse, KeyAges, Crash, vars, rows
<1>8. CASE WorkerNext
  BY <1>8, ReleaseFirstRowInv, ReleaseRowInv DEF WorkerNext
<1> QED BY <1>1, <1>2, <1>3, <1>4, <1>5, <1>6, <1>7, <1>8 DEF Next, SessionNext

-----------------------------------------------------------------------------
(* The invariant.                                                          *)

LEMMA InitInv == Init => AccountInv
<1> SUFFICES ASSUME Init PROVE AccountInv
  OBVIOUS
<1>1. RowInv
  BY DEF Init, RowInv, FreshBills, KeyRowsHaveBills, OneBillPerKey, KeyedBillChargedOnce
<1>2. PinInv
  BY DEF Init, PinInv, PinsExist, BatchLapsed, BatchNeverHoldsPaidBill, NoPins
<1> QED BY <1>1, <1>2, InitType DEF AccountInv

\* The rows and the locals of all processes stay consistent, in every interleaving.
THEOREM AccountInvariant == Spec => []AccountInv
<1>1. AccountInv /\ [Next]_vars => AccountInv'
  BY NextType, NextRowInv, NextStatus, NextPins, PinInvStep DEF AccountInv
<1> QED BY <1>1, InitInv, PTL DEF Spec

\* At most one bill per Idempotency-Key.
THEOREM PreauthIdempotent == Spec => []OneBillPerKey
  BY AccountInvariant, PTL DEF AccountInv, RowInv

\* A keyed bill is charged once, and what it shows.
THEOREM KeyedChargeOnce == Spec => []KeyedBillChargedOnce
  BY AccountInvariant, PTL DEF AccountInv, RowInv

\* No expiry batch ever holds a bill that was paid for.
THEOREM BatchSafe == Spec => []BatchNeverHoldsPaidBill
  BY AccountInvariant, PTL DEF AccountInv, PinInv

\* Statuses move forward; a settled bill is only undone after its expiry.
THEOREM StatusForward == Spec => StatusMovesForward
<1>1. AccountInv /\ [Next]_vars =>
        [\A b \in BillIds :
           /\ status'[b] = "pending" => status[b] \in {"none", "pending"}
           /\ status'[b] = "none" => status[b] = "none"
           /\ status[b] = "settled" /\ status'[b] # "settled" => b \in lapsed]_vars
  BY NextStatus DEF AccountInv, StatusStep
<1> QED BY <1>1, AccountInvariant, PTL DEF Spec, StatusMovesForward

-----------------------------------------------------------------------------
(* No credit is frozen without a pending bill: HoldsBacked.  The sum of    *)
(* the pending estimates is the cardinality of the units they hold, so it  *)
(* is counted, not summed.                                                 *)

Units(b, n) == {b} \X (1 .. n)

\* A bill of cost n holds n units.
LEMMA UnitsCount ==
  ASSUME NEW b, NEW n \in Nat
  PROVE  IsFiniteSet(Units(b, n)) /\ Cardinality(Units(b, n)) = n
<1>1. IsFiniteSet({b}) /\ Cardinality({b}) = 1
  BY FS_Singleton
<1>2. IsFiniteSet(1 .. n) /\ Cardinality(1 .. n) = n
  BY FS_Interval
<1>3. /\ IsFiniteSet({b} \X (1 .. n))
      /\ Cardinality({b} \X (1 .. n)) = Cardinality({b}) * Cardinality(1 .. n)
  BY <1>1, <1>2, FS_Product
<1> QED BY <1>1, <1>2, <1>3 DEF Units

LEMMA HeldFinite ==
  ASSUME NEW st, NEW co
  PROVE  IsFiniteSet(HeldUnits(st, co)) /\ Cardinality(HeldUnits(st, co)) \in Nat
<1>1. IsFiniteSet(BillIds) /\ IsFiniteSet(1 .. MaxCost)
  BY BillIdsAssumption, FS_Interval
<1>2. IsFiniteSet(BillIds \X (1 .. MaxCost))
  BY <1>1, FS_Product
<1>3. HeldUnits(st, co) \in SUBSET (BillIds \X (1 .. MaxCost))
  BY DEF HeldUnits
<1>4. IsFiniteSet(HeldUnits(st, co))
  BY <1>2, <1>3, FS_Subset
<1> QED BY <1>4, FS_CardinalityType

\* A bill that leaves "pending" takes exactly its estimate out of the holds; any
\* other change of a status that does not end in "pending" takes nothing.
LEMMA LeavePending ==
  ASSUME NEW st \in [BillIds -> Status], NEW co \in [BillIds -> 0 .. MaxCost],
         NEW b \in BillIds, NEW x, x # "pending"
  PROVE  LET before == Cardinality(HeldUnits(st, co))
             after  == Cardinality(HeldUnits([st EXCEPT ![b] = x], co))
         IN  IF st[b] = "pending" THEN after = before - co[b] /\ co[b] <= before
             ELSE after = before
<1> DEFINE H == HeldUnits(st, co)
           G == HeldUnits([st EXCEPT ![b] = x], co)
           U == Units(b, co[b])
<1>0. co[b] \in Nat
  OBVIOUS
<1>1. CASE st[b] = "pending"
  <2>1. U \subseteq H
    BY <1>1 DEF Units, HeldUnits
  <2>2. G = H \ U
    BY <1>1 DEF Units, HeldUnits
  <2>3. H \cap U = U
    BY <2>1
  <2>4. IsFiniteSet(H) /\ Cardinality(H) \in Nat
    BY HeldFinite
  <2>5. Cardinality(U) = co[b]
    BY <1>0, UnitsCount
  <2> HIDE DEF H, G, U
  <2>6. Cardinality(G) = Cardinality(H) - Cardinality(U)
    BY <2>2, <2>3, <2>4, FS_Difference
  <2>7. Cardinality(U) <= Cardinality(H)
    BY <2>1, <2>4, FS_Subset
  <2> QED BY <1>1, <2>5, <2>6, <2>7 DEF H, G
<1>2. CASE st[b] # "pending"
  <2>1. G = H
    BY <1>2 DEF HeldUnits
  <2> QED BY <1>2, <2>1
<1> QED BY <1>1, <1>2

\* A new pending bill adds its estimate.
LEMMA EnterPending ==
  ASSUME NEW st \in [BillIds -> Status], NEW co \in [BillIds -> 0 .. MaxCost],
         NEW b \in BillIds, NEW n \in 0 .. MaxCost, st[b] # "pending"
  PROVE  Cardinality(HeldUnits([st EXCEPT ![b] = "pending"], [co EXCEPT ![b] = n]))
           = Cardinality(HeldUnits(st, co)) + n
<1> DEFINE H == HeldUnits(st, co)
           G == HeldUnits([st EXCEPT ![b] = "pending"], [co EXCEPT ![b] = n])
           U == Units(b, n)
<1>0. n \in Nat
  OBVIOUS
<1>1. G = H \cup U
  BY DEF HeldUnits, Units
<1>2. H \cap U = {}
  BY DEF HeldUnits, Units
<1>3. IsFiniteSet(H) /\ Cardinality(H) \in Nat
  BY HeldFinite
<1>4. IsFiniteSet(U) /\ Cardinality(U) = n
  BY <1>0, UnitsCount
<1> HIDE DEF H, G, U
<1>5. Cardinality(H \cup U) = Cardinality(H) + Cardinality(U) - Cardinality(H \cap U)
  BY <1>3, <1>4, FS_Union
<1>6. Cardinality(H \cap U) = 0
  BY <1>2, FS_EmptySet
<1>7. Cardinality(G) = Cardinality(H) + n
  BY <1>0, <1>1, <1>3, <1>4, <1>5, <1>6
<1> QED BY <1>7 DEF H, G

-----------------------------------------------------------------------------
LEMMA UnchangedHolds == HoldsBacked /\ UNCHANGED <<reserved, status, cost>> => HoldsBacked'
  BY DEF HoldsBacked, HeldUnits

\* Lifting a hold, even one that was lifted before: reserved falls by the estimate or
\* to zero, the pending estimates by the estimate or not at all.
LEMMA LiftHold ==
  ASSUME TypeOK, HoldsBacked, NEW b \in BillIds, NEW x, x # "pending",
         reserved' = Lifted(b),
         status' = [status EXCEPT ![b] = x], cost' = cost
  PROVE  HoldsBacked'
<1> DEFINE before == Cardinality(HeldUnits(status, cost))
           after  == Cardinality(HeldUnits(status', cost'))
           lifted == Cardinality(HeldUnits([status EXCEPT ![b] = x], cost))
<1>0. status \in [BillIds -> Status] /\ cost \in [BillIds -> 0 .. MaxCost] /\ after = lifted
  BY DEF TypeOK, RowsOK
<1>1. IF status[b] = "pending" THEN lifted = before - cost[b] /\ cost[b] <= before
      ELSE lifted = before
  <2>1. status \in [BillIds -> Status] /\ cost \in [BillIds -> 0 .. MaxCost]
    BY <1>0
  <2> QED BY <2>1, LeavePending, ZenonT(20)
<1>2. before \in Nat /\ cost[b] \in Nat /\ reserved \in Nat
  BY HeldFinite DEF TypeOK, RowsOK
<1>3. reserved <= before
  BY DEF HoldsBacked
<1> HIDE DEF before, lifted
<1>4. reserved' <= lifted
  BY <1>1, <1>2, <1>3 DEF Monus, Lifted
<1>5. reserved' <= after
  BY <1>0, <1>4
<1> QED BY <1>5 DEF HoldsBacked

LEMMA RefundHolds ==
  ASSUME TypeOK, HoldsBacked, NEW b \in BillIds, NEW op, RefundTxn(op, b)
  PROVE  HoldsBacked'
<1>1. CASE UNCHANGED rows
  BY <1>1, UnchangedHolds DEF rows
<1>2. CASE ~UNCHANGED rows
  BY <1>2, LiftHold DEF RefundTxn
<1> QED BY <1>1, <1>2

LEMMA SettleHolds ==
  ASSUME TypeOK, HoldsBacked, NEW b \in BillIds, NEW real, SettleTxn(b, real)
  PROVE  HoldsBacked'
<1>1. CASE UNCHANGED rows
  BY <1>1, UnchangedHolds DEF rows
<1>2. CASE ~UNCHANGED rows
  BY <1>2, LiftHold DEF SettleTxn
<1> QED BY <1>1, <1>2

LEMMA ReserveHolds ==
  ASSUME TypeOK, HoldsBacked, NEW s \in Procs, PreauthReserve(s)
  PROVE  HoldsBacked'
<1> DEFINE n == req[s].cost
           before == Cardinality(HeldUnits(status, cost))
           after  == Cardinality(HeldUnits(status', cost'))
<1>1. n \in 0 .. MaxCost
  BY RequestFields DEF TypeOK, LocalsOK
<1>2. PICK b \in BillIds : /\ status[b] = "none"
                          /\ status' = [status EXCEPT ![b] = "pending"]
                          /\ cost' = [cost EXCEPT ![b] = n]
  BY DEF PreauthReserve
<1>3. reserved' = reserved + n
  BY DEF PreauthReserve
<1> HIDE DEF n
<1>4. after = before + n
  <2>1. /\ status \in [BillIds -> Status] /\ cost \in [BillIds -> 0 .. MaxCost]
        /\ b \in BillIds /\ status[b] # "pending"
    BY <1>2 DEF TypeOK, RowsOK
  <2>2. \A st \in [BillIds -> Status], co \in [BillIds -> 0 .. MaxCost], k \in 0 .. MaxCost :
          st[b] # "pending" =>
            Cardinality(HeldUnits([st EXCEPT ![b] = "pending"], [co EXCEPT ![b] = k]))
              = Cardinality(HeldUnits(st, co)) + k
    BY <2>1, EnterPending
  <2>3. Cardinality(HeldUnits([status EXCEPT ![b] = "pending"], [cost EXCEPT ![b] = n]))
          = Cardinality(HeldUnits(status, cost)) + n
    BY <1>1, <2>1, <2>2
  <2>4. after = Cardinality(HeldUnits([status EXCEPT ![b] = "pending"], [cost EXCEPT ![b] = n]))
    BY <1>2
  <2> QED BY <2>3, <2>4
<1>5. before \in Nat /\ reserved \in Nat /\ reserved <= before
  BY HeldFinite DEF TypeOK, RowsOK, HoldsBacked
<1> HIDE DEF before, after
<1>6. reserved' <= after
  BY <1>1, <1>3, <1>4, <1>5
<1> QED BY <1>6 DEF HoldsBacked, after

LEMMA NextHolds == TypeOK /\ HoldsBacked /\ [Next]_vars => HoldsBacked'
<1> SUFFICES ASSUME TypeOK, HoldsBacked, [Next]_vars PROVE HoldsBacked'
  OBVIOUS
<1>1. ASSUME NEW s \in Procs, PreauthReserve(s) PROVE HoldsBacked'
  BY <1>1, ReserveHolds
<1>2. ASSUME NEW s \in Procs, NEW b \in BillIds, Refund(s, b) PROVE HoldsBacked'
  BY <1>2, RefundHolds DEF Refund
<1>3. ASSUME NEW s \in Procs, CommitSettle(s) PROVE HoldsBacked'
  BY <1>3, RefundHolds, SettleHolds DEF CommitSettle
<1>4. ASSUME NEW p \in Procs, NEW r, ReleaseFirst(p, r) PROVE HoldsBacked'
  BY <1>4, RefundHolds DEF ReleaseFirst, ReleaseOne, Expired
<1>5. ASSUME NEW p \in Procs, Release(p) PROVE HoldsBacked'
  BY <1>5, RefundHolds, UnchangedHolds
  DEF Release, ReleaseNext, ReleaseOne, ReleaseReload, ReleaseRefused, rows
<1>6. ASSUME NEW amount, NEW s \in Procs, GrantQuota(amount) \/ GrantWrite(s, amount)
      PROVE  HoldsBacked'
  BY <1>6, UnchangedHolds DEF GrantQuota, GrantWrite, rows
<1>7. CASE \/ \E s \in Procs, r \in Request : PreauthStart(s, r)
           \/ \E s \in Procs : PreauthLookup(s) \/ PreauthFails(s) \/ GrantRead(s) \/ Crash(s)
           \/ \E s \in Procs, b \in BillIds : CommitRead(s, b)
           \/ \E b \in BillIds : Lapse(b)
           \/ \E k \in Keys : KeyAges(k)
           \/ UNCHANGED vars
  BY <1>7, UnchangedHolds
  DEF PreauthStart, PreauthLookup, PreauthFails, GrantRead, CommitRead, Lapse, KeyAges, Crash, vars, rows
<1> QED
  BY <1>1, <1>2, <1>3, <1>4, <1>5, <1>6, <1>7 DEF Next, SessionNext, WorkerNext, Procs

\* However releases and settlements race, the credits frozen on the account never
\* exceed what its pending bills account for.
THEOREM HoldsAreBacked == Spec => []HoldsBacked
<1>1. Init => HoldsBacked
  BY HeldFinite DEF Init, HoldsBacked
<1> QED BY <1>1, TypeCorrect, NextHolds, PTL DEF Spec

-----------------------------------------------------------------------------
(* The ledger explains the balance: LedgerMoves.  Charges are counted too. *)

LEMMA ChargedFinite ==
  ASSUME NEW ch \in [BillIds -> Nat]
  PROVE  IsFiniteSet(ChargedUnits(ch)) /\ Cardinality(ChargedUnits(ch)) \in Nat
<1> DEFINE parts == {Units(b, ch[b]) : b \in BillIds}
           part == [b \in BillIds |-> Units(b, ch[b])]
<1>1. part \in Surjection(BillIds, parts)
  BY DEF Surjection
<1>2. IsFiniteSet(parts)
  BY <1>1, BillIdsAssumption, FS_Surjection
<1>3. \A T \in parts : IsFiniteSet(T)
  BY UnitsCount
<1>4. IsFiniteSet(UNION parts)
  BY <1>2, <1>3, FS_UNION
<1>5. UNION parts = ChargedUnits(ch)
  BY DEF ChargedUnits, Units
<1> QED BY <1>4, <1>5, FS_CardinalityType

\* A charge of n adds n credits.
LEMMA ChargeCounts ==
  ASSUME NEW ch \in [BillIds -> Nat], NEW b \in BillIds, NEW n \in Nat
  PROVE  Cardinality(ChargedUnits([ch EXCEPT ![b] = @ + n])) = Cardinality(ChargedUnits(ch)) + n
<1> DEFINE H == ChargedUnits(ch)
           G == ChargedUnits([ch EXCEPT ![b] = @ + n])
           U == {b} \X (ch[b] + 1 .. ch[b] + n)
<1>1. ch[b] \in Nat
  OBVIOUS
<1>2. IsFiniteSet(U) /\ Cardinality(U) = n
  <2>1. IsFiniteSet({b}) /\ Cardinality({b}) = 1
    BY FS_Singleton
  <2>2. /\ IsFiniteSet(ch[b] + 1 .. ch[b] + n)
        /\ Cardinality(ch[b] + 1 .. ch[b] + n) = n
    <3>1. ASSUME NEW k \in Nat
          PROVE  /\ IsFiniteSet(k + 1 .. k + n)
                 /\ Cardinality(k + 1 .. k + n) = IF k + 1 > k + n THEN 0 ELSE (k + n) - (k + 1) + 1
      <4>1. k + 1 \in Int /\ k + n \in Int
        OBVIOUS
      <4> QED BY <4>1, FS_Interval
    <3>2. ASSUME NEW k \in Nat
          PROVE  (IF k + 1 > k + n THEN 0 ELSE (k + n) - (k + 1) + 1) = n
      OBVIOUS
    <3>3. \A k \in Nat : IsFiniteSet(k + 1 .. k + n) /\ Cardinality(k + 1 .. k + n) = n
      BY <3>1, <3>2
    <3> QED BY <1>1, <3>3
  <2>3. /\ IsFiniteSet({b} \X (ch[b] + 1 .. ch[b] + n))
        /\ Cardinality({b} \X (ch[b] + 1 .. ch[b] + n))
             = Cardinality({b}) * Cardinality(ch[b] + 1 .. ch[b] + n)
    BY <2>1, <2>2, FS_Product
  <2> QED BY <2>1, <2>2, <2>3
<1>3. G = H \cup U
  <2>1. \A u : u \in G <=> \E c \in BillIds : u \in {c} \X (1 .. [ch EXCEPT ![b] = @ + n][c])
    BY DEF ChargedUnits
  <2>2. \A u : u \in H <=> \E c \in BillIds : u \in {c} \X (1 .. ch[c])
    BY DEF ChargedUnits
  <2>3. {b} \X (1 .. ch[b] + n) = ({b} \X (1 .. ch[b])) \cup U
    BY <1>1
  <2>4. \A c \in BillIds : [ch EXCEPT ![b] = @ + n][c] = IF c = b THEN ch[b] + n ELSE ch[c]
    OBVIOUS
  <2> HIDE DEF G, H, U
  <2> QED BY <2>1, <2>2, <2>3, <2>4
<1>4. H \cap U = {}
  BY <1>1 DEF ChargedUnits
<1>5. IsFiniteSet(H) /\ Cardinality(H) \in Nat
  BY ChargedFinite
<1> HIDE DEF H, G, U
<1>6. Cardinality(H \cup U) = Cardinality(H) + Cardinality(U) - Cardinality(H \cap U)
  BY <1>2, <1>5, FS_Union
<1>7. Cardinality(H \cap U) = 0
  BY <1>4, FS_EmptySet
<1>8. Cardinality(G) = Cardinality(H) + n
  BY <1>2, <1>3, <1>5, <1>6, <1>7
<1> QED BY <1>8 DEF H, G

\* What one step does to the balance and the ledger.
Charges(b, real) ==
  /\ balance' = balance - real
  /\ charged' = [charged EXCEPT ![b] = @ + real]
  /\ UNCHANGED ledgerGranted
Grants(from, amount) ==
  /\ balance' = from + amount
  /\ ledgerGranted' = ledgerGranted + amount
  /\ UNCHANGED charged
LedgerStep ==
  \/ UNCHANGED <<balance, charged, ledgerGranted>>
  \/ \E b \in BillIds, real \in Nat : Charges(b, real)
  \/ \E amount \in Nat : Grants(balance, amount)
  \/ \E s \in Sessions, amount \in Nat : Grants(seen[s], amount) /\ pc[s] = "grant" /\ pc'[s] = "idle"

LEMMA NextLedger == TypeOK /\ [Next]_vars => LedgerStep
<1> SUFFICES ASSUME TypeOK, [Next]_vars PROVE LedgerStep
  OBVIOUS
<1> Sessions \subseteq Procs /\ Worker \in Procs
  BY DEF Procs
<1>0. ASSUME UNCHANGED rows PROVE LedgerStep
  BY <1>0 DEF rows, LedgerStep
<1>1. ASSUME NEW b \in BillIds, NEW op, RefundTxn(op, b) PROVE LedgerStep
  BY <1>1 DEF RefundTxn, rows, LedgerStep
<1>2. ASSUME NEW s \in Sessions, CommitSettle(s) PROVE LedgerStep
  <2>1. PICK b \in BillIds : IF b \in lapsed THEN RefundTxn("billing.expire_preauth", b)
                             ELSE \E real \in RealCosts(b) : SettleTxn(b, real)
    BY <1>2 DEF CommitSettle
  <2>2. ASSUME NEW real \in RealCosts(b), SettleTxn(b, real) PROVE LedgerStep
    <3>1. real \in Nat
      BY DEF RealCosts, TypeOK, RowsOK
    <3>2. CASE ~UNCHANGED rows
      BY <2>2, <3>1, <3>2 DEF SettleTxn, Charges, LedgerStep
    <3> QED BY <1>0, <3>2
  <2> QED BY <1>1, <2>1, <2>2
<1>3. ASSUME NEW p \in Procs, NEW r, ReleaseFirst(p, r) PROVE LedgerStep
  BY <1>1, <1>3 DEF ReleaseFirst, ReleaseOne, Expired
<1>4. ASSUME NEW p \in Procs, Release(p) PROVE LedgerStep
  BY <1>0, <1>1, <1>4 DEF Release, ReleaseNext, ReleaseOne, ReleaseReload, ReleaseRefused
<1>5. ASSUME NEW s \in Sessions, NEW b \in BillIds, Refund(s, b) PROVE LedgerStep
  BY <1>1, <1>5 DEF Refund
<1>6. ASSUME NEW s \in Sessions, PreauthReserve(s) PROVE LedgerStep
  BY <1>6 DEF PreauthReserve, LedgerStep
<1>7. ASSUME NEW amount \in TopUps, GrantQuota(amount) PROVE LedgerStep
  <2>1. amount \in Nat
    OBVIOUS
  <2> QED BY <1>7, <2>1 DEF GrantQuota, Grants, LedgerStep
<1>8. ASSUME NEW s \in Sessions, NEW amount \in TopUps, GrantWrite(s, amount) PROVE LedgerStep
  <2>1. amount \in Nat
    OBVIOUS
  <2>2. pc[s] = "grant" /\ pc'[s] = "idle"
    BY <1>8 DEF GrantWrite, Close, TypeOK, LocalsOK
  <2>3. UNCHANGED rows \/ Grants(seen[s], amount)
    BY <1>8 DEF GrantWrite, Grants
  <2> QED BY <1>0, <2>1, <2>2, <2>3 DEF LedgerStep
<1>9. CASE \/ \E s \in Sessions, r \in Request : PreauthStart(s, r)
           \/ \E s \in Sessions : PreauthLookup(s) \/ PreauthFails(s) \/ GrantRead(s)
           \/ \E s \in Sessions, b \in BillIds : CommitRead(s, b)
           \/ \E b \in BillIds : Lapse(b)
           \/ \E k \in Keys : KeyAges(k)
           \/ \E p \in Procs : Crash(p)
           \/ UNCHANGED vars
  BY <1>0, <1>9
  DEF PreauthStart, PreauthLookup, PreauthFails, GrantRead, CommitRead, Lapse, KeyAges, Crash, vars
<1> QED BY <1>2, <1>3, <1>4, <1>5, <1>6, <1>7, <1>8, <1>9 DEF Next, SessionNext, WorkerNext

\* A step of the ledger is explained, or it is a grant over a balance read before.
LEMMA StepExplained ==
  ASSUME TypeOK, LedgerStep
  PROVE  LET unexplained == (balance' - balance) - (Explained' - Explained)
         IN  \/ unexplained = 0
             \/ \E s \in Sessions : pc[s] = "grant" /\ pc'[s] = "idle" /\ unexplained = seen[s] - balance
<1> DEFINE n == Cardinality(ChargedUnits(charged))
           m == Cardinality(ChargedUnits(charged'))
<1>0. /\ balance \in Nat /\ ledgerGranted \in Nat /\ charged \in [BillIds -> Nat]
      /\ seen \in [Procs -> Nat] /\ Sessions \subseteq Procs
  BY DEF TypeOK, RowsOK, LocalsOK, Procs
<1>1. n \in Nat /\ Explained = ledgerGranted - n /\ Explained' = ledgerGranted' - m
  BY <1>0, ChargedFinite DEF Explained
<1>2. charged' = charged => m = n
  OBVIOUS
<1>3. \A b \in BillIds, real \in Nat : charged' = [charged EXCEPT ![b] = @ + real] => m = n + real
  <2>1. \A ch \in [BillIds -> Nat], b \in BillIds, real \in Nat :
          Cardinality(ChargedUnits([ch EXCEPT ![b] = @ + real])) = Cardinality(ChargedUnits(ch)) + real
    BY ChargeCounts
  <2>2. SUFFICES ASSUME NEW b \in BillIds, NEW real \in Nat, charged' = [charged EXCEPT ![b] = @ + real]
                 PROVE  m = n + real
    OBVIOUS
  <2>3. Cardinality(ChargedUnits([charged EXCEPT ![b] = @ + real])) = n + real
    BY <1>0, <2>1
  <2> QED BY <2>2, <2>3
<1> HIDE DEF n, m
<1>4. CASE UNCHANGED <<balance, charged, ledgerGranted>>
  BY <1>0, <1>1, <1>2, <1>4
<1>5. ASSUME NEW b \in BillIds, NEW real \in Nat, Charges(b, real)
      PROVE  (balance' - balance) - (Explained' - Explained) = 0
  <2>1. m = n + real /\ balance' = balance - real /\ ledgerGranted' = ledgerGranted
    BY <1>3, <1>5 DEF Charges
  <2> QED BY <1>0, <1>1, <2>1
<1>6. ASSUME NEW amount \in Nat, Grants(balance, amount)
      PROVE  (balance' - balance) - (Explained' - Explained) = 0
  BY <1>0, <1>1, <1>2, <1>6 DEF Grants
<1>7. ASSUME NEW s \in Sessions, NEW amount \in Nat, Grants(seen[s], amount)
      PROVE  (balance' - balance) - (Explained' - Explained) = seen[s] - balance
  <2>1. seen[s] \in Nat
    BY <1>0
  <2> QED BY <1>0, <1>1, <1>2, <1>7, <2>1 DEF Grants
<1> QED BY <1>4, <1>5, <1>6, <1>7 DEF LedgerStep

\* Every change of the balance is in the ledger, but for what a grant on a stale balance loses.
THEOREM LedgerExplains == Spec => LedgerMoves
<1>1. TypeOK /\ [Next]_vars =>
        [LET unexplained == (balance' - balance) - (Explained' - Explained)
         IN  \/ unexplained = 0
             \/ \E s \in Sessions : pc[s] = "grant" /\ pc'[s] = "idle" /\ unexplained = seen[s] - balance]_vars
  BY NextLedger, StepExplained
<1> QED BY <1>1, TypeCorrect, PTL DEF Spec, LedgerMoves

-----------------------------------------------------------------------------
(* The bill of a key: ImplementsKeyedBill.                                 *)

\* What one step does to the rows the bill of a key is made of.
SettleRows == {k \in Keys : <<"billing.settle", k>> \in idem}
Stays == UNCHANGED <<status, billKey, idem, lapsed>>
Refunds(b) ==
  /\ status[b] = "pending" \/ (status[b] # "none" /\ b \in lapsed)
  /\ status' = [status EXCEPT ![b] = "refunded"]
  /\ UNCHANGED <<billKey, lapsed, SettleRows>>
Settles(b) ==
  /\ status[b] # "none" /\ b \notin lapsed /\ billKey[b] \notin SettleRows
  /\ status' = [status EXCEPT ![b] = "settled"]
  /\ SettleRows' = SettleRows \cup ({billKey[b]} \ {NoKey})
  /\ UNCHANGED <<billKey, lapsed>>
Opens(b) ==
  /\ status[b] = "none"
  /\ status' = [status EXCEPT ![b] = "pending"]
  /\ \E k \in Keys \cup {NoKey} :
       /\ k # NoKey => \A c \in BillIds : status[c] # "none" => billKey[c] # k
       /\ billKey' = [billKey EXCEPT ![b] = k]
  /\ UNCHANGED <<lapsed, SettleRows>>
Lapses(b) ==
  /\ status[b] # "none"
  /\ lapsed' = lapsed \cup {b}
  /\ UNCHANGED <<status, billKey, idem>>
KeyStep == Stays \/ \E b \in BillIds : Refunds(b) \/ Settles(b) \/ Opens(b) \/ Lapses(b)

LEMMA RefundKeyStep ==
  ASSUME TypeOK, NEW b \in BillIds, NEW op \in Operation \ {"billing.settle"}, RefundTxn(op, b), UNCHANGED lapsed,
         status[b] = "pending" \/ (status[b] # "none" /\ b \in lapsed)
  PROVE  KeyStep
<1>1. CASE UNCHANGED rows
  BY <1>1 DEF rows, KeyStep, Stays
<1>2. CASE ~UNCHANGED rows
  <2>1. status' = [status EXCEPT ![b] = "refunded"] /\ idem' = Recorded(op, b) /\ UNCHANGED billKey
    BY <1>2 DEF RefundTxn
  <2>2. SettleRows' = SettleRows
    BY <2>1 DEF Recorded, SettleRows
  <2>3. Refunds(b)
    BY <2>1, <2>2 DEF Refunds
  <2> QED BY <2>3 DEF KeyStep
<1> QED BY <1>1, <1>2

LEMMA SettleKeyStep ==
  ASSUME TypeOK, NEW b \in BillIds, NEW real, SettleTxn(b, real), UNCHANGED lapsed,
         status[b] # "none", b \notin lapsed
  PROVE  KeyStep
<1>1. CASE UNCHANGED rows
  BY <1>1 DEF rows, KeyStep, Stays
<1>2. CASE ~UNCHANGED rows
  <2>1. /\ status' = [status EXCEPT ![b] = "settled"] /\ idem' = Recorded("billing.settle", b)
        /\ UNCHANGED billKey /\ ~Conflict("billing.settle", b)
    BY <1>2 DEF SettleTxn
  <2>2. billKey[b] \in Keys \cup {NoKey}
    BY DEF TypeOK, RowsOK
  <2>3. billKey[b] \notin SettleRows
    BY <2>1 DEF Conflict, SettleRows
  <2>4. SettleRows' = SettleRows \cup ({billKey[b]} \ {NoKey})
    BY <2>1, <2>2 DEF Recorded, SettleRows
  <2>5. Settles(b)
    BY <2>1, <2>3, <2>4 DEF Settles
  <2> QED BY <2>5 DEF KeyStep
<1> QED BY <1>1, <1>2

LEMMA ReserveKeyStep ==
  ASSUME TypeOK, NEW s \in Procs, PreauthReserve(s)
  PROVE  KeyStep
<1>1. PICK r \in Request \cup {NoReq} : r = req[s]
  BY DEF TypeOK, LocalsOK
<1>2. r.key \in Keys \cup {NoKey} /\ (r.key # NoKey => r.origin \in Origins)
  BY RequestFields
<1>3. /\ ~KeyTaken(r) /\ UNCHANGED lapsed
      /\ idem' = IF r.key = NoKey THEN idem ELSE idem \cup {<<r.origin, r.key>>}
  BY <1>1 DEF PreauthReserve, clock
<1>4. PICK b \in BillIds : /\ status[b] = "none"
                          /\ status' = [status EXCEPT ![b] = "pending"]
                          /\ billKey' = [billKey EXCEPT ![b] = r.key]
  BY <1>1 DEF PreauthReserve
<1>5. SettleRows' = SettleRows
  BY <1>2, <1>3 DEF SettleRows
<1>6. r.key # NoKey => \A c \in BillIds : status[c] # "none" => billKey[c] # r.key
  BY <1>3 DEF KeyTaken
<1>7. Opens(b)
  BY <1>2, <1>3, <1>4, <1>5, <1>6 DEF Opens
<1> QED BY <1>7 DEF KeyStep

LEMMA NextKeyStep == TypeOK /\ PinInv /\ [Next]_vars => KeyStep
<1> SUFFICES ASSUME TypeOK, PinInv, [Next]_vars PROVE KeyStep
  OBVIOUS
<1> Sessions \subseteq Procs /\ Worker \in Procs
  BY DEF Procs
<1>0. ASSUME UNCHANGED <<rows, lapsed>> PROVE KeyStep
  BY <1>0 DEF rows, KeyStep, Stays
<1>1. ASSUME NEW s \in Procs, NEW r, ReleaseFirst(s, r) PROVE KeyStep
  BY <1>1, RefundKeyStep DEF ReleaseFirst, ReleaseOne, Expired, Operation, clock
<1>2. ASSUME NEW s \in Procs, Release(s) PROVE KeyStep
  <2>1. CASE ReleaseNext(s)
    BY <2>1, RefundKeyStep DEF ReleaseNext, ReleaseOne, PinInv, PinsExist, BatchLapsed, Operation, clock
  <2>2. CASE ReleaseReload(s) \/ ReleaseRefused(s)
    BY <2>2, <1>0 DEF ReleaseReload, ReleaseRefused, clock
  <2> QED BY <1>2, <2>1, <2>2 DEF Release
<1>3. ASSUME NEW s \in Sessions, PreauthReserve(s) PROVE KeyStep
  BY <1>3, ReserveKeyStep
<1>4. ASSUME NEW s \in Sessions, NEW b \in BillIds, Refund(s, b) PROVE KeyStep
  BY <1>4, RefundKeyStep DEF Refund, RefundOps, Operation, clock
<1>5. ASSUME NEW s \in Sessions, CommitSettle(s) PROVE KeyStep
  <2>1. PICK b \in BillIds :
          /\ pins[s][b] = "pending"
          /\ IF b \in lapsed THEN RefundTxn("billing.expire_preauth", b)
             ELSE \E real \in RealCosts(b) : SettleTxn(b, real)
    BY <1>5 DEF CommitSettle
  <2>2. status[b] # "none" /\ UNCHANGED lapsed
    BY <1>5, <2>1 DEF PinInv, PinsExist, CommitSettle, clock
  <2> QED BY <2>1, <2>2, RefundKeyStep, SettleKeyStep DEF Operation
<1>6. ASSUME NEW amount, GrantQuota(amount) \/ \E s \in Sessions : GrantWrite(s, amount)
      PROVE  KeyStep
  BY <1>6 DEF GrantQuota, GrantWrite, rows, clock, KeyStep, Stays
<1>7. ASSUME NEW b \in BillIds, Lapse(b) PROVE KeyStep
  BY <1>7 DEF Lapse, rows, KeyStep, Lapses
<1>8. CASE \/ \E s \in Sessions, r \in Request : PreauthStart(s, r)
           \/ \E s \in Sessions : PreauthLookup(s) \/ PreauthFails(s) \/ GrantRead(s)
           \/ \E s \in Sessions, b \in BillIds : CommitRead(s, b)
           \/ \E k \in Keys : KeyAges(k)
           \/ \E p \in Procs : Crash(p)
           \/ UNCHANGED vars
  BY <1>8, <1>0
  DEF PreauthStart, PreauthLookup, PreauthFails, GrantRead, CommitRead, KeyAges, Crash, vars, clock
<1> QED BY <1>1, <1>2, <1>3, <1>4, <1>5, <1>6, <1>7, <1>8 DEF Next, SessionNext, WorkerNext

\* What the mapping needs besides: only bills that exist lapse, and a keyed bill is
\* settled with its row.
KeyInv ==
  /\ \A b \in lapsed : status[b] # "none"
  /\ \A b \in BillIds : status[b] = "settled" /\ billKey[b] # NoKey => billKey[b] \in SettleRows

LEMMA KeyInvStep ==
  ASSUME TypeOK, FreshBills, KeyInv, KeyStep
  PROVE  KeyInv'
<1> USE DEF KeyInv
<1>0. /\ lapsed \subseteq BillIds /\ status \in [BillIds -> Status]
      /\ billKey \in [BillIds -> Keys \cup {NoKey}]
  BY DEF TypeOK, ClockOK, RowsOK
<1>1. CASE Stays
  BY <1>1 DEF Stays, SettleRows
<1>2. ASSUME NEW b \in BillIds, Refunds(b) PROVE KeyInv'
  BY <1>0, <1>2 DEF Refunds
<1>3. ASSUME NEW b \in BillIds, Settles(b) PROVE KeyInv'
  BY <1>0, <1>3 DEF Settles
<1>4. ASSUME NEW b \in BillIds, Opens(b) PROVE KeyInv'
  BY <1>0, <1>4 DEF Opens
<1>5. ASSUME NEW b \in BillIds, Lapses(b) PROVE KeyInv'
  BY <1>0, <1>5 DEF Lapses, SettleRows
<1> QED BY <1>1, <1>2, <1>3, <1>4, <1>5 DEF KeyStep

\* The mapping without its CHOOSE: a key shows the one bill that has it, or nothing.
KeyView ==
  /\ \A k \in Keys, b \in BillIds :
       billKey[b] = k => KeyBill[k] = status[b] /\ (k \in KeysLapsed <=> b \in lapsed)
  /\ \A k \in Keys : (\A b \in BillIds : billKey[b] # k) => KeyBill[k] = "none" /\ k \notin KeysLapsed
  /\ KeyBill = [k \in Keys |-> KeyBill[k]] /\ KeysLapsed \subseteq Keys /\ KeysPaid = SettleRows

LEMMA KeyIsViewed == OneBillPerKey => KeyView
<1> SUFFICES ASSUME OneBillPerKey PROVE KeyView
  OBVIOUS
<1>1. \A k \in Keys : KeyBill[k] = IF HasBill(k) THEN status[BillOf(k)] ELSE "none"
  BY DEF KeyBill
<1>2. ASSUME NEW k \in Keys, NEW b \in BillIds, billKey[b] = k PROVE HasBill(k) /\ BillOf(k) = b
  <2>1. HasBill(k)
    BY <1>2 DEF HasBill
  <2>2. BillOf(k) \in BillIds /\ billKey[BillOf(k)] = k
    BY <1>2 DEF BillOf
  <2> QED BY <1>2, <2>1, <2>2 DEF OneBillPerKey
<1>3. \A k \in Keys, b \in BillIds :
        billKey[b] = k => KeyBill[k] = status[b] /\ (k \in KeysLapsed <=> b \in lapsed)
  BY <1>1, <1>2 DEF KeysLapsed
<1>4. \A k \in Keys : (\A b \in BillIds : billKey[b] # k) => KeyBill[k] = "none" /\ k \notin KeysLapsed
  BY <1>1 DEF HasBill, KeysLapsed
<1>5. KeyBill = [k \in Keys |-> KeyBill[k]] /\ KeysLapsed \subseteq Keys /\ KeysPaid = SettleRows
  BY DEF KeyBill, KeysLapsed, KeysPaid, SettleRows
<1> QED BY <1>3, <1>4, <1>5 DEF KeyView

LEMMA KeyIsViewedNext == (OneBillPerKey)' => (KeyView)'
  BY KeyIsViewed, PTL

\* A step of one keyed bill changes what its key shows, and nothing else.
LEMMA OneKey ==
  ASSUME TypeOK, OneBillPerKey, KeyView, (KeyView)', UNCHANGED billKey,
         NEW b \in BillIds, \A c \in BillIds \ {b} : status'[c] = status[c] /\ (c \in lapsed' <=> c \in lapsed)
  PROVE  /\ \A k \in Keys \ {billKey[b]} : KeyBill'[k] = KeyBill[k] /\ (k \in KeysLapsed' <=> k \in KeysLapsed)
         /\ billKey[b] # NoKey =>
              /\ KeyBill' = [KeyBill EXCEPT ![billKey[b]] = status'[b]]
              /\ b \in lapsed' => KeysLapsed' = KeysLapsed \cup {billKey[b]}
              /\ b \notin lapsed' /\ b \notin lapsed => KeysLapsed' = KeysLapsed
<1>0. billKey \in [BillIds -> Keys \cup {NoKey}]
  BY DEF TypeOK, RowsOK
<1>1. ASSUME NEW k \in Keys, k # billKey[b]
      PROVE  KeyBill'[k] = KeyBill[k] /\ (k \in KeysLapsed' <=> k \in KeysLapsed)
  <2>1. CASE \E c \in BillIds : billKey[c] = k
    <3>1. PICK c \in BillIds : billKey[c] = k
      BY <2>1
    <3>2. c # b /\ billKey'[c] = k
      BY <1>1, <3>1
    <3>3. KeyBill[k] = status[c] /\ (k \in KeysLapsed <=> c \in lapsed)
      BY <3>1 DEF KeyView
    <3>4. KeyBill'[k] = status'[c] /\ (k \in KeysLapsed' <=> c \in lapsed')
      BY <3>2 DEF KeyView
    <3> QED BY <3>2, <3>3, <3>4
  <2>2. CASE \A c \in BillIds : billKey[c] # k
    <3>1. KeyBill[k] = "none" /\ k \notin KeysLapsed
      BY <2>2 DEF KeyView
    <3>2. KeyBill'[k] = "none" /\ k \notin KeysLapsed'
      BY <2>2 DEF KeyView
    <3> QED BY <3>1, <3>2
  <2> QED BY <2>1, <2>2
<1>2. ASSUME billKey[b] # NoKey
      PROVE  /\ KeyBill' = [KeyBill EXCEPT ![billKey[b]] = status'[b]]
             /\ b \in lapsed' => KeysLapsed' = KeysLapsed \cup {billKey[b]}
             /\ b \notin lapsed' /\ b \notin lapsed => KeysLapsed' = KeysLapsed
  <2>1. PICK k \in Keys : k = billKey[b]
    BY <1>0, <1>2
  <2>2. KeyBill'[k] = status'[b] /\ (k \in KeysLapsed' <=> b \in lapsed') /\ (k \in KeysLapsed <=> b \in lapsed)
    BY <2>1 DEF KeyView
  <2>3. /\ KeyBill = [j \in Keys |-> KeyBill[j]] /\ KeysLapsed \subseteq Keys
        /\ KeyBill' = [j \in Keys |-> KeyBill'[j]] /\ KeysLapsed' \subseteq Keys
    BY DEF KeyView
  <2>4. \A j \in Keys \ {k} : KeyBill'[j] = KeyBill[j] /\ (j \in KeysLapsed' <=> j \in KeysLapsed)
    BY <1>1, <2>1
  <2>5. KeyBill' = [KeyBill EXCEPT ![k] = status'[b]]
    BY <2>2, <2>3, <2>4
  <2>6. b \in lapsed' => KeysLapsed' = KeysLapsed \cup {k}
    BY <2>2, <2>3, <2>4
  <2>7. b \notin lapsed' /\ b \notin lapsed => KeysLapsed' = KeysLapsed
    BY <2>2, <2>3, <2>4
  <2> QED BY <2>1, <2>5, <2>6, <2>7
<1> QED BY <1>1, <1>2

\* Then a bill without a key shows nowhere.
LEMMA NoKeyStays ==
  ASSUME KeyView, (KeyView)',
         \A k \in Keys : KeyBill'[k] = KeyBill[k] /\ (k \in KeysLapsed' <=> k \in KeysLapsed)
  PROVE  UNCHANGED <<KeyBill, KeysLapsed>>
<1>1. /\ KeyBill = [j \in Keys |-> KeyBill[j]] /\ KeysLapsed \subseteq Keys
      /\ KeyBill' = [j \in Keys |-> KeyBill'[j]] /\ KeysLapsed' \subseteq Keys
  BY DEF KeyView
<1>2. KeyBill' = KeyBill
  BY <1>1
<1>3. KeysLapsed' = KeysLapsed
  BY <1>1
<1> QED BY <1>2, <1>3

LEMMA KeyedStep ==
  ASSUME TypeOK, FreshBills, OneBillPerKey, (OneBillPerKey)', KeyInv, KeyStep
  PROVE  Keyed!Next \/ UNCHANGED <<KeyBill, KeysPaid, KeysLapsed>>
<1>0. /\ lapsed \subseteq BillIds /\ status \in [BillIds -> Status]
      /\ billKey \in [BillIds -> Keys \cup {NoKey}]
  BY DEF TypeOK, ClockOK, RowsOK
<1>1. KeyView /\ (KeyView)'
  BY KeyIsViewed, KeyIsViewedNext
<1>2. KeysPaid = SettleRows /\ KeysPaid' = SettleRows'
  BY <1>1 DEF KeyView
<1>3. CASE Stays
  BY <1>3 DEF Stays, KeyBill, KeysPaid, KeysLapsed, HasBill, BillOf
<1>4. ASSUME NEW b \in BillIds, Refunds(b) PROVE Keyed!Next \/ UNCHANGED <<KeyBill, KeysPaid, KeysLapsed>>
  <2>1. /\ UNCHANGED billKey /\ status'[b] = "refunded"
        /\ \A c \in BillIds \ {b} : status'[c] = status[c] /\ (c \in lapsed' <=> c \in lapsed)
        /\ (b \in lapsed' <=> b \in lapsed) /\ UNCHANGED KeysPaid
    BY <1>0, <1>2, <1>4 DEF Refunds
  <2>2. CASE billKey[b] = NoKey
    <3>1. \A k \in Keys : KeyBill'[k] = KeyBill[k] /\ (k \in KeysLapsed' <=> k \in KeysLapsed)
      BY <1>1, <2>1, <2>2, OneKey
    <3> QED BY <1>1, <2>1, <3>1, NoKeyStays
  <2>3. CASE billKey[b] # NoKey
    <3>1. PICK k \in Keys : k = billKey[b]
      BY <1>0, <2>3
    <3>2. KeyBill' = [KeyBill EXCEPT ![k] = "refunded"]
      BY <1>1, <2>1, <2>3, <3>1, OneKey
    <3>3. KeyBill[k] = status[b] /\ (k \in KeysLapsed <=> b \in lapsed)
      BY <1>1, <3>1 DEF KeyView
    <3>4. KeysLapsed' = KeysLapsed
      BY <1>1, <2>1, <2>3, <3>1, <3>3, OneKey
    <3>5. CASE status[b] = "pending" \/ (status[b] = "settled" /\ b \in lapsed)
      <4>1. Keyed!End(k)
        BY <2>1, <3>2, <3>3, <3>4, <3>5 DEF Keyed!End
      <4> QED BY <4>1 DEF Keyed!Next
    <3>6. CASE status[b] = "refunded"
      <4>1. KeyBill = [j \in Keys |-> KeyBill[j]]
        BY <1>1 DEF KeyView
      <4>2. KeyBill' = KeyBill
        BY <3>2, <3>3, <3>6, <4>1
      <4> QED BY <2>1, <3>4, <4>2
    <3> QED BY <1>0, <1>4, <3>5, <3>6 DEF Refunds, Status
  <2> QED BY <2>2, <2>3
<1>5. ASSUME NEW b \in BillIds, Settles(b) PROVE Keyed!Next \/ UNCHANGED <<KeyBill, KeysPaid, KeysLapsed>>
  <2>1. /\ UNCHANGED billKey /\ status'[b] = "settled" /\ b \notin lapsed /\ b \notin lapsed'
        /\ \A c \in BillIds \ {b} : status'[c] = status[c] /\ (c \in lapsed' <=> c \in lapsed)
    BY <1>0, <1>5 DEF Settles
  <2>2. CASE billKey[b] = NoKey
    <3>1. \A k \in Keys : KeyBill'[k] = KeyBill[k] /\ (k \in KeysLapsed' <=> k \in KeysLapsed)
      BY <1>1, <2>1, <2>2, OneKey
    <3>2. KeysPaid' = KeysPaid
      BY <1>2, <1>5, <2>2 DEF Settles
    <3> QED BY <1>1, <3>1, <3>2, NoKeyStays
  <2>3. CASE billKey[b] # NoKey
    <3>1. PICK k \in Keys : k = billKey[b]
      BY <1>0, <2>3
    <3>2. KeyBill' = [KeyBill EXCEPT ![k] = "settled"] /\ KeysLapsed' = KeysLapsed
      BY <1>1, <2>1, <2>3, <3>1, OneKey
    <3>3. KeyBill[k] = status[b] /\ k \notin KeysLapsed
      BY <1>1, <2>1, <3>1 DEF KeyView
    <3>4. k \notin KeysPaid /\ KeysPaid' = KeysPaid \cup {k}
      BY <1>2, <1>5, <2>3, <3>1 DEF Settles
    <3>5. status[b] \in {"pending", "refunded"}
      BY <1>0, <1>2, <1>5, <2>3, <3>1, <3>4 DEF Settles, KeyInv, Status
    <3>6. Keyed!Pay(k)
      BY <3>2, <3>3, <3>4, <3>5 DEF Keyed!Pay
    <3> QED BY <3>6 DEF Keyed!Next
  <2> QED BY <2>2, <2>3
<1>6. ASSUME NEW b \in BillIds, Lapses(b) PROVE Keyed!Next \/ UNCHANGED <<KeyBill, KeysPaid, KeysLapsed>>
  <2>1. /\ UNCHANGED billKey /\ status' = status /\ b \in lapsed' /\ status[b] # "none"
        /\ \A c \in BillIds \ {b} : status'[c] = status[c] /\ (c \in lapsed' <=> c \in lapsed)
    BY <1>6 DEF Lapses
  <2>2. KeysPaid' = KeysPaid
    BY <1>6 DEF Lapses, KeysPaid
  <2>3. CASE billKey[b] = NoKey
    <3>1. \A k \in Keys : KeyBill'[k] = KeyBill[k] /\ (k \in KeysLapsed' <=> k \in KeysLapsed)
      BY <1>1, <2>1, <2>3, OneKey
    <3> QED BY <1>1, <2>2, <3>1, NoKeyStays
  <2>4. CASE billKey[b] # NoKey
    <3>1. PICK k \in Keys : k = billKey[b]
      BY <1>0, <2>4
    <3>2. KeyBill' = [KeyBill EXCEPT ![k] = status[b]] /\ KeysLapsed' = KeysLapsed \cup {k}
      BY <1>1, <2>1, <2>4, <3>1, OneKey
    <3>3. KeyBill[k] = status[b] /\ KeyBill = [j \in Keys |-> KeyBill[j]]
      BY <1>1, <3>1 DEF KeyView
    <3>4. KeyBill' = KeyBill
      BY <3>2, <3>3
    <3>5. Keyed!Lapse(k)
      BY <2>1, <2>2, <3>2, <3>3, <3>4 DEF Keyed!Lapse
    <3> QED BY <3>5 DEF Keyed!Next
  <2> QED BY <2>3, <2>4
<1>7. ASSUME NEW b \in BillIds, Opens(b) PROVE Keyed!Next \/ UNCHANGED <<KeyBill, KeysPaid, KeysLapsed>>
  <2>1. PICK k \in Keys \cup {NoKey} :
             /\ k # NoKey => \A c \in BillIds : status[c] # "none" => billKey[c] # k
             /\ billKey' = [billKey EXCEPT ![b] = k]
    BY <1>7 DEF Opens
  <2>2. /\ status[b] = "none" /\ billKey[b] = NoKey /\ b \notin lapsed
        /\ status' = [status EXCEPT ![b] = "pending"] /\ lapsed' = lapsed /\ KeysPaid' = KeysPaid
    BY <1>2, <1>7 DEF Opens, FreshBills, KeyInv
  <2>3. CASE k = NoKey
    <3>1. billKey' = billKey
      BY <1>0, <2>1, <2>2, <2>3
    <3>2. \A c \in BillIds \ {b} : status'[c] = status[c] /\ (c \in lapsed' <=> c \in lapsed)
      BY <1>0, <2>2
    <3>3. \A j \in Keys : KeyBill'[j] = KeyBill[j] /\ (j \in KeysLapsed' <=> j \in KeysLapsed)
      BY <1>1, <2>2, <3>1, <3>2, OneKey
    <3> QED BY <1>1, <2>2, <3>3, NoKeyStays
  <2>4. CASE k # NoKey
    <3>1. k \in Keys /\ \A c \in BillIds : billKey[c] # k
      BY <2>1, <2>4 DEF FreshBills
    <3>2. KeyBill[k] = "none" /\ k \notin KeysLapsed
      BY <1>1, <3>1 DEF KeyView
    <3>3. billKey'[b] = k /\ status'[b] = "pending"
      BY <1>0, <2>1, <2>2
    <3>4. KeyBill'[k] = "pending" /\ k \notin KeysLapsed'
      BY <1>1, <2>2, <3>1, <3>3 DEF KeyView
    <3>5. ASSUME NEW j \in Keys, j # k
          PROVE  KeyBill'[j] = KeyBill[j] /\ (j \in KeysLapsed' <=> j \in KeysLapsed)
      <4>1. CASE \E c \in BillIds : billKey[c] = j
        <5>1. PICK c \in BillIds : billKey[c] = j
          BY <4>1
        <5>2. c # b /\ billKey'[c] = j /\ status'[c] = status[c]
          BY <1>0, <2>1, <2>2, <5>1
        <5>3. KeyBill[j] = status[c] /\ (j \in KeysLapsed <=> c \in lapsed)
          BY <1>1, <5>1 DEF KeyView
        <5>4. KeyBill'[j] = status'[c] /\ (j \in KeysLapsed' <=> c \in lapsed')
          BY <1>1, <5>2 DEF KeyView
        <5> QED BY <2>2, <5>2, <5>3, <5>4
      <4>2. CASE \A c \in BillIds : billKey[c] # j
        <5>1. \A c \in BillIds : billKey'[c] # j
          BY <1>0, <2>1, <3>5, <4>2
        <5> QED BY <1>1, <4>2, <5>1 DEF KeyView
      <4> QED BY <4>1, <4>2
    <3>6. /\ KeyBill = [j \in Keys |-> KeyBill[j]] /\ KeysLapsed \subseteq Keys
          /\ KeyBill' = [j \in Keys |-> KeyBill'[j]] /\ KeysLapsed' \subseteq Keys
      BY <1>1 DEF KeyView
    <3>7. KeyBill' = [KeyBill EXCEPT ![k] = "pending"]
      BY <3>4, <3>5, <3>6
    <3>8. KeysLapsed' = KeysLapsed
      BY <3>2, <3>4, <3>5, <3>6
    <3>9. Keyed!Open(k)
      BY <2>2, <3>2, <3>7, <3>8 DEF Keyed!Open
    <3> QED BY <3>1, <3>9 DEF Keyed!Next
  <2> QED BY <2>3, <2>4
<1> QED BY <1>3, <1>4, <1>5, <1>6, <1>7 DEF KeyStep

\* For its callers Billing is KeyedBill: under every interleaving the bill of a key is
\* opened once, charged at most once and in time, and never pending again.
THEOREM KeyedRefinement == Spec => ImplementsKeyedBill
<1>1. Init => KeyInv /\ Keyed!Init
  <2> SUFFICES ASSUME Init PROVE KeyInv /\ Keyed!Init
    OBVIOUS
  <2>1. \A k \in Keys : ~HasBill(k)
    BY DEF Init, HasBill
  <2>2. KeyBill = [k \in Keys |-> "none"] /\ KeysPaid = {} /\ KeysLapsed = {}
    BY <2>1 DEF Init, KeyBill, KeysPaid, KeysLapsed
  <2> QED BY <2>2 DEF Init, KeyInv, Keyed!Init
<1>2. AccountInv /\ KeyInv /\ [Next]_vars => KeyInv'
  BY NextKeyStep, KeyInvStep DEF AccountInv, RowInv
<1>3. AccountInv /\ (AccountInv)' /\ KeyInv /\ [Next]_vars => [Keyed!Next]_(Keyed!vars)
  BY NextKeyStep, KeyedStep DEF AccountInv, RowInv, Keyed!vars
<1> QED BY <1>1, <1>2, <1>3, AccountInvariant, PTL DEF Spec, ImplementsKeyedBill, Keyed!Spec

-----------------------------------------------------------------------------
(* One request at a time: ImplementsContract.                              *)

\* What an open request remembers is still so, because nobody else is served.
AloneInv ==
  /\ \A p, q \in Procs : pc[p] # "idle" /\ pc[q] # "idle" => p = q
  /\ \A p \in Procs, b \in BillIds : /\ pc[p] = "idle" => pins[p][b] = "none"
                                     /\ pins[p][b] \in {"none", "unloaded", status[b]}
  /\ \A p \in Procs : /\ pc[p] = "grant" => seen[p] = balance
                      /\ pc[p] \in {"lookup", "reserve"} => req[p] # NoReq

\* A step of process p, served alone, that leaves its memory true.
Serves(p) ==
  /\ Alone(p)
  /\ \A q \in Procs \ {p} : pc'[q] = pc[q] /\ pins'[q] = pins[q] /\ seen'[q] = seen[q]
  /\ \A b \in BillIds : /\ pc'[p] = "idle" => pins'[p][b] = "none"
                        /\ pins'[p][b] \in {"none", "unloaded", status'[b]}
  /\ pc'[p] = "grant" => seen'[p] = balance'
  /\ pc'[p] \in {"lookup", "reserve"} => req'[p] # NoReq

AloneStep ==
  \/ \E p \in Procs : Serves(p)
  \/ UNCHANGED <<local, status, balance>>
  \/ (\A p \in Procs : pc[p] = "idle") /\ UNCHANGED <<local, status>>

LEMMA AloneInvStep == TypeOK /\ AloneInv /\ AloneStep => AloneInv'
<1> SUFFICES ASSUME TypeOK, AloneInv, AloneStep PROVE AloneInv'
  OBVIOUS
<1>1. ASSUME NEW p \in Procs, Serves(p) PROVE AloneInv'
  BY <1>1 DEF AloneInv, Serves, Alone
<1>2. CASE UNCHANGED <<local, status, balance>>
  BY <1>2 DEF AloneInv, local
<1>3. CASE (\A p \in Procs : pc[p] = "idle") /\ UNCHANGED <<local, status>>
  BY <1>3 DEF AloneInv, local
<1> QED BY <1>1, <1>2, <1>3 DEF AloneStep

LEMMA CloseServes ==
  ASSUME TypeOK, NEW p \in Procs, Alone(p), Close(p)
  PROVE  Serves(p)
  BY DEF TypeOK, LocalsOK, Close, NoPins, Serves

LEMMA RefundOther ==
  ASSUME TypeOK, NEW b \in BillIds, NEW op, RefundTxn(op, b)
  PROVE  \A c \in BillIds \ {b} : status'[c] = status[c]
  BY DEF RefundTxn, rows, TypeOK, RowsOK

LEMMA ReleaseServes ==
  ASSUME TypeOK, NEW p \in Procs, Alone(p), NEW b \in BillIds, NEW v \in [BillIds -> Pin], NEW r,
         ReleaseOne(p, b, v, r),
         \A c \in BillIds : v[c] \in {"none", "unloaded", status[c]}
  PROVE  Serves(p)
<1> DEFINE rest == [v EXCEPT ![b] = "none"]
           kept == IF Conflict("billing.expire_preauth", b)
                   THEN [c \in BillIds |-> IF rest[c] = "none" THEN "none" ELSE "unloaded"]
                   ELSE rest
<1>1. \A c \in BillIds \ {b} : status'[c] = status[c]
  BY RefundOther DEF ReleaseOne
<1>2. /\ pins' = [pins EXCEPT ![p] = kept]
      /\ pc' = [pc EXCEPT ![p] = IF rest = NoPins THEN After(r) ELSE "releasing"]
      /\ seen' = seen /\ req' = [req EXCEPT ![p] = r]
  BY DEF ReleaseOne
<1>3. \A c \in BillIds : /\ kept[c] \in {"none", "unloaded", status'[c]}
                         /\ rest = NoPins => kept[c] = "none"
  BY <1>1 DEF NoPins
<1>4. After(r) # "grant" /\ (After(r) \in {"lookup", "reserve"} => r # NoReq)
  BY DEF After
<1> HIDE DEF kept, rest
<1>5. /\ \A q \in Procs \ {p} : pc'[q] = pc[q] /\ pins'[q] = pins[q]
      /\ pins'[p] = kept /\ req'[p] = r
      /\ pc'[p] = IF rest = NoPins THEN After(r) ELSE "releasing"
  BY <1>2 DEF TypeOK, LocalsOK
<1> QED BY <1>2, <1>3, <1>4, <1>5 DEF Serves

LEMMA ReleaseFirstServes ==
  ASSUME TypeOK, NEW p \in Procs, Alone(p), NEW r, ReleaseFirst(p, r)
  PROVE  Serves(p)
<1> DEFINE v == [c \in BillIds |-> IF c \in Expired THEN "pending" ELSE "none"]
<1>1. PICK b \in Expired : ReleaseOne(p, b, v, r)
  BY DEF ReleaseFirst
<1>2. /\ b \in BillIds /\ v \in [BillIds -> Pin]
      /\ \A c \in BillIds : v[c] \in {"none", "unloaded", status[c]}
  BY DEF Expired, Pin, Status
<1> HIDE DEF v
<1> QED BY <1>1, <1>2, ReleaseServes

LEMMA ReleaseAgainServes ==
  ASSUME TypeOK, AloneInv, NEW p \in Procs, Alone(p), Release(p)
  PROVE  Serves(p)
<1>1. CASE ReleaseNext(p)
  BY <1>1, ReleaseServes DEF ReleaseNext, TypeOK, LocalsOK, AloneInv
<1>2. CASE ReleaseReload(p)
  BY <1>2 DEF ReleaseReload, Serves, AloneInv, TypeOK, LocalsOK, rows
<1>3. CASE ReleaseRefused(p)
  BY <1>3, CloseServes DEF ReleaseRefused
<1> QED BY <1>1, <1>2, <1>3 DEF Release

LEMMA SessionServes ==
  ASSUME TypeOK, AloneInv, NEW s \in Sessions, Alone(s), SessionNext(s)
  PROVE  AloneStep
<1> s \in Procs
  BY DEF Procs
<1>0. ASSUME Serves(s) PROVE AloneStep
  BY <1>0 DEF AloneStep
<1>1. ASSUME NEW r \in Request, PreauthStart(s, r) PROVE Serves(s)
  <2>1. /\ After(r) # "grant" /\ (After(r) \in {"lookup", "reserve"} => r # NoReq)
        /\ \A b \in BillIds : pins[s][b] = "none"
    BY <1>1 DEF After, PreauthStart, AloneInv
  <2> QED BY <1>1, <2>1 DEF PreauthStart, Serves, TypeOK, LocalsOK
<1>2. ASSUME NEW r, ReleaseFirst(s, r) PROVE Serves(s)
  BY <1>2, ReleaseFirstServes
<1>3. CASE Release(s)
  BY <1>0, <1>3, ReleaseAgainServes
<1>4. CASE PreauthLookup(s)
  <2>1. CASE Close(s)
    BY <1>0, <2>1, CloseServes
  <2>2. CASE ~Close(s)
    BY <1>0, <1>4, <2>2 DEF PreauthLookup, Serves, AloneInv, TypeOK, LocalsOK, rows
  <2> QED BY <2>1, <2>2
<1>5. CASE PreauthReserve(s) \/ PreauthFails(s) \/ CommitSettle(s) \/ \E amount \in TopUps : GrantWrite(s, amount)
  BY <1>0, <1>5, CloseServes DEF PreauthReserve, PreauthFails, CommitSettle, GrantWrite
<1>6. ASSUME NEW b \in BillIds, CommitRead(s, b) PROVE Serves(s)
  BY <1>6 DEF CommitRead, Serves, AloneInv, TypeOK, LocalsOK, rows
<1>7. ASSUME NEW b \in BillIds, Refund(s, b) PROVE Serves(s)
  <2>1. \A c \in BillIds : pins[s][c] = "none" /\ pc[s] = "idle"
    BY <1>7 DEF Refund, AloneInv
  <2> QED BY <1>7, <2>1 DEF Refund, Serves, local
<1>8. CASE GrantRead(s)
  BY <1>0, <1>8 DEF GrantRead, Serves, AloneInv, TypeOK, LocalsOK, rows
<1> QED BY <1>0, <1>1, <1>2, <1>3, <1>4, <1>5, <1>6, <1>7, <1>8 DEF SessionNext

LEMMA SerialAlone == TypeOK /\ AloneInv /\ [SerialNext]_vars => AloneStep
<1> SUFFICES ASSUME TypeOK, AloneInv, [SerialNext]_vars PROVE AloneStep
  OBVIOUS
<1> Worker \in Procs
  BY DEF Procs
<1>1. CASE \E s \in Sessions : Alone(s) /\ SessionNext(s)
  BY <1>1, SessionServes
<1>2. CASE Alone(Worker) /\ WorkerNext
  BY <1>2, ReleaseFirstServes, ReleaseAgainServes DEF WorkerNext, AloneStep
<1>3. CASE (\A p \in Procs : pc[p] = "idle") /\ \E amount \in TopUps : GrantQuota(amount)
  BY <1>3 DEF GrantQuota, AloneStep
<1>4. CASE \E p \in Procs : Crash(p)
  <2>1. PICK p \in Procs : Crash(p)
    BY <1>4
  <2>2. Alone(p)
    BY <2>1 DEF Crash, Alone, AloneInv
  <2> QED BY <2>1, <2>2, CloseServes DEF Crash, AloneStep
<1>5. CASE \/ \E b \in BillIds : Lapse(b)
           \/ \E k \in Keys : KeyAges(k)
           \/ UNCHANGED vars
  BY <1>5 DEF Lapse, KeyAges, vars, rows, AloneStep
<1> QED BY <1>1, <1>2, <1>3, <1>4, <1>5 DEF SerialNext

\* Served alone, a transaction that closes a bill finds it pending.
Closers == {"billing.refund", "platform_ai.refund", "billing.expire_preauth"}
Adds(amount) ==
  /\ balance' = balance + amount
  /\ UNCHANGED <<reserved, status, billKey, cost, origin, actual, idem, charged, held>>
MoneyStep ==
  \/ UNCHANGED rows
  \/ \E b \in BillIds : /\ status[b] = "pending"
                        /\ \/ \E op \in Closers : RefundTxn(op, b)
                           \/ \E real \in RealCosts(b) : SettleTxn(b, real)
  \/ \E s \in Procs : PreauthReserve(s)
  \/ \E amount \in TopUps : Adds(amount)

LEMMA SerialMoney == TypeOK /\ AloneInv /\ [SerialNext]_vars => MoneyStep
<1> SUFFICES ASSUME TypeOK, AloneInv, [SerialNext]_vars PROVE MoneyStep
  OBVIOUS
<1> Sessions \subseteq Procs /\ Worker \in Procs
  BY DEF Procs
<1>0. ASSUME UNCHANGED rows PROVE MoneyStep
  BY <1>0 DEF MoneyStep
<1>1. ASSUME NEW p \in Procs, NEW b \in BillIds, pins[p][b] = "pending" PROVE status[b] = "pending"
  BY <1>1 DEF AloneInv
<1>2. ASSUME NEW p \in Procs, NEW r, ReleaseFirst(p, r) PROVE MoneyStep
  BY <1>2 DEF ReleaseFirst, ReleaseOne, Expired, Closers, MoneyStep
<1>3. ASSUME NEW p \in Procs, Release(p) PROVE MoneyStep
  BY <1>0, <1>1, <1>3 DEF Release, ReleaseNext, ReleaseReload, ReleaseRefused, ReleaseOne, Closers, MoneyStep
<1>4. ASSUME NEW s \in Sessions, PreauthReserve(s) PROVE MoneyStep
  BY <1>4 DEF MoneyStep
<1>5. ASSUME NEW s \in Sessions, NEW b \in BillIds, Refund(s, b) PROVE MoneyStep
  BY <1>5 DEF Refund, RefundOps, Closers, MoneyStep
<1>6. ASSUME NEW s \in Sessions, CommitSettle(s) PROVE MoneyStep
  <2>1. PICK b \in BillIds :
          /\ pins[s][b] = "pending"
          /\ IF b \in lapsed THEN RefundTxn("billing.expire_preauth", b)
             ELSE \E real \in RealCosts(b) : SettleTxn(b, real)
    BY <1>6 DEF CommitSettle
  <2>2. status[b] = "pending"
    BY <1>1, <2>1
  <2> QED BY <2>1, <2>2 DEF Closers, MoneyStep
<1>7. ASSUME NEW s \in Sessions, NEW amount \in TopUps, GrantWrite(s, amount) PROVE MoneyStep
  <2>1. seen[s] = balance
    BY <1>7 DEF GrantWrite, AloneInv
  <2> QED BY <1>0, <1>7, <2>1 DEF GrantWrite, Adds, MoneyStep
<1>8. ASSUME NEW amount \in TopUps, GrantQuota(amount) PROVE MoneyStep
  BY <1>8 DEF GrantQuota, Adds, MoneyStep
<1>9. CASE \/ \E s \in Sessions, r \in Request : PreauthStart(s, r)
           \/ \E s \in Sessions : PreauthLookup(s) \/ PreauthFails(s) \/ GrantRead(s)
           \/ \E s \in Sessions, b \in BillIds : CommitRead(s, b)
           \/ \E b \in BillIds : Lapse(b)
           \/ \E k \in Keys : KeyAges(k)
           \/ \E p \in Procs : Crash(p)
           \/ UNCHANGED vars
  BY <1>0, <1>9
  DEF PreauthStart, PreauthLookup, PreauthFails, GrantRead, CommitRead, Lapse, KeyAges, Crash, vars
<1> QED BY <1>2, <1>3, <1>4, <1>5, <1>6, <1>7, <1>8, <1>9 DEF SerialNext, SessionNext, WorkerNext

-----------------------------------------------------------------------------
\* Every pending bill has its hold, in full and once; the hold is covered by the
\* balance; and no row of a pending bill's key says it was closed.
Covered == reserved <= balance
ClosersFree ==
  \A b \in BillIds : status[b] = "pending" /\ billKey[b] # NoKey =>
    \A op \in Closers \cup {"billing.settle"} : <<op, billKey[b]>> \notin idem
MoneyInv == HoldsExact /\ Covered /\ ClosersFree

LEMMA HoldIsThere ==
  ASSUME TypeOK, HoldsExact, NEW b \in BillIds, status[b] = "pending"
  PROVE  /\ cost[b] <= reserved /\ Lifted(b) = reserved - cost[b]
         /\ \A x : x # "pending" =>
              Cardinality(HeldUnits([status EXCEPT ![b] = x], cost)) = reserved - cost[b]
<1> DEFINE before == Cardinality(HeldUnits(status, cost))
           lifted(x) == Cardinality(HeldUnits([status EXCEPT ![b] = x], cost))
<1>1. ASSUME NEW x, x # "pending" PROVE lifted(x) = before - cost[b] /\ cost[b] <= before
  <2>1. status \in [BillIds -> Status] /\ cost \in [BillIds -> 0 .. MaxCost]
    BY DEF TypeOK, RowsOK
  <2> QED BY <1>1, <2>1, LeavePending, ZenonT(20)
<1>2. reserved = before /\ reserved \in Nat /\ cost[b] \in Nat
  BY DEF HoldsExact, TypeOK, RowsOK
<1> HIDE DEF before, lifted
<1>3. cost[b] <= reserved
  <2>1. "none" # "pending"
    OBVIOUS
  <2> QED BY <1>1, <1>2, <2>1
<1>4. Lifted(b) = reserved - cost[b]
  BY <1>2, <1>3 DEF Lifted, Monus
<1>5. ASSUME NEW x, x # "pending" PROVE lifted(x) = reserved - cost[b]
  BY <1>1, <1>2, <1>5
<1> QED BY <1>3, <1>4, <1>5 DEF lifted

LEMMA CloseHoldsExact ==
  ASSUME TypeOK, HoldsExact, NEW b \in BillIds, status[b] = "pending", NEW x, x # "pending",
         reserved' = Lifted(b), status' = [status EXCEPT ![b] = x], cost' = cost,
         held' = [held EXCEPT ![b] = @ - cost[b]]
  PROVE  HoldsExact'
<1>1. reserved' = Cardinality(HeldUnits(status', cost'))
  BY HoldIsThere
<1>2. \A c \in BillIds : held'[c] = IF status'[c] = "pending" THEN cost'[c] ELSE 0
  BY DEF HoldsExact, TypeOK, RowsOK
<1> QED BY <1>1, <1>2 DEF HoldsExact

LEMMA ReserveHoldsExact ==
  ASSUME TypeOK, HoldsExact, NEW s \in Procs, PreauthReserve(s)
  PROVE  HoldsExact'
<1> DEFINE n == req[s].cost
<1>1. n \in 0 .. MaxCost
  BY RequestFields DEF TypeOK, LocalsOK
<1>2. PICK b \in BillIds : /\ status[b] = "none"
                          /\ status' = [status EXCEPT ![b] = "pending"]
                          /\ cost' = [cost EXCEPT ![b] = n]
                          /\ held' = [held EXCEPT ![b] = n]
  BY DEF PreauthReserve
<1>3. reserved' = reserved + n
  BY DEF PreauthReserve
<1> HIDE DEF n
<1>4. status \in [BillIds -> Status] /\ cost \in [BillIds -> 0 .. MaxCost] /\ status[b] # "pending"
  BY <1>2 DEF TypeOK, RowsOK
<1>5. \A st \in [BillIds -> Status], co \in [BillIds -> 0 .. MaxCost], k \in 0 .. MaxCost :
        st[b] # "pending" =>
          Cardinality(HeldUnits([st EXCEPT ![b] = "pending"], [co EXCEPT ![b] = k]))
            = Cardinality(HeldUnits(st, co)) + k
  BY EnterPending
<1>6. Cardinality(HeldUnits(status', cost')) = Cardinality(HeldUnits(status, cost)) + n
  BY <1>1, <1>2, <1>4, <1>5
<1>7. reserved' = Cardinality(HeldUnits(status', cost'))
  BY <1>3, <1>6 DEF HoldsExact
<1>8. \A c \in BillIds : held'[c] = IF status'[c] = "pending" THEN cost'[c] ELSE 0
  BY <1>2 DEF HoldsExact, TypeOK, RowsOK
<1> QED BY <1>7, <1>8 DEF HoldsExact

LEMMA SameHoldsExact == HoldsExact /\ UNCHANGED <<reserved, status, cost, held>> => HoldsExact'
  BY DEF HoldsExact, HeldUnits

\* A bill closed under its key leaves the other bills' keys alone.
LEMMA ClosedKeysFree ==
  ASSUME TypeOK, OneBillPerKey, ClosersFree, NEW b \in BillIds, NEW op, NEW x, x # "pending",
         status' = [status EXCEPT ![b] = x], idem' = Recorded(op, b), UNCHANGED billKey
  PROVE  ClosersFree'
<1> SUFFICES ASSUME NEW c \in BillIds, status'[c] = "pending", billKey'[c] # NoKey,
                    NEW closer \in Closers \cup {"billing.settle"}
             PROVE  <<closer, billKey'[c]>> \notin idem'
  BY DEF ClosersFree
<1>1. c # b /\ status[c] = "pending" /\ billKey[c] # NoKey
  BY DEF TypeOK, RowsOK
<1>2. <<closer, billKey[c]>> \notin idem
  BY <1>1 DEF ClosersFree
<1>3. billKey[b] # billKey[c]
  BY <1>1 DEF OneBillPerKey
<1> QED BY <1>2, <1>3 DEF Recorded

\* A key that opens a bill has no row yet, and its own row closes nothing.
LEMMA ReserveKeysFree ==
  ASSUME TypeOK, FreshBills, KeyRowsHaveBills, ClosersFree, NEW s \in Procs, PreauthReserve(s)
  PROVE  ClosersFree'
<1>1. PICK r \in Request \cup {NoReq} : r = req[s]
  BY DEF TypeOK, LocalsOK
<1>2. r.key \in Keys \cup {NoKey} /\ (r.key # NoKey => r.origin \in Origins)
  BY RequestFields
<1>3. /\ ~KeyTaken(r)
      /\ idem' = IF r.key = NoKey THEN idem ELSE idem \cup {<<r.origin, r.key>>}
  BY <1>1 DEF PreauthReserve
<1>4. PICK b \in BillIds : /\ status' = [status EXCEPT ![b] = "pending"]
                          /\ billKey' = [billKey EXCEPT ![b] = r.key]
  BY <1>1 DEF PreauthReserve
<1>5. r.key # NoKey => \A row \in idem : row[2] # r.key
  BY <1>3 DEF KeyTaken, KeyRowsHaveBills, FreshBills
<1>6. \A op \in Closers \cup {"billing.settle"} : op \notin Origins
  BY DEF Closers
<1> SUFFICES ASSUME NEW c \in BillIds, status'[c] = "pending", billKey'[c] # NoKey,
                    NEW op \in Closers \cup {"billing.settle"}
             PROVE  <<op, billKey'[c]>> \notin idem'
  BY DEF ClosersFree
<1>7. <<op, billKey'[c]>> \notin idem
  <2>1. CASE c = b
    BY <1>4, <1>5, <2>1 DEF TypeOK, RowsOK
  <2>2. CASE c # b
    BY <1>4, <2>2 DEF ClosersFree, TypeOK, RowsOK
  <2> QED BY <2>1, <2>2
<1> QED BY <1>2, <1>3, <1>6, <1>7

LEMMA RealAtMostCost ==
  ASSUME TypeOK, NEW b \in BillIds, NEW real \in RealCosts(b)
  PROVE  real \in 0 .. cost[b]
  BY DEF RealCosts, TypeOK, RowsOK

LEMMA MoneyInvStep == TypeOK /\ RowInv /\ MoneyInv /\ MoneyStep => MoneyInv'
<1> SUFFICES ASSUME TypeOK, RowInv, MoneyInv, MoneyStep PROVE MoneyInv'
  OBVIOUS
<1> USE DEF MoneyInv, RowInv
<1>0. balance \in Nat /\ reserved \in Nat /\ cost \in [BillIds -> 0 .. MaxCost]
  BY DEF TypeOK, RowsOK
<1>1. CASE UNCHANGED rows
  BY <1>1, SameHoldsExact DEF rows, Covered, ClosersFree
<1>2. ASSUME NEW b \in BillIds, status[b] = "pending", NEW op \in Closers, RefundTxn(op, b), ~UNCHANGED rows
      PROVE  MoneyInv'
  <2>1. /\ reserved' = Lifted(b) /\ status' = [status EXCEPT ![b] = "refunded"]
        /\ held' = [held EXCEPT ![b] = @ - cost[b]] /\ idem' = Recorded(op, b)
        /\ UNCHANGED <<balance, billKey, cost>>
    BY <1>2 DEF RefundTxn
  <2>2. Lifted(b) = reserved - cost[b]
    BY <1>2, HoldIsThere
  <2>3. Covered'
    BY <1>0, <2>1, <2>2 DEF Covered
  <2> QED BY <1>2, <2>1, <2>3, CloseHoldsExact, ClosedKeysFree
<1>3. ASSUME NEW b \in BillIds, status[b] = "pending", NEW real \in RealCosts(b), SettleTxn(b, real),
             ~UNCHANGED rows
      PROVE  MoneyInv'
  <2>1. /\ reserved' = Lifted(b) /\ status' = [status EXCEPT ![b] = "settled"]
        /\ held' = [held EXCEPT ![b] = @ - cost[b]] /\ idem' = Recorded("billing.settle", b)
        /\ RowAllowed(balance - real, Lifted(b)) /\ balance' = balance - real
        /\ UNCHANGED <<billKey, cost>>
    BY <1>3 DEF SettleTxn
  <2>2. Covered'
    BY <2>1 DEF Covered, RowAllowed
  <2> QED BY <1>3, <2>1, <2>2, CloseHoldsExact, ClosedKeysFree
<1>4. ASSUME NEW s \in Procs, PreauthReserve(s) PROVE MoneyInv'
  <2>1. req[s].cost \in 0 .. MaxCost
    BY RequestFields DEF TypeOK, LocalsOK
  <2>2. Covered'
    BY <1>0, <1>4, <2>1 DEF PreauthReserve, Covered
  <2> QED BY <1>4, <2>2, ReserveHoldsExact, ReserveKeysFree
<1>5. ASSUME NEW amount \in TopUps, Adds(amount) PROVE MoneyInv'
  <2>1. HoldsExact'
    BY <1>5, SameHoldsExact DEF Adds
  <2>2. amount \in Nat /\ Covered'
    BY <1>0, <1>5 DEF Adds, Covered
  <2>3. ClosersFree'
    BY <1>5 DEF Adds, ClosersFree
  <2> QED BY <2>1, <2>2, <2>3
<1> QED BY <1>1, <1>2, <1>3, <1>4, <1>5 DEF MoneyStep

\* A reported write is written: neither constraint refuses a pending bill anything.
LEMMA MoneyRefusesNothing == TypeOK /\ MoneyInv => NoWriteRefused
<1> SUFFICES ASSUME TypeOK, MoneyInv, NEW b \in BillIds, status[b] = "pending"
             PROVE  /\ \A op \in {"billing.settle", "billing.expire_preauth", "billing.refund"} : ~Conflict(op, b)
                    /\ \A real \in RealCosts(b) : RowAllowed(balance - real, Lifted(b))
  BY DEF NoWriteRefused
<1>1. \A op \in {"billing.settle", "billing.expire_preauth", "billing.refund"} : ~Conflict(op, b)
  BY DEF MoneyInv, ClosersFree, Closers, Conflict
<1>2. ASSUME NEW real \in RealCosts(b) PROVE RowAllowed(balance - real, Lifted(b))
  <2>1. real \in 0 .. cost[b] /\ cost[b] <= reserved /\ Lifted(b) = reserved - cost[b]
    BY RealAtMostCost, HoldIsThere DEF MoneyInv
  <2>2. reserved <= balance /\ balance \in Nat /\ reserved \in Nat /\ cost[b] \in Nat
    BY DEF MoneyInv, Covered, TypeOK, RowsOK
  <2> QED BY <2>1, <2>2 DEF RowAllowed
<1> QED BY <1>1, <1>2

LEMMA ContractStep == TypeOK /\ AloneInv /\ MoneyInv /\ MoneyStep => [Contract!Next]_(Contract!vars)
<1> SUFFICES ASSUME TypeOK, AloneInv, MoneyInv, MoneyStep PROVE [Contract!Next]_(Contract!vars)
  OBVIOUS
<1>1. CASE UNCHANGED rows
  BY <1>1 DEF rows, Contract!vars
<1>2. ASSUME NEW b \in BillIds, status[b] = "pending", NEW op \in Closers, RefundTxn(op, b), ~UNCHANGED rows
      PROVE  Contract!Next
  <2>1. Contract!Release(b)
    BY <1>2, HoldIsThere DEF RefundTxn, Contract!Release, MoneyInv
  <2> QED BY <2>1 DEF Contract!Next
<1>3. ASSUME NEW b \in BillIds, status[b] = "pending", NEW real \in RealCosts(b), SettleTxn(b, real),
             ~UNCHANGED rows
      PROVE  Contract!Next
  <2>1. Contract!Charge(b, real)
    BY <1>3, HoldIsThere DEF SettleTxn, Contract!Charge, MoneyInv
  <2> QED BY <2>1, RealAtMostCost DEF Contract!Next
<1>4. ASSUME NEW s \in Procs, PreauthReserve(s) PROVE Contract!Next
  <2>1. req[s] \in Request
    BY <1>4 DEF PreauthReserve, AloneInv, TypeOK, LocalsOK
  <2>2. req[s].cost \in Costs /\ req[s].cost \in Nat
    <3>1. \A r \in Request : r.cost \in Costs
      BY DEF Request
    <3>2. req[s].cost \in 0 .. MaxCost
      BY <2>1, RequestFields
    <3> QED BY <2>1, <3>1, <3>2
  <2>3. /\ req[s].cost <= balance - reserved
        /\ reserved' = reserved + req[s].cost /\ UNCHANGED <<balance, actual>>
    BY <1>4, <2>2 DEF PreauthReserve, TypeOK, RowsOK
  <2>4. PICK b \in BillIds : /\ status[b] = "none"
                            /\ status' = [status EXCEPT ![b] = "pending"]
                            /\ cost' = [cost EXCEPT ![b] = req[s].cost]
    BY <1>4 DEF PreauthReserve
  <2>5. Contract!Reserve(b, req[s].cost)
    BY <2>3, <2>4 DEF Contract!Reserve
  <2> QED BY <2>2, <2>5 DEF Contract!Next
<1>5. ASSUME NEW amount \in TopUps, Adds(amount) PROVE Contract!Next
  BY <1>5 DEF Adds, Contract!Grant, Contract!Next
<1> QED BY <1>1, <1>2, <1>3, <1>4, <1>5 DEF MoneyStep

LEMMA SerialIsBilling == SerialNext => Next
  BY DEF SerialNext, Next

LEMMA InitMoney == Init => AloneInv /\ MoneyInv
<1> SUFFICES ASSUME Init PROVE AloneInv /\ MoneyInv
  OBVIOUS
<1>1. AloneInv
  BY DEF Init, AloneInv, NoPins
<1>2. HeldUnits(status, cost) = {}
  BY DEF Init, HeldUnits
<1>3. HoldsExact
  BY <1>2, FS_EmptySet DEF Init, HoldsExact
<1>4. Covered /\ ClosersFree
  BY DEF Init, Covered, ClosersFree
<1> QED BY <1>1, <1>3, <1>4 DEF MoneyInv

SerialInv == AccountInv /\ AloneInv /\ MoneyInv

\* With one request at a time, an open request's memory stays true and every hold is exact.
THEOREM SerialInvariant == SerialSpec => []SerialInv
<1>1. Init => SerialInv
  BY InitInv, InitMoney DEF SerialInv
<1>2. SerialInv /\ [SerialNext]_vars => SerialInv'
  <2> SUFFICES ASSUME SerialInv, [SerialNext]_vars PROVE SerialInv'
    OBVIOUS
  <2>1. [Next]_vars
    BY SerialIsBilling
  <2>2. AccountInv'
    BY <2>1, NextType, NextRowInv, NextStatus, NextPins, PinInvStep DEF AccountInv, SerialInv
  <2>3. AloneInv'
    BY SerialAlone, AloneInvStep DEF AccountInv, SerialInv
  <2>4. MoneyInv'
    BY SerialMoney, MoneyInvStep DEF AccountInv, SerialInv
  <2> QED BY <2>2, <2>3, <2>4 DEF SerialInv
<1> QED BY <1>1, <1>2, PTL DEF SerialSpec

\* Exactly the pending estimates are frozen, bill by bill, if no two requests interleave.
THEOREM HoldsAreExact == SerialSpec => []HoldsExact
  BY SerialInvariant, PTL DEF SerialInv, MoneyInv

\* Then no reported write is rolled back, by a duplicate key row or by the row constraints.
THEOREM WritesHold == SerialSpec => []NoWriteRefused
<1>1. SerialInv => NoWriteRefused
  BY MoneyRefusesNothing DEF SerialInv, AccountInv
<1> QED BY <1>1, SerialInvariant, PTL

\* Then the service keeps its contract: what Billing does beyond it comes of interleavings.
THEOREM ContractRefinement == SerialSpec => ImplementsContract
<1>1. Init => Contract!Init
  BY DEF Init, Contract!Init
<1>2. SerialInv /\ [SerialNext]_vars => [Contract!Next]_(Contract!vars)
  BY SerialMoney, ContractStep DEF SerialInv, AccountInv
<1> QED BY <1>1, <1>2, SerialInvariant, PTL DEF SerialSpec, ImplementsContract, Contract!Spec
=============================================================================

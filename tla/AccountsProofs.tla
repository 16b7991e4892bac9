--------------------------- MODULE AccountsProofs ---------------------------
(***************************************************************************)
(* Proofs about Accounts and Resources, for any users, requests, batches   *)
(* and versions.                                                           *)
(***************************************************************************)
EXTENDS Resources, SequenceTheorems, TLAPS

USE BatchAssumption

-----------------------------------------------------------------------------
(* One request.                                                            *)

\* What is known of a request r while the accounts have status st.
Good(r, st) == r \in Request /\ InStep(r) /\ Tells(r, st) /\ Known(r, st)

\* A request names users and has results, MaxBatch at most.
LEMMA Lists ==
  ASSUME NEW r \in Request
  PROVE  /\ r.todo \in Seq(Users) /\ Len(r.todo) \in 1..MaxBatch /\ DOMAIN r.todo = 1..Len(r.todo)
         /\ \A i \in 1..Len(r.todo) : r.todo[i] \in Users
         /\ r.out \in Seq(Outcomes) /\ Len(r.out) \in 0..MaxBatch /\ DOMAIN r.out = 1..Len(r.out)
         /\ At(r) = Len(r.out) + 1
<1>1. PICK n \in 1..MaxBatch : r.todo \in [1..n -> Users]
  BY DEF Request, Batches
<1>2. PICK k \in 0..MaxBatch : r.out \in [1..k -> Outcomes]
  BY DEF Request
<1>3. n \in Nat /\ k \in Nat
  BY <1>1, <1>2
<1>4. r.todo \in Seq(Users) /\ Len(r.todo) = n
  BY <1>1, <1>3
<1>5. r.out \in Seq(Outcomes) /\ Len(r.out) = k
  BY <1>2, <1>3
<1> QED
  BY <1>1, <1>2, <1>3, <1>4, <1>5 DEF At

\* Results stay a list of results with one more, if there is room.
LEMMA OneMore ==
  ASSUME NEW out \in Seq(Outcomes), NEW n \in Nat, Len(out) < n, n <= MaxBatch, NEW x \in Outcomes
  PROVE  /\ Append(out, x) \in UNION {[1..k -> Outcomes] : k \in 0..MaxBatch}
         /\ Len(Append(out, x)) = Len(out) + 1
         /\ DOMAIN Append(out, x) = 1..(Len(out) + 1)
         /\ \A i \in 1..Len(out) : Append(out, x)[i] = out[i]
         /\ Append(out, x)[Len(out) + 1] = x
<1>1. Append(out, x) \in Seq(Outcomes) /\ Len(Append(out, x)) = Len(out) + 1
  OBVIOUS
<1>2. Len(out) + 1 \in 0..MaxBatch
  OBVIOUS
<1>3. Append(out, x) \in [1..Len(Append(out, x)) -> Outcomes]
  BY <1>1, LenProperties
<1>4. Append(out, x) \in [1..(Len(out) + 1) -> Outcomes]
  BY <1>1, <1>3
<1>5. /\ \A i \in 1..Len(out) : Append(out, x)[i] = out[i]
      /\ Append(out, x)[Len(out) + 1] = x
  BY AppendProperties
<1> QED
  BY <1>1, <1>2, <1>4, <1>5

\* The accounts go on: who was created stays created, who was erased stays erased.
Forward(st, st2) ==
  \A u \in Users : /\ st[u] # "absent" => st2[u] # "absent"
                   /\ st[u] = "erased" => st2[u] = "erased"

LEMMA Later ==
  ASSUME NEW st, NEW st2, Forward(st, st2), NEW r, Good(r, st)
  PROVE  Good(r, st2)
<1> USE DEF Good
<1>1. \A i \in 1..Len(r.todo) : r.todo[i] \in Users
  BY Lists
<1>2. DOMAIN r.todo = 1..Len(r.todo) /\ r.wrote \subseteq 1..Len(r.todo)
  BY Lists DEF InStep
<1>3. Tells(r, st2)
  <2>1. \A i \in DOMAIN r.out : i \in r.wrote /\ st[r.todo[i]] = "erased" => st2[r.todo[i]] = "erased"
    BY <1>1, <1>2 DEF Forward
  <2> QED
    BY <2>1 DEF Tells
<1>4. Known(r, st2)
  <2>1. \A i \in r.wrote : /\ st[r.todo[i]] # "absent" => st2[r.todo[i]] # "absent"
                           /\ st[r.todo[i]] = "erased" => st2[r.todo[i]] = "erased"
    BY <1>1, <1>2 DEF Forward
  <2>2. r.step \in {"write", "revoke"} => r.todo[At(r)] \in Users
    BY <1>1, Lists DEF InStep
  <2> QED
    BY <2>1, <2>2 DEF Known, Forward
<1> QED
  BY <1>3, <1>4

\* A result of what is committed, or an error of what is not, leaves the request good.
LEMMA ResultGood ==
  ASSUME NEW st, NEW r, Good(r, st), r.step \in {"read", "write", "revoke", "audit"},
         NEW x \in Outcomes, NEW a,
         a = r.audited \/ (a = r.audited \cup {At(r)} /\ At(r) \in r.wrote),
         x = "ok" => At(r) \in r.wrote,
         x = "error" /\ At(r) \in r.wrote =>
           r.op \in {"reset", "create"} /\ st[r.todo[At(r)]] = "erased"
  PROVE  Good([WithResult(r, x) EXCEPT !.audited = a], st)
<1> SUFFICES ASSUME NEW n, n = [WithResult(r, x) EXCEPT !.audited = a] PROVE Good(n, st)
  OBVIOUS
<1>0. r \in Request /\ InStep(r) /\ Tells(r, st) /\ Known(r, st)
  BY DEF Good
<1>1. /\ n = [op |-> r.op, todo |-> r.todo, batch |-> r.batch, step |-> n.step, seen |-> None,
              out |-> Append(r.out, x), wrote |-> r.wrote, audited |-> a]
      /\ n.step = IF At(r) < Len(r.todo) THEN "read" ELSE IF r.batch THEN "tally" ELSE "answered"
  BY <1>0 DEF WithResult, Request
<1>2. /\ n.op = r.op /\ n.todo = r.todo /\ n.batch = r.batch /\ n.seen = None
      /\ n.out = Append(r.out, x) /\ n.wrote = r.wrote /\ n.audited = a
  BY <1>1
<1>3. /\ r.out \in Seq(Outcomes) /\ Len(r.out) \in Nat /\ Len(r.todo) \in Nat /\ Len(r.todo) <= MaxBatch
      /\ DOMAIN r.out = 1..Len(r.out) /\ DOMAIN r.todo = 1..Len(r.todo) /\ At(r) = Len(r.out) + 1
  BY <1>0, Lists
<1>4. Len(r.out) < Len(r.todo)
  BY <1>0 DEF InStep
<1>5. /\ n.out \in UNION {[1..k -> Outcomes] : k \in 0..MaxBatch}
      /\ Len(n.out) = At(r) /\ DOMAIN n.out = 1..At(r)
      /\ \A i \in 1..Len(r.out) : n.out[i] = r.out[i]
      /\ n.out[At(r)] = x
  <2>1. /\ Append(r.out, x) \in UNION {[1..k -> Outcomes] : k \in 0..MaxBatch}
        /\ Len(Append(r.out, x)) = Len(r.out) + 1
        /\ DOMAIN Append(r.out, x) = 1..(Len(r.out) + 1)
        /\ \A i \in 1..Len(r.out) : Append(r.out, x)[i] = r.out[i]
        /\ Append(r.out, x)[Len(r.out) + 1] = x
    BY <1>3, <1>4, OneMore
  <2> QED
    BY <2>1, <1>2, <1>3
<1>6. /\ r.wrote \subseteq 1..At(r) /\ r.audited \ {0} \subseteq r.wrote \cap 1..Len(r.out)
      /\ r.wrote \subseteq DOMAIN r.todo /\ 0 \notin r.audited
  BY <1>0, <1>3 DEF Tells, InStep
<1>7. a \ {0} \subseteq r.wrote \cap 1..At(r) /\ 0 \notin a
  BY <1>3, <1>6
<1>8. n \in Request
  <2>1. r.op \in Ops /\ r.todo \in Batches /\ r.batch \in BOOLEAN /\ r.wrote \subseteq 1..MaxBatch
    BY <1>0 DEF Request
  <2>2. a \subseteq 0..MaxBatch
    BY <1>3, <1>4, <1>7
  <2>3. n.step \in {"read", "tally", "answered"}
    BY <1>1
  <2> QED
    BY <1>1, <1>5, <1>2, <2>1, <2>2, <2>3 DEF Request
<1>9. InStep(n)
  <2>1. n.step \in {"read", "tally", "answered"}
    BY <1>1
  <2>2. Len(n.out) = At(r) /\ Len(n.todo) = Len(r.todo) /\ At(r) <= Len(r.todo)
    BY <1>2, <1>3, <1>4, <1>5
  <2>3. n.step = "read" => Len(n.out) < Len(n.todo)
    BY <1>1, <2>2
  <2>4. n.step \in {"tally", "answered"} => Len(n.out) = Len(n.todo)
    BY <1>1, <1>3, <2>2
  <2>5. n.wrote \subseteq DOMAIN n.out /\ n.wrote \subseteq DOMAIN n.todo /\ 0 \notin n.audited
    BY <1>2, <1>5, <1>6, <1>7
  <2> QED
    BY <2>1, <2>2, <2>3, <2>4, <2>5 DEF InStep
<1>10. Tells(n, st)
  <2>1. ASSUME NEW i \in 1..At(r)
        PROVE  IF n.out[i] = "ok" THEN i \in n.wrote
               ELSE i \in n.wrote => n.op \in {"reset", "create"} /\ st[n.todo[i]] = "erased"
    <3>1. CASE i = At(r)
      BY <3>1, <1>2, <1>5 DEF Outcomes
    <3>2. CASE i # At(r)
      <4>1. i \in 1..Len(r.out)
        BY <3>2, <1>3
      <4>2. n.out[i] = r.out[i] /\ i \in DOMAIN r.out
        BY <4>1, <1>3, <1>5
      <4> QED
        BY <4>2, <1>0, <1>2 DEF Tells
    <3> QED
      BY <3>1, <3>2
  <2>2. n.audited \ {0} \subseteq n.wrote \cap DOMAIN n.out /\ 0 \notin n.audited
    BY <1>2, <1>5, <1>7
  <2>3. n.wrote \subseteq 1..At(n)
    BY <1>2, <1>3, <1>5, <1>6 DEF At
  <2> QED
    BY <2>1, <2>2, <2>3, <1>5 DEF Tells
<1>11. Known(n, st)
  <2>1. n.step \notin {"write", "revoke"}
    BY <1>1
  <2> QED
    BY <2>1, <1>0, <1>2 DEF Known
<1> QED
  BY <1>8, <1>9, <1>10, <1>11 DEF Good

\* What a result leaves alone, and what it adds.
LEMMA ResultParts ==
  ASSUME NEW r \in Request, NEW x
  PROVE  /\ WithResult(r, x).op = r.op /\ WithResult(r, x).todo = r.todo
         /\ WithResult(r, x).wrote = r.wrote /\ WithResult(r, x).audited = r.audited
         /\ WithResult(r, x).out = Append(r.out, x)
         /\ DOMAIN WithResult(r, x) = DOMAIN r /\ "audited" \in DOMAIN r
  BY DEF WithResult, Request

\* With nothing audited.
LEMMA ResultAlone ==
  ASSUME NEW st, NEW r, Good(r, st), r.step \in {"read", "write", "revoke", "audit"},
         NEW x \in Outcomes,
         x = "ok" => At(r) \in r.wrote,
         x = "error" /\ At(r) \in r.wrote =>
           r.op \in {"reset", "create"} /\ st[r.todo[At(r)]] = "erased"
  PROVE  Good(WithResult(r, x), st)
<1>1. WithResult(r, x) = [WithResult(r, x) EXCEPT !.audited = r.audited]
  BY DEF WithResult, Good, Request
<1>2. Good([WithResult(r, x) EXCEPT !.audited = r.audited], st)
  BY ResultGood
<1> QED
  BY <1>1, <1>2

\* A new request.
LEMMA NewGood ==
  ASSUME NEW st, NEW op \in Ops, NEW todo \in Batches, NEW batch \in BOOLEAN
  PROVE  Good(NewRequest(op, todo, batch), st)
<1> SUFFICES ASSUME NEW r, r = NewRequest(op, todo, batch) PROVE Good(r, st)
  OBVIOUS
<1>1. r = [op |-> op, todo |-> todo, batch |-> batch, step |-> "read", seen |-> None,
           out |-> <<>>, wrote |-> {}, audited |-> {}]
  BY DEF NewRequest
<1>2. <<>> \in UNION {[1..n -> Outcomes] : n \in 0..MaxBatch}
  <2>1. <<>> \in [1..0 -> Outcomes] /\ 0 \in 0..MaxBatch
    OBVIOUS
  <2> QED
    BY <2>1
<1>3. r \in Request
  BY <1>1, <1>2 DEF Request
<1>4. Len(r.todo) \in 1..MaxBatch /\ Len(r.out) = 0 /\ DOMAIN r.out = {}
  BY <1>1, <1>3, Lists
<1>5. r.step = "read" /\ r.wrote = {} /\ r.audited = {}
  BY <1>1
<1>6. InStep(r)
  BY <1>4, <1>5 DEF InStep
<1>7. Tells(r, st) /\ Known(r, st)
  BY <1>4, <1>5 DEF Tells, Known
<1> QED
  BY <1>3, <1>6, <1>7 DEF Good

LEMMA OneUser ==
  ASSUME NEW u \in Users
  PROVE  <<u>> \in Batches /\ Len(<<u>>) = 1 /\ <<u>>[1] = u
<1>1. <<u>> \in [1..1 -> Users] /\ 1 \in 1..MaxBatch
  OBVIOUS
<1> QED
  BY <1>1 DEF Batches

LEMMA OneUserNew ==
  ASSUME NEW u \in Users, NEW r \in Request, r.out = <<>>, r.todo = <<u>>
  PROVE  At(r) = 1 /\ r.todo[At(r)] = u
<1>1. Len(r.out) = 0
  BY Lists
<1>2. Len(r.out) = 0 => At(r) = 1
  BY Lists
<1> QED
  BY <1>1, <1>2, OneUser

\* A user was read, who is or was there.
LEMMA ReadGood ==
  ASSUME NEW st, NEW r, Good(r, st), r.step = "read", r.op # "erase",
         st[r.todo[At(r)]] # "absent",
         NEW x \in [status : Statuses, deleted : BOOLEAN] \cup {None},
         NEW n, n = [r EXCEPT !.step = "write", !.seen = x]
  PROVE  Good(n, st)
<1>1. /\ n.op = r.op /\ n.todo = r.todo /\ n.out = r.out /\ n.wrote = r.wrote
      /\ n.audited = r.audited /\ n.step = "write" /\ n \in Request
  BY DEF Good, Request
<1>2. At(n) = At(r)
  BY <1>1 DEF At
<1>3. InStep(n)
  BY <1>1, <1>2 DEF Good, InStep
<1>4. Tells(n, st)
  BY <1>1, <1>2 DEF Good, Tells
<1>5. Known(n, st)
  BY <1>1, <1>2 DEF Good, Known
<1> QED
  BY <1>1, <1>3, <1>4, <1>5 DEF Good

\* A change of the current user is committed.
LEMMA CommitGood ==
  ASSUME NEW st, NEW r, Good(r, st), r.step \in {"read", "write"},
         NEW step \in {"audit", "revoke"},
         step = "revoke" => r.op = "reset",
         st[r.todo[At(r)]] # "absent",
         r.op = "erase" => st[r.todo[At(r)]] = "erased",
         NEW n, n = [Committed(r) EXCEPT !.step = step]
  PROVE  Good(n, st)
<1>1. r \in Request
  BY DEF Good
<1>2. /\ Len(r.out) \in Nat /\ Len(r.todo) \in Nat /\ Len(r.todo) <= MaxBatch /\ At(r) = Len(r.out) + 1
      /\ DOMAIN r.out = 1..Len(r.out) /\ DOMAIN r.todo = 1..Len(r.todo)
  BY <1>1, Lists
<1>3. Len(r.out) < Len(r.todo) /\ r.wrote \subseteq 1..Len(r.out) /\ 0 \notin r.audited
  BY <1>2 DEF Good, InStep
<1>4. /\ n.op = r.op /\ n.todo = r.todo /\ n.out = r.out /\ n.wrote = r.wrote \cup {At(r)}
      /\ n.audited = r.audited /\ n.step = step /\ n.batch = r.batch /\ n.seen = r.seen
  BY <1>1 DEF Committed, Request
<1>5. At(r) \in 1..MaxBatch /\ At(r) \in 1..Len(r.todo)
  BY <1>2, <1>3
<1>6. n \in Request
  <2>1. r.wrote \cup {At(r)} \subseteq 1..MaxBatch
    BY <1>1, <1>5 DEF Request
  <2> QED
    BY <1>1, <2>1 DEF Committed, Request
<1>7. At(n) = At(r)
  BY <1>4 DEF At
<1>8. InStep(n)
  BY <1>2, <1>3, <1>4, <1>5, <1>7 DEF InStep
<1>9. Tells(n, st)
  <2>1. \A i \in DOMAIN r.out : i # At(r)
    BY <1>2
  <2>2. r.wrote \cup {At(r)} \subseteq 1..At(r)
    BY <1>2, <1>3
  <2> QED
    BY <1>3, <1>4, <1>7, <2>1, <2>2 DEF Good, Tells
<1>10. Known(n, st)
  BY <1>4, <1>7 DEF Good, Known
<1> QED
  BY <1>6, <1>8, <1>9, <1>10 DEF Good

\* It breaks off, or goes on from the revocation to the audit.
LEMMA StepGood ==
  ASSUME NEW st, NEW r, Good(r, st), r.step # "answered",
         NEW step, step = "aborted" \/ (step = "audit" /\ r.step = "revoke"),
         NEW n, n = [r EXCEPT !.step = step]
  PROVE  Good(n, st)
<1>1. /\ n.op = r.op /\ n.todo = r.todo /\ n.out = r.out /\ n.wrote = r.wrote
      /\ n.audited = r.audited /\ n.step = step /\ n \in Request
  BY DEF Good, Request
<1>2. At(n) = At(r)
  BY <1>1 DEF At
<1>3. InStep(n)
  BY <1>1, <1>2 DEF Good, InStep
<1>4. Tells(n, st)
  BY <1>1, <1>2 DEF Good, Tells
<1>5. Known(n, st)
  BY <1>1, <1>2 DEF Good, Known
<1> QED
  BY <1>1, <1>3, <1>4, <1>5 DEF Good

\* The row of the whole batch.
LEMMA TallyGood ==
  ASSUME NEW st, NEW r, Good(r, st), r.step = "tally",
         NEW a \in {r.audited, r.audited \cup {0}},
         NEW n, n = [r EXCEPT !.step = "answered", !.audited = a]
  PROVE  Good(n, st)
<1>0. r \in Request /\ a \in SUBSET (0..MaxBatch)
  BY DEF Good, Request
<1>1. /\ n.op = r.op /\ n.todo = r.todo /\ n.out = r.out /\ n.wrote = r.wrote
      /\ n.audited = a /\ n.step = "answered" /\ n \in Request
  BY <1>0 DEF Request
<1>2. At(n) = At(r)
  BY <1>1 DEF At
<1>3. InStep(n)
  BY <1>1, <1>2 DEF Good, InStep
<1>4. Tells(n, st)
  BY <1>1, <1>2 DEF Good, Tells, InStep
<1>5. Known(n, st)
  BY <1>1, <1>2 DEF Good, Known
<1> QED
  BY <1>1, <1>3, <1>4, <1>5 DEF Good

-----------------------------------------------------------------------------
(* The invariant, in two parts.                                            *)

RowsInv ==
  /\ status \in [Users -> Statuses \cup {"absent", "erased"}]
  /\ deletedAt \subseteq Users /\ device \subseteq Users
  /\ redeeming \subseteq Users /\ coded \subseteq device
  /\ \A u \in Users : ~Exists(u) => u \notin deletedAt \cup device
  /\ NoDeviceBarred

RequestsInv ==
  /\ req \in [Requests -> Request \cup {None}]
  /\ \A p \in Requests : req[p] # None => Good(req[p], status)
  /\ ErasedOnce

LEMMA Parts == AccountsInv <=> RowsInv /\ RequestsInv
<1>1. AccountsInv => RowsInv /\ RequestsInv
  BY DEF AccountsInv, TypeOK, RowsInv, RequestsInv, BatchTells, Good
<1>2. RowsInv /\ RequestsInv => AccountsInv
  <2>1. RequestsInv => BatchTells /\ \A p \in Requests : req[p] # None => InStep(req[p]) /\ Known(req[p], status)
    BY DEF RequestsInv, BatchTells, Good
  <2> QED
    BY <2>1 DEF AccountsInv, TypeOK, RowsInv, RequestsInv
<1> QED
  BY <1>1, <1>2

LEMMA NextParts == (AccountsInv)' <=> (RowsInv)' /\ (RequestsInv)'
BY Parts, PTL

LEMMA InitParts == Init => RowsInv /\ RequestsInv
<1> SUFFICES ASSUME Init PROVE RowsInv /\ RequestsInv
  OBVIOUS
<1>1. RowsInv
  BY DEF Init, RowsInv, Statuses, Exists, NoDeviceBarred
<1>2. \A p \in Requests : req[p] = None
  BY DEF Init
<1>3. Erasures = {}
  BY <1>2 DEF Erasures
<1> QED
  BY <1>1, <1>2, <1>3 DEF Init, RequestsInv, ErasedOnce

\* The user a request is at.
LEMMA OnUser ==
  ASSUME RequestsInv, NEW p \in Requests, req[p] # None,
         req[p].step \in {"read", "write", "revoke", "audit"}
  PROVE  On(p) \in Users /\ req[p] \in Request /\ req[p].op \in Ops
<1>1. req[p] \in Request /\ Len(req[p].out) < Len(req[p].todo)
  BY DEF RequestsInv, Good, InStep
<1>2. At(req[p]) \in 1..Len(req[p].todo)
  BY <1>1, Lists
<1> QED
  BY <1>1, <1>2, Lists DEF On, Request

\* A step of request p that erases nobody.
LEMMA RequestStep ==
  ASSUME RequestsInv, NEW p \in Requests, NEW n, req' = [req EXCEPT ![p] = n],
         Forward(status, status'), Good(n, status'),
         n.op = "erase" => n.wrote = {} \/ (req[p] # None /\ req[p].op = "erase"
                                            /\ n.todo = req[p].todo /\ n.wrote = req[p].wrote)
  PROVE  RequestsInv'
<1>1. n \in Request /\ req \in [Requests -> Request \cup {None}]
  BY DEF Good, RequestsInv
<1>2. req' \in [Requests -> Request \cup {None}] /\ req'[p] = n
  BY <1>1
<1>3. \A q \in Requests \ {p} : req'[q] = req[q]
  BY <1>1
<1>4. ASSUME NEW q \in Requests, req'[q] # None PROVE Good(req'[q], status')
  <2>1. CASE q = p
    BY <2>1, <1>2
  <2>2. CASE q # p
    <3>1. req'[q] = req[q] /\ Good(req[q], status)
      BY <2>2, <1>3, <1>4 DEF RequestsInv
    <3>2. Good(req[q], status')
      BY <3>1, Later
    <3> QED
      BY <3>1, <3>2
  <2> QED
    BY <2>1, <2>2
<1>5. ASSUME NEW x \in Erasures'
      PROVE  /\ x \in Erasures /\ req'[x[1]].todo[x[2]] = req[x[1]].todo[x[2]]
             /\ status'[req'[x[1]].todo[x[2]]] = "erased"
  <2>1. /\ x \in Requests \X (1..MaxBatch) /\ req'[x[1]] # None
        /\ req'[x[1]].op = "erase" /\ x[2] \in req'[x[1]].wrote
    BY <1>5 DEF Erasures
  <2>2. x[1] \in Requests
    BY <2>1
  <2>3. status'[req'[x[1]].todo[x[2]]] = "erased"
    BY <1>4, <2>1, <2>2 DEF Good, Known
  <2>4. /\ req[x[1]] # None /\ req[x[1]].op = "erase" /\ x[2] \in req[x[1]].wrote
        /\ req'[x[1]].todo = req[x[1]].todo
    <3>1. CASE x[1] = p
      BY <3>1, <1>2, <2>1
    <3>2. CASE x[1] # p
      BY <3>2, <1>3, <2>1, <2>2
    <3> QED
      BY <3>1, <3>2
  <2> QED
    BY <2>1, <2>3, <2>4 DEF Erasures
<1>6. ErasedOnce'
  <2>1. ASSUME NEW x \in Erasures', NEW y \in Erasures', req'[x[1]].todo[x[2]] = req'[y[1]].todo[y[2]]
        PROVE  x = y
    <3>1. x \in Erasures /\ y \in Erasures /\ req[x[1]].todo[x[2]] = req[y[1]].todo[y[2]]
      BY <1>5, <2>1
    <3> QED
      BY <3>1 DEF RequestsInv, ErasedOnce
  <2>2. \A x \in Erasures' : status'[req'[x[1]].todo[x[2]]] = "erased"
    BY <1>5
  <2> QED
    BY <2>1, <2>2 DEF ErasedOnce
<1> QED
  BY <1>2, <1>4, <1>6 DEF RequestsInv

\* Steps that leave the requests alone.
LEMMA RequestsStay ==
  ASSUME RequestsInv, UNCHANGED <<req, status>>
  PROVE  RequestsInv'
  BY DEF RequestsInv, ErasedOnce, Erasures

-----------------------------------------------------------------------------
(* The steps, request by request.                                          *)

\* A refusal, of nothing that is committed or of the reset of a user who was erased.
LEMMA RefuseGood ==
  ASSUME RowsInv, RequestsInv, NEW p \in Requests, req[p] # None,
         req[p].step \in {"read", "write"} \/ (req[p].step = "revoke" /\ ~Exists(On(p)))
  PROVE  Good(WithResult(req[p], "error"), status)
<1> DEFINE r == req[p]
<1>1. Good(r, status) /\ r.step \in {"read", "write", "revoke", "audit"} /\ "error" \in Outcomes
  BY DEF RequestsInv, Outcomes
<1>2. On(p) \in Users /\ r \in Request /\ r.out \in Seq(Outcomes) /\ DOMAIN r.out = 1..Len(r.out)
      /\ Len(r.out) \in Nat /\ At(r) = Len(r.out) + 1
  BY <1>1, OnUser, Lists
<1>3. At(r) \in r.wrote => r.op \in {"reset", "create"} /\ status[r.todo[At(r)]] = "erased"
  <2>1. CASE r.step \in {"read", "write"}
    <3>1. r.wrote \subseteq 1..Len(r.out)
      BY <2>1, <1>1, <1>2 DEF Good, InStep
    <3> QED
      BY <3>1, <1>2
  <2>2. CASE r.step = "revoke"
    <3>1. r.op = "reset" /\ status[r.todo[At(r)]] # "absent"
      BY <2>2, <1>1 DEF Good, Known
    <3>2. status[On(p)] \in Statuses \cup {"absent", "erased"} /\ status[On(p)] \notin Statuses
      BY <2>2, <1>2 DEF RowsInv, Exists
    <3> QED
      BY <3>1, <3>2 DEF On
  <2> QED
    BY <2>1, <2>2
<1> QED
  BY <1>1, <1>3, ResultAlone

LEMMA RefuseStep ==
  ASSUME RowsInv, RequestsInv, NEW p \in Requests, req[p] # None,
         req[p].step \in {"read", "write"} \/ (req[p].step = "revoke" /\ ~Exists(On(p))),
         Refuse(p)
  PROVE  RequestsInv'
<1> DEFINE r == req[p]
           n == WithResult(r, "error")
<1>1. Good(n, status) /\ r \in Request
  BY RefuseGood DEF RequestsInv, Good
<1>2. status' = status /\ req' = [req EXCEPT ![p] = n]
  BY DEF Refuse, Answer, rows
<1>3. n.op = r.op /\ n.todo = r.todo /\ n.wrote = r.wrote
  BY <1>1 DEF WithResult, Request
<1>4. Forward(status, status') /\ Good(n, status')
  BY <1>1, <1>2 DEF Forward
<1> HIDE DEF n
<1> QED
  BY <1>2, <1>3, <1>4, RequestStep

\* A commit that erases nobody.
LEMMA CommitStep ==
  ASSUME RowsInv, RequestsInv, NEW p \in Requests, req[p] # None, req[p].step \in {"read", "write"},
         req[p].op # "erase", NEW step \in {"audit", "revoke"}, step = "revoke" => req[p].op = "reset",
         Forward(status, status'), status[On(p)] # "absent", CommitTo(p, step)
  PROVE  RequestsInv'
<1> DEFINE r == req[p]
           n == [Committed(r) EXCEPT !.step = step]
<1>1. Good(r, status') /\ r \in Request
  BY Later DEF RequestsInv, Good
<1>2. On(p) \in Users
  BY OnUser
<1>3. status'[r.todo[At(r)]] # "absent"
  BY <1>2 DEF Forward, On
<1>4. Good(n, status')
  BY <1>1, <1>3, CommitGood
<1>5. req' = [req EXCEPT ![p] = n]
  BY DEF CommitTo
<1>6. n.op # "erase"
  BY <1>1 DEF Committed, Request
<1> HIDE DEF n
<1> QED
  BY <1>4, <1>5, <1>6, RequestStep

\* Somebody is served at once.
LEMMA ServeStep ==
  ASSUME RequestsInv, NEW p \in Requests, NEW u \in Users, NEW op \in {"register", "create", "revoke", "own"},
         Forward(status, status'), status'[u] # "absent",
         NEW step \in {"audit", "write"}, NEW r, r = NewRequest(op, <<u>>, FALSE),
         NEW n, step = "audit" => n = [Committed(r) EXCEPT !.step = "audit"],
         step = "write" => n = [r EXCEPT !.step = "write"],
         req' = [req EXCEPT ![p] = n]
  PROVE  RequestsInv'
<1>1. op \in Ops /\ op # "erase" /\ op # "reset"
  BY DEF Ops, Batchable, Updates, Statuses
<1>2. Good(r, status') /\ r \in Request
  BY <1>1, OneUser, NewGood DEF Good
<1>3. r.op = op /\ r.step = "read" /\ r.todo = <<u>> /\ r.out = <<>> /\ r.seen = None
  BY DEF NewRequest
<1>4. At(r) = 1 /\ r.todo[At(r)] = u
  BY <1>2, <1>3, OneUserNew
<1>5. status'[r.todo[At(r)]] # "absent"
  BY <1>4
<1>6. Good(n, status')
  <2>1. CASE step = "audit"
    <3>1. /\ r.step \in {"read", "write"} /\ "audit" \in {"audit", "revoke"}
          /\ ("audit" = "revoke" => r.op = "reset") /\ r.op # "erase"
          /\ n = [Committed(r) EXCEPT !.step = "audit"]
      BY <2>1, <1>1, <1>3
    <3> QED
      BY ONLY <3>1, <1>2, <1>5, CommitGood
  <2>2. CASE step = "write"
    <3>1. n = [r EXCEPT !.step = "write", !.seen = None]
      BY <2>2, <1>2, <1>3 DEF Request
    <3> QED
      BY <3>1, <1>1, <1>2, <1>3, <1>5, ReadGood
  <2> QED
    BY <2>1, <2>2
<1>7. n.op = op
  BY <1>2, <1>3 DEF Committed, Request
<1> QED
  BY <1>1, <1>6, <1>7, RequestStep

\* A request breaks off, or has revoked what it was to revoke.
LEMMA ToStep ==
  ASSUME RequestsInv, NEW p \in Requests, req[p] # None, req[p].step # "answered",
         NEW step, step = "aborted" \/ (step = "audit" /\ req[p].step = "revoke"),
         To(p, step), status' = status
  PROVE  RequestsInv'
<1> DEFINE r == req[p]
           n == [r EXCEPT !.step = step]
<1>1. Good(r, status) /\ r \in Request
  BY DEF RequestsInv, Good
<1>2. Good(n, status)
  BY <1>1, StepGood
<1>3. req' = [req EXCEPT ![p] = n]
  BY <1>1 DEF To, RequestsInv
<1>4. n.op = r.op /\ n.todo = r.todo /\ n.wrote = r.wrote
  BY <1>1 DEF Request
<1>5. Forward(status, status') /\ Good(n, status')
  BY <1>2 DEF Forward
<1> HIDE DEF n
<1> QED
  BY <1>3, <1>4, <1>5, RequestStep

-----------------------------------------------------------------------------
(* The other steps of a request.                                           *)

\* The audit row, and the result with it.
LEMMA AuditGood ==
  ASSUME RowsInv, RequestsInv, NEW p \in Requests, req[p] # None, req[p].step = "audit",
         NEW r, r = req[p],
         NEW x, x = IF r.op = "create" /\ ~Exists(On(p)) THEN "error" ELSE "ok",
         NEW a \in AfterAudit(r, At(r))
  PROVE  /\ Good([WithResult(r, x) EXCEPT !.audited = a], status)
         /\ r \in Request /\ x \in Outcomes /\ At(r) \in r.wrote
<1>1. Good(r, status) /\ r \in Request
  BY DEF RequestsInv, Good
<1>2. At(r) \in r.wrote
  BY <1>1 DEF Good, InStep
<1>3. On(p) \in Users /\ On(p) = r.todo[At(r)]
  BY OnUser DEF On
<1>4. x \in Outcomes
  BY DEF Outcomes
<1>5. x = "error" => r.op \in {"reset", "create"} /\ status[r.todo[At(r)]] = "erased"
  <2>1. status[On(p)] # "absent"
    BY <1>1, <1>2, <1>3 DEF Good, Known
  <2>2. status[On(p)] \in Statuses \cup {"absent", "erased"}
    BY <1>3 DEF RowsInv
  <2> QED
    BY <1>3, <2>1, <2>2 DEF Exists
<1>6. Good([WithResult(r, x) EXCEPT !.audited = a], status)
  <2>1. a = r.audited \/ (a = r.audited \cup {At(r)} /\ At(r) \in r.wrote)
    BY <1>2 DEF AfterAudit
  <2>2. r.step \in {"read", "write", "revoke", "audit"}
    OBVIOUS
  <2> QED
    BY <1>1, <1>2, <1>4, <1>5, <2>1, <2>2, ResultGood
<1> QED
  BY <1>1, <1>2, <1>4, <1>6

LEMMA AuditStep ==
  ASSUME RowsInv, RequestsInv, NEW p \in Requests, Audit(p)
  PROVE  RequestsInv'
<1>1. req[p] # None /\ req[p].step = "audit" /\ status' = status
  BY DEF Audit, Is, rows
<1>2. SUFFICES ASSUME NEW r, r = req[p],
                      NEW x, x = IF r.op = "create" /\ ~Exists(On(p)) THEN "error" ELSE "ok",
                      NEW a \in AfterAudit(r, At(r)),
                      NEW n, n = [WithResult(r, x) EXCEPT !.audited = a],
                      req' = [req EXCEPT ![p] = n]
               PROVE  RequestsInv'
  BY DEF Audit
<1>3. Good(n, status) /\ r \in Request
  BY <1>1, <1>2, AuditGood
<1>4. n.op = r.op /\ n.todo = r.todo /\ n.wrote = r.wrote
  BY <1>2, <1>3 DEF WithResult, Request
<1>5. Forward(status, status') /\ Good(n, status')
  BY <1>1, <1>3 DEF Forward
<1> QED
  BY <1>1, <1>2, <1>4, <1>5, RequestStep

\* The row of the whole batch.
LEMMA TallyStep ==
  ASSUME RequestsInv, NEW p \in Requests, Tally(p)
  PROVE  RequestsInv'
<1>1. req[p] # None /\ req[p].step = "tally" /\ status' = status
  BY DEF Tally, Is, rows
<1>2. SUFFICES ASSUME NEW r, r = req[p], NEW a \in AfterAudit(r, 0),
                      NEW n, n = [r EXCEPT !.step = "answered", !.audited = a],
                      req' = [req EXCEPT ![p] = n]
               PROVE  RequestsInv'
  BY DEF Tally, RequestsInv
<1>3. Good(r, status) /\ r \in Request
  BY <1>1, <1>2 DEF RequestsInv, Good
<1>4. Good(n, status)
  BY <1>1, <1>2, <1>3, TallyGood DEF AfterAudit
<1>5. n.op = r.op /\ n.todo = r.todo /\ n.wrote = r.wrote
  BY <1>2, <1>3 DEF Request
<1>6. Forward(status, status') /\ Good(n, status')
  BY <1>1, <1>4 DEF Forward
<1> QED
  BY <1>1, <1>2, <1>5, <1>6, RequestStep

\* A user is read.
LEMMA ReadStep ==
  ASSUME RowsInv, RequestsInv, NEW p \in Requests, Read(p)
  PROVE  RequestsInv'
<1>1. /\ req[p] # None /\ req[p].step = "read" /\ req[p].op \in Updates \cup {"reset"}
      /\ status' = status /\ Exists(On(p))
  BY DEF Read, Is, rows
<1>2. SUFFICES ASSUME NEW r, r = req[p],
                      NEW n, n = [r EXCEPT !.step = "write", !.seen = Row(On(p))],
                      req' = [req EXCEPT ![p] = n]
               PROVE  RequestsInv'
  BY DEF Read, RequestsInv
<1>3. Good(r, status) /\ r \in Request
  BY <1>1, <1>2 DEF RequestsInv, Good
<1>4. r.op # "erase"
  BY <1>1, <1>2 DEF Updates, Statuses
<1>5. Row(On(p)) \in [status : Statuses, deleted : BOOLEAN]
  BY <1>1 DEF Row, Exists
<1>6. status[r.todo[At(r)]] # "absent"
  BY <1>1, <1>2 DEF On, Exists, Statuses
<1>7. Good(n, status)
  BY <1>1, <1>2, <1>3, <1>4, <1>5, <1>6, ReadGood
<1>8. n.op = r.op
  BY <1>2, <1>3 DEF Request
<1>9. Forward(status, status') /\ Good(n, status')
  BY <1>1, <1>7 DEF Forward
<1> QED
  BY <1>2, <1>4, <1>8, <1>9, RequestStep

\* A request is made.
LEMMA AskStep ==
  ASSUME RequestsInv, NEW p \in Requests, NEW op \in Batchable, NEW todo \in Batches,
         NEW batch \in BOOLEAN, Ask(p, op, todo, batch)
  PROVE  RequestsInv'
<1>1. req' = [req EXCEPT ![p] = NewRequest(op, todo, batch)] /\ status' = status
  BY DEF Ask, rows
<1>2. SUFFICES ASSUME NEW n, n = NewRequest(op, todo, batch), req' = [req EXCEPT ![p] = n]
               PROVE  RequestsInv'
  BY <1>1
<1>3. op \in Ops
  BY DEF Ops
<1>4. Good(n, status')
  BY <1>2, <1>3, NewGood
<1>5. n.wrote = {}
  BY <1>2 DEF NewRequest
<1>6. Forward(status, status')
  BY <1>1 DEF Forward
<1> QED
  BY <1>2, <1>4, <1>5, <1>6, RequestStep

\* A user is erased: nobody erased before, all of whom are erased still.
LEMMA DeleteUserStep ==
  ASSUME RowsInv, RequestsInv, NEW p \in Requests, DeleteUser(p)
  PROVE  RequestsInv'
<1>1. /\ req[p] # None /\ req[p].step = "read" /\ req[p].op = "erase" /\ Exists(On(p))
      /\ status' = [status EXCEPT ![On(p)] = "erased"] /\ CommitTo(p, "audit")
  BY DEF DeleteUser, Is, StillThere
<1>2. SUFFICES ASSUME NEW r, r = req[p],
                      NEW n, n = [Committed(r) EXCEPT !.step = "audit"],
                      req' = [req EXCEPT ![p] = n]
               PROVE  RequestsInv'
  BY <1>1 DEF CommitTo
<1>3. Good(r, status) /\ r \in Request
  BY <1>1, <1>2 DEF RequestsInv, Good
<1>4. On(p) \in Users /\ On(p) = r.todo[At(r)]
  BY <1>1, <1>2, OnUser DEF On
<1>5. status'[On(p)] = "erased" /\ \A u \in Users \ {On(p)} : status'[u] = status[u]
  BY <1>1, <1>4 DEF RowsInv
<1>6. Forward(status, status')
  BY <1>4, <1>5 DEF Forward
<1>7. Good(r, status')
  BY <1>3, <1>6, Later
<1>8. Good(n, status')
  BY <1>1, <1>2, <1>4, <1>5, <1>7, CommitGood
<1>9. n.op = "erase" /\ n.todo = r.todo /\ n.wrote = r.wrote \cup {At(r)}
  BY <1>1, <1>2, <1>3 DEF Committed, Request, At
<1>10. req' \in [Requests -> Request \cup {None}] /\ req'[p] = n
       /\ \A q \in Requests \ {p} : req'[q] = req[q]
  BY <1>2, <1>8 DEF Good, RequestsInv
<1>11. \A q \in Requests : req'[q] # None => Good(req'[q], status')
  <2>1. SUFFICES ASSUME NEW q \in Requests \ {p}, req[q] # None PROVE Good(req[q], status')
    BY <1>8, <1>10
  <2>2. Good(req[q], status)
    BY <2>1 DEF RequestsInv
  <2> QED
    BY <2>2, <1>6, Later
<1>12. Erasures' \subseteq Erasures \cup {<<p, At(r)>>}
  <2>1. ASSUME NEW q \in Requests, NEW i \in 1..MaxBatch, <<q, i>> \in Erasures'
        PROVE  <<q, i>> \in Erasures \/ (q = p /\ i = At(r))
    <3>1. req'[q] # None /\ req'[q].op = "erase" /\ i \in req'[q].wrote
      BY <2>1 DEF Erasures
    <3>2. CASE q = p
      <4>1. i \in r.wrote \cup {At(r)}
        BY <3>1, <3>2, <1>9, <1>10
      <4> QED
        BY <4>1, <3>2, <1>1, <1>2 DEF Erasures
    <3>3. CASE q # p
      BY <3>1, <3>3, <1>10 DEF Erasures
    <3> QED
      BY <3>2, <3>3
  <2>2. Erasures' \subseteq Requests \X (1..MaxBatch)
    BY DEF Erasures
  <2> QED
    BY <2>1, <2>2
<1>13. \A x \in Erasures : /\ req'[x[1]].todo[x[2]] = req[x[1]].todo[x[2]]
                            /\ status[req[x[1]].todo[x[2]]] = "erased"
  <2>1. \A x \in Erasures : x[1] \in Requests
    BY DEF Erasures
  <2>2. \A q \in Requests : req[q] # None => req'[q].todo = req[q].todo
    BY <1>9, <1>10, <1>2
  <2>3. \A x \in Erasures : status[req[x[1]].todo[x[2]]] = "erased"
    BY DEF RequestsInv, ErasedOnce
  <2>4. \A x \in Erasures : req[x[1]] # None
    BY DEF Erasures
  <2> QED
    BY <2>1, <2>2, <2>3, <2>4
<1>14. ErasedOnce'
  <2>1. \A x \in Erasures' : status'[req'[x[1]].todo[x[2]]] = "erased"
    <3>1. \A x \in Erasures' : x[1] \in Requests /\ req'[x[1]] # None /\ req'[x[1]].op = "erase"
                               /\ x[2] \in req'[x[1]].wrote
      BY DEF Erasures
    <3> QED
      BY <3>1, <1>11 DEF Good, Known
  <2>2. req'[p].todo[At(r)] = On(p) /\ status[On(p)] # "erased"
    BY <1>1, <1>4, <1>9, <1>10 DEF Exists, Statuses
  <2>3. \A x \in Erasures : req'[x[1]].todo[x[2]] # On(p)
    BY <2>2, <1>13
  <2>4. \A x, y \in Erasures : req'[x[1]].todo[x[2]] = req'[y[1]].todo[y[2]] => x = y
    BY <1>13 DEF RequestsInv, ErasedOnce
  <2>5. \A x, y \in Erasures' : req'[x[1]].todo[x[2]] = req'[y[1]].todo[y[2]] => x = y
    BY <1>12, <2>2, <2>3, <2>4
  <2> QED
    BY <2>1, <2>5 DEF ErasedOnce
<1> QED
  BY <1>10, <1>11, <1>14 DEF RequestsInv

\* Every step.
LEMMA NextRequests == RowsInv /\ RequestsInv /\ Next => RequestsInv'
<1> SUFFICES ASSUME RowsInv, RequestsInv, Next PROVE RequestsInv'
  OBVIOUS
<1> USE DEF Is
<1>1. ASSUME NEW p \in Requests, NEW op \in Batchable, NEW todo \in Batches, NEW batch \in BOOLEAN,
             Ask(p, op, todo, batch)
      PROVE  RequestsInv'
  BY <1>1, AskStep
<1>2. ASSUME NEW p \in Requests, Read(p) PROVE RequestsInv'
  BY <1>2, ReadStep
<1>3. ASSUME NEW p \in Requests, NotFound(p) \/ UpdateMissed(p) \/ EmailTaken(p) \/ ResetMissed(p)
                                  \/ DeleteAccountRefused(p)
      PROVE  RequestsInv'
  <2>1. /\ req[p] # None /\ Refuse(p)
        /\ req[p].step \in {"read", "write"} \/ (req[p].step = "revoke" /\ ~Exists(On(p)))
    BY <1>3 DEF NotFound, UpdateMissed, EmailTaken, ResetMissed, DeleteAccountRefused
  <2> QED
    BY <2>1, RefuseStep
<1>4. ASSUME NEW p \in Requests, WriteLost(p) \/ ResetRevoke(p) \/ Abort(p)
      PROVE  RequestsInv'
  <2>1. /\ req[p] # None /\ req[p].step # "answered" /\ status' = status
        /\ To(p, "aborted") \/ (To(p, "audit") /\ req[p].step = "revoke")
    BY <1>4 DEF WriteLost, ResetRevoke, Abort, rows
  <2> QED
    BY <2>1, ToStep
<1>5. ASSUME NEW p \in Requests, UpdateWrite(p) \/ UpdateNothing(p) \/ DeleteAccount(p) \/ ResetWrite(p)
      PROVE  RequestsInv'
  <2>1. req[p] # None /\ req[p].step = "write" /\ req[p].op \in Updates \cup {"own", "reset"}
    BY <1>5 DEF UpdateWrite, UpdateNothing, DeleteAccount, ResetWrite, Updates, Statuses
  <2>2. req[p].op # "erase"
    BY <2>1 DEF Updates, Statuses
  <2>3. On(p) \in Users /\ status[On(p)] # "absent"
    BY <2>1, OnUser DEF RequestsInv, Good, Known, On
  <2>4. \/ status' = status
        \/ /\ status[On(p)] \in Statuses
           /\ \E s \in Statuses : status' = [status EXCEPT ![On(p)] = s]
    <3>1. CASE UpdateWrite(p)
      BY <3>1 DEF UpdateWrite, Exists
    <3>2. CASE DeleteAccount(p)
      BY <3>2 DEF DeleteAccount, Exists, Statuses
    <3> QED
      BY <1>5, <3>1, <3>2 DEF UpdateNothing, ResetWrite, rows
  <2>5. Forward(status, status')
    BY <2>3, <2>4 DEF Forward, Statuses, RowsInv
  <2>6. CommitTo(p, "audit") \/ (CommitTo(p, "revoke") /\ req[p].op = "reset")
    BY <1>5 DEF UpdateWrite, UpdateNothing, DeleteAccount, ResetWrite
  <2> QED
    BY <2>1, <2>2, <2>3, <2>5, <2>6, CommitStep
<1>6. ASSUME NEW p \in Requests, DeleteUser(p) PROVE RequestsInv'
  BY <1>6, DeleteUserStep
<1>7. ASSUME NEW p \in Requests, NEW u \in Users, NEW op \in {"register", "create", "revoke"}, Serve(p, op, u),
             Forward(status, status'), status'[u] # "absent"
      PROVE  RequestsInv'
  <2>1. SUFFICES ASSUME NEW r, r = NewRequest(op, <<u>>, FALSE),
                        NEW n, n = [Committed(r) EXCEPT !.step = "audit"],
                        req' = [req EXCEPT ![p] = n]
                 PROVE  RequestsInv'
    BY <1>7 DEF Serve
  <2> QED
    BY <1>7, <2>1, ServeStep
<1>8. ASSUME NEW p \in Requests, NEW u \in Users, CreateUser(p, u) \/ Register(p, u)
      PROVE  RequestsInv'
  <2>1. /\ status[u] = "absent" /\ (Serve(p, "create", u) \/ Serve(p, "register", u))
        /\ \E s \in Statuses : status' = [status EXCEPT ![u] = s]
    BY <1>8 DEF CreateUser, Register, Statuses
  <2>2. Forward(status, status') /\ status'[u] # "absent"
    <3>1. PICK s \in Statuses : status' = [status EXCEPT ![u] = s]
      BY <2>1
    <3>2. status'[u] = s /\ \A v \in Users \ {u} : status'[v] = status[v]
      BY <3>1 DEF RowsInv
    <3>3. status'[u] # "absent"
      BY <3>2 DEF Statuses
    <3> QED
      BY <2>1, <3>2, <3>3 DEF Forward
  <2> QED
    BY <2>1, <2>2, <1>7
<1>9. ASSUME NEW p \in Requests, NEW u \in Users, RevokeSessions(p, u) \/ RevokeDevice(p, u)
      PROVE  RequestsInv'
  <2>1. Serve(p, "revoke", u) /\ status' = status /\ status[u] # "absent"
    BY <1>9 DEF RevokeSessions, RevokeDevice, Exists, Active, Statuses
  <2>2. Forward(status, status') /\ status'[u] # "absent"
    BY <2>1 DEF Forward
  <2> QED
    BY <2>1, <2>2, <1>7
<1>10. ASSUME NEW p \in Requests, NEW u \in Users, DeleteAccountBegin(p, u)
       PROVE  RequestsInv'
  <2>1. status' = status /\ status[u] # "absent"
    BY <1>10 DEF DeleteAccountBegin, Active, rows
  <2>2. SUFFICES ASSUME NEW r, r = NewRequest("own", <<u>>, FALSE),
                        NEW n, n = [r EXCEPT !.step = "write"],
                        req' = [req EXCEPT ![p] = n]
                 PROVE  RequestsInv'
    BY <1>10 DEF DeleteAccountBegin
  <2>3. Forward(status, status') /\ status'[u] # "absent"
    BY <2>1 DEF Forward
  <2> QED
    BY <2>2, <2>3, ServeStep
<1>11. ASSUME NEW p \in Requests, Audit(p) PROVE RequestsInv'
  BY <1>11, AuditStep
<1>12. ASSUME NEW p \in Requests, Tally(p) PROVE RequestsInv'
  BY <1>12, TallyStep
<1>13. ASSUME NEW u \in Users, SignIn(u) \/ RedeemRead(u) \/ RedeemWrite(u) \/ RedeemFails(u)
       PROVE  RequestsInv'
  <2>1. UNCHANGED <<req, status>>
    BY <1>13 DEF SignIn, RedeemRead, RedeemWrite, RedeemFails, rows
  <2> QED
    BY <2>1, RequestsStay
<1> QED
  BY <1>1, <1>2, <1>3, <1>4, <1>5, <1>6, <1>8, <1>9, <1>10, <1>11, <1>12, <1>13
     DEF Next, AdminNext, UserNext

-----------------------------------------------------------------------------
(* The steps, account by account.                                          *)

\* What a step keeps: the accounts in order; whoever is no longer active is signed out;
\* and PartedByRace.
Closed == \A u \in Users : Active(u) /\ ~Active(u)' => u \notin device'
Parting ==
  \A u \in Users :
    ~Parted(u) /\ Parted(u)' => status[u] = "absent" \/ \E p \in Requests : GoesByOld(p, u)
Kept == RowsInv' /\ Closed /\ Parting

LEMMA SameRows ==
  ASSUME RowsInv, UNCHANGED rows, redeeming' \subseteq Users
  PROVE  Kept
<1>1. RowsInv'
  BY DEF RowsInv, rows, Exists, NoDeviceBarred, Active
<1> QED
  BY <1>1 DEF rows, Kept, Closed, Parting, Active, Parted, Exists

\* A step that changes the account of one user.
LEMMA OneRow ==
  ASSUME RowsInv, NEW u \in Users, redeeming' \subseteq Users,
         NEW s \in Statuses \cup {"erased"}, status' = [status EXCEPT ![u] = s] \/ (status' = status /\ s = status[u]),
         \A v \in Users \ {u} : /\ (v \in deletedAt' <=> v \in deletedAt)
                                /\ (v \in device' <=> v \in device)
                                /\ (v \in coded' <=> v \in coded),
         deletedAt' \subseteq Users, device' \subseteq Users, coded' \subseteq device',
         s = "erased" => u \notin deletedAt' \cup device',
         u \in device' => (s = "active" /\ u \notin deletedAt') \/ u \in coded',
         Active(u) => (s = "active" /\ u \notin deletedAt') \/ u \notin device',
         \/ s = "erased" \/ status[u] = "absent" \/ (s = "deleted" <=> u \in deletedAt')
         \/ (Parted(u) <=> Parted(u)') \/ \E p \in Requests : GoesByOld(p, u)
  PROVE  Kept
<1>1. status'[u] = s /\ \A v \in Users \ {u} : status'[v] = status[v]
  BY DEF RowsInv
<1>2. status' \in [Users -> Statuses \cup {"absent", "erased"}]
  BY DEF RowsInv
<1>3. \A v \in Users \ {u} : /\ (Exists(v)' <=> Exists(v))
                              /\ (Active(v)' <=> Active(v))
                              /\ (Parted(v)' <=> Parted(v))
  <2>1. SUFFICES ASSUME NEW v \in Users, v # u
                 PROVE  /\ (Exists(v)' <=> Exists(v))
                        /\ (Active(v)' <=> Active(v))
                        /\ (Parted(v)' <=> Parted(v))
    OBVIOUS
  <2>2. status'[v] = status[v] /\ (v \in deletedAt' <=> v \in deletedAt)
    BY <1>1, <2>1
  <2>3. Exists(v)' <=> Exists(v)
    BY <2>2 DEF Exists
  <2>4. Active(v)' <=> Active(v)
    BY <2>2 DEF Active
  <2>5. Parted(v)' <=> Parted(v)
    BY <2>2, <2>3 DEF Parted
  <2> QED
    BY <2>3, <2>4, <2>5
<1>4. RowsInv'
  <2>1. \A v \in Users : ~Exists(v)' => v \notin deletedAt' \cup device'
    BY <1>1, <1>3 DEF RowsInv, Exists
  <2>2. \A v \in device' : Active(v)' \/ v \in coded'
    BY <1>1, <1>3 DEF RowsInv, NoDeviceBarred, Active
  <2> QED
    BY <1>2, <2>1, <2>2 DEF RowsInv, NoDeviceBarred
<1>5. Closed
  BY <1>1, <1>3 DEF Closed, Active
<1>6. Parting
  <2>1. s = "erased" => ~Parted(u)'
    BY <1>1 DEF Parted, Exists, Statuses
  <2>2. (s = "deleted" <=> u \in deletedAt') => ~Parted(u)'
    BY <1>1 DEF Parted
  <2>3. \A v \in Users \ {u} : ~(~Parted(v) /\ Parted(v)')
    BY <1>3
  <2>4. ~Parted(u) /\ Parted(u)' => status[u] = "absent" \/ \E p \in Requests : GoesByOld(p, u)
    BY <2>1, <2>2
  <2> QED
    BY <2>3, <2>4 DEF Parting
<1> QED
  BY <1>4, <1>5, <1>6 DEF Kept

\* A revocation signs one user out and leaves the others alone.
LEMMA RevokeOne ==
  ASSUME RowsInv, NEW u \in Users, Revoke(u)
  PROVE  /\ device' \subseteq Users /\ coded' \subseteq device' /\ u \notin device'
         /\ \A v \in Users \ {u} : (v \in device' <=> v \in device) /\ (v \in coded' <=> v \in coded)
BY DEF RowsInv, Revoke, Revoked

LEMMA UpdateWriteRows ==
  ASSUME RowsInv, RequestsInv, NEW p \in Requests, UpdateWrite(p)
  PROVE  Kept
<1> SUFFICES ASSUME NEW u, u = On(p), NEW op, op = req[p].op, NEW seen, seen = req[p].seen PROVE Kept
  OBVIOUS
<1>1. /\ Is(p, "write", Updates) /\ Exists(u) /\ deletedAt' = DeletedAt(p)
      /\ status' = IF op \in Statuses \ {seen.status} THEN [status EXCEPT ![u] = op] ELSE status
      /\ IF op \in Barring THEN Revoke(u) ELSE UNCHANGED <<device, coded>>
      /\ UNCHANGED redeeming
  BY DEF UpdateWrite
<1>2. u \in Users /\ op \in Updates
  BY <1>1, OnUser DEF Is
<1>3. redeeming' \subseteq Users /\ deletedAt' \subseteq Users
  BY <1>1, <1>2 DEF RowsInv, DeletedAt
<1>4. \A v \in Users \ {u} : v \in deletedAt' <=> v \in deletedAt
  BY <1>1 DEF DeletedAt
<1>5. /\ device' \subseteq Users /\ coded' \subseteq device' /\ (op \in Barring => u \notin device')
      /\ \A v \in Users \ {u} : (v \in device' <=> v \in device) /\ (v \in coded' <=> v \in coded)
  <2>1. CASE op \in Barring
    BY <2>1, <1>1, <1>2, RevokeOne
  <2>2. CASE op \notin Barring
    BY <2>2, <1>1 DEF RowsInv
  <2> QED
    BY <2>1, <2>2
<1>6. PICK s : s = IF op \in Statuses \ {seen.status} THEN op ELSE status[u]
  OBVIOUS
<1>7. /\ s \in Statuses
      /\ status' = [status EXCEPT ![u] = s] \/ (status' = status /\ s = status[u])
  BY <1>1, <1>6 DEF Exists
<1>8. op \notin Barring => /\ device' = device /\ coded' = coded
                           /\ Active(u) => s = "active" /\ u \notin deletedAt'
  <2>1. op \notin Barring => device' = device /\ coded' = coded /\ op \in {"active", "no status"}
    BY <1>1, <1>2 DEF Barring, Updates
  <2>2. op \in {"active", "no status"} /\ status[u] = "active" => s = "active"
    BY <1>6 DEF Statuses
  <2>3. op \in {"active", "no status"} => deletedAt' \subseteq deletedAt
    BY <1>1 DEF DeletedAt
  <2> QED
    BY <2>1, <2>2, <2>3 DEF Active
<1>9. u \in device' => (s = "active" /\ u \notin deletedAt') \/ u \in coded'
  BY <1>5, <1>8 DEF RowsInv, NoDeviceBarred
<1>10. Active(u) => (s = "active" /\ u \notin deletedAt') \/ u \notin device'
  BY <1>5, <1>8
<1>11. \/ (s = "deleted" <=> u \in deletedAt') \/ (Parted(u) <=> Parted(u)')
       \/ \E q \in Requests : GoesByOld(q, u)
  <2>1. CASE op \notin Statuses
    <3>1. status' = status /\ deletedAt' = deletedAt
      BY <2>1, <1>1 DEF DeletedAt, Statuses
    <3> QED
      BY <3>1 DEF Parted, Exists
  <2>2. CASE op \in Statuses /\ seen # Row(u)
    BY <2>2, <1>1 DEF GoesByOld, Is
  <2>3. CASE op \in Statuses /\ seen = Row(u)
    <3>1. seen.status = status[u] /\ seen.deleted = (u \in deletedAt)
      BY <2>3 DEF Row
    <3>2. s = op
      BY <2>3, <1>6, <3>1
    <3>3. op = "deleted" => u \in deletedAt'
      BY <1>1 DEF DeletedAt
    <3>4. op # "deleted" => u \notin deletedAt'
      BY <2>3, <1>1, <3>1 DEF DeletedAt
    <3> QED
      BY <3>2, <3>3, <3>4
  <2> QED
    BY <2>1, <2>2, <2>3
<1>12. s # "erased"
  BY <1>7 DEF Statuses
<1> QED
  BY <1>2, <1>3, <1>4, <1>5, <1>7, <1>9, <1>10, <1>11, <1>12, OneRow

LEMMA DeletionRows ==
  ASSUME RowsInv, RequestsInv, NEW p \in Requests, DeleteUser(p) \/ DeleteAccount(p)
  PROVE  Kept
<1> SUFFICES ASSUME NEW u, u = On(p) PROVE Kept
  OBVIOUS
<1>1. u \in Users
  BY OnUser DEF DeleteUser, DeleteAccount, Is
<1>2. Revoke(u) /\ redeeming' = redeeming
  BY DEF DeleteUser, DeleteAccount
<1>3. CASE DeleteUser(p)
  <2>1. status' = [status EXCEPT ![u] = "erased"] /\ deletedAt' = deletedAt \ {u}
    BY <1>3 DEF DeleteUser
  <2>2. deletedAt' \subseteq Users /\ redeeming' \subseteq Users /\ u \notin deletedAt'
        /\ \A v \in Users \ {u} : v \in deletedAt' <=> v \in deletedAt
    BY <1>2, <2>1 DEF RowsInv
  <2> QED
    BY <1>1, <1>2, <2>1, <2>2, RevokeOne, OneRow
<1>4. CASE DeleteAccount(p)
  <2>1. status' = [status EXCEPT ![u] = "deleted"] /\ deletedAt' = deletedAt \cup {u}
    BY <1>4 DEF DeleteAccount
  <2>2. deletedAt' \subseteq Users /\ redeeming' \subseteq Users /\ u \in deletedAt'
        /\ \A v \in Users \ {u} : v \in deletedAt' <=> v \in deletedAt
    BY <1>1, <1>2, <2>1 DEF RowsInv
  <2>3. "deleted" \in Statuses
    BY DEF Statuses
  <2> QED
    BY <1>1, <1>2, <2>1, <2>2, <2>3, RevokeOne, OneRow
<1> QED
  BY <1>3, <1>4

LEMMA CreationRows ==
  ASSUME RowsInv, NEW p \in Requests, NEW u \in Users, CreateUser(p, u) \/ Register(p, u)
  PROVE  Kept
<1>1. /\ status[u] = "absent" /\ UNCHANGED <<deletedAt, device, coded, redeeming>>
      /\ \E s \in Statuses : status' = [status EXCEPT ![u] = s]
  BY DEF CreateUser, Register, Statuses
<1>2. PICK s \in Statuses : status' = [status EXCEPT ![u] = s]
  BY <1>1
<1>3. u \notin device /\ ~Active(u)
  BY <1>1 DEF RowsInv, Exists, Statuses, Active
<1>4. deletedAt' \subseteq Users /\ device' \subseteq Users /\ coded' \subseteq device' /\ redeeming' \subseteq Users
  BY <1>1 DEF RowsInv
<1>5. s # "erased"
  BY <1>2 DEF Statuses
<1> QED
  BY <1>1, <1>2, <1>3, <1>4, <1>5, OneRow

\* The status stays; the user is signed out, or signed in.
LEMMA SignedRows ==
  ASSUME RowsInv, NEW u \in Users, Exists(u), UNCHANGED <<status, deletedAt>>, redeeming' \subseteq Users,
         \/ Revoke(u)
         \/ /\ device' = device \cup {u} /\ coded' \subseteq device'
            /\ \A v \in Users \ {u} : v \in coded' <=> v \in coded
            /\ Active(u) \/ u \in coded'
  PROVE  Kept
<1> SUFFICES ASSUME NEW s, s = status[u] PROVE Kept
  OBVIOUS
<1>1. s \in Statuses /\ s # "erased"
  BY DEF Exists, Statuses
<1>2. /\ device' \subseteq Users /\ coded' \subseteq device'
      /\ \A v \in Users \ {u} : (v \in device' <=> v \in device) /\ (v \in coded' <=> v \in coded)
      /\ u \in device' => Active(u) \/ u \in coded'
  BY RevokeOne DEF RowsInv
<1>3. /\ deletedAt' \subseteq Users /\ (Parted(u) <=> Parted(u)')
      /\ Active(u) => s = "active" /\ u \notin deletedAt'
  BY DEF RowsInv, Parted, Exists, Active
<1>4. u \in device' => (s = "active" /\ u \notin deletedAt') \/ u \in coded'
  BY <1>2, <1>3
<1>5. /\ status' = status /\ s = status[u] /\ s \in Statuses \cup {"erased"}
      /\ \A v \in Users \ {u} : v \in deletedAt' <=> v \in deletedAt
  BY <1>1
<1> QED
  BY <1>1, <1>2, <1>3, <1>4, <1>5, OneRow

LEMMA NextRows == RowsInv /\ RequestsInv /\ Next => Kept
<1> SUFFICES ASSUME RowsInv, RequestsInv, Next PROVE Kept
  OBVIOUS
<1>1. ASSUME NEW p \in Requests, UpdateWrite(p) PROVE Kept
  BY <1>1, UpdateWriteRows
<1>2. ASSUME NEW p \in Requests, DeleteUser(p) \/ DeleteAccount(p) PROVE Kept
  BY <1>2, DeletionRows
<1>3. ASSUME NEW p \in Requests, NEW u \in Users, CreateUser(p, u) \/ Register(p, u) PROVE Kept
  BY <1>3, CreationRows
<1>4. ASSUME NEW p \in Requests, ResetRevoke(p) PROVE Kept
  <2>1. On(p) \in Users /\ Exists(On(p)) /\ Revoke(On(p)) /\ UNCHANGED <<status, deletedAt, redeeming>>
    BY <1>4, OnUser DEF ResetRevoke, Is
  <2>2. redeeming' \subseteq Users
    BY <2>1 DEF RowsInv
  <2> QED
    BY <2>1, <2>2, SignedRows
<1>5. ASSUME NEW p \in Requests, NEW u \in Users, RevokeSessions(p, u) \/ RevokeDevice(p, u) PROVE Kept
  <2>1. Exists(u) /\ Revoke(u) /\ UNCHANGED <<status, deletedAt, redeeming>>
    BY <1>5 DEF RevokeSessions, RevokeDevice, Active, Exists, Statuses
  <2>2. redeeming' \subseteq Users
    BY <2>1 DEF RowsInv
  <2> QED
    BY <2>1, <2>2, SignedRows
<1>6. ASSUME NEW u \in Users, SignIn(u) \/ RedeemWrite(u) PROVE Kept
  <2>1. /\ Exists(u) /\ UNCHANGED <<status, deletedAt>> /\ redeeming' \subseteq Users
        /\ device' = device \cup {u}
    BY <1>6 DEF SignIn, RedeemWrite, Active, Exists, Statuses, RowsInv
  <2>2. /\ coded' \subseteq device' /\ \A v \in Users \ {u} : v \in coded' <=> v \in coded
        /\ Active(u) \/ u \in coded'
    BY <1>6 DEF SignIn, RedeemWrite, RowsInv, NoDeviceBarred
  <2> QED
    BY <2>1, <2>2, SignedRows
<1>7. ASSUME UNCHANGED rows, redeeming' \subseteq Users PROVE Kept
  BY <1>7, SameRows
<1>8. ASSUME NEW u \in Users, RedeemRead(u) \/ RedeemFails(u) PROVE Kept
  <2>1. UNCHANGED rows /\ redeeming' \subseteq Users
    BY <1>8 DEF RedeemRead, RedeemFails, RowsInv
  <2> QED
    BY <2>1, <1>7
<1>9. ASSUME UNCHANGED <<rows, redeeming>> PROVE Kept
  <2>1. redeeming' \subseteq Users
    BY <1>9 DEF RowsInv
  <2> QED
    BY <1>9, <2>1, <1>7
<1>10. ASSUME NEW p \in Requests,
              \/ \E op \in Batchable, todo \in Batches, batch \in BOOLEAN : Ask(p, op, todo, batch)
              \/ Read(p) \/ NotFound(p) \/ UpdateMissed(p) \/ WriteLost(p) \/ UpdateNothing(p)
              \/ EmailTaken(p) \/ ResetWrite(p) \/ ResetMissed(p)
              \/ \E u \in Users : DeleteAccountBegin(p, u)
              \/ DeleteAccountRefused(p) \/ Audit(p) \/ Tally(p) \/ Abort(p)
       PROVE  Kept
  <2>1. UNCHANGED <<rows, redeeming>>
    BY <1>10 DEF Ask, Read, NotFound, UpdateMissed, WriteLost, UpdateNothing, EmailTaken, ResetWrite,
                 ResetMissed, DeleteAccountBegin, DeleteAccountRefused, Audit, Tally, Abort, Refuse
  <2> QED
    BY <2>1, <1>9
<1> QED
  BY <1>1, <1>2, <1>3, <1>4, <1>5, <1>6, <1>8, <1>10 DEF Next, AdminNext, UserNext

-----------------------------------------------------------------------------
(* The accounts.                                                           *)

\* Accounts, sign-ins and requests stay as AccountsInv says, whatever admins and users ask
\* for, in whatever order it is served and broken off.
THEOREM Invariant == Spec => []AccountsInv
<1>1. Init => AccountsInv
  BY InitParts, Parts
<1>2. AccountsInv /\ [Next]_vars => AccountsInv'
  <2> SUFFICES ASSUME RowsInv, RequestsInv, [Next]_vars PROVE RowsInv' /\ RequestsInv'
    BY Parts, NextParts
  <2>1. CASE Next
    BY <2>1, NextRows, NextRequests DEF Kept
  <2>2. CASE UNCHANGED vars
    BY <2>2, SameRows, RequestsStay DEF vars, rows, RowsInv, Kept
  <2> QED
    BY <2>1, <2>2
<1> QED
  BY <1>1, <1>2, PTL DEF Spec

\* A batch tells what it did, however often it is broken off and whatever else goes on,
\* and of the erasures of a user one is reported as done (batchUsers, deleteUser).
THEOREM BatchesTell == Spec => []BatchTells
<1>1. AccountsInv => BatchTells
  BY DEF AccountsInv
<1> QED
  BY <1>1, Invariant, PTL

\* Nobody barred keeps a device, but for a redemption that was under way (updateUser,
\* deleteAccount, redeemCode).
THEOREM NobodyBarredKeepsADevice == Spec => []NoDeviceBarred
<1>1. AccountsInv => NoDeviceBarred
  BY DEF AccountsInv
<1> QED
  BY <1>1, Invariant, PTL

\* status and deleted_at part only by an update that goes by an old row, or at creation.
THEOREM PartOnlyByRace == Spec => PartedByRace
<1>1. AccountsInv /\ [Next]_vars =>
        [\A u \in Users :
           ~Parted(u) /\ Parted(u)' =>
             status[u] = "absent" \/ \E p \in Requests : GoesByOld(p, u)]_vars
  BY Parts, NextRows DEF Kept, Parting
<1> QED
  BY <1>1, Invariant, PTL DEF Spec, PartedByRace

-----------------------------------------------------------------------------
(* AccountContract: the requests.                                          *)

\* Positions of one request come to the marks, the others stand.
LEMMA Grown ==
  ASSUME NEW p \in Requests, NEW S, NEW T, NEW D,
         \A q \in Requests \ {p} : req'[q] = req[q] /\ T[q] = S[q],
         T[p] = S[p] \cup D, \A i \in S[p] : req'[p].todo[i] = req[p].todo[i]
  PROVE  Marks(req', T) = Marks(req, S) \cup MarksOf(req', p, D)
<1>1. ASSUME NEW q \in Requests \ {p}
      PROVE  MarksOf(req', q, T[q]) = MarksOf(req, q, S[q])
  BY <1>1 DEF MarksOf
<1>2. MarksOf(req', p, T[p]) = MarksOf(req, p, S[p]) \cup MarksOf(req', p, D)
  BY DEF MarksOf
<1>3. ASSUME NEW x \in Marks(req', T) PROVE x \in Marks(req, S) \cup MarksOf(req', p, D)
  <2>1. PICK q \in Requests : x \in MarksOf(req', q, T[q])
    BY <1>3 DEF Marks
  <2>2. x \in MarksOf(req, q, S[q]) \/ x \in MarksOf(req', p, D)
    BY <1>1, <1>2, <2>1
  <2> QED
    BY <2>2 DEF Marks
<1>4. ASSUME NEW x \in Marks(req, S) PROVE x \in Marks(req', T)
  <2>1. PICK q \in Requests : x \in MarksOf(req, q, S[q])
    BY <1>4 DEF Marks
  <2>2. x \in MarksOf(req', q, T[q])
    BY <1>1, <1>2, <2>1
  <2> QED
    BY <2>2 DEF Marks
<1>5. MarksOf(req', p, D) \subseteq Marks(req', T)
  BY <1>2 DEF Marks
<1> QED
  BY <1>3, <1>4, <1>5

\* The marks after a step of request p that commits positions W, answers K and logs L.
Marked(p, W, K, L) ==
  /\ Made' = Made \cup MarksOf(req', p, W)
  /\ Erased' = Erased \cup MarksOf(req', p, IF req'[p].op = "erase" THEN W ELSE {})
  /\ Told' = Told \cup MarksOf(req', p, K)
  /\ Logged' = Logged \cup MarksOf(req', p, L)

LEMMA MarkedStep ==
  ASSUME req \in [Requests -> Request \cup {None}], NEW p \in Requests, NEW n \in Request,
         req' = [req EXCEPT ![p] = n],
         req[p] # None => n.todo = req[p].todo /\ n.op = req[p].op,
         NEW W, NEW K, NEW L,
         Writes(n) = Writes(req[p]) \cup W, Oks(n) = Oks(req[p]) \cup K,
         Audits(n) = Audits(req[p]) \cup L
  PROVE  Marked(p, W, K, L)
<1>1. n # None /\ req'[p] = n /\ \A q \in Requests \ {p} : req'[q] = req[q]
  BY NoneAssumption
<1>2. \A q \in Requests : req[q] = None =>
        Writes(req[q]) = {} /\ Erases(req[q]) = {} /\ Oks(req[q]) = {} /\ Audits(req[q]) = {}
  BY DEF Writes, Erases, Oks, Audits
<1>3. Erases(n) = Erases(req[p]) \cup (IF n.op = "erase" THEN W ELSE {})
  <2>1. CASE req[p] = None
    BY <2>1, <1>1, <1>2 DEF Writes, Erases
  <2>2. CASE req[p] # None
    BY <2>2, <1>1 DEF Writes, Erases
  <2> QED
    BY <2>1, <2>2
<1>4. Made' = Made \cup MarksOf(req', p, W)
  <2> SUFFICES ASSUME NEW S, S = [q \in Requests |-> Writes(req[q])],
                      NEW T, T = [q \in Requests |-> Writes(req'[q])]
               PROVE  Made' = Made \cup MarksOf(req', p, W)
    OBVIOUS
  <2>1. /\ p \in Requests /\ \A q \in Requests \ {p} : req'[q] = req[q] /\ T[q] = S[q]
        /\ T[p] = S[p] \cup W /\ \A i \in S[p] : req'[p].todo[i] = req[p].todo[i]
    BY <1>1, <1>2
  <2>2. Made = Marks(req, S) /\ Made' = Marks(req', T)
    BY DEF Made, Marks, MarksOf, Writes
  <2>3. Marks(req', T) = Marks(req, S) \cup MarksOf(req', p, W)
    BY ONLY <2>1, Grown
  <2> QED
    BY <2>2, <2>3
<1>5. Erased' = Erased \cup MarksOf(req', p, IF req'[p].op = "erase" THEN W ELSE {})
  <2> SUFFICES ASSUME NEW S, S = [q \in Requests |-> Erases(req[q])],
                      NEW T, T = [q \in Requests |-> Erases(req'[q])],
                      NEW D, D = IF req'[p].op = "erase" THEN W ELSE {}
               PROVE  Erased' = Erased \cup MarksOf(req', p, D)
    OBVIOUS
  <2>1. /\ p \in Requests /\ \A q \in Requests \ {p} : req'[q] = req[q] /\ T[q] = S[q]
        /\ T[p] = S[p] \cup D /\ \A i \in S[p] : req'[p].todo[i] = req[p].todo[i]
    BY <1>1, <1>2, <1>3
  <2>2. Erased = Marks(req, S) /\ Erased' = Marks(req', T)
    BY DEF Erased, Marks, MarksOf, Erases
  <2>3. Marks(req', T) = Marks(req, S) \cup MarksOf(req', p, D)
    BY ONLY <2>1, Grown
  <2> QED
    BY <2>2, <2>3
<1>6. Told' = Told \cup MarksOf(req', p, K)
  <2> SUFFICES ASSUME NEW S, S = [q \in Requests |-> Oks(req[q])],
                      NEW T, T = [q \in Requests |-> Oks(req'[q])]
               PROVE  Told' = Told \cup MarksOf(req', p, K)
    OBVIOUS
  <2>1. /\ p \in Requests /\ \A q \in Requests \ {p} : req'[q] = req[q] /\ T[q] = S[q]
        /\ T[p] = S[p] \cup K /\ \A i \in S[p] : req'[p].todo[i] = req[p].todo[i]
    BY <1>1, <1>2
  <2>2. Told = Marks(req, S) /\ Told' = Marks(req', T)
    BY DEF Told, Marks, MarksOf, Oks
  <2>3. Marks(req', T) = Marks(req, S) \cup MarksOf(req', p, K)
    BY ONLY <2>1, Grown
  <2> QED
    BY <2>2, <2>3
<1>7. Logged' = Logged \cup MarksOf(req', p, L)
  <2> SUFFICES ASSUME NEW S, S = [q \in Requests |-> Audits(req[q])],
                      NEW T, T = [q \in Requests |-> Audits(req'[q])]
               PROVE  Logged' = Logged \cup MarksOf(req', p, L)
    OBVIOUS
  <2>1. /\ p \in Requests /\ \A q \in Requests \ {p} : req'[q] = req[q] /\ T[q] = S[q]
        /\ T[p] = S[p] \cup L /\ \A i \in S[p] : req'[p].todo[i] = req[p].todo[i]
    BY <1>1, <1>2
  <2>2. Logged = Marks(req, S) /\ Logged' = Marks(req', T)
    BY DEF Logged, Marks, MarksOf, Audits
  <2>3. Marks(req', T) = Marks(req, S) \cup MarksOf(req', p, L)
    BY ONLY <2>1, Grown
  <2> QED
    BY <2>2, <2>3
<1> QED
  BY <1>4, <1>5, <1>6, <1>7 DEF Marked

\* A step that commits, answers and logs nothing, and opens a request at most.
LEMMA Unmarked ==
  ASSUME RequestsInv, NEW p \in Requests, NEW n \in Request, req' = [req EXCEPT ![p] = n],
         req[p] # None => /\ n.todo = req[p].todo /\ n.op = req[p].op /\ n.wrote = req[p].wrote
                          /\ n.out = req[p].out /\ n.audited = req[p].audited,
         req[p] = None => n.wrote = {} /\ n.out = <<>> /\ n.audited = {}
  PROVE  UNCHANGED <<Made, Erased, Told, Logged>>
<1>1. n # None /\ req \in [Requests -> Request \cup {None}]
  BY NoneAssumption DEF RequestsInv
<1>2. Writes(n) = Writes(req[p]) \cup {}
  BY <1>1 DEF Writes
<1>3. Oks(n) = Oks(req[p]) \cup {}
  BY <1>1 DEF Oks
<1>4. Audits(n) = Audits(req[p]) \cup {}
  BY <1>1 DEF Audits
<1>5. Marked(p, {}, {}, {})
  BY <1>1, <1>2, <1>3, <1>4, MarkedStep
<1>6. MarksOf(req', p, {}) = {}
  BY DEF MarksOf
<1> QED
  BY <1>5, <1>6 DEF Marked

\* A commit: one more change, of a position that had none.
LEMMA Committing ==
  ASSUME RequestsInv, NEW p \in Requests, NEW n \in Request, req' = [req EXCEPT ![p] = n],
         NEW i \in 1..MaxBatch, i \notin Writes(req[p]), n.wrote = Writes(req[p]) \cup {i},
         req[p] # None => /\ n.todo = req[p].todo /\ n.op = req[p].op
                          /\ n.out = req[p].out /\ n.audited = req[p].audited,
         req[p] = None => n.out = <<>> /\ n.audited = {}
  PROVE  /\ Contract!Make(<<p, i>>, n.todo[i])
         /\ Erased' = IF n.op = "erase" THEN Erased \cup {<<<<p, i>>, n.todo[i]>>} ELSE Erased
         /\ UNCHANGED <<Told, Logged>>
<1>1. n # None /\ req \in [Requests -> Request \cup {None}]
  BY NoneAssumption DEF RequestsInv
<1>2. Writes(n) = Writes(req[p]) \cup {i}
  BY <1>1 DEF Writes
<1>3. Oks(n) = Oks(req[p]) \cup {}
  BY <1>1 DEF Oks
<1>4. Audits(n) = Audits(req[p]) \cup {}
  BY <1>1 DEF Audits
<1>5. Marked(p, {i}, {}, {})
  BY <1>1, <1>2, <1>3, <1>4, MarkedStep
<1>6. /\ MarksOf(req', p, {}) = {} /\ req'[p] = n
      /\ MarksOf(req', p, {i}) = {<<<<p, i>>, n.todo[i]>>}
  BY <1>1 DEF MarksOf
<1>7. \A x \in Made : x[1] # <<p, i>>
  BY DEF Made, Marks, MarksOf
<1> QED
  BY <1>5, <1>6, <1>7 DEF Marked, Contract!Make

\* ... by a request under way, for the user it is at, ...
LEMMA CommitMakes ==
  ASSUME RequestsInv, NEW p \in Requests, req[p] # None, req[p].step \in {"read", "write"},
         NEW step \in {"audit", "revoke"}, CommitTo(p, step)
  PROVE  /\ <<p, At(req[p])>> \in Changes /\ Contract!Make(<<p, At(req[p])>>, On(p))
         /\ Erased' = IF req[p].op = "erase" THEN Erased \cup {<<<<p, At(req[p])>>, On(p)>>} ELSE Erased
         /\ UNCHANGED <<Told, Logged>>
<1> SUFFICES ASSUME NEW r, r = req[p], NEW i, i = At(r),
                    NEW n, n = [Committed(r) EXCEPT !.step = step], req' = [req EXCEPT ![p] = n]
             PROVE  /\ <<p, i>> \in Changes /\ Contract!Make(<<p, i>>, On(p))
                    /\ Erased' = IF r.op = "erase" THEN Erased \cup {<<<<p, i>>, On(p)>>} ELSE Erased
                    /\ UNCHANGED <<Told, Logged>>
  BY DEF CommitTo
<1>1. r \in Request /\ InStep(r)
  BY DEF RequestsInv, Good
<1>2. i \in 1..MaxBatch /\ i \notin DOMAIN r.out
  BY <1>1, Lists DEF InStep
<1>3. i \notin Writes(req[p]) /\ Writes(req[p]) = r.wrote
  BY <1>1, <1>2 DEF InStep, Writes
<1>4. /\ n \in Request /\ n.wrote = r.wrote \cup {i}
      /\ n.todo = r.todo /\ n.op = r.op /\ n.out = r.out /\ n.audited = r.audited
  BY <1>1, <1>2 DEF Committed, Request
<1>5. On(p) = n.todo[i]
  BY <1>4 DEF On
<1>6. /\ RequestsInv /\ p \in Requests /\ req' = [req EXCEPT ![p] = n]
      /\ n.wrote = Writes(req[p]) \cup {i} /\ req[p] # None
      /\ n.todo = req[p].todo /\ n.op = req[p].op /\ n.out = req[p].out /\ n.audited = req[p].audited
  BY <1>3, <1>4
<1>7. /\ Contract!Make(<<p, i>>, n.todo[i]) /\ UNCHANGED <<Told, Logged>>
      /\ Erased' = IF n.op = "erase" THEN Erased \cup {<<<<p, i>>, n.todo[i]>>} ELSE Erased
  BY ONLY <1>2, <1>3, <1>4, <1>6, Committing
<1> QED
  BY <1>2, <1>4, <1>5, <1>7 DEF Changes

\* ... or by one that opens with it.
LEMMA ServeMakes ==
  ASSUME RequestsInv, NEW p \in Requests, NEW u \in Users, NEW op \in Ops \ {"erase"}, Serve(p, op, u)
  PROVE  /\ <<p, 1>> \in Changes /\ Contract!Make(<<p, 1>>, u)
         /\ UNCHANGED <<Erased, Told, Logged>>
<1> SUFFICES ASSUME NEW r, r = NewRequest(op, <<u>>, FALSE), req[p] = None,
                    NEW n, n = [Committed(r) EXCEPT !.step = "audit"], req' = [req EXCEPT ![p] = n]
             PROVE  /\ <<p, 1>> \in Changes /\ Contract!Make(<<p, 1>>, u)
                    /\ UNCHANGED <<Erased, Told, Logged>>
  BY DEF Serve
<1>1. r.op = op /\ r.todo = <<u>> /\ r.wrote = {} /\ r.out = <<>> /\ r.audited = {}
  BY DEF NewRequest
<1>2. r \in Request /\ At(r) = 1 /\ r.todo[1] = u
  <2>1. r \in Request
    BY OneUser, NewGood DEF Good
  <2> QED
    BY <2>1, <1>1, OneUser, OneUserNew
<1>3. 1 \in 1..MaxBatch
  OBVIOUS
<1>4. Writes(req[p]) = {}
  BY DEF Writes
<1>5. /\ n \in Request /\ n.wrote = {1}
      /\ n.todo = r.todo /\ n.op = r.op /\ n.out = r.out /\ n.audited = r.audited
  BY <1>1, <1>2, <1>3 DEF Committed, Request
<1>6. Contract!Make(<<p, 1>>, n.todo[1]) /\ UNCHANGED <<Erased, Told, Logged>>
  <2>1. /\ RequestsInv /\ p \in Requests /\ req[p] = None /\ req' = [req EXCEPT ![p] = n]
        /\ 1 \notin Writes(req[p]) /\ n.wrote = Writes(req[p]) \cup {1}
        /\ n.op # "erase" /\ n.out = <<>> /\ n.audited = {}
    BY <1>1, <1>4, <1>5
  <2>2. n \in Request
    BY <1>5
  <2> QED
    BY ONLY <1>3, <2>1, <2>2, Committing
<1> QED
  BY <1>2, <1>3, <1>5, <1>6 DEF Changes

\* A result: done, if it says so, and logged, if the row is written.
LEMMA ResultMarks ==
  ASSUME RequestsInv, NEW p \in Requests, NEW r, r = req[p], r # None,
         NEW n \in Request, req' = [req EXCEPT ![p] = n],
         n.todo = r.todo, n.op = r.op, n.wrote = r.wrote,
         NEW x \in Outcomes, n.out = Append(r.out, x),
         NEW L \in {{}, {At(r)}}, n.audited = r.audited \cup L
  PROVE  Marked(p, {}, IF x = "ok" THEN {At(r)} ELSE {}, L)
<1>1. n # None /\ r \in Request /\ req \in [Requests -> Request \cup {None}]
  BY NoneAssumption DEF RequestsInv, Good
<1>2. /\ DOMAIN r.out = 1..Len(r.out) /\ At(r) = Len(r.out) + 1 /\ Len(r.out) \in Nat
      /\ r.out \in Seq(Outcomes)
  BY <1>1, Lists
<1>3. /\ DOMAIN n.out = 1..(Len(r.out) + 1) /\ n.out[At(r)] = x
      /\ \A i \in 1..Len(r.out) : n.out[i] = r.out[i]
  <2>1. /\ Len(Append(r.out, x)) = Len(r.out) + 1 /\ Append(r.out, x) \in Seq(Outcomes)
        /\ \A i \in 1..Len(r.out) : Append(r.out, x)[i] = r.out[i]
        /\ Append(r.out, x)[Len(r.out) + 1] = x
    BY <1>2, AppendProperties
  <2> QED
    BY <1>2, <2>1
<1>4. Oks(n) = Oks(r) \cup (IF x = "ok" THEN {At(r)} ELSE {})
  <2>1. DOMAIN n.out = DOMAIN r.out \cup {At(r)} /\ At(r) \notin DOMAIN r.out
    BY <1>2, <1>3
  <2>2. Oks(n) = {i \in DOMAIN r.out \cup {At(r)} : n.out[i] = "ok"}
    BY <1>1, <2>1 DEF Oks
  <2>3. Oks(r) = {i \in DOMAIN r.out : n.out[i] = "ok"}
    BY <1>2, <1>3 DEF Oks
  <2> QED
    BY <1>3, <2>2, <2>3
<1>5. Writes(n) = Writes(r) \cup {}
  BY <1>1 DEF Writes
<1>6. Audits(n) = Audits(r) \cup L
  BY <1>1, <1>2 DEF Audits
<1> QED
  BY <1>1, <1>4, <1>5, <1>6, MarkedStep

LEMMA RefuseMarks ==
  ASSUME RowsInv, RequestsInv, NEW p \in Requests, req[p] # None,
         req[p].step \in {"read", "write"} \/ (req[p].step = "revoke" /\ ~Exists(On(p))),
         Refuse(p)
  PROVE  UNCHANGED <<Made, Erased, Told, Logged>>
<1> SUFFICES ASSUME NEW r, r = req[p], NEW n, n = WithResult(r, "error"), req' = [req EXCEPT ![p] = n]
             PROVE  UNCHANGED <<Made, Erased, Told, Logged>>
  BY DEF Refuse, Answer
<1>1. r \in Request /\ n \in Request /\ "error" \in Outcomes
  BY RefuseGood DEF RequestsInv, Good, Outcomes
<1>2. /\ n.todo = r.todo /\ n.op = r.op /\ n.wrote = r.wrote /\ n.out = Append(r.out, "error")
      /\ n.audited = r.audited \cup {}
  BY <1>1, ResultParts
<1>3. Marked(p, {}, {}, {})
  BY <1>1, <1>2, ResultMarks
<1>4. MarksOf(req', p, {}) = {}
  BY DEF MarksOf
<1> QED
  BY <1>3, <1>4 DEF Marked

LEMMA AuditReports ==
  ASSUME RowsInv, RequestsInv, NEW p \in Requests, Audit(p), UNCHANGED <<Access, device \ coded>>
  PROVE  \E x \in Made : Contract!Report(x)
<1>1. req[p] # None /\ req[p].step = "audit"
  BY DEF Audit, Is
<1>2. SUFFICES ASSUME NEW r, r = req[p],
                      NEW x, x = IF r.op = "create" /\ ~Exists(On(p)) THEN "error" ELSE "ok",
                      NEW a \in AfterAudit(r, At(r)),
                      NEW n, n = [WithResult(r, x) EXCEPT !.audited = a],
                      req' = [req EXCEPT ![p] = n]
               PROVE  \E y \in Made : Contract!Report(y)
  BY DEF Audit
<1>3. n \in Request /\ r \in Request /\ x \in Outcomes /\ At(r) \in r.wrote
  BY <1>1, <1>2, AuditGood DEF Good
<1>4. PICK L \in {{}, {At(r)}} : a = r.audited \cup L
  BY <1>2 DEF AfterAudit
<1>5. /\ n.todo = r.todo /\ n.op = r.op /\ n.wrote = r.wrote /\ n.out = Append(r.out, x)
      /\ n.audited = r.audited \cup L
  BY <1>2, <1>3, <1>4, ResultParts
<1>6. Marked(p, {}, IF x = "ok" THEN {At(r)} ELSE {}, L)
  <2>1. /\ RequestsInv /\ p \in Requests /\ r = req[p] /\ r # None
        /\ req' = [req EXCEPT ![p] = n] /\ L \in {{}, {At(r)}}
    BY <1>1, <1>2, <1>4
  <2> QED
    BY ONLY <2>1, <1>3, <1>5, ResultMarks
<1>7. SUFFICES ASSUME NEW y, y = <<<<p, At(r)>>, r.todo[At(r)]>> PROVE y \in Made /\ Contract!Report(y)
  OBVIOUS
<1>8. y \in Made
  BY <1>1, <1>2, <1>3, <1>7 DEF Made, Marks, MarksOf, Writes
<1>9. req'[p].todo = r.todo
  BY <1>2, <1>5 DEF RequestsInv
<1>10. MarksOf(req', p, {}) = {} /\ MarksOf(req', p, {At(r)}) = {y}
  BY <1>7, <1>9 DEF MarksOf
<1>11. Made' = Made /\ Erased' = Erased
  BY <1>6, <1>10 DEF Marked
<1>12. Told' \in {Told, Told \cup {y}} /\ Logged' \in {Logged, Logged \cup {y}}
  BY <1>4, <1>6, <1>10 DEF Marked
<1> QED
  BY <1>8, <1>11, <1>12 DEF Contract!Report

LEMMA TallyMarks ==
  ASSUME RequestsInv, NEW p \in Requests, Tally(p)
  PROVE  UNCHANGED <<Made, Erased, Told, Logged>>
<1>1. req[p] # None /\ req[p].step = "tally"
  BY DEF Tally, Is
<1>2. SUFFICES ASSUME NEW r, r = req[p], NEW a \in AfterAudit(r, 0),
                      NEW n, n = [r EXCEPT !.step = "answered", !.audited = a],
                      req' = [req EXCEPT ![p] = n]
               PROVE  UNCHANGED <<Made, Erased, Told, Logged>>
  BY DEF Tally, RequestsInv
<1>3. Good(r, status) /\ r \in Request
  BY <1>1, <1>2 DEF RequestsInv, Good
<1>4. n \in Request
  BY <1>1, <1>2, <1>3, TallyGood DEF AfterAudit, Good
<1>5. /\ n.todo = r.todo /\ n.op = r.op /\ n.wrote = r.wrote /\ n.out = r.out
      /\ n.audited \ {0} = r.audited \ {0}
  BY <1>2, <1>3 DEF AfterAudit, Request
<1>6. n # None /\ req \in [Requests -> Request \cup {None}]
  BY <1>4, NoneAssumption DEF RequestsInv
<1>7. Writes(n) = Writes(r) \cup {} /\ Oks(n) = Oks(r) \cup {} /\ Audits(n) = Audits(r) \cup {}
  BY <1>1, <1>2, <1>5, <1>6 DEF Writes, Oks, Audits
<1>8. Marked(p, {}, {}, {})
  BY <1>2, <1>4, <1>5, <1>6, <1>7, MarkedStep
<1>9. MarksOf(req', p, {}) = {}
  BY DEF MarksOf
<1> QED
  BY <1>8, <1>9 DEF Marked

-----------------------------------------------------------------------------
(* AccountContract: the accounts.                                          *)

LEMMA AccessOf ==
  ASSUME RowsInv, NEW u \in Users
  PROVE  /\ Access[u] \in {"open", "closed"} <=> Exists(u)
         /\ Access[u] = "open" <=> Active(u)
         /\ Access[u] = "absent" <=> status[u] = "absent"
         /\ Access[u] = "erased" <=> status[u] = "erased"
<1>1. status[u] \in Statuses \cup {"absent", "erased"}
  BY DEF RowsInv
<1> QED
  BY <1>1 DEF Access, Exists, Active, Statuses

LEMMA AccessThen ==
  ASSUME RowsInv', NEW u \in Users
  PROVE  /\ Access'[u] \in {"open", "closed"} <=> Exists(u)'
         /\ Access'[u] = "open" <=> Active(u)'
         /\ Access'[u] = "absent" <=> status'[u] = "absent"
         /\ Access'[u] = "erased" <=> status'[u] = "erased"
<1>1. status'[u] \in Statuses \cup {"absent", "erased"}
  BY DEF RowsInv
<1> QED
  BY <1>1 DEF Access, Exists, Active, Statuses

\* A step that changes the account of u only.
Others(u) ==
  \A v \in Users \ {u} : status'[v] = status[v] /\ (v \in deletedAt' <=> v \in deletedAt)

LEMMA OneAccess ==
  ASSUME NEW u \in Users, Others(u)
  PROVE  Access' = [Access EXCEPT ![u] = Access'[u]]
<1>1. ASSUME NEW v \in Users \ {u} PROVE Access'[v] = Access[v]
  <2>1. status'[v] = status[v] /\ (v \in deletedAt' <=> v \in deletedAt)
    BY DEF Others
  <2>2. (Exists(v)' <=> Exists(v)) /\ (Active(v)' <=> Active(v))
    BY <2>1 DEF Exists, Active
  <2> QED
    BY <2>1, <2>2 DEF Access
<1>2. Access = [v \in Users |-> Access[v]] /\ Access' = [v \in Users |-> Access'[v]]
  BY DEF Access
<1> QED
  BY <1>1, <1>2

LEMMA SameAccess == UNCHANGED <<status, deletedAt>> => Access' = Access
BY DEF Access, Exists, Active

LEMMA RevokeSignsOut ==
  ASSUME RowsInv, NEW u \in Users, Revoke(u)
  PROVE  (device \ coded)' = (device \ coded) \ {u}
BY DEF RowsInv, Revoke, Revoked

\* A change of an account that stays there: if it closes, its user is signed out.
LEMMA UpdateChanges ==
  ASSUME RowsInv, RowsInv', NEW u \in Users, Exists(u), Exists(u)', Others(u),
         Revoke(u) \/ UNCHANGED <<device, coded>>, UNCHANGED <<Erased, Told, Logged>>
  PROVE  Contract!Update(u)
<1>1. Access[u] \in {"open", "closed"} /\ Access'[u] \in {"open", "closed"}
  BY AccessOf, AccessThen
<1>2. Access' = [Access EXCEPT ![u] = Access'[u]]
  BY OneAccess
<1>3. (device \ coded)' \in {device \ coded, (device \ coded) \ {u}}
  BY RevokeSignsOut
<1>4. Access'[u] = "closed" => u \notin (device \ coded)'
  <2>1. Access'[u] = "closed" => ~Active(u)'
    BY AccessThen
  <2>2. ~Active(u)' => u \notin (device \ coded)'
    BY DEF RowsInv, NoDeviceBarred
  <2> QED
    BY <2>1, <2>2
<1> QED
  BY <1>1, <1>2, <1>3, <1>4 DEF Contract!Update, Contract!Standing, Contract!outcome

\* The commits of a request under way ...
LEMMA CommitSteps ==
  ASSUME RowsInv, RowsInv', RequestsInv, NEW p \in Requests,
         UpdateWrite(p) \/ UpdateNothing(p) \/ ResetWrite(p) \/ DeleteUser(p) \/ DeleteAccount(p)
  PROVE  Contract!Next
<1> SUFFICES ASSUME NEW u, u = On(p), NEW c, c = <<p, At(req[p])>> PROVE Contract!Next
  OBVIOUS
<1>1. /\ req[p] # None /\ req[p].step \in {"read", "write"}
      /\ CommitTo(p, "audit") \/ CommitTo(p, "revoke")
  BY DEF UpdateWrite, UpdateNothing, ResetWrite, DeleteUser, DeleteAccount, Is
<1>2. u \in Users /\ req[p] \in Request
  BY <1>1, OnUser
<1>3. /\ c \in Changes /\ Contract!Make(c, u) /\ UNCHANGED <<Told, Logged>>
      /\ Erased' = IF req[p].op = "erase" THEN Erased \cup {<<c, u>>} ELSE Erased
  BY <1>1, CommitMakes
<1>4. SUFFICES Contract!Update(u) \/ Contract!Erase(c, u) \/ Contract!UpdateNobody(u)
  BY <1>2, <1>3 DEF Contract!Next
<1>5. CASE UpdateWrite(p) \/ DeleteAccount(p) \/ ResetWrite(p)
  <2>1. Erased' = Erased
    BY <1>3, <1>5 DEF UpdateWrite, DeleteAccount, ResetWrite, Is, Updates, Statuses
  <2>2. Exists(u)
    BY <1>5 DEF UpdateWrite, DeleteAccount, ResetWrite
  <2>3. status' = status \/ \E s \in Statuses : status' = [status EXCEPT ![u] = s]
    BY <1>5 DEF UpdateWrite, DeleteAccount, ResetWrite, rows, Statuses
  <2>4. deletedAt' \in {deletedAt, deletedAt \cup {u}, deletedAt \ {u}}
    BY <1>5 DEF UpdateWrite, DeleteAccount, ResetWrite, DeletedAt, rows
  <2>5. Exists(u)' /\ Others(u)
    BY <1>2, <2>2, <2>3, <2>4 DEF Exists, Others, RowsInv
  <2>6. Revoke(u) \/ UNCHANGED <<device, coded>>
    BY <1>5 DEF UpdateWrite, DeleteAccount, ResetWrite, rows
  <2> QED
    BY <1>2, <1>3, <2>1, <2>2, <2>5, <2>6, UpdateChanges
<1>6. CASE UpdateNothing(p)
  <2>1. UNCHANGED rows /\ ~Exists(u) /\ Erased' = Erased
    BY <1>3, <1>6 DEF UpdateNothing, Is
  <2>2. status[u] # "absent"
    BY <1>6 DEF UpdateNothing, Is, RequestsInv, Good, Known, On
  <2>3. Access[u] = "erased"
    BY <1>2, <2>1, <2>2, AccessOf DEF RowsInv, Exists
  <2>4. Access' = Access /\ (device \ coded)' = device \ coded
    BY <2>1, SameAccess DEF rows
  <2> QED
    BY <1>3, <2>1, <2>3, <2>4 DEF Contract!UpdateNobody, Contract!outcome
<1>7. CASE DeleteUser(p)
  <2>1. /\ Exists(u) /\ status' = [status EXCEPT ![u] = "erased"] /\ deletedAt' = deletedAt \ {u}
        /\ Revoke(u) /\ req[p].op = "erase"
    BY <1>7 DEF DeleteUser, StillThere, Is
  <2>2. status'[u] = "erased" /\ Others(u)
    BY <1>2, <2>1 DEF Others, RowsInv
  <2>3. Access[u] \in {"open", "closed"} /\ Access' = [Access EXCEPT ![u] = "erased"]
    BY <1>2, <2>1, <2>2, AccessOf, AccessThen, OneAccess
  <2>4. (device \ coded)' = (device \ coded) \ {u}
    BY <1>2, <2>1, RevokeSignsOut
  <2> QED
    BY <1>3, <2>1, <2>3, <2>4 DEF Contract!Erase, Contract!Standing
<1> QED
  BY <1>5, <1>6, <1>7

\* ... and those that serve it at once.
LEMMA ServeSteps ==
  ASSUME RowsInv, RowsInv', RequestsInv, NEW p \in Requests, NEW u \in Users,
         CreateUser(p, u) \/ Register(p, u) \/ RevokeSessions(p, u) \/ RevokeDevice(p, u)
  PROVE  Contract!Next
<1>1. \E op \in {"create", "register", "revoke"} : Serve(p, op, u)
  BY DEF CreateUser, Register, RevokeSessions, RevokeDevice
<1>2. {"create", "register", "revoke"} \subseteq Ops \ {"erase"}
  BY DEF Ops
<1>3. <<p, 1>> \in Changes /\ Contract!Make(<<p, 1>>, u) /\ UNCHANGED <<Erased, Told, Logged>>
  BY <1>1, <1>2, ServeMakes
<1>4. SUFFICES Contract!Create(u) \/ Contract!Update(u)
  BY <1>3 DEF Contract!Next
<1>5. CASE CreateUser(p, u) \/ Register(p, u)
  <2>1. PICK s \in Statuses : status' = [status EXCEPT ![u] = s]
    BY <1>5 DEF CreateUser, Register, Statuses
  <2>2. status[u] = "absent" /\ UNCHANGED <<deletedAt, device, coded>>
    BY <1>5 DEF CreateUser, Register
  <2>3. Exists(u)' /\ Others(u)
    BY <2>1, <2>2 DEF Exists, Others, RowsInv
  <2>4. Access[u] = "absent" /\ Access'[u] \in {"open", "closed"}
    BY <2>2, <2>3, AccessOf, AccessThen
  <2>5. Access' = [Access EXCEPT ![u] = Access'[u]]
    BY <2>3, OneAccess
  <2> QED
    BY <1>3, <2>2, <2>4, <2>5 DEF Contract!Create, Contract!Standing, Contract!outcome
<1>6. CASE RevokeSessions(p, u) \/ RevokeDevice(p, u)
  <2>1. Exists(u) /\ Revoke(u) /\ UNCHANGED <<status, deletedAt>>
    BY <1>6 DEF RevokeSessions, RevokeDevice, Active, Exists, Statuses
  <2>2. Exists(u)' /\ Others(u)
    BY <2>1 DEF Exists, Others
  <2> QED
    BY <1>3, <2>1, <2>2, UpdateChanges
<1> QED
  BY <1>5, <1>6

\* Steps that the contract does not see.
LEMMA Unseen ==
  ASSUME UNCHANGED <<status, deletedAt>>, (device \ coded)' = device \ coded,
         UNCHANGED <<Made, Erased, Told, Logged>>
  PROVE  UNCHANGED Contract!vars
BY SameAccess DEF Contract!vars, Contract!outcome

LEMMA SameRequests == req' = req => UNCHANGED <<Made, Erased, Told, Logged>>
BY DEF Made, Erased, Told, Logged, Marks, MarksOf, Writes, Erases, Oks, Audits

LEMMA ContractStep ==
  ASSUME RowsInv, RowsInv', RequestsInv, Next
  PROVE  [Contract!Next]_(Contract!vars)
<1>1. ASSUME NEW p \in Requests, NEW op \in Batchable, NEW todo \in Batches, NEW batch \in BOOLEAN,
             Ask(p, op, todo, batch)
      PROVE  UNCHANGED <<Made, Erased, Told, Logged>>
  <2> SUFFICES ASSUME NEW n, n = NewRequest(op, todo, batch), req' = [req EXCEPT ![p] = n], req[p] = None
               PROVE  UNCHANGED <<Made, Erased, Told, Logged>>
    BY <1>1 DEF Ask
  <2>1. n \in Request
    BY NewGood DEF Ops, Good
  <2>2. n.wrote = {} /\ n.out = <<>> /\ n.audited = {}
    BY DEF NewRequest
  <2> QED
    BY <2>1, <2>2, Unmarked
<1>2. ASSUME NEW p \in Requests, NEW u \in Users, DeleteAccountBegin(p, u)
      PROVE  UNCHANGED <<Made, Erased, Told, Logged>>
  <2> SUFFICES ASSUME NEW r, r = NewRequest("own", <<u>>, FALSE), NEW n, n = [r EXCEPT !.step = "write"],
                      req' = [req EXCEPT ![p] = n], req[p] = None
               PROVE  UNCHANGED <<Made, Erased, Told, Logged>>
    BY <1>2 DEF DeleteAccountBegin
  <2>1. "own" \in Ops /\ r \in Request
    BY OneUser, NewGood DEF Ops, Good
  <2>2. r.wrote = {} /\ r.out = <<>> /\ r.audited = {}
    BY DEF NewRequest
  <2>3. n \in Request /\ n.wrote = {} /\ n.out = <<>> /\ n.audited = {}
    BY <2>1, <2>2 DEF Request
  <2> QED
    BY <2>3, Unmarked
<1>3. ASSUME NEW p \in Requests, Read(p) PROVE UNCHANGED <<Made, Erased, Told, Logged>>
  <2> SUFFICES ASSUME NEW r, r = req[p], NEW n, n = [r EXCEPT !.step = "write", !.seen = Row(On(p))],
                      req' = [req EXCEPT ![p] = n]
               PROVE  UNCHANGED <<Made, Erased, Told, Logged>>
    BY <1>3 DEF Read, RequestsInv
  <2>1. r \in Request /\ Row(On(p)) \in [status : Statuses, deleted : BOOLEAN] /\ req[p] # None
    BY <1>3 DEF Read, Is, RequestsInv, Good, Row, Exists
  <2>2. /\ n \in Request /\ n.todo = r.todo /\ n.op = r.op /\ n.wrote = r.wrote
        /\ n.out = r.out /\ n.audited = r.audited
    BY <2>1 DEF Request
  <2> QED
    BY <2>1, <2>2, Unmarked
<1>4. ASSUME NEW p \in Requests, req[p] # None, NEW step \in {"aborted", "audit"}, To(p, step)
      PROVE  UNCHANGED <<Made, Erased, Told, Logged>>
  <2> SUFFICES ASSUME NEW r, r = req[p], NEW n, n = [r EXCEPT !.step = step], req' = [req EXCEPT ![p] = n]
               PROVE  UNCHANGED <<Made, Erased, Told, Logged>>
    BY <1>4 DEF To, RequestsInv
  <2>1. r \in Request
    BY <1>4 DEF RequestsInv, Good
  <2>2. /\ n \in Request /\ n.todo = r.todo /\ n.op = r.op /\ n.wrote = r.wrote
        /\ n.out = r.out /\ n.audited = r.audited
    BY <2>1 DEF Request
  <2> QED
    BY <1>4, <2>1, <2>2, Unmarked
<1>5. ASSUME NEW p \in Requests, NotFound(p) \/ UpdateMissed(p) \/ EmailTaken(p) \/ ResetMissed(p)
                                  \/ DeleteAccountRefused(p)
      PROVE  UNCHANGED <<Made, Erased, Told, Logged>>
  <2>1. /\ req[p] # None /\ Refuse(p)
        /\ req[p].step \in {"read", "write"} \/ (req[p].step = "revoke" /\ ~Exists(On(p)))
    BY <1>5 DEF NotFound, UpdateMissed, EmailTaken, ResetMissed, DeleteAccountRefused, Is
  <2> QED
    BY <2>1, RefuseMarks
<1>6. ASSUME NEW p \in Requests, ResetRevoke(p) PROVE Contract!Next
  <2>1. /\ req[p] # None /\ req[p].step = "revoke" /\ To(p, "audit") /\ Revoke(On(p))
        /\ UNCHANGED <<status, deletedAt>>
    BY <1>6 DEF ResetRevoke, Is
  <2>2. On(p) \in Users /\ UNCHANGED <<Made, Erased, Told, Logged>>
    BY <1>4, <2>1, OnUser
  <2>3. Contract!SignOut(On(p))
    BY <2>1, <2>2, RevokeSignsOut, SameAccess DEF Contract!SignOut, Contract!outcome
  <2> QED
    BY <2>2, <2>3 DEF Contract!Next
<1>7. ASSUME NEW p \in Requests, Audit(p) PROVE Contract!Next
  <2>1. Access' = Access /\ (device \ coded)' = device \ coded
    BY <1>7, SameAccess DEF Audit, rows
  <2> QED
    BY <1>7, <2>1, AuditReports DEF Contract!Next
<1>8. ASSUME NEW u \in Users, SignIn(u) PROVE Contract!Next
  <2>1. /\ Active(u) /\ UNCHANGED <<status, deletedAt, req>>
        /\ (device \ coded)' = (device \ coded) \cup {u}
    BY <1>8 DEF SignIn
  <2>2. Contract!SignIn(u)
    BY <2>1, AccessOf, SameAccess, SameRequests DEF Contract!SignIn, Contract!outcome
  <2> QED
    BY <2>2 DEF Contract!Next
<1>9. ASSUME NEW u \in Users, RedeemRead(u) \/ RedeemWrite(u) \/ RedeemFails(u)
      PROVE  UNCHANGED Contract!vars
  <2>1. UNCHANGED <<status, deletedAt, req>> /\ (device \ coded)' = device \ coded
    BY <1>9 DEF RedeemRead, RedeemWrite, RedeemFails, rows, RowsInv
  <2> QED
    BY <2>1, SameRequests, Unseen
<1>10. ASSUME NEW p \in Requests,
              \/ \E op \in Batchable, todo \in Batches, batch \in BOOLEAN : Ask(p, op, todo, batch)
              \/ Read(p) \/ NotFound(p) \/ UpdateMissed(p) \/ WriteLost(p) \/ EmailTaken(p)
              \/ ResetMissed(p) \/ \E u \in Users : DeleteAccountBegin(p, u)
              \/ DeleteAccountRefused(p) \/ Tally(p) \/ Abort(p)
       PROVE  UNCHANGED Contract!vars
  <2>1. UNCHANGED rows
    BY <1>10 DEF Ask, Read, NotFound, UpdateMissed, WriteLost, EmailTaken, ResetMissed, DeleteAccountBegin,
                 DeleteAccountRefused, Tally, Abort, Refuse
  <2>2. WriteLost(p) \/ Abort(p) => req[p] # None /\ To(p, "aborted")
    BY DEF WriteLost, Abort, Is
  <2>3. UNCHANGED <<Made, Erased, Told, Logged>>
    BY <1>1, <1>2, <1>3, <1>4, <1>5, <1>10, <2>2, TallyMarks
  <2> QED
    BY <2>1, <2>3, Unseen DEF rows
<1>11. ASSUME NEW p \in Requests, AdminNext(p) PROVE [Contract!Next]_(Contract!vars)
  BY <1>6, <1>10, <1>11, CommitSteps, ServeSteps DEF AdminNext
<1>12. ASSUME NEW p \in Requests, UserNext(p) PROVE [Contract!Next]_(Contract!vars)
  BY <1>10, <1>12, CommitSteps, ServeSteps DEF UserNext
<1> QED
  BY <1>7, <1>8, <1>9, <1>10, <1>11, <1>12 DEF Next

\* However admins and users interleave and wherever a request breaks off, the accounts keep
\* their contract: a commit is one change of one user; who is barred is signed out by that
\* change; who is erased is erased once and stays so; and what is answered as done, or told
\* by the audit log, was committed (updateUser, deleteUser, deleteAccount, batchUsers).
THEOREM AccountRefinement == Spec => ImplementsAccounts
<1>1. Init => Contract!Init
  <2> SUFFICES ASSUME Init PROVE Contract!Init
    OBVIOUS
  <2>1. \A p \in Requests : req[p] = None
    BY DEF Init
  <2>2. Made = {} /\ Erased = {} /\ Told = {} /\ Logged = {}
    BY <2>1 DEF Made, Erased, Told, Logged, Marks, MarksOf, Writes, Erases, Oks, Audits
  <2>3. Access \in [Users -> {"open", "closed"} \cup {"absent"}]
    BY DEF Init, Access, Exists
  <2> QED
    BY <2>2, <2>3 DEF Init, Contract!Init, Contract!Standing
<1>2. AccountsInv /\ AccountsInv' /\ [Next]_vars => [Contract!Next]_(Contract!vars)
  <2>1. AccountsInv /\ AccountsInv' /\ Next => [Contract!Next]_(Contract!vars)
    BY Parts, NextParts, ContractStep
  <2>2. UNCHANGED vars => UNCHANGED Contract!vars
    BY SameRequests, Unseen DEF vars, rows
  <2> QED
    BY <2>1, <2>2
<1> QED
  BY <1>1, <1>2, Invariant, PTL DEF Spec, ImplementsAccounts, Contract!Spec

-----------------------------------------------------------------------------
(* The download ticket.                                                    *)

\* Tickets are looked at only: beside them the accounts go on as before.
LEMMA AccountsGoOn == ResourceSpec => Spec
<1>1. ResourceInit => Init
  BY DEF ResourceInit
<1>2. [ResourceNext]_resourceVars => [Next]_vars
  BY DEF ResourceNext, AccountStep, Bootstrap, Download, DownloadEnds, Expires, Redeploy, resourceVars
<1> QED
  BY <1>1, <1>2, PTL DEF ResourceSpec, Spec

\* The user of a ticket that has ended is signed out.
TicketInv ==
  /\ version \in Versions /\ ticket \in Ticket \cup {None}
  /\ ticket # None /\ ticket.ended => ticket.user \notin device

LEMMA TicketStep ==
  ASSUME AccountsInv, TicketInv, [ResourceNext]_resourceVars
  PROVE  TicketInv'
<1>1. CASE AccountStep
  <2>1. Closed
    BY <1>1, Parts, NextRows DEF AccountStep, Kept
  <2>2. CASE ticket = None
    BY <1>1, <2>2 DEF AccountStep, TicketInv
  <2>3. CASE ticket # None
    <3>1. PICK e \in BOOLEAN :
               /\ e <=> (ticket.user \in SignedOut \/ (ticket.ended /\ ticket.user \notin SignedIn))
               /\ ticket' = [ticket EXCEPT !.ended = e]
      BY <1>1, <2>3 DEF AccountStep
    <3>2. ticket \in Ticket
      BY <2>3 DEF TicketInv
    <3>3. ticket' \in Ticket /\ ticket'.ended = e /\ ticket'.user = ticket.user /\ version' = version
      BY <1>1, <3>1, <3>2 DEF Ticket, AccountStep
    <3>4. e => ticket.user \notin device'
      <4>1. ticket.user \in SignedOut => ticket.user \notin device'
        BY <2>1 DEF SignedOut, Closed
      <4>2. ticket.ended /\ ticket.user \notin SignedIn => ticket.user \notin device'
        BY <2>3 DEF SignedIn, TicketInv
      <4> QED
        BY <3>1, <4>1, <4>2
    <3> QED
      BY <3>3, <3>4 DEF TicketInv
  <2> QED
    BY <2>2, <2>3
<1>2. ASSUME NEW u \in Users, Bootstrap(u) PROVE TicketInv'
  <2>1. ticket' \in Ticket /\ ~ticket'.ended /\ version' = version
    BY <1>2 DEF Bootstrap, Manifests, NewTicket, Ticket, TicketInv
  <2> QED
    BY <2>1 DEF TicketInv
<1>3. CASE Download \/ DownloadEnds
  <2>1. ticket \in Ticket /\ ticket # None /\ UNCHANGED <<vars, version>>
    BY <1>3 DEF Download, DownloadEnds, Valid, TicketInv
  <2>2. ticket' \in Ticket /\ ticket'.user = ticket.user /\ ticket'.ended = ticket.ended
    BY <1>3, <2>1 DEF Download, DownloadEnds, Ticket
  <2> QED
    BY <2>1, <2>2 DEF TicketInv, vars, rows
<1>4. CASE Expires
  BY <1>4 DEF Expires, TicketInv
<1>5. CASE Redeploy
  <2>1. version' \in Versions /\ device' = device
    BY <1>5 DEF Redeploy, vars, rows
  <2>2. CASE ticket = None
    BY <1>5, <2>1, <2>2 DEF Redeploy, TicketInv
  <2>3. CASE ticket # None
    <3>1. ticket \in Ticket /\ ticket' = [ticket EXCEPT !.open = FALSE]
      BY <1>5, <2>3 DEF Redeploy, TicketInv
    <3>2. ticket' \in Ticket /\ ticket'.user = ticket.user /\ ticket'.ended = ticket.ended
      BY <3>1 DEF Ticket
    <3> QED
      BY <2>1, <2>3, <3>2 DEF TicketInv
  <2> QED
    BY <2>2, <2>3
<1>6. CASE UNCHANGED resourceVars
  BY <1>6 DEF resourceVars, vars, rows, TicketInv
<1> QED
  BY <1>1, <1>2, <1>3, <1>4, <1>5, <1>6 DEF ResourceNext

\* A download goes by the device of the moment.
LEMMA OpenStep ==
  ASSUME TicketInv, [ResourceNext]_resourceVars, ticket # None, ticket' # None, ~ticket.open, ticket'.open
  PROVE  ~ticket.ended
<1>0. ticket \in Ticket
  BY DEF TicketInv
<1>1. CASE Download
  BY <1>1 DEF Download, Authorized, TicketInv
<1>2. CASE AccountStep
  <2>1. ticket'.open = ticket.open
    BY <1>0, <1>2 DEF AccountStep, Ticket
  <2> QED
    BY <2>1
<1>3. CASE DownloadEnds \/ Redeploy
  <2>1. ~ticket'.open
    BY <1>0, <1>3 DEF DownloadEnds, Redeploy, Ticket
  <2> QED
    BY <2>1
<1>4. CASE UNCHANGED resourceVars
  BY <1>4 DEF resourceVars
<1> QED
  BY <1>1, <1>2, <1>3, <1>4 DEF ResourceNext, Bootstrap, Expires

\* A ticket opens no download once its user was signed out by force
\* (authorizeResourceAccess, _revokeUserAuthentication).
THEOREM TicketsEndWithSignIns == ResourceSpec => TicketsEnd
<1>1. ResourceInit => TicketInv
  BY DEF ResourceInit, TicketInv
<1>2. AccountsInv /\ TicketInv /\ [ResourceNext]_resourceVars => TicketInv'
  BY TicketStep
<1>3. TicketInv /\ [ResourceNext]_resourceVars =>
        [ticket # None /\ ticket' # None /\ ~ticket.open /\ ticket'.open => ~ticket.ended]_resourceVars
  BY OpenStep
<1>4. ResourceSpec => []AccountsInv
  BY AccountsGoOn, Invariant, PTL
<1> QED
  BY <1>1, <1>2, <1>3, <1>4, PTL DEF ResourceSpec, TicketsEnd

=============================================================================

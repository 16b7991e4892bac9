------------------------------ MODULE Accounts ------------------------------
(***************************************************************************)
(* The accounts as admins and their owners change them: registration and   *)
(* creation, status, password reset, revocation, deletion, one user at a   *)
(* time or in batches, each change with the audit row that is to tell of   *)
(* it (admin_user_service.py, account_service.py, the two recordAudit).    *)
(*                                                                         *)
(* A request is a series of transactions; other requests run in between.   *)
(***************************************************************************)
EXTENDS Naturals, Sequences, FiniteSets

CONSTANTS
  Users,       \* accounts, existing or to be created
  Requests,    \* requests, each served once
  MaxBatch,    \* users a batch names at most (AdminBatchUsersRequest: 200)
  None

ASSUME BatchAssumption == MaxBatch \in Nat \ {0}

VARIABLES
  status,      \* users.status, "absent" before the insert, "erased" after the hard delete
  deletedAt,   \* users with a deleted_at
  device,      \* users whose device is active: one of theirs, of which only this is followed
  redeeming,   \* users whose code is being redeemed on a device read as not active
  coded,       \* history: users whose device was last made active by a redemption
  req          \* per request: what it asks for and how far it is

rows == <<status, deletedAt, device, coded>>
vars == <<rows, redeeming, req>>

\* STATUS_ALIASES; "paused" stands for banned, suspended and expired as well.
Statuses == {"active", "paused", "deleted"}
Barring == Statuses \ {"active"}

\* updateUser to a status or without one, resetUserPassword, deleteUser: what a batch may
\* ask for.  Alone come registration and creation, the deletion of one's own account and
\* the revocation of sessions or of the device.
Updates == Statuses \cup {"no status"}
Batchable == Updates \cup {"reset", "erase"}
Ops == Batchable \cup {"register", "create", "own", "revoke"}

Row(u) == [status |-> status[u], deleted |-> u \in deletedAt]
Exists(u) == status[u] \in Statuses
Active(u) == status[u] = "active" /\ u \notin deletedAt

\* Accounts earlier requests have left, signed out.
Init ==
  /\ status \in [Users -> Statuses \cup {"absent"}]
  /\ deletedAt = {u \in Users : status[u] = "deleted"} /\ device = {}
  /\ redeeming = {} /\ coded = {}
  /\ req = [p \in Requests |-> None]

-----------------------------------------------------------------------------
(* Requests.                                                               *)

\* Of a request: the users it names; per user done its outcome; the positions whose
\* change is committed and those with an audit row (0: the row of the whole batch).
NewRequest(op, todo, batch) ==
  [op |-> op, todo |-> todo, batch |-> batch, step |-> "read", seen |-> None,
   out |-> <<>>, wrote |-> {}, audited |-> {}]

At(r) == Len(r.out) + 1
On(p) == req[p].todo[At(req[p])]
Is(p, step, ops) == req[p] # None /\ req[p].step = step /\ req[p].op \in ops

To(p, step) == req' = [req EXCEPT ![p].step = step]
Committed(r) == [r EXCEPT !.wrote = @ \cup {At(r)}]
CommitTo(p, step) == req' = [req EXCEPT ![p] = [Committed(req[p]) EXCEPT !.step = step]]

\* A result, or the ApiError batchUsers collects; then the next user, if any.
WithResult(r, result) ==
  [r EXCEPT !.out = Append(@, result), !.seen = None,
            !.step = IF At(r) < Len(r.todo) THEN "read" ELSE IF r.batch THEN "tally" ELSE "answered"]
Answer(p, result) == req' = [req EXCEPT ![p] = WithResult(req[p], result)]
Refuse(p) == Answer(p, "error") /\ UNCHANGED <<rows, redeeming>>

\* A request for one user that opens with its commit.
Serve(p, op, u) ==
  /\ req[p] = None
  /\ req' = [req EXCEPT ![p] = [Committed(NewRequest(op, <<u>>, FALSE)) EXCEPT !.step = "audit"]]

Ask(p, op, todo, batch) ==
  /\ req[p] = None
  /\ batch \/ Len(todo) = 1
  /\ req' = [req EXCEPT ![p] = NewRequest(op, todo, batch)]
  /\ UNCHANGED <<rows, redeeming>>

\* _revokeUserAuthentication and _revokeDeviceInternal, of the devices.
\* (Mutant: only the refresh tokens are revoked.)
RevokedTokens(u) == device
Revoked(u) == device \ {u}
Revoke(u) == device' = Revoked(u) /\ coded' = coded \cap device'

-----------------------------------------------------------------------------
(* updateUser.  It reads the user without a lock and keeps the object,     *)
(* which the locking read of the revocation does not refresh: a column is  *)
(* written if it is to differ from what was read.                          *)

Read(p) ==
  /\ Is(p, "read", Updates \cup {"reset"}) /\ Exists(On(p))
  /\ req' = [req EXCEPT ![p].step = "write", ![p].seen = Row(On(p))]
  /\ UNCHANGED <<rows, redeeming>>

NotFound(p) == Is(p, "read", Batchable) /\ ~Exists(On(p)) /\ Refuse(p)

Differs(p) ==
  /\ req[p].op \in Statuses
  /\ req[p].seen.status # req[p].op \/ req[p].op = "deleted" \/ req[p].seen.deleted

\* deletedAt after an update: set or cleared.  (Mutant: never cleared.)
DeletedAtKept(p) == IF req[p].op = "deleted" THEN deletedAt \cup {On(p)} ELSE deletedAt
DeletedAt(p) ==
  IF req[p].op = "deleted" THEN deletedAt \cup {On(p)}
  ELSE IF req[p].op \in Statuses /\ req[p].seen.deleted THEN deletedAt \ {On(p)}
  ELSE deletedAt

UpdateWrite(p) ==
  LET u == On(p)  op == req[p].op
  IN  /\ Is(p, "write", Updates) /\ Exists(u)
      /\ status' = IF op \in Statuses \ {req[p].seen.status} THEN [status EXCEPT ![u] = op] ELSE status
      /\ deletedAt' = DeletedAt(p)
      /\ IF op \in Barring THEN Revoke(u) ELSE UNCHANGED <<device, coded>>
      /\ CommitTo(p, "audit")
      /\ UNCHANGED redeeming

\* The user is erased meanwhile: the revocation finds nobody, ...
UpdateMissed(p) == Is(p, "write", Barring) /\ ~Exists(On(p)) /\ Refuse(p)

\* ... an UPDATE that matches no row is no ApiError and ends a whole batch, ...
WriteLost(p) ==
  /\ Is(p, "write", {"active", "no status", "reset"}) /\ ~Exists(On(p))
  /\ req[p].op = "active" => Differs(p)
  /\ To(p, "aborted")
  /\ UNCHANGED <<rows, redeeming>>

\* ... and an update with nothing to write succeeds.
UpdateNothing(p) ==
  /\ Is(p, "write", {"active", "no status"}) /\ ~Exists(On(p)) /\ ~Differs(p)
  /\ CommitTo(p, "audit")
  /\ UNCHANGED <<rows, redeeming>>

\* EMAIL_ALREADY_USED, for the e-mail a PATCH may bring along: all is rolled back.
EmailTaken(p) == Is(p, "write", Updates) /\ ~req[p].batch /\ Refuse(p)

-----------------------------------------------------------------------------
(* resetUserPassword, deleteUser.                                          *)

\* The new password is committed; the sessions are revoked in a second transaction.
ResetWrite(p) ==
  /\ Is(p, "write", {"reset"}) /\ Exists(On(p))
  /\ CommitTo(p, "revoke")
  /\ UNCHANGED <<rows, redeeming>>

\* revokeAllSessions; its own audit row is left out.
ResetRevoke(p) ==
  /\ Is(p, "revoke", {"reset"}) /\ Exists(On(p))
  /\ Revoke(On(p)) /\ To(p, "audit")
  /\ UNCHANGED <<status, deletedAt, redeeming>>
ResetMissed(p) == Is(p, "revoke", {"reset"}) /\ ~Exists(On(p)) /\ Refuse(p)

\* The row is locked and read again.  (Mutant: it is not, a second DELETE finds no rows.)
StillThereUnread(u) == status[u] # "absent"
StillThere(u) == Exists(u)

\* The row and all that refer to it.
DeleteUser(p) ==
  LET u == On(p)
  IN  /\ Is(p, "read", {"erase"}) /\ StillThere(u)
      /\ status' = [status EXCEPT ![u] = "erased"]
      /\ deletedAt' = deletedAt \ {u} /\ Revoke(u)
      /\ CommitTo(p, "audit")
      /\ UNCHANGED redeeming

-----------------------------------------------------------------------------
(* Requests for one user.                                                  *)

\* createUser, with any status; postRegister, always "active".  Neither sets deleted_at.
\* (A refusal, EMAIL_ALREADY_USED or WEAK_PASSWORD, changes nothing.)
CreateUser(p, u) ==
  /\ status[u] = "absent" /\ Serve(p, "create", u)
  /\ \E s \in Statuses : status' = [status EXCEPT ![u] = s]
  /\ UNCHANGED <<deletedAt, device, coded, redeeming>>

Register(p, u) ==
  /\ status[u] = "absent" /\ Serve(p, "register", u)
  /\ status' = [status EXCEPT ![u] = "active"]
  /\ UNCHANGED <<deletedAt, device, coded, redeeming>>

\* deleteAccount: requireUser in a session of its own, then the row under its lock.
DeleteAccountBegin(p, u) ==
  /\ req[p] = None /\ Active(u)
  /\ req' = [req EXCEPT ![p] = [NewRequest("own", <<u>>, FALSE) EXCEPT !.step = "write"]]
  /\ UNCHANGED <<rows, redeeming>>

DeleteAccount(p) ==
  LET u == On(p)
  IN  /\ Is(p, "write", {"own"})
      /\ Exists(u) /\ status[u] # "deleted" /\ u \notin deletedAt
      /\ status' = [status EXCEPT ![u] = "deleted"] /\ deletedAt' = deletedAt \cup {u}
      /\ Revoke(u)
      /\ CommitTo(p, "audit")
      /\ UNCHANGED redeeming

\* NOT_FOUND, CONFLICT, INVALID_CREDENTIALS.
DeleteAccountRefused(p) == Is(p, "write", {"own"}) /\ Refuse(p)

\* revokeAllSessions and revokeUserDevice, by an admin, whatever the account's status, ...
RevokeSessions(p, u) ==
  /\ Exists(u) /\ Serve(p, "revoke", u) /\ Revoke(u)
  /\ UNCHANGED <<status, deletedAt, redeeming>>

\* ... and revokeDevice, by the user on another device; one that is revoked stays as it is.
RevokeDevice(p, u) ==
  /\ Active(u) /\ Serve(p, "revoke", u) /\ Revoke(u)
  /\ UNCHANGED <<status, deletedAt, redeeming>>

-----------------------------------------------------------------------------
(* The audit row, and the end of a request.                                *)

\* The audited positions after the insert of a row, a transaction of its own whose failure
\* is only logged.
AfterAudit(r, i) == {r.audited, r.audited \cup {i}}

\* recordAudit of admin_audit_service.py, or auditAction around a user's own request.
\* createUser then reads the user again, who may be erased.
Audit(p) ==
  LET r == req[p]
      result == IF r.op = "create" /\ ~Exists(On(p)) THEN "error" ELSE "ok"
  IN  /\ Is(p, "audit", Ops)
      /\ \E audited \in AfterAudit(r, At(r)) :
           req' = [req EXCEPT ![p] = [WithResult(r, result) EXCEPT !.audited = audited]]
      /\ UNCHANGED <<rows, redeeming>>

\* The row that counts a batch's successes.
Tally(p) ==
  /\ Is(p, "tally", Batchable)
  /\ \E audited \in AfterAudit(req[p], 0) :
       req' = [req EXCEPT ![p].step = "answered", ![p].audited = audited]
  /\ UNCHANGED <<rows, redeeming>>

\* A deadlock, a lost connection, a crash: the open transaction is rolled back, what was
\* committed stays, and no more of the batch is done.
Abort(p) ==
  /\ req[p] # None /\ req[p].step \notin {"answered", "aborted"}
  /\ To(p, "aborted")
  /\ UNCHANGED <<rows, redeeming>>

-----------------------------------------------------------------------------
(* Sign-ins.                                                               *)

\* loginUser, under the lock of the user's row.
SignIn(u) ==
  /\ Active(u)
  /\ device' = device \cup {u} /\ coded' = coded \ {u}
  /\ UNCHANGED <<status, deletedAt, redeeming, req>>

\* redeemCode goes by the snapshot of its first read.
RedeemRead(u) ==
  /\ Active(u) /\ u \notin device \cup redeeming
  /\ redeeming' = redeeming \cup {u}
  /\ UNCHANGED <<rows, req>>
RedeemWrite(u) ==
  /\ u \in redeeming /\ Exists(u)
  /\ redeeming' = redeeming \ {u}
  /\ device' = device \cup {u}
  /\ coded' = IF u \in device THEN coded ELSE coded \cup {u}
  /\ UNCHANGED <<status, deletedAt, req>>
RedeemFails(u) ==
  /\ u \in redeeming
  /\ redeeming' = redeeming \ {u}
  /\ UNCHANGED <<rows, req>>

-----------------------------------------------------------------------------
Batches == UNION {[1..n -> Users] : n \in 1..MaxBatch}

AdminNext(p) ==
  \/ \E op \in Batchable, todo \in Batches, batch \in BOOLEAN : Ask(p, op, todo, batch)
  \/ Read(p) \/ NotFound(p)
  \/ UpdateWrite(p) \/ UpdateMissed(p) \/ WriteLost(p) \/ UpdateNothing(p) \/ EmailTaken(p)
  \/ ResetWrite(p) \/ ResetRevoke(p) \/ ResetMissed(p) \/ DeleteUser(p)
  \/ \E u \in Users : CreateUser(p, u) \/ RevokeSessions(p, u)

UserNext(p) ==
  \/ \E u \in Users : Register(p, u) \/ DeleteAccountBegin(p, u) \/ RevokeDevice(p, u)
  \/ DeleteAccount(p) \/ DeleteAccountRefused(p)

Next ==
  \/ \E p \in Requests : AdminNext(p) \/ UserNext(p) \/ Audit(p) \/ Tally(p) \/ Abort(p)
  \/ \E u \in Users : SignIn(u) \/ RedeemRead(u) \/ RedeemWrite(u) \/ RedeemFails(u)

Spec == Init /\ [][Next]_vars

-----------------------------------------------------------------------------
(* Properties.                                                             *)

Outcomes == {"ok", "error"}
Request ==
  [op : Ops, todo : Batches, batch : BOOLEAN,
   step : {"read", "write", "revoke", "audit", "tally", "answered", "aborted"},
   seen : [status : Statuses, deleted : BOOLEAN] \cup {None},
   out : UNION {[1..n -> Outcomes] : n \in 0..MaxBatch},
   wrote : SUBSET (1..MaxBatch), audited : SUBSET (0..MaxBatch)]

ASSUME NoneAssumption == None \notin Request

TypeOK ==
  /\ status \in [Users -> Statuses \cup {"absent", "erased"}]
  /\ deletedAt \subseteq Users /\ device \subseteq Users
  /\ redeeming \subseteq Users /\ coded \subseteq device
  /\ req \in [Requests -> Request \cup {None}]
  /\ \A u \in Users : ~Exists(u) => u \notin deletedAt \cup device

\* Erasures that were committed, and that they are of different users, who stay erased.
Erasures == {x \in Requests \X (1..MaxBatch) :
               req[x[1]] # None /\ req[x[1]].op = "erase" /\ x[2] \in req[x[1]].wrote}
ErasedOnce ==
  /\ \A x, y \in Erasures : req[x[1]].todo[x[2]] = req[y[1]].todo[y[2]] => x = y
  /\ \A x \in Erasures : status[req[x[1]].todo[x[2]]] = "erased"

\* A batch that is answered, or broken off half-way by an exception or a crash, tells
\* what it did: what it reports as done is committed, and what it reports as failed is
\* not, except the new password or the new account of a user who was erased before the
\* request was through; an audit row tells of committed changes only; nobody further down
\* the list is touched; and of several erasures of a user, asked for at the same time or
\* twice in a batch, one is reported as done (batchUsers, recordAudit, deleteUser).
Tells(r, st) ==
  /\ \A i \in DOMAIN r.out :
       IF r.out[i] = "ok" THEN i \in r.wrote
       ELSE i \in r.wrote => r.op \in {"reset", "create"} /\ st[r.todo[i]] = "erased"
  /\ r.audited \ {0} \subseteq r.wrote \cap DOMAIN r.out
  /\ r.wrote \subseteq 1..At(r)
  /\ 0 \in r.audited => Len(r.out) = Len(r.todo)
BatchTells == ErasedOnce /\ \A p \in Requests : req[p] # None => Tells(req[p], status)

\* A user who is paused, deleted or bears a deleted_at has no active device, in whatever
\* order admins and the user change the account: the status and the revocation are one
\* transaction.  Only a redemption under way can sign the device in behind it.
NoDeviceBarred == \A u \in device : Active(u) \/ u \in coded

\* How far a request is: an outcome for each user that is done, a commit before the audit
\* row of it, none while the current user's change is still open.  A user it found or
\* changed is there, or was erased since.
InStep(r) ==
  /\ Len(r.out) <= Len(r.todo) /\ r.wrote \subseteq DOMAIN r.todo
  /\ r.step \in {"read", "write", "revoke", "audit"} => Len(r.out) < Len(r.todo)
  /\ r.step \in {"tally", "answered"} => Len(r.out) = Len(r.todo)
  /\ r.step \in {"read", "write", "tally", "answered"} => r.wrote \subseteq DOMAIN r.out
  /\ r.step \in {"revoke", "audit"} => At(r) \in r.wrote
  /\ 0 \in r.audited => r.step = "answered"
Known(r, st) ==
  /\ \A i \in r.wrote : st[r.todo[i]] # "absent" /\ (r.op = "erase" => st[r.todo[i]] = "erased")
  /\ r.step \in {"write", "revoke"} => st[r.todo[At(r)]] # "absent"
  /\ r.step = "write" => r.op # "erase"
  /\ r.step = "revoke" => r.op = "reset"
AccountsInv ==
  /\ TypeOK /\ BatchTells /\ NoDeviceBarred
  /\ \A p \in Requests : req[p] # None => InStep(req[p]) /\ Known(req[p], status)

\* users.status and users.deleted_at part - a user listed as active who may not sign in,
\* or a deleted one without a date - only by an update that goes by a row read too early,
\* or for a user created as deleted (updateUser, deleteAccount).
Parted(u) == Exists(u) /\ (status[u] = "deleted") # (u \in deletedAt)
GoesByOld(p, u) == Is(p, "write", Statuses) /\ On(p) = u /\ req[p].seen # Row(u)
PartedByRace ==
  [][\A u \in Users :
       ~Parted(u) /\ Parted(u)' =>
         status[u] = "absent" \/ \E p \in Requests : GoesByOld(p, u)]_vars

-----------------------------------------------------------------------------
(* What the accounts promise (AccountContract).                            *)

\* A user's change is one position of a request: the positions with a commit, with an
\* answer that all is done, with an audit row.
Changes == Requests \X (1..MaxBatch)
Writes(r) == IF r = None THEN {} ELSE r.wrote
Erases(r) == IF r = None THEN {} ELSE IF r.op = "erase" THEN r.wrote ELSE {}
Oks(r) == IF r = None THEN {} ELSE {i \in DOMAIN r.out : r.out[i] = "ok"}
Audits(r) == IF r = None THEN {} ELSE r.audited \ {0}

\* Positions of a request, each with its user; positions S[p] of each request p.
MarksOf(rq, p, positions) == {<<<<p, i>>, rq[p].todo[i]>> : i \in positions}
Marks(rq, S) == UNION {MarksOf(rq, p, S[p]) : p \in Requests}
Made == Marks(req, [p \in Requests |-> Writes(req[p])])
Erased == Marks(req, [p \in Requests |-> Erases(req[p])])
Told == Marks(req, [p \in Requests |-> Oks(req[p])])
Logged == Marks(req, [p \in Requests |-> Audits(req[p])])

\* Who is signed in leaves out the devices that only a redemption made active.
Access == [u \in Users |-> IF ~Exists(u) THEN status[u] ELSE IF Active(u) THEN "open" ELSE "closed"]

Contract == INSTANCE AccountContract WITH
  account <- Access, signedIn <- device \ coded,
  made <- Made, erasures <- Erased, told <- Told, logged <- Logged

\* However its transactions interleave and wherever a request breaks off, each of its
\* commits is one change of one user, made once; the change that bars a user signs the
\* user out in the same commit; an erased user is changed by nobody; what is answered as
\* done and what the audit log tells was committed (updateUser, deleteUser, deleteAccount,
\* resetUserPassword, batchUsers, recordAudit).
ImplementsAccounts == Contract!Spec
=============================================================================

------------------------------- MODULE Admins -------------------------------
(***************************************************************************)
(* Administrator accounts: login with lockout, the session cookie, and     *)
(* what owners do to accounts (admin_auth_service.py,                      *)
(* admin_account_service.py and their routes).  No transaction locks a     *)
(* row: each decides on the snapshot of its first SELECT and writes, over  *)
(* whatever the rows hold by then, the columns it changed.  Passwords, the *)
(* age limit of cookies and the audit rows are left out.                   *)
(***************************************************************************)
EXTENDS Naturals, Sequences

CONSTANTS
  Admins,                 \* usernames of admin_users, taken or free
  Root,                   \* the username "root", which seed_admin looks after
  TokenInUse,             \* X-Admin-Token is configured
  Requests,               \* requests served at once
  MaxFailedAttempts,      \* adminMaxFailedAttempts
  Pairs,                  \* bound: the PATCH bodies that set both status and role
  MaxTime,                \* bound: seconds that pass
  None

ASSUME PairsAssumption == Pairs \subseteq {"lock", "unlock"} \X {"promote", "demote"}
ASSUME TokenAssumption == TokenInUse \in BOOLEAN /\ Root \in Admins
ASSUME LimitAssumption == MaxFailedAttempts \in Nat \ {0} /\ MaxTime \in Nat

VARIABLES
  role, status,           \* status "absent" before createAdmin
  deleted,                \* deleted_at is set
  failed,                 \* failed_attempts
  resetAt,                \* pwd_reset_at in seconds, 0 for none
  cookies,                \* session cookies issued: whose, and when
  now,
  req, snap               \* per request: what is left to do; what its transaction read

table == <<role, status, deleted, failed, resetAt>>
vars == <<table, cookies, now, req, snap>>

Roles == {"owner", "admin"}
Statuses == {"absent", "active", "locked"}
Cookie == [who : Admins, ts : 0..MaxTime]

\* The bodies of the routes: a PATCH may set the status and then the role, in two
\* transactions.
RoleOf == [promote |-> "owner", demote |-> "admin", owner |-> "owner", admin |-> "admin"]
Patches == {<<"lock">>, <<"unlock">>, <<"promote">>, <<"demote">>} \cup Pairs
Bodies == Patches \cup {<<"reset">>, <<"delete">>, <<"owner">>, <<"admin">>}
Logins == {<<"right">>, <<"wrong">>}
Others == Logins \cup {<<"seed">>}

Request == [target : Admins, ops : Bodies \cup Others]
ASSUME NoneAssumption == None \notin Request

Columns == [role : Roles, status : Statuses, failed : Nat, others : BOOLEAN, at : 0..MaxTime]

ActiveOwner(a) == role[a] = "owner" /\ status[a] = "active" /\ a \notin deleted
OwnerLeft == \E a \in Admins : ActiveOwner(a)
OthersLeft(a) == \E o \in Admins \ {a} : ActiveOwner(o)

\* The accounts that exist at first: seed_admin leaves an active owner.
Init ==
  /\ role \in [Admins -> Roles] /\ status \in [Admins -> {"absent", "active"}]
  /\ \A a \in Admins : status[a] = "absent" => role[a] = "admin"
  /\ deleted = {} /\ OwnerLeft
  /\ failed = [a \in Admins |-> 0] /\ resetAt = [a \in Admins |-> 0]
  /\ cookies = {} /\ now = 0
  /\ req = [p \in Requests |-> None] /\ snap = [p \in Requests |-> None]

-----------------------------------------------------------------------------
(* Steps of a request.                                                     *)

Op(p) == Head(req[p].ops)
Target(p) == req[p].target

\* The end of a transaction: the handler's next one, or the response.
Finish(p) ==
  /\ snap' = [snap EXCEPT ![p] = None]
  /\ req' = [req EXCEPT ![p] = IF Len(req[p].ops) = 1 THEN None
                               ELSE [target |-> req[p].target, ops |-> Tail(req[p].ops)]]

\* A cookie is accepted while its account is neither deleted nor locked nor has had its
\* password reset in a later second.  (Mutant: deleted_at is not looked at.)
CookieAcceptedDeleted(c) == resetAt[c.who] <= c.ts /\ status[c.who] = "active"
CookieAccepted(c) == c.who \notin deleted /\ resetAt[c.who] <= c.ts /\ status[c.who] = "active"

\* An owner with an accepted cookie, who may not delete their own account; or whoever
\* presents X-Admin-Token, where one is configured.
MayAsk(t, b) ==
  \/ TokenInUse
  \/ \E c \in cookies : CookieAccepted(c) /\ role[c.who] = "owner" /\ (b = <<"delete">> => c.who # t)

\* The decorators read the role in a session of their own, before the handler runs.
Admit(p, t, b) ==
  /\ req[p] = None /\ MayAsk(t, b)
  /\ req' = [req EXCEPT ![p] = [target |-> t, ops |-> b]]
  /\ UNCHANGED <<table, cookies, now, snap>>

\* _ensureAtLeastOneActiveOwner: what takes an owner away needs another active one.
\* (Mutant: the target counts itself.)
SparesOwnersCounted(a) == role[a] = "owner" => OwnerLeft
SparesOwners(a) == role[a] = "owner" => OthersLeft(a)

\* The refusals of the services, on the snapshot: the account exists and is not deleted,
\* an owner remains; or the username is free.  A role or lock that is there already writes
\* nothing and is left to Refused.
Allowed(a, op) ==
  IF op \in {"owner", "admin"} THEN status[a] = "absent"
  ELSE /\ status[a] # "absent" /\ a \notin deleted
       /\ op \in {"lock", "demote", "delete"} => SparesOwners(a)
       /\ op \in {"promote", "demote"} => role[a] # RoleOf[op]
       /\ op = "lock" => status[a] # "locked"

\* The columns a transaction goes by after its first read, the others normalised away;
\* resetAdminPassword also takes the time now, before a slow hash and the write.
Read(a, op) ==
  [role   |-> IF op \in {"lock", "demote", "delete"} THEN role[a] ELSE "admin",
   status |-> IF op \in {"unlock", "seed"} THEN status[a] ELSE "active",
   failed |-> IF op \in {"unlock", "reset", "right", "wrong"} THEN failed[a] ELSE 0,
   others |-> op \in {"lock", "demote", "delete"} /\ OthersLeft(a),
   at     |-> IF op = "reset" THEN now ELSE 0]

Open(p) ==
  /\ req[p] # None /\ snap[p] = None
  /\ Allowed(Target(p), Op(p))
  /\ snap' = [snap EXCEPT ![p] = Read(Target(p), Op(p))]
  /\ UNCHANGED <<table, cookies, now, req>>

\* NOT_FOUND, FORBIDDEN, USERNAME_TAKEN, a lost connection, nothing to write: of a PATCH, the status is
\* set all the same when the role is refused.
Refused(p) ==
  /\ req[p] # None
  /\ req' = [req EXCEPT ![p] = None] /\ snap' = [snap EXCEPT ![p] = None]
  /\ UNCHANGED <<table, cookies, now>>

\* SQLAlchemy writes a column only if the new value differs from the one read.
Written(seen, new, current) == IF new = seen THEN current ELSE new

-----------------------------------------------------------------------------
(* What owners do.                                                         *)

SetStatus(p) ==
  LET t == Target(p)  new == IF Op(p) = "lock" THEN "locked" ELSE "active"
  IN  /\ snap[p] # None /\ Op(p) \in {"lock", "unlock"}
      /\ status' = [status EXCEPT ![t] = Written(snap[p].status, new, @)]
      /\ failed' = IF Op(p) = "lock" THEN failed
                   ELSE [failed EXCEPT ![t] = Written(snap[p].failed, 0, @)]
      /\ Finish(p)
      /\ UNCHANGED <<role, deleted, resetAt, cookies, now>>

UpdateRole(p) ==
  /\ snap[p] # None /\ Op(p) \in {"promote", "demote"}
  /\ role' = [role EXCEPT ![Target(p)] = RoleOf[Op(p)]]
  /\ Finish(p)
  /\ UNCHANGED <<status, deleted, failed, resetAt, cookies, now>>

\* A lock stays.
ResetPassword(p) ==
  /\ snap[p] # None /\ Op(p) = "reset"
  /\ resetAt' = [resetAt EXCEPT ![Target(p)] = snap[p].at]
  /\ failed' = [failed EXCEPT ![Target(p)] = Written(snap[p].failed, 0, @)]
  /\ Finish(p)
  /\ UNCHANGED <<role, status, deleted, cookies, now>>

SoftDelete(p) ==
  /\ snap[p] # None /\ Op(p) = "delete"
  /\ deleted' = deleted \cup {Target(p)}
  /\ resetAt' = [resetAt EXCEPT ![Target(p)] = now]
  /\ Finish(p)
  /\ UNCHANGED <<role, status, failed, cookies, now>>

\* The unique index refuses a username taken since the read.
CreateAdmin(p) ==
  /\ snap[p] # None /\ Op(p) \in {"owner", "admin"}
  /\ status[Target(p)] = "absent"
  /\ role' = [role EXCEPT ![Target(p)] = RoleOf[Op(p)]]
  /\ status' = [status EXCEPT ![Target(p)] = "active"]
  /\ Finish(p)
  /\ UNCHANGED <<deleted, failed, resetAt, cookies, now>>

-----------------------------------------------------------------------------
(* seed_admin, at every start of a server with AUTO_INIT_SCHEMA or by      *)
(* hand, beside the servers that run: root is created, or an owner again.  *)

SeedRead(p) ==
  /\ req[p] = None
  /\ status[Root] = "absent" \/ (role[Root] = "admin" /\ Root \notin deleted)
  /\ req' = [req EXCEPT ![p] = [target |-> Root, ops |-> <<"seed">>]]
  /\ snap' = [snap EXCEPT ![p] = Read(Root, "seed")]
  /\ UNCHANGED <<table, cookies, now>>

SeedRoot(p) ==
  /\ snap[p] # None /\ Op(p) = "seed"
  /\ snap[p].status = "absent" => status[Target(p)] = "absent"
  /\ role' = [role EXCEPT ![Target(p)] = "owner"]
  /\ status' = IF snap[p].status = "absent" THEN [status EXCEPT ![Target(p)] = "active"] ELSE status
  /\ Finish(p)
  /\ UNCHANGED <<deleted, failed, resetAt, cookies, now>>

-----------------------------------------------------------------------------
(* Login.                                                                  *)

\* A locked account is refused; a deleted one is not.
LoginRead(p, a, b) ==
  /\ req[p] = None /\ status[a] = "active"
  /\ req' = [req EXCEPT ![p] = [target |-> a, ops |-> b]]
  /\ snap' = [snap EXCEPT ![p] = Read(a, Head(b))]
  /\ UNCHANGED <<table, cookies, now>>

\* The count is what was read and one more; at the limit the account locks, whoever it is.
LoginWrong(p) ==
  LET n == snap[p].failed + 1
  IN  /\ snap[p] # None /\ Op(p) = "wrong"
      /\ failed' = [failed EXCEPT ![Target(p)] = n]
      /\ status' = IF n >= MaxFailedAttempts THEN [status EXCEPT ![Target(p)] = "locked"] ELSE status
      /\ Finish(p)
      /\ UNCHANGED <<role, deleted, resetAt, cookies, now>>

\* The count starts again and postLogin sets the cookie.  (Mutant: an account that logs in
\* is active again.)
LoginRightUnlocks(p) ==
  /\ snap[p] # None /\ Op(p) = "right"
  /\ status' = [status EXCEPT ![Target(p)] = "active"]
  /\ failed' = [failed EXCEPT ![Target(p)] = Written(snap[p].failed, 0, @)]
  /\ cookies' = cookies \cup {[who |-> Target(p), ts |-> now]}
  /\ Finish(p)
  /\ UNCHANGED <<role, deleted, resetAt, now>>

LoginRight(p) ==
  /\ snap[p] # None /\ Op(p) = "right"
  /\ failed' = [failed EXCEPT ![Target(p)] = Written(snap[p].failed, 0, @)]
  /\ cookies' = cookies \cup {[who |-> Target(p), ts |-> now]}
  /\ Finish(p)
  /\ UNCHANGED <<role, status, deleted, resetAt, now>>

-----------------------------------------------------------------------------
Tick == now < MaxTime /\ now' = now + 1 /\ UNCHANGED <<table, cookies, req, snap>>

Next ==
  \/ \E p \in Requests, a \in Admins : \/ \E b \in Bodies : Admit(p, a, b)
                                       \/ \E b \in Logins : LoginRead(p, a, b)
  \/ \E p \in Requests : \/ Open(p) \/ Refused(p)
                         \/ SetStatus(p) \/ UpdateRole(p) \/ ResetPassword(p) \/ SoftDelete(p)
                         \/ CreateAdmin(p) \/ LoginWrong(p) \/ LoginRight(p)
                         \/ SeedRead(p) \/ SeedRoot(p)
  \/ Tick

Spec == Init /\ [][Next]_vars

-----------------------------------------------------------------------------
(* Properties.                                                             *)

TypeOK ==
  /\ role \in [Admins -> Roles] /\ status \in [Admins -> Statuses] /\ deleted \subseteq Admins
  /\ failed \in [Admins -> Nat] /\ resetAt \in [Admins -> 0..MaxTime]
  /\ cookies \subseteq Cookie /\ now \in 0..MaxTime
  /\ req \in [Requests -> Request \cup {None}] /\ snap \in [Requests -> Columns \cup {None}]

\* An open transaction is a request's, and was allowed by what it read.
OpenIsAllowed ==
  \A p \in Requests :
    snap[p] # None =>
      /\ req[p] # None
      /\ Op(p) \in {"lock", "demote", "delete"} /\ snap[p].role = "owner" => snap[p].others
AdminInv == TypeOK /\ OpenIsAllowed

\* Request p's transaction ends in this step.
Ends(p) == snap[p] # None /\ snap'[p] = None

\* What its check of the owners went by still holds.
StillTrue(p) == role[Target(p)] = snap[p].role /\ OthersLeft(Target(p)) = snap[p].others

\* The last active owner goes only by failed logins or by a transaction whose check of the
\* owners another one has made untrue ("at least one active owner", admin_account_service.py).
OnlyRacesEmpty ==
  [][OwnerLeft /\ ~OwnerLeft' =>
       \E p \in Requests : Ends(p) /\ (Op(p) = "wrong" \/ ~StillTrue(p))]_vars

\* Nobody's login, though it rests on an old snapshot, gives a role, a lock or a deleted
\* account back: only an admitted request for that very change does, or the seed, which
\* makes a demoted root an owner again.
Change(a, op) ==
  CASE op = "promote" -> status[a] # "absent" /\ role[a] = "admin" /\ role'[a] = "owner"
    [] op = "demote"  -> status[a] # "absent" /\ role[a] = "owner" /\ role'[a] = "admin"
    [] op = "unlock"  -> status[a] = "locked" /\ status'[a] = "active"
    [] op = "delete"  -> (a \in deleted) # (a \in deleted')
MovedBy(op) == IF op = "promote" THEN {"promote", "seed"} ELSE {op}
RightsMoveByRequest ==
  [][\A a \in Admins, op \in {"promote", "demote", "unlock", "delete"} :
       Change(a, op) => \E p \in Requests : Ends(p) /\ Target(p) = a /\ Op(p) \in MovedBy(op)]_vars

\* A cookie that is refused since the account was deleted or its password reset stays
\* refused, though the account may still log in; unless a reset that began earlier
\* commits over a later one and takes pwd_reset_at back.
RefusedStaysRefused ==
  [][\A c \in cookies :
       c.who \in deleted \/ c.ts < resetAt[c.who] =>
         \/ ~CookieAccepted(c)'
         \/ \E p \in Requests : Ends(p) /\ Op(p) = "reset" /\ snap[p].at < resetAt[c.who]]_vars
=============================================================================

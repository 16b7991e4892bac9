----------------------------- MODULE RedeemCodes -----------------------------
(***************************************************************************)
(* Redemption of invite, trial and recharge codes, redeemCode of           *)
(* app/services/auth_service.py: who is signed in on the device, what is   *)
(* granted and how often.  The transaction locks the code's row; all else  *)
(* it reads is the snapshot of its first plain SELECT (REPEATABLE READ).   *)
(***************************************************************************)
EXTENDS Naturals, FiniteSets

CONSTANTS
  Codes, Kind, MaxUses,   \* codes in circulation; Kind[c], MaxUses[c]
  Devices,
  Users,                  \* accounts, existing or to be created
  Redeemers,              \* requests served at once
  None

ASSUME KindAssumption == Kind \in [Codes -> {"invite", "trial", "recharge"}]
ASSUME MaxUsesAssumption == MaxUses \in [Codes -> Nat \ {0}]
ASSUME UsersAssumption == IsFiniteSet(Users)
ASSUME NoneAssumption == None \notin Users \cup Codes \cup Devices

VARIABLES
  account,          \* users.status, "absent" before the insert, "deleted" after a hard delete
  device,           \* active user_devices rows: <<device, user>>
  lic, used,        \* license_codes.status ("absent": a signed code not imported yet), used_count
  redeemed,         \* code_redemptions rows: <<code, user>>
  granted,          \* how often a code has granted to a user
  req, snap         \* per request: code, device and form; its snapshot

rows == <<account, device, lic, used, redeemed, granted>>
vars == <<rows, req, snap>>

Request == [code : Codes, dev : Devices, signed : BOOLEAN]
Snapshot == [lic : {"absent", "active", "exhausted"}, users : SUBSET Users,
             owners : SUBSET Users, redeemers : SUBSET Users]
NoSnapshot == [lic |-> "absent", users |-> {}, owners |-> {}, redeemers |-> {}]

Init ==
  /\ account = [u \in Users |-> "absent"] /\ device = {}
  /\ lic \in [Codes -> {"absent", "active"}]
  /\ used = [c \in Codes |-> 0] /\ redeemed = {}
  /\ granted = [c \in Codes |-> [u \in Users |-> 0]]
  /\ req = [p \in Redeemers |-> None] /\ snap = [p \in Redeemers |-> NoSnapshot]

Owners(d) == {u \in Users : <<d, u>> \in device}
UsersOf(c) == {u \in Users : <<c, u>> \in redeemed}

-----------------------------------------------------------------------------
(* Redemption.                                                             *)

\* A signed code is locked before anything is read, an absent row excludes nobody.
LockedBy(c) == {p \in Redeemers : req[p] # None /\ req[p].code = c /\ req[p].signed
                                  /\ snap[p].lic # "absent"}

\* _decodeRawCode reads the row of a code given in the clear, before the lock; for a
\* signed one _findPublicDevice, after it, is the first to read.
RedeemRead(p, r) ==
  /\ req[p] = None
  /\ IF r.signed THEN LockedBy(r.code) = {} ELSE lic[r.code] # "absent"
  /\ req' = [req EXCEPT ![p] = r]
  /\ snap' = [snap EXCEPT ![p] =
                [lic |-> lic[r.code], users |-> {u \in Users : account[u] = "active"},
                 owners |-> Owners(r.dev), redeemers |-> UsersOf(r.code)]]
  /\ UNCHANGED rows

\* Status and count come from the locking read: the row object of the plain one is gone.
Exhausted(p) == LET c == req[p].code IN lic[c] = "exhausted" \/ used[c] >= MaxUses[c]

\* An exhausted invite or trial code signs its first redeemer in again (here: any), from
\* no other account's device.  A recharge needs an account on the device; of several, the
\* code takes the oldest, the model any.
Existing(p) ==
  IF Kind[req[p].code] # "recharge" /\ Exhausted(p) /\ snap[p].redeemers # {}
  THEN IF snap[p].owners = {} THEN snap[p].redeemers
       ELSE snap[p].owners \cap snap[p].redeemers
  ELSE IF Kind[req[p].code] = "recharge" /\ Exhausted(p) THEN {}
  ELSE snap[p].owners

CreatesAccount(p) ==
  /\ Kind[req[p].code] # "recharge" /\ snap[p].owners = {}
  /\ ~(Exhausted(p) /\ snap[p].redeemers # {})

Finish(p) ==
  /\ req' = [req EXCEPT ![p] = None]
  /\ snap' = [snap EXCEPT ![p] = NoSnapshot]

\* UNIQUE (code_id, user_id).  (Mutant: no such constraint.)
RedemptionFreeUnchecked(c, u) == TRUE
RedemptionFree(c, u) == <<c, u>> \notin redeemed

\* used_count after one more grant.  (Mutant: counted from code_redemptions.)
UsesThenRows(c) == Cardinality(UsersOf(c)) + 1
UsesThen(c) == used[c] + 1

\* CHECK (used_count <= max_uses).
UseAllowed(c) == UsesThen(c) <= MaxUses[c]

\* The grant, unless the code is exhausted or the snapshot shows that the user has had
\* it; the row of a signed code is imported, at its first redemption.
Grant(c, u) ==
  /\ RedemptionFree(c, u) /\ UseAllowed(c)
  /\ redeemed' = redeemed \cup {<<c, u>>}
  /\ granted' = [granted EXCEPT ![c][u] = @ + 1]
  /\ used' = [used EXCEPT ![c] = UsesThen(c)]
  /\ lic' = [lic EXCEPT ![c] = IF UsesThen(c) >= MaxUses[c] THEN "exhausted" ELSE "active"]

Grants(p, u) == ~Exhausted(p) /\ u \notin snap[p].redeemers

\* The rest of the transaction, for user u: the device row, the grant, the tokens.
\* It fails on rows inserted or deleted since the snapshot (see RedeemFails).
Redeem(p, u) ==
  LET c == req[p].code  d == req[p].dev
  IN  /\ req[p].signed \/ LockedBy(c) = {}
      /\ snap[p].lic = "absent" => lic[c] = "absent"
      /\ u \notin snap[p].owners => <<d, u>> \notin device
      /\ device' = device \cup {<<d, u>>}
      /\ IF Grants(p, u) THEN Grant(c, u) ELSE UNCHANGED <<lic, used, redeemed, granted>>
      /\ Finish(p)

RedeemExisting(p) ==
  /\ req[p] # None
  /\ \E u \in Existing(p) \cap snap[p].users : account[u] # "deleted" /\ Redeem(p, u)
  /\ UNCHANGED account

RedeemCreating(p) ==
  /\ req[p] # None /\ CreatesAccount(p)
  /\ \E u \in Users :
       /\ account[u] = "absent"
       /\ account' = [account EXCEPT ![u] = "active"]
       /\ Redeem(p, u)

\* ALREADY_USED, NEED_ACTIVATION, ALREADY_AUTHENTICATED (the account is not active), a
\* violated unique or foreign key, a deadlock on an absent row, a lost connection.
RedeemFails(p) ==
  /\ req[p] # None
  /\ Finish(p)
  /\ UNCHANGED rows

-----------------------------------------------------------------------------
(* What else writes these rows.                                            *)

\* registerUser, or loginUser on a device that is new to the account or was revoked.
SignIn(u, d) ==
  /\ account[u] \in {"absent", "active"} /\ <<d, u>> \notin device
  /\ account' = [account EXCEPT ![u] = "active"]
  /\ device' = device \cup {<<d, u>>}
  /\ UNCHANGED <<lic, used, redeemed, granted, req, snap>>

\* updateUser and deleteAccount: a user who is not active loses the devices.
Disable(u) ==
  /\ account[u] = "active"
  /\ account' = [account EXCEPT ![u] = "disabled"]
  /\ device' = {x \in device : x[2] # u}
  /\ UNCHANGED <<lic, used, redeemed, granted, req, snap>>

Enable(u) ==
  /\ account[u] = "disabled"
  /\ account' = [account EXCEPT ![u] = "active"]
  /\ UNCHANGED <<device, lic, used, redeemed, granted, req, snap>>

\* deleteUser: the redemptions go, the use counts stay.
DeleteUser(u) ==
  /\ account[u] \in {"active", "disabled"}
  /\ account' = [account EXCEPT ![u] = "deleted"]
  /\ device' = {x \in device : x[2] # u}
  /\ redeemed' = {x \in redeemed : x[2] # u}
  /\ UNCHANGED <<lic, used, granted, req, snap>>

RevokeDevice(u, d) ==
  /\ <<d, u>> \in device
  /\ device' = device \ {<<d, u>>}
  /\ UNCHANGED <<account, lic, used, redeemed, granted, req, snap>>

-----------------------------------------------------------------------------
RedeemNext(p) ==
  \/ \E r \in Request : RedeemRead(p, r)
  \/ RedeemExisting(p) \/ RedeemCreating(p) \/ RedeemFails(p)

Next ==
  \/ \E p \in Redeemers : RedeemNext(p)
  \/ \E u \in Users : Disable(u) \/ Enable(u) \/ DeleteUser(u)
  \/ \E u \in Users, d \in Devices : SignIn(u, d) \/ RevokeDevice(u, d)

Spec == Init /\ [][Next]_vars

-----------------------------------------------------------------------------
(* Properties.                                                             *)

TypeOK ==
  /\ account \in [Users -> {"absent", "active", "disabled", "deleted"}]
  /\ device \subseteq Devices \X Users
  /\ lic \in [Codes -> {"absent", "active", "exhausted"}] /\ used \in [Codes -> Nat]
  /\ redeemed \subseteq Codes \X Users
  /\ granted \in [Codes -> [Users -> Nat]]
  /\ req \in [Redeemers -> Request \cup {None}] /\ snap \in [Redeemers -> Snapshot]

\* A code grants no more often than it may, is exhausted exactly then, and counts
\* every grant, also of users deleted since (redeemCode under the lock).
CodeUses ==
  \A c \in Codes :
    /\ used[c] <= MaxUses[c] /\ (lic[c] = "exhausted" <=> used[c] = MaxUses[c])
    /\ used[c] = Cardinality({u \in Users : granted[c][u] > 0})

\* A code grants once to a user, though the check that it has not may be stale.
GrantedOnce == \A c \in Codes, u \in Users : granted[c][u] <= 1

\* What makes both inductive: a grant's row stays as long as its user, an account not
\* created yet has been granted nothing, and no snapshot shows one.
RedemptionsKept ==
  \A c \in Codes, u \in Users : granted[c][u] > 0 => account[u] = "deleted" \/ <<c, u>> \in redeemed
AbsentUnfunded == \A c \in Codes, u \in Users : account[u] = "absent" => granted[c][u] = 0
AbsentUnseen == \A p \in Redeemers : \A u \in snap[p].users : account[u] # "absent"
RedeemInv ==
  TypeOK /\ CodeUses /\ GrantedOnce /\ RedemptionsKept /\ AbsentUnfunded /\ AbsentUnseen

\* What is left of a code, and the users that redemption is over for.
Contract == INSTANCE CodeContract WITH
  left <- [c \in Codes |-> MaxUses[c] - used[c]],
  erased <- {u \in Users : account[u] = "deleted"}

\* Whatever redemptions race, and by whatever snapshot they go, each takes one of the code's
\* uses for a user who has had none of them and is still there, or takes nothing; no use comes
\* back, not even with the user's redemption rows (redeemCode, deleteUser).
ImplementsCodeContract == Contract!Spec
=============================================================================

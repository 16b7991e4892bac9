-------------------------------- MODULE Auth --------------------------------
(***************************************************************************)
(* The sign-ins of one account: login, refresh, logout, password change    *)
(* and reset, devices, and what an admin does to it                        *)
(* (identity_auth_service.py, token_service.py, password_reset_service.py, *)
(* account_service.py, admin_user_service.py, redeemCode's sign-in).       *)
(* A transaction that locks its rows before it reads is one action; one    *)
(* that reads without a lock, or waits for others while it holds one, has  *)
(* a step for what it read (Procs) and one for what it writes.  Where two  *)
(* wait for each other MySQL aborts one: both orders and Abort.            *)
(***************************************************************************)
EXTENDS Naturals, FiniteSets

CONSTANTS
  Procs,            \* transactions open at once
  Devices, MaxDevices,
  Tokens,           \* refresh_tokens rows, each issued together with an access token
  Resets,           \* password_reset_tokens rows
  None,
  MaxFailed,
  MaxVersion        \* bound: authVersion

ASSUME DevicesAssumption == IsFiniteSet(Devices)
ASSUME BoundsAssumption == MaxDevices \in Nat \ {0} /\ MaxFailed \in Nat \ {0}

VARIABLES
  user,             \* the users row
  device,           \* user_devices.status, "none" without a row
  byCode,           \* devices a redemption has made active
  tok, live,        \* tokens issued; the refresh tokens not revoked
  reset, uses,      \* password_reset_tokens; passwords a reset token has set
  proc,             \* open transactions and what they have read
  ended,            \* sign-ins whose refresh tokens have been revoked
  barred,           \* those whose access tokens were to end as well
  stale             \* a status change has written an authVersion older than the row's

rows == <<user, device, byCode, tok, live, reset, uses>>
history == <<ended, barred, stale>>
vars == <<rows, proc, history>>

User == [status : {"active", "paused", "deleted", "gone"}, deleted : BOOLEAN, version : Nat,
         failed : 0..MaxFailed, locked : {"no", "yes", "past"}, password : {"set", "void"}]
\* root is the first token of the sign-in.
Token == [dev : Devices, version : Nat, root : Tokens]
ASSUME NoneAssumption == None \notin Token

NewUser == [status |-> "active", deleted |-> FALSE, version |-> 0, failed |-> 0,
            locked |-> "no", password |-> "set"]
NoProc == [op |-> "idle", arg |-> None, seen |-> NewUser, dev |-> "none"]

Init ==
  /\ user = NewUser
  /\ device = [d \in Devices |-> "none"] /\ byCode = {}
  /\ tok = [t \in Tokens |-> None] /\ live = {}
  /\ reset = [x \in Resets |-> "none"] /\ uses = [x \in Resets |-> 0]
  /\ proc = [p \in Procs |-> NoProc]
  /\ ended = {} /\ barred = {} /\ stale = FALSE

Active(u) == u.status = "active" /\ ~u.deleted
ActiveDevices == {d \in Devices : device[d] = "active"}
Issued == {t \in Tokens : tok[t] # None}
Roots(S) == {tok[t].root : t \in S}

\* Row locks of open transactions: a login's on the user, which every insert that refers
\* to the user waits for as well, and on its device; a refresh's on its token, which every
\* revocation that covers the token waits for; a confirmation's on its reset token.
UserLocked == \E p \in Procs : proc[p].op = "login"
Held(t) == \E p \in Procs : proc[p].op = "refresh" /\ proc[p].arg = t
ResetHeld(x) == \E p \in Procs : proc[p].op = "confirm" /\ proc[p].arg = x
Unheld(S) == \A t \in S : ~Held(t)

\* Of the user's row, what the rest of the transaction goes by.
Seen(op) ==
  CASE op = "update" -> [NewUser EXCEPT !.status = user.status, !.deleted = user.deleted,
                                        !.version = user.version]
    [] op \in {"refresh", "redeem"} -> [NewUser EXCEPT !.version = user.version]
    [] op \in {"confirm", "reset"} -> [NewUser EXCEPT !.failed = user.failed, !.locked = user.locked]
    [] OTHER -> NewUser

Open(p, op, arg, dev) ==
  /\ proc[p].op = "idle"
  /\ proc' = [proc EXCEPT ![p] = [op |-> op, arg |-> arg, seen |-> Seen(op), dev |-> dev]]
  /\ UNCHANGED <<rows, history>>
Close(p) == proc' = [proc EXCEPT ![p] = NoProc]

\* The next row: tokens are alike, so any one will do.
NewToken == CHOOSE t \in Tokens : t \notin Issued
Issue(t, d, version, root) ==
  /\ t \notin Issued /\ t = NewToken
  /\ tok' = [tok EXCEPT ![t] = [dev |-> d, version |-> version, root |-> root]]

\* Revokes the refresh tokens S and so ends their sign-ins.
SignOut(S) ==
  /\ live' = live \ S
  /\ ended' = ended \cup Roots(S)

\* revokeAllRefreshTokens: a locking scan of all of the user's live tokens.
\* (Mutant: the scan does not lock.)
RevokeUnlocked == SignOut(Issued)
RevokeTokens == Unheld(live) /\ SignOut(Issued)

-----------------------------------------------------------------------------
(* Login, refresh, logout.                                                 *)

\* Up to the count of the active devices, under the lock of the user's row.
\* (Mutant: the row is not locked.)
LoginUnlocked(p, d) ==
  /\ Active(user) /\ user.locked # "yes" /\ user.password = "set"
  /\ device[d] = "active" \/ Cardinality(ActiveDevices) < MaxDevices
  /\ Open(p, "login", d, "none")
LoginBegin(p, d) == ~UserLocked /\ LoginUnlocked(p, d)

LoginCommit(p) ==
  /\ proc[p].op = "login"
  /\ \E t \in Tokens :
       /\ Issue(t, proc[p].arg, user.version, t)
       /\ live' = live \cup {t}
  /\ user' = [user EXCEPT !.failed = 0, !.locked = "no"]
  /\ device' = [device EXCEPT ![proc[p].arg] = "active"]
  /\ byCode' = IF device[proc[p].arg] = "active" THEN byCode ELSE byCode \ {proc[p].arg}
  /\ Close(p)
  /\ UNCHANGED <<reset, uses, history>>

\* (Mutant: the count is not cut.)
FailedUncut == [user EXCEPT !.failed = @ + 1, !.locked = IF user.failed + 1 >= MaxFailed THEN "yes" ELSE @]
Failed == IF user.failed + 1 >= MaxFailed
          THEN [user EXCEPT !.failed = MaxFailed, !.locked = "yes"]
          ELSE [user EXCEPT !.failed = @ + 1]

WrongPassword ==
  /\ ~UserLocked
  /\ Active(user) /\ user.locked # "yes"
  /\ user' = Failed
  /\ UNCHANGED <<device, byCode, tok, live, reset, uses, proc, history>>

LockExpires ==
  /\ user.locked = "yes"
  /\ user' = [user EXCEPT !.locked = "past"]
  /\ UNCHANGED <<device, byCode, tok, live, reset, uses, proc, history>>

\* The token's row is locked; user and device are plain reads.  (Mutant: not locked.)
RefreshUnlocked(p, t) ==
  /\ t \in live
  /\ Active(user) /\ device[tok[t].dev] = "active" /\ tok[t].version = user.version
  /\ Open(p, "refresh", t, "none")
RefreshBegin(p, t) == ~Held(t) /\ RefreshUnlocked(p, t)

RefreshCommit(p) ==
  LET t == proc[p].arg
  IN  /\ proc[p].op = "refresh" /\ ~UserLocked
      /\ \E n \in Tokens :
           /\ Issue(n, tok[t].dev, proc[p].seen.version, tok[t].root)
           /\ live' = (live \ {t}) \cup {n}
      /\ Close(p)
      /\ UNCHANGED <<user, device, byCode, reset, uses, history>>

Logout(t) ==
  /\ t \in live /\ ~Held(t) /\ ~UserLocked
  /\ SignOut({t})
  /\ UNCHANGED <<user, device, byCode, tok, reset, uses, proc, barred, stale>>

-----------------------------------------------------------------------------
(* Passwords.                                                              *)

RequestReset(x) ==
  /\ ~UserLocked /\ Active(user)
  /\ reset[x] = "none" /\ \A y \in Resets : ~ResetHeld(y)
  /\ reset' = [y \in Resets |-> IF y = x THEN "open"
                                ELSE IF reset[y] = "open" THEN "used" ELSE reset[y]]
  /\ UNCHANGED <<user, device, byCode, tok, live, uses, proc, history>>

\* The reset token's row is locked, the user is not.  (Mutant: neither.)
ConfirmUnlocked(p, x) == reset[x] = "open" /\ Active(user) /\ Open(p, "confirm", x, "none")
ConfirmRead(p, x) == ~ResetHeld(x) /\ ConfirmUnlocked(p, x)

\* A new password clears the lockout; of a row read before, only what differs is written.
NewPassword(seen) ==
  [user EXCEPT !.password = "set",
               !.failed = IF seen.failed = 0 THEN @ ELSE 0,
               !.locked = IF seen.locked = "no" THEN @ ELSE "no"]

ConfirmWrite(p) ==
  LET x == proc[p].arg
  IN  /\ proc[p].op = "confirm" /\ ~UserLocked
      /\ user' = NewPassword(proc[p].seen)
      /\ reset' = [reset EXCEPT ![x] = "used"] /\ uses' = [uses EXCEPT ![x] = @ + 1]
      /\ RevokeTokens
      /\ Close(p)
      /\ UNCHANGED <<device, byCode, tok, barred, stale>>

ChangePassword ==
  /\ ~UserLocked /\ Active(user) /\ user.password = "set" /\ Issued # {}
  /\ user' = NewPassword(user)
  /\ RevokeTokens
  /\ UNCHANGED <<device, byCode, tok, reset, uses, proc, barred, stale>>

-----------------------------------------------------------------------------
(* Devices and the account, by the user or by an admin.                    *)

RevokeDevice(d) ==
  LET mine == {t \in live : tok[t].dev = d}
  IN  /\ device[d] # "none" /\ Unheld(mine)
      /\ \A p \in Procs : ~(proc[p].op = "login" /\ proc[p].arg = d)
      /\ device' = [device EXCEPT ![d] = "revoked"]
      /\ SignOut(mine)
      /\ UNCHANGED <<user, byCode, tok, reset, uses, proc, barred, stale>>

\* What is to end the access tokens too: authVersion, devices, refresh tokens.
\* (Mutant: authVersion stays.)
BumpNone(version) == user.version
Bump(version) == version + 1
Bar ==
  /\ ~UserLocked /\ user'.version <= MaxVersion
  /\ device' = [d \in Devices |-> IF device[d] = "active" THEN "revoked" ELSE device[d]]
  /\ RevokeTokens
  /\ barred' = barred \cup Roots(Issued)
  /\ UNCHANGED <<byCode, tok, reset, uses>>

DeleteAccount ==
  /\ user.status \in {"active", "paused"} /\ ~user.deleted
  /\ user.password = "set" /\ Issued # {}
  /\ user' = [user EXCEPT !.status = "deleted", !.deleted = TRUE, !.password = "void",
                          !.version = Bump(@)]
  /\ Bar
  /\ UNCHANGED <<proc, stale>>

RevokeAllSessions ==
  /\ user.status # "gone"
  /\ user' = [user EXCEPT !.version = Bump(@)]
  /\ Bar
  /\ UNCHANGED stale

\* updateUser reads the user without a lock and keeps the object, which the later locking
\* read does not refresh: what is written follows from what was read.
UpdateRead(p) == user.status # "gone" /\ Open(p, "update", None, "none")

WithStatus(seen, s) ==
  [user EXCEPT !.status = IF seen.status = s THEN @ ELSE s,
               !.deleted = IF s = "deleted" THEN TRUE ELSE IF seen.deleted THEN FALSE ELSE @]

UpdateEnable(p) ==
  /\ proc[p].op = "update" /\ user.status # "gone" /\ ~UserLocked
  /\ user' = WithStatus(proc[p].seen, "active")
  /\ Close(p)
  /\ UNCHANGED <<device, byCode, tok, live, reset, uses, history>>

UpdateDisable(p, s) ==
  /\ proc[p].op = "update" /\ user.status # "gone"
  /\ user' = [WithStatus(proc[p].seen, s) EXCEPT !.version = Bump(proc[p].seen.version)]
  /\ stale' = (stale \/ proc[p].seen.version # user.version)
  /\ Bar
  /\ Close(p)

\* resetUserPassword: two transactions, the second by revokeAllSessions.
AdminResetRead(p) == user.status # "gone" /\ Open(p, "reset", None, "none")
AdminResetWrite(p) ==
  /\ proc[p].op = "reset" /\ user.status # "gone" /\ ~UserLocked
  /\ user' = NewPassword(proc[p].seen)
  /\ proc' = [proc EXCEPT ![p] = [NoProc EXCEPT !.op = "revoke"]]
  /\ UNCHANGED <<device, byCode, tok, live, reset, uses, history>>
AdminResetRevoke(p) == proc[p].op = "revoke" /\ RevokeAllSessions /\ Close(p)

\* The row and all that refer to it.
DeleteUser ==
  /\ user.status # "gone" /\ ~UserLocked /\ \A x \in Resets : ~ResetHeld(x)
  /\ RevokeTokens /\ barred' = barred \cup Roots(Issued)
  /\ user' = [NewUser EXCEPT !.status = "gone"]
  /\ device' = [d \in Devices |-> "none"] /\ byCode' = {}
  /\ tok' = [t \in Tokens |-> None] /\ reset' = [x \in Resets |-> "none"]
  /\ UNCHANGED <<uses, proc, stale>>

-----------------------------------------------------------------------------
(* The sign-in of a redemption: no lock on the user, no device limit.      *)

RedeemRead(p, d) == Active(user) /\ Open(p, "redeem", d, device[d])

RedeemWrite(p) ==
  LET d == proc[p].arg
  IN  /\ proc[p].op = "redeem" /\ user.status # "gone" /\ ~UserLocked
      /\ proc[p].dev = "none" => device[d] = "none"
      /\ device' = IF proc[p].dev = "active" THEN device ELSE [device EXCEPT ![d] = "active"]
      /\ byCode' = IF device'[d] = device[d] THEN byCode ELSE byCode \cup {d}
      /\ \E t \in Tokens :
           /\ Issue(t, d, proc[p].seen.version, t)
           /\ live' = live \cup {t}
      /\ Close(p)
      /\ UNCHANGED <<user, reset, uses, history>>

\* A refusal, a deadlock, a lost connection, a crash.
Abort(p) == proc[p].op # "idle" /\ Close(p) /\ UNCHANGED <<rows, history>>

-----------------------------------------------------------------------------
ProcNext(p) ==
  \/ \E d \in Devices : LoginBegin(p, d) \/ RedeemRead(p, d)
  \/ \E t \in Tokens : RefreshBegin(p, t)
  \/ \E x \in Resets : ConfirmRead(p, x)
  \/ UpdateRead(p) \/ AdminResetRead(p)
  \/ LoginCommit(p) \/ RefreshCommit(p) \/ ConfirmWrite(p) \/ RedeemWrite(p)
  \/ UpdateEnable(p) \/ \E s \in {"paused", "deleted"} : UpdateDisable(p, s)
  \/ AdminResetWrite(p) \/ AdminResetRevoke(p)
  \/ Abort(p)

Next ==
  \/ \E p \in Procs : ProcNext(p)
  \/ WrongPassword \/ LockExpires \/ ChangePassword
  \/ \E t \in Tokens : Logout(t)
  \/ \E x \in Resets : RequestReset(x)
  \/ \E d \in Devices : RevokeDevice(d)
  \/ DeleteAccount \/ (RevokeAllSessions /\ UNCHANGED proc) \/ DeleteUser

Spec == Init /\ [][Next]_vars

-----------------------------------------------------------------------------
(* Properties.                                                             *)

DeviceStatus == {"none", "active", "revoked"}
Proc == [op : {"idle", "login", "refresh", "confirm", "update", "reset", "revoke", "redeem"},
         arg : Tokens \cup Resets \cup Devices \cup {None}, seen : User, dev : DeviceStatus]

TypeOK ==
  /\ user \in User /\ device \in [Devices -> DeviceStatus] /\ byCode \subseteq Devices
  /\ tok \in [Tokens -> Token \cup {None}] /\ live \subseteq Issued
  /\ reset \in [Resets -> {"none", "open", "used"}] /\ uses \in [Resets -> Nat]
  /\ proc \in [Procs -> Proc]
  /\ ended \subseteq Tokens /\ barred \subseteq Tokens /\ stale \in BOOLEAN

\* A sign-in has at most one refresh token that works, however often a token is
\* presented (the lock of refreshUserTokens).
OneLivePerSignIn == \A s, t \in live : tok[s].root = tok[t].root => s = t

\* A refresh token revoked by logout, a new password, its device or an admin is not
\* succeeded by a rotation under way (revokeAllRefreshTokens locks what it revokes).
SignedOutStaysOut == \A t \in live : tok[t].root \notin ended

\* A reset token sets one password, also when it is presented twice at once.
ResetOnce == \A x \in Resets : uses[x] <= 1

\* Logins, also simultaneous ones, keep to the device limit; redemptions do not.
LoginsKeepLimit == Cardinality(ActiveDevices \ byCode) <= MaxDevices

\* authenticateUserToken, for the access token issued with t.
Accepts(t) == Active(user) /\ device[tok[t].dev] = "active" /\ tok[t].version = user.version

\* An access token that was to end (_revokeUserAuthentication, deleteAccount) is never
\* accepted again, though the account be enabled and the device signed in again - unless
\* a status change has written an authVersion it had read too early.
BarredStaysBarred == stale \/ \A t \in Issued : Accepts(t) => tok[t].root \notin barred

\* What makes them inductive: what open transactions hold, ...
RefreshHolds == \A p \in Procs : proc[p].op = "refresh" => proc[p].arg \in live
LoginHolds ==
  \A p \in Procs :
    /\ proc[p].op = "redeem" => proc[p].arg \in Devices
    /\ proc[p].op = "login" =>
         /\ proc[p].arg \in Devices /\ user.status # "gone"
         /\ device[proc[p].arg] = "active" \/ Cardinality(ActiveDevices \ byCode) < MaxDevices
ConfirmHolds ==
  \A p \in Procs : proc[p].op = "confirm" => proc[p].arg \in Resets /\ reset[proc[p].arg] = "open"
LocksExclude ==
  \A p, q \in Procs :
    /\ proc[p].op = "login" /\ proc[q].op = "login" => p = q
    /\ proc[p].op \in {"refresh", "confirm"} /\ proc[q].op = proc[p].op /\ proc[q].arg = proc[p].arg
         => p = q
\* ... that a new sign-in has not been ended before and a token yet to be used has set no
\* password ...
NewSignIns ==
  /\ \A t \in Issued : tok[t].root \in Issued
  /\ user.status # "gone" => ended \subseteq Issued
  /\ barred \subseteq ended
NewResets ==
  \A x \in Resets :
    reset[x] = "open" \/ (reset[x] = "none" /\ user.status # "gone") => uses[x] = 0
\* ... and that authVersion has outgrown what it was to bar.
VersionsGrow ==
  stale \/ user.status = "gone" \/
    /\ \A p \in Procs : proc[p].seen.version <= user.version
    /\ \A t \in Issued : /\ tok[t].version <= user.version
                         /\ tok[t].root \in barred => tok[t].version < user.version

LocksHeld == RefreshHolds /\ LoginHolds /\ ConfirmHolds /\ LocksExclude
AuthInv ==
  /\ TypeOK /\ LocksHeld /\ OneLivePerSignIn /\ SignedOutStaysOut /\ NewSignIns
  /\ ResetOnce /\ NewResets /\ LoginsKeepLimit /\ VersionsGrow

\* The sign-ins going on, by their live tokens.
On == {<<tok[t].root, tok[t].dev>> : t \in live}
Contract == INSTANCE SignInContract WITH SignIns <- Tokens, on <- On, over <- ended

\* A sign-in goes on through every rotation until it is signed out: alone (logout), with its
\* device, or, by a password, an admin or a deletion, with all others, none of which escapes;
\* then it is over for good, and nothing else ends one (token_service.py).
ImplementsSignIns == Contract!Spec

\* What that needs besides: a sign-in has a live token as long as it has not been ended.
NoneLost == \A t \in Issued : tok[t].root \in ended \/ \E s \in live : tok[s].root = tok[t].root
=============================================================================

----------------------------- MODULE AuthProofs -----------------------------
(***************************************************************************)
(* Proofs about Auth, for any number of transactions, devices and tokens.  *)
(***************************************************************************)
EXTENDS Auth, FiniteSetTheorems, TLAPS

\* The steps, by what they do to the open transactions.
Opens(p) ==
  \/ \E d \in Devices : LoginBegin(p, d) \/ RedeemRead(p, d)
  \/ \E t \in Tokens : RefreshBegin(p, t)
  \/ \E x \in Resets : ConfirmRead(p, x)
  \/ UpdateRead(p) \/ AdminResetRead(p)
Ends(p) ==
  \/ LoginCommit(p) \/ RefreshCommit(p) \/ ConfirmWrite(p) \/ RedeemWrite(p)
  \/ UpdateEnable(p) \/ \E s \in {"paused", "deleted"} : UpdateDisable(p, s)
  \/ AdminResetWrite(p) \/ AdminResetRevoke(p)
  \/ Abort(p)
Whole ==
  \/ WrongPassword \/ LockExpires \/ ChangePassword
  \/ \E t \in Tokens : Logout(t)
  \/ \E x \in Resets : RequestReset(x)
  \/ \E d \in Devices : RevokeDevice(d)
  \/ DeleteAccount \/ (RevokeAllSessions /\ UNCHANGED proc) \/ DeleteUser

\* Every step opens a transaction, ends one, or is a whole one.
LEMMA StepKinds == Next <=> (\E p \in Procs : Opens(p) \/ Ends(p)) \/ Whole
  BY DEF Next, ProcNext, Opens, Ends, Whole

-----------------------------------------------------------------------------
(* Types.                                                                  *)

LEMMA NoProcTyped == NoProc \in Proc /\ NewUser \in User
<1>1. NewUser \in User
  BY BoundsAssumption DEF NewUser, User
<1> QED
  BY <1>1 DEF NoProc, Proc, DeviceStatus

LEMMA InitTyped == Init => TypeOK
<1> SUFFICES ASSUME Init PROVE TypeOK
  OBVIOUS
<1>1. user \in User /\ proc \in [Procs -> Proc]
  BY NoProcTyped DEF Init
<1>2. device \in [Devices -> DeviceStatus]
  BY DEF Init, DeviceStatus
<1>3. tok \in [Tokens -> Token \cup {None}]
  BY DEF Init
<1> QED
  BY <1>1, <1>2, <1>3 DEF Init, TypeOK

LEMMA OpenTyped ==
  ASSUME TypeOK, NEW p \in Procs, NEW op \in {"login", "refresh", "confirm", "update", "reset", "redeem"},
         NEW arg \in Tokens \cup Resets \cup Devices \cup {None}, NEW dev \in DeviceStatus,
         Open(p, op, arg, dev)
  PROVE  TypeOK'
<1>1. Seen(op) \in User
  BY NoProcTyped, BoundsAssumption DEF Seen, TypeOK, User, NewUser
<1>2. [op |-> op, arg |-> arg, seen |-> Seen(op), dev |-> dev] \in Proc
  BY <1>1 DEF Proc
<1>3. proc' \in [Procs -> Proc]
  BY <1>2 DEF Open, TypeOK
<1> QED
  BY <1>3 DEF Open, rows, history, TypeOK, Issued

LEMMA OpensTyped ==
  ASSUME TypeOK, NEW p \in Procs, Opens(p)
  PROVE  TypeOK'
<1>1. \A d \in Devices : device[d] \in DeviceStatus /\ "none" \in DeviceStatus
  BY DEF TypeOK, DeviceStatus
<1>2. ASSUME NEW d \in Devices, LoginBegin(p, d) \/ RedeemRead(p, d) PROVE TypeOK'
  BY <1>1, <1>2, OpenTyped DEF LoginBegin, LoginUnlocked, RedeemRead
<1>3. ASSUME NEW t \in Tokens, RefreshBegin(p, t) PROVE TypeOK'
  BY <1>3, OpenTyped DEF RefreshBegin, RefreshUnlocked, DeviceStatus
<1>4. ASSUME NEW x \in Resets, ConfirmRead(p, x) PROVE TypeOK'
  BY <1>4, OpenTyped DEF ConfirmRead, ConfirmUnlocked, DeviceStatus
<1>5. ASSUME UpdateRead(p) \/ AdminResetRead(p) PROVE TypeOK'
  BY <1>5, OpenTyped DEF UpdateRead, AdminResetRead, DeviceStatus
<1> QED
  BY <1>2, <1>3, <1>4, <1>5 DEF Opens

\* A transaction that ends, or has only its second half to go, holds no row lock.
LEMMA EndsProc ==
  ASSUME TypeOK, NEW p \in Procs, Ends(p)
  PROVE  /\ proc' \in [Procs -> Proc]
         /\ proc'[p].op \in {"idle", "revoke"} /\ proc'[p].seen = NewUser
         /\ \A q \in Procs \ {p} : proc'[q] = proc[q]
<1>1. \/ Close(p) \/ proc' = [proc EXCEPT ![p] = [NoProc EXCEPT !.op = "revoke"]]
  BY DEF Ends, LoginCommit, RefreshCommit, ConfirmWrite, RedeemWrite, UpdateEnable, UpdateDisable,
         AdminResetWrite, AdminResetRevoke, Abort
<1>2. [NoProc EXCEPT !.op = "revoke"] \in Proc
  BY NoProcTyped DEF NoProc, Proc
<1> QED
  BY <1>1, <1>2, NoProcTyped DEF Close, TypeOK, NoProc, Proc

\* A whole transaction leaves the open ones alone.
LEMMA WholeProc == Whole => UNCHANGED proc
  BY DEF Whole, WrongPassword, LockExpires, ChangePassword, Logout, RequestReset, RevokeDevice,
         DeleteAccount, DeleteUser

LEMMA NewPasswordTyped ==
  ASSUME TypeOK, NEW seen \in User
  PROVE  NewPassword(seen) \in User /\ NewPassword(seen).version = user.version
         /\ NewPassword(seen).status = user.status
<1> DEFINE f == IF seen.failed = 0 THEN user.failed ELSE 0
           l == IF seen.locked = "no" THEN user.locked ELSE "no"
<1>1. user \in User
  BY DEF TypeOK
<1>2. f \in 0..MaxFailed /\ l \in {"no", "yes", "past"}
  BY <1>1, BoundsAssumption DEF User
<1>3. NewPassword(seen) = [user EXCEPT !.password = "set", !.failed = f, !.locked = l]
  BY DEF NewPassword
<1> HIDE DEF f, l
<1> QED
  BY <1>1, <1>2, <1>3 DEF User

LEMMA LockoutTyped ==
  ASSUME TypeOK, NEW f \in 0..MaxFailed, NEW l \in {"no", "yes", "past"}
  PROVE  [user EXCEPT !.failed = f, !.locked = l] \in User
  BY DEF TypeOK, User

LEMMA WithStatusTyped ==
  ASSUME TypeOK, NEW seen \in User, NEW s \in {"active", "paused", "deleted"}
  PROVE  WithStatus(seen, s) \in User /\ WithStatus(seen, s).version = user.version
  BY DEF TypeOK, User, WithStatus

\* One more token.
LEMMA IssueTyped ==
  ASSUME TypeOK, NEW t \in Tokens, NEW d \in Devices, NEW v \in Nat, NEW r \in Tokens,
         Issue(t, d, v, r)
  PROVE  /\ tok' \in [Tokens -> Token \cup {None}] /\ Issued' = Issued \cup {t} /\ t \notin Issued
         /\ tok'[t] = [dev |-> d, version |-> v, root |-> r]
         /\ \A s \in Issued : tok'[s] = tok[s]
<1>1. [dev |-> d, version |-> v, root |-> r] \in Token
  BY DEF Token
<1>2. [dev |-> d, version |-> v, root |-> r] # None
  BY <1>1, NoneAssumption
<1> QED
  BY <1>1, <1>2 DEF Issue, TypeOK, Issued

\* Revocation.
LEMMA SignOutTyped ==
  ASSUME TypeOK, NEW S \in SUBSET Issued, SignOut(S)
  PROVE  /\ Roots(S) \subseteq Tokens /\ live' = live \ S /\ live' \subseteq Issued
         /\ ended' = ended \cup Roots(S) /\ ended' \subseteq Tokens
<1>1. \A t \in S : tok[t] \in Token
  BY DEF TypeOK, Issued
<1>2. Roots(S) \subseteq Tokens
  BY <1>1 DEF Roots, Token
<1> QED
  BY <1>2 DEF SignOut, TypeOK

LEMMA BarTyped ==
  ASSUME TypeOK, Bar
  PROVE  /\ device' \in [Devices -> DeviceStatus] /\ live' = {} /\ barred' \subseteq Tokens
         /\ ended' \subseteq Tokens
<1>1. Roots(Issued) \subseteq Tokens /\ live' = live \ Issued /\ ended' \subseteq Tokens
  BY SignOutTyped DEF Bar, RevokeTokens
<1>2. device' \in [Devices -> DeviceStatus]
  BY DEF Bar, TypeOK, DeviceStatus
<1> QED
  BY <1>1, <1>2 DEF Bar, TypeOK

LEMMA EndsTyped ==
  ASSUME TypeOK, LocksHeld, NEW p \in Procs, Ends(p)
  PROVE  TypeOK'
<1>1. proc' \in [Procs -> Proc] /\ proc[p] \in Proc /\ proc[p].seen \in User
  BY EndsProc DEF TypeOK, Proc
<1>2. user.version \in Nat /\ proc[p].seen.version \in Nat
  BY <1>1 DEF TypeOK, User
<1>3. CASE LoginCommit(p)
  <2>1. proc[p].arg \in Devices
    BY <1>3 DEF LoginCommit, LocksHeld, LoginHolds
  <2> PICK t \in Tokens : Issue(t, proc[p].arg, user.version, t) /\ live' = live \cup {t}
    BY <1>3 DEF LoginCommit
  <2>2. tok' \in [Tokens -> Token \cup {None}] /\ Issued' = Issued \cup {t}
    BY <1>2, <2>1, IssueTyped
  <2>3. user' \in User
    <3>1. 0 \in 0..MaxFailed
      BY BoundsAssumption
    <3> QED
      BY <1>3, <3>1, LockoutTyped DEF LoginCommit
  <2>4. device' \in [Devices -> DeviceStatus] /\ byCode' \subseteq Devices
    BY <1>3, <2>1 DEF LoginCommit, TypeOK, DeviceStatus
  <2> QED
    BY <1>1, <1>3, <2>2, <2>3, <2>4 DEF LoginCommit, TypeOK, history
<1>4. CASE RefreshCommit(p)
  <2> DEFINE r == proc[p].arg
  <2>1. r \in live /\ tok[r] \in Token
    BY <1>4 DEF RefreshCommit, LocksHeld, RefreshHolds, LoginHolds, ConfirmHolds, TypeOK, Issued
  <2>2. tok[r].dev \in Devices /\ tok[r].root \in Tokens
    BY <2>1 DEF Token
  <2> PICK t \in Tokens : /\ Issue(t, tok[r].dev, proc[p].seen.version, tok[r].root)
                         /\ live' = (live \ {r}) \cup {t}
    BY <1>4 DEF RefreshCommit
  <2>3. tok' \in [Tokens -> Token \cup {None}] /\ Issued' = Issued \cup {t}
    BY <1>2, <2>2, IssueTyped
  <2> QED
    BY <1>1, <1>4, <2>3 DEF RefreshCommit, TypeOK, history
<1>5. CASE RedeemWrite(p)
  <2>1. proc[p].arg \in Devices
    BY <1>5 DEF RedeemWrite, LocksHeld, LoginHolds
  <2> PICK t \in Tokens : /\ Issue(t, proc[p].arg, proc[p].seen.version, t)
                         /\ live' = live \cup {t}
    BY <1>5 DEF RedeemWrite
  <2>2. tok' \in [Tokens -> Token \cup {None}] /\ Issued' = Issued \cup {t}
    BY <1>2, <2>1, IssueTyped
  <2>3. device' \in [Devices -> DeviceStatus] /\ byCode' \subseteq Devices
    BY <1>5, <2>1 DEF RedeemWrite, TypeOK, DeviceStatus
  <2> QED
    BY <1>1, <1>5, <2>2, <2>3 DEF RedeemWrite, TypeOK, history
<1>6. CASE ConfirmWrite(p)
  <2>1. user' \in User
    BY <1>1, <1>6, NewPasswordTyped DEF ConfirmWrite
  <2>2. live' \subseteq Issued /\ ended' \subseteq Tokens
    BY <1>6, SignOutTyped DEF ConfirmWrite, RevokeTokens
  <2>3. proc[p].arg \in Resets /\ uses[proc[p].arg] \in Nat
    BY <1>6 DEF ConfirmWrite, LocksHeld, RefreshHolds, LoginHolds, ConfirmHolds, TypeOK
  <2>4. reset' \in [Resets -> {"none", "open", "used"}] /\ uses' \in [Resets -> Nat]
    BY <1>6, <2>3 DEF ConfirmWrite, TypeOK
  <2> QED
    BY <1>1, <1>6, <2>1, <2>2, <2>4 DEF ConfirmWrite, TypeOK, Issued
<1>7. CASE UpdateEnable(p) \/ AdminResetWrite(p)
  <2>1. user' \in User
    BY <1>1, <1>7, NewPasswordTyped, WithStatusTyped DEF UpdateEnable, AdminResetWrite
  <2> QED
    BY <1>1, <1>7, <2>1 DEF UpdateEnable, AdminResetWrite, TypeOK, Issued, history
<1>8. ASSUME NEW s \in {"paused", "deleted"}, UpdateDisable(p, s) PROVE TypeOK'
  <2>1. WithStatus(proc[p].seen, s) \in User
    BY <1>1, WithStatusTyped
  <2>2. user' \in User
    BY <1>2, <1>8, <2>1 DEF UpdateDisable, Bump, User
  <2> QED
    BY <1>1, <1>8, <2>2, BarTyped DEF UpdateDisable, Bar, TypeOK, Issued
<1>9. CASE AdminResetRevoke(p)
  <2>1. user' \in User
    BY <1>2, <1>9 DEF AdminResetRevoke, RevokeAllSessions, Bump, User, TypeOK
  <2> QED
    BY <1>1, <1>9, <2>1, BarTyped DEF AdminResetRevoke, RevokeAllSessions, Bar, TypeOK, Issued
<1>10. CASE Abort(p)
  BY <1>1, <1>10 DEF Abort, rows, history, TypeOK, Issued
<1> QED
  BY <1>3, <1>4, <1>5, <1>6, <1>7, <1>8, <1>9, <1>10 DEF Ends

LEMMA WholeTyped ==
  ASSUME TypeOK, Whole
  PROVE  TypeOK'
<1>1. user \in User /\ user.version \in Nat
  BY DEF TypeOK, User
<1>2. CASE WrongPassword \/ LockExpires
  <2>1. user' \in User
    <3>1. CASE LockExpires
      BY <1>1, <3>1 DEF LockExpires, User
    <3>2. CASE WrongPassword /\ user.failed + 1 >= MaxFailed
      <4>1. MaxFailed \in 0..MaxFailed
        BY BoundsAssumption
      <4> QED
        BY <3>2, <4>1, LockoutTyped DEF WrongPassword, Failed
    <3>3. CASE WrongPassword /\ ~(user.failed + 1 >= MaxFailed)
      <4>1. user.failed \in Nat /\ user.failed + 1 \in 0..MaxFailed
        BY <1>1, <3>3, BoundsAssumption DEF User
      <4> QED
        BY <1>1, <3>3, <4>1 DEF WrongPassword, Failed, User
    <3> QED
      BY <1>2, <3>1, <3>2, <3>3
  <2> QED
    BY <1>2, <2>1 DEF WrongPassword, LockExpires, TypeOK, Issued, history
<1>3. CASE ChangePassword
  <2>1. user' \in User
    BY <1>1, <1>3, NewPasswordTyped DEF ChangePassword
  <2>2. live' \subseteq Issued /\ ended' \subseteq Tokens
    BY <1>3, SignOutTyped DEF ChangePassword, RevokeTokens
  <2> QED
    BY <1>3, <2>1, <2>2 DEF ChangePassword, TypeOK, Issued
<1>4. ASSUME NEW t \in Tokens, Logout(t) PROVE TypeOK'
  <2>1. {t} \in SUBSET Issued
    BY <1>4 DEF Logout, TypeOK
  <2>2. live' \subseteq Issued /\ ended' \subseteq Tokens
    BY <1>4, <2>1, SignOutTyped DEF Logout
  <2> QED
    BY <1>4, <2>2 DEF Logout, TypeOK, Issued
<1>5. ASSUME NEW x \in Resets, RequestReset(x) PROVE TypeOK'
  <2>1. reset' \in [Resets -> {"none", "open", "used"}]
    BY <1>5 DEF RequestReset, TypeOK
  <2> QED
    BY <1>5, <2>1 DEF RequestReset, TypeOK, Issued, history
<1>6. ASSUME NEW d \in Devices, RevokeDevice(d) PROVE TypeOK'
  <2> DEFINE S == {t \in live : tok[t].dev = d}
  <2>1. S \in SUBSET Issued
    BY DEF TypeOK
  <2>2. live' \subseteq Issued /\ ended' \subseteq Tokens
    BY <1>6, <2>1, SignOutTyped DEF RevokeDevice
  <2>3. device' \in [Devices -> DeviceStatus]
    BY <1>6 DEF RevokeDevice, TypeOK, DeviceStatus
  <2> QED
    BY <1>6, <2>2, <2>3 DEF RevokeDevice, TypeOK, Issued
<1>7. CASE DeleteAccount \/ (RevokeAllSessions /\ UNCHANGED proc)
  <2>1. user' \in User
    <3>1. CASE DeleteAccount
      <4> DEFINE v == user.version + 1
      <4>1. v \in Nat
        BY <1>1
      <4>2. user' = [user EXCEPT !.status = "deleted", !.deleted = TRUE, !.password = "void",
                                 !.version = v]
        BY <3>1 DEF DeleteAccount, Bump
      <4> HIDE DEF v
      <4> QED
        BY <1>1, <4>1, <4>2 DEF User
    <3>2. CASE RevokeAllSessions
      BY <1>1, <3>2 DEF RevokeAllSessions, Bump, User
    <3> QED
      BY <1>7, <3>1, <3>2
  <2> QED
    BY <1>7, <2>1, BarTyped DEF DeleteAccount, RevokeAllSessions, Bar, TypeOK, Issued
<1>8. CASE DeleteUser
  <2>1. user' \in User
    BY <1>8, NoProcTyped DEF DeleteUser, User
  <2>2. Roots(Issued) \subseteq Tokens /\ live' = live \ Issued /\ ended' \subseteq Tokens
    BY <1>8, SignOutTyped DEF DeleteUser, RevokeTokens
  <2>3. live' = {} /\ barred' \subseteq Tokens
    BY <1>8, <2>2 DEF DeleteUser, TypeOK
  <2>4. device' \in [Devices -> DeviceStatus] /\ byCode' \subseteq Devices
    BY <1>8 DEF DeleteUser, DeviceStatus
  <2>5. tok' \in [Tokens -> Token \cup {None}] /\ reset' \in [Resets -> {"none", "open", "used"}]
    BY <1>8 DEF DeleteUser
  <2> QED
    BY <1>8, <2>1, <2>2, <2>3, <2>4, <2>5 DEF DeleteUser, TypeOK
<1> QED
  BY <1>2, <1>3, <1>4, <1>5, <1>6, <1>7, <1>8 DEF Whole

-----------------------------------------------------------------------------
(* What steps do to the sign-ins.                                          *)

\* A deleted user stays deleted.
LEMMA GoneStays ==
  ASSUME TypeOK, Next, user'.status # "gone"
  PROVE  user.status # "gone"
<1> SUFFICES ASSUME user.status = "gone" PROVE user'.status = "gone"
  OBVIOUS
<1>1. ASSUME NEW p \in Procs, Opens(p) PROVE user' = user
  BY <1>1 DEF Opens, LoginBegin, LoginUnlocked, RedeemRead, RefreshBegin, RefreshUnlocked,
              ConfirmRead, ConfirmUnlocked, UpdateRead, AdminResetRead, Open, rows
<1>2. ASSUME NEW p \in Procs, Ends(p) PROVE user'.status = "gone"
  <2>1. CASE LoginCommit(p) \/ ConfirmWrite(p) \/ AdminResetRevoke(p)
    BY <2>1 DEF LoginCommit, ConfirmWrite, AdminResetRevoke, RevokeAllSessions, NewPassword,
                TypeOK, User
  <2> QED
    BY <1>2, <2>1 DEF Ends, RefreshCommit, RedeemWrite, UpdateEnable, UpdateDisable,
                      AdminResetWrite, Abort, rows
<1>3. CASE Whole
  BY <1>3 DEF Whole, WrongPassword, LockExpires, ChangePassword, Logout, RequestReset,
              RevokeDevice, DeleteAccount, RevokeAllSessions, DeleteUser, Active, Failed, TypeOK, User
<1> QED
  BY <1>1, <1>2, <1>3, StepKinds

\* What a revocation leaves alone: tokens S are revoked, none of them held by a refresh.
Revokes(S) ==
  /\ S \subseteq live \/ S = Issued
  /\ SignOut(S) /\ Unheld(S \cap live) /\ UNCHANGED tok
  /\ barred' = barred \/ (S = Issued /\ barred' = barred \cup Roots(Issued))

\* What an issue of token n does: for a new sign-in, or in place of the token that p holds.
Issues(p, n) ==
  /\ UNCHANGED <<ended, barred>>
  /\ \/ /\ user.status # "gone"
        /\ \E d \in Devices, v \in Nat : Issue(n, d, v, n) /\ live' = live \cup {n}
     \/ /\ proc[p].op = "refresh"
        /\ \E v \in Nat : Issue(n, tok[proc[p].arg].dev, v, tok[proc[p].arg].root)
        /\ live' = (live \ {proc[p].arg}) \cup {n}

SignInsInv == RefreshHolds /\ OneLivePerSignIn /\ SignedOutStaysOut /\ NewSignIns

\* The open transactions of a step that is not an Open.
ClosesOnly == \A q \in Procs : proc'[q] = proc[q] \/ proc'[q].op \in {"idle", "revoke"}

\* Revoking unheld tokens keeps what is said of sign-ins: no open refresh holds one of them.
LEMMA RevokesKeep ==
  ASSUME TypeOK, SignInsInv, ClosesOnly, user'.status # "gone" => user.status # "gone",
         NEW S, Revokes(S)
  PROVE  SignInsInv'
<1> USE DEF SignInsInv, Revokes
<1>1. /\ live' = live \ S /\ Issued' = Issued /\ ended' = ended \cup Roots(S) /\ tok' = tok
  BY DEF SignOut, Issued
<1>2. RefreshHolds'
  <2> SUFFICES ASSUME NEW q \in Procs, proc'[q].op = "refresh" PROVE proc'[q].arg \in live'
    BY DEF RefreshHolds
  <2>1. proc'[q] = proc[q] /\ proc[q].arg \in live
    BY DEF ClosesOnly, RefreshHolds
  <2>2. proc[q].arg \notin S
    BY <2>1 DEF Unheld, Held
  <2> QED
    BY <1>1, <2>1, <2>2
<1>3. OneLivePerSignIn'
  BY <1>1 DEF OneLivePerSignIn
<1>4. Roots(S) \subseteq Issued
  BY DEF Roots, NewSignIns, TypeOK
<1>5. SignedOutStaysOut'
  <2> SUFFICES ASSUME NEW t \in live \ S, tok[t].root \in Roots(S) PROVE FALSE
    BY <1>1 DEF SignedOutStaysOut
  <2>1. PICK s \in S : tok[s].root = tok[t].root
    BY DEF Roots
  <2>2. S \subseteq live
    BY DEF TypeOK
  <2> QED
    BY <2>1, <2>2 DEF OneLivePerSignIn
<1>6. NewSignIns'
  BY <1>1, <1>4 DEF NewSignIns
<1> QED
  BY <1>2, <1>3, <1>5, <1>6

\* So does a new token, of a new sign-in or in the place of the one its refresh holds.
LEMMA IssuesKeep ==
  ASSUME TypeOK, SignInsInv, LocksExclude, NEW p \in Procs, NEW n \in Tokens, Issues(p, n),
         user'.status = user.status,
         proc'[p].op = "idle", \A q \in Procs \ {p} : proc'[q] = proc[q]
  PROVE  SignInsInv'
<1> USE DEF SignInsInv
<1>1. CASE /\ user.status # "gone"
           /\ \E d \in Devices, v \in Nat : Issue(n, d, v, n) /\ live' = live \cup {n}
  <2> PICK d \in Devices, v \in Nat : Issue(n, d, v, n) /\ live' = live \cup {n}
    BY <1>1
  <2>1. /\ Issued' = Issued \cup {n} /\ n \notin Issued /\ tok'[n] = [dev |-> d, version |-> v, root |-> n]
        /\ \A s \in Issued : tok'[s] = tok[s]
    BY IssueTyped
  <2>2. n \notin ended /\ UNCHANGED <<ended, barred>>
    BY <1>1, <2>1 DEF Issues, NewSignIns
  <2>3. live \subseteq Issued /\ \A s \in Issued : tok[s].root # n
    BY <2>1 DEF TypeOK, NewSignIns
  <2>4. RefreshHolds'
    BY DEF RefreshHolds
  <2>5. OneLivePerSignIn' /\ SignedOutStaysOut'
    BY <2>1, <2>2, <2>3 DEF OneLivePerSignIn, SignedOutStaysOut
  <2>6. NewSignIns'
    BY <2>1, <2>2 DEF NewSignIns
  <2> QED
    BY <2>4, <2>5, <2>6
<1>2. CASE /\ proc[p].op = "refresh"
           /\ \E v \in Nat : Issue(n, tok[proc[p].arg].dev, v, tok[proc[p].arg].root)
           /\ live' = (live \ {proc[p].arg}) \cup {n}
  <2> DEFINE r == proc[p].arg
  <2>1. r \in live /\ r \in Issued /\ tok[r] \in Token
    BY <1>2 DEF RefreshHolds, TypeOK, Issued
  <2>2. tok[r].dev \in Devices /\ tok[r].root \in Tokens /\ tok[r].root \in Issued
    BY <2>1 DEF Token, NewSignIns
  <2> PICK v \in Nat : Issue(n, tok[r].dev, v, tok[r].root)
    BY <1>2
  <2>3. /\ Issued' = Issued \cup {n} /\ n \notin Issued
        /\ tok'[n] = [dev |-> tok[r].dev, version |-> v, root |-> tok[r].root]
        /\ \A s \in Issued : tok'[s] = tok[s]
    BY <2>2, IssueTyped
  <2>4. UNCHANGED <<ended, barred>> /\ live \subseteq Issued /\ live' = (live \ {r}) \cup {n}
    BY <1>2 DEF Issues, TypeOK
  <2>5. RefreshHolds'
    <3> SUFFICES ASSUME NEW q \in Procs, proc'[q].op = "refresh" PROVE proc'[q].arg \in live'
      BY DEF RefreshHolds
    <3>1. q # p /\ proc'[q] = proc[q]
      OBVIOUS
    <3>2. proc[q].arg \in live /\ proc[q].arg # r
      BY <1>2, <3>1 DEF RefreshHolds, LocksExclude
    <3> QED
      BY <2>4, <3>1, <3>2
  <2>6. OneLivePerSignIn'
    BY <2>1, <2>3, <2>4 DEF OneLivePerSignIn
  <2>7. SignedOutStaysOut'
    BY <2>1, <2>3, <2>4 DEF SignedOutStaysOut
  <2>8. NewSignIns'
    BY <2>2, <2>3, <2>4 DEF NewSignIns
  <2> QED
    BY <2>5, <2>6, <2>7, <2>8
<1> QED
  BY <1>1, <1>2 DEF Issues

\* Every step that ends a transaction or is one is of one of these forms.
LEMMA EndsForm ==
  ASSUME TypeOK, LocksHeld, NEW p \in Procs, Ends(p)
  PROVE  \/ Revokes(Issued)
         \/ \E n \in Tokens : Issues(p, n) /\ user'.status = user.status /\ Close(p)
         \/ UNCHANGED <<tok, live, ended, barred>>
<1>1. user.version \in Nat /\ proc[p].seen.version \in Nat
  BY DEF TypeOK, User, Proc
<1>2. CASE LoginCommit(p)
  <2>1. proc[p].arg \in Devices /\ user.status # "gone"
    BY <1>2 DEF LoginCommit, LocksHeld, LoginHolds
  <2>2. user'.status = user.status
    BY <1>2 DEF LoginCommit, TypeOK, User
  <2> QED
    BY <1>1, <1>2, <2>1, <2>2 DEF LoginCommit, Issues, history
<1>3. CASE RefreshCommit(p)
  BY <1>1, <1>3 DEF RefreshCommit, Issues, history
<1>4. CASE RedeemWrite(p)
  <2>1. proc[p].arg \in Devices
    BY <1>4 DEF RedeemWrite, LocksHeld, LoginHolds
  <2> QED
    BY <1>1, <1>4, <2>1 DEF RedeemWrite, Issues, history
<1>5. CASE ConfirmWrite(p)
  BY <1>5 DEF ConfirmWrite, RevokeTokens, Revokes, Unheld
<1>6. CASE AdminResetRevoke(p) \/ \E s \in {"paused", "deleted"} : UpdateDisable(p, s)
  <2>1. Bar
    BY <1>6 DEF AdminResetRevoke, RevokeAllSessions, UpdateDisable
  <2> QED
    BY <2>1 DEF Bar, RevokeTokens, Revokes, Unheld
<1> QED
  BY <1>2, <1>3, <1>4, <1>5, <1>6 DEF Ends, UpdateEnable, AdminResetWrite, Abort, rows, history

\* What is revoked together: one token, those of a device, or all.
Together(S) ==
  \/ S = Issued
  \/ \E t \in live : S = {t}
  \/ \E d \in Devices : S = {t \in live : tok[t].dev = d}

\* Of tokens, a whole transaction other than the deletion revokes some or touches none.
LEMMA WholeForm ==
  ASSUME TypeOK, Whole, ~DeleteUser
  PROVE  (\E S \in SUBSET Tokens : Revokes(S) /\ Together(S)) \/ UNCHANGED <<tok, live, ended, barred>>
<1>1. Issued \in SUBSET Tokens /\ live \in SUBSET Tokens
  BY DEF TypeOK, Issued
<1>2. ASSUME Revokes(Issued) PROVE \E S \in SUBSET Tokens : Revokes(S) /\ Together(S)
  BY <1>1, <1>2 DEF Together
<1>3. CASE ChangePassword
  BY <1>2, <1>3 DEF ChangePassword, RevokeTokens, Revokes, Unheld
<1>4. CASE DeleteAccount \/ (RevokeAllSessions /\ UNCHANGED proc)
  <2>1. Bar
    BY <1>4 DEF DeleteAccount, RevokeAllSessions
  <2> QED
    BY <1>2, <2>1 DEF Bar, RevokeTokens, Revokes, Unheld
<1>5. ASSUME NEW t \in Tokens, Logout(t) PROVE \E S \in SUBSET Tokens : Revokes(S) /\ Together(S)
  <2>1. Revokes({t}) /\ Together({t})
    BY <1>5 DEF Logout, Revokes, Unheld, Together
  <2> QED
    BY <2>1
<1>6. ASSUME NEW d \in Devices, RevokeDevice(d) PROVE \E S \in SUBSET Tokens : Revokes(S) /\ Together(S)
  <2> DEFINE S == {t \in live : tok[t].dev = d}
  <2>1. Unheld(S \cap live) /\ SignOut(S) /\ S \subseteq live
    BY <1>6 DEF RevokeDevice, Unheld
  <2>2. Revokes(S) /\ Together(S)
    BY <1>6, <2>1 DEF RevokeDevice, Revokes, Together
  <2>3. S \in SUBSET Tokens
    BY <1>1
  <2> QED
    BY <2>2, <2>3
<1> QED
  BY <1>3, <1>4, <1>5, <1>6 DEF Whole, WrongPassword, LockExpires, RequestReset, history

\* What an Open records, and that it changes nothing else.
Opened(p) ==
  /\ proc[p].op = "idle" /\ UNCHANGED <<rows, history>>
  /\ \A q \in Procs \ {p} : proc'[q] = proc[q]
  /\ proc'[p].seen.version <= user.version
  /\ proc'[p].op = "login" => /\ proc'[p].arg \in Devices /\ user.status # "gone" /\ ~UserLocked
                              /\ \/ device[proc'[p].arg] = "active"
                                 \/ Cardinality(ActiveDevices) < MaxDevices
  /\ proc'[p].op = "redeem" => proc'[p].arg \in Devices
  /\ proc'[p].op = "refresh" => proc'[p].arg \in live /\ ~Held(proc'[p].arg)
  /\ proc'[p].op = "confirm" => /\ proc'[p].arg \in Resets /\ reset[proc'[p].arg] = "open"
                                /\ ~ResetHeld(proc'[p].arg)

\* What an opened transaction remembers.
LEMMA OpenRecords ==
  ASSUME TypeOK, NEW p \in Procs, NEW op, NEW arg, NEW dev, Open(p, op, arg, dev)
  PROVE  /\ proc[p].op = "idle" /\ UNCHANGED <<rows, history>>
         /\ \A q \in Procs \ {p} : proc'[q] = proc[q]
         /\ proc'[p].op = op /\ proc'[p].arg = arg /\ proc'[p].seen.version <= user.version
<1>1. user.version \in Nat
  BY DEF TypeOK, User
<1>2. Seen(op).version = user.version \/ Seen(op).version = 0
  BY DEF Seen, NewUser
<1>3. proc'[p] = [op |-> op, arg |-> arg, seen |-> Seen(op), dev |-> dev]
  BY DEF Open, TypeOK
<1> HIDE DEF Seen
<1> QED
  BY <1>1, <1>2, <1>3 DEF Open, TypeOK

\* Opening a transaction changes no row, and finds what it locks free.
LEMMA OpensForm ==
  ASSUME TypeOK, NEW p \in Procs, Opens(p)
  PROVE  Opened(p)
<1>1. ASSUME NEW d \in Devices, LoginBegin(p, d) PROVE Opened(p)
  <2>1. Open(p, "login", d, "none") /\ user.status # "gone"
    BY <1>1 DEF LoginBegin, LoginUnlocked, Active
  <2> QED
    BY <1>1, <2>1, OpenRecords DEF LoginBegin, LoginUnlocked, Opened
<1>2. ASSUME NEW d \in Devices, RedeemRead(p, d) PROVE Opened(p)
  BY <1>2, OpenRecords DEF RedeemRead, Opened
<1>3. ASSUME NEW t \in Tokens, RefreshBegin(p, t) PROVE Opened(p)
  BY <1>3, OpenRecords DEF RefreshBegin, RefreshUnlocked, Opened
<1>4. ASSUME NEW x \in Resets, ConfirmRead(p, x) PROVE Opened(p)
  BY <1>4, OpenRecords DEF ConfirmRead, ConfirmUnlocked, Opened
<1>5. CASE UpdateRead(p) \/ AdminResetRead(p)
  BY <1>5, OpenRecords DEF UpdateRead, AdminResetRead, Opened
<1> QED
  BY <1>1, <1>2, <1>3, <1>4, <1>5 DEF Opens

\* The other steps open nothing.
LEMMA OthersClose ==
  ASSUME TypeOK, Next, ~ \E p \in Procs : Opens(p)
  PROVE  /\ ClosesOnly
         /\ \A q \in Procs : proc'[q].seen.version = proc[q].seen.version \/ proc'[q].seen.version = 0
<1>1. ASSUME NEW p \in Procs, Ends(p)
      PROVE  /\ ClosesOnly
             /\ \A q \in Procs : proc'[q].seen.version = proc[q].seen.version \/ proc'[q].seen.version = 0
  BY <1>1, EndsProc DEF ClosesOnly, NewUser
<1>2. ASSUME Whole PROVE proc' = proc
  BY <1>2, WholeProc
<1> QED
  BY <1>1, <1>2, StepKinds DEF ClosesOnly

\* The sign-ins.
LEMMA SignInsStep ==
  ASSUME TypeOK, LocksHeld, SignInsInv, Next
  PROVE  SignInsInv'
<1> USE DEF LocksHeld
<1>1. ASSUME NEW p \in Procs, Opens(p) PROVE SignInsInv'
  <2>1. Opened(p)
    BY <1>1, OpensForm
  <2>2. RefreshHolds'
    BY <2>1 DEF Opened, rows, RefreshHolds
  <2> QED
    BY <2>1, <2>2 DEF Opened, rows, history, SignInsInv, OneLivePerSignIn, SignedOutStaysOut,
                      NewSignIns, Issued
<1>2. ASSUME ~ \E p \in Procs : Opens(p) PROVE SignInsInv'
  <2>1. ClosesOnly /\ (user'.status # "gone" => user.status # "gone")
    BY <1>2, OthersClose, GoneStays
  <2>2. CASE UNCHANGED <<tok, live, ended, barred>>
    BY <2>1, <2>2 DEF ClosesOnly, SignInsInv, RefreshHolds, OneLivePerSignIn, SignedOutStaysOut,
                      NewSignIns, Issued
  <2>3. CASE \E S \in SUBSET Tokens : Revokes(S)
    BY <2>1, <2>3, RevokesKeep
  <2>4. ASSUME NEW p \in Procs, Ends(p), NEW n \in Tokens, Issues(p, n), user'.status = user.status,
               Close(p)
        PROVE  SignInsInv'
    <3>1. proc'[p].op = "idle" /\ \A q \in Procs \ {p} : proc'[q] = proc[q]
      BY <2>4 DEF Close, NoProc, TypeOK
    <3> QED
      BY <2>4, <3>1, IssuesKeep
  <2>5. CASE DeleteUser
    <3>1. /\ tok' = [t \in Tokens |-> None] /\ live' = live \ Issued
          /\ ended' = ended \cup Roots(Issued) /\ barred' = barred \cup Roots(Issued)
          /\ user'.status = "gone" /\ Unheld(live)
      BY <2>5, NoProcTyped DEF DeleteUser, RevokeTokens, SignOut, User
    <3>2. live' = {} /\ Issued' = {}
      BY <3>1 DEF TypeOK, Issued
    <3>3. RefreshHolds'
      BY <2>1, <3>1 DEF ClosesOnly, RefreshHolds, Unheld, Held
    <3> QED
      BY <3>1, <3>2, <3>3 DEF SignInsInv, OneLivePerSignIn, SignedOutStaysOut, NewSignIns
  <2>6. ASSUME NEW p \in Procs, Ends(p) PROVE SignInsInv'
    <3>1. Issued \in SUBSET Tokens
      BY DEF Issued
    <3> QED
      BY <2>2, <2>3, <2>4, <2>6, <3>1, EndsForm
  <2> QED
    BY <1>2, <2>2, <2>3, <2>5, <2>6, WholeForm, StepKinds
<1> QED
  BY <1>1, <1>2

-----------------------------------------------------------------------------
(* Locks, devices, reset tokens, versions.                                 *)

\* No lock is taken twice.
LEMMA LocksExcludeStep ==
  ASSUME TypeOK, LocksExclude, Next
  PROVE  LocksExclude'
<1>1. ASSUME NEW p \in Procs, Opens(p) PROVE LocksExclude'
  <2>1. Opened(p)
    BY <1>1, OpensForm
  <2> QED
    BY <2>1 DEF Opened, LocksExclude, UserLocked, Held, ResetHeld
<1>2. ASSUME ~ \E p \in Procs : Opens(p) PROVE LocksExclude'
  <2>1. ClosesOnly
    BY <1>2, OthersClose
  <2> QED
    BY <2>1 DEF ClosesOnly, LocksExclude
<1> QED
  BY <1>1, <1>2

Limited == ActiveDevices \ byCode

\* Steps that give no login a device, and take none from an open login.
LEMMA FewerDevices ==
  ASSUME TypeOK, LoginHolds, LoginsKeepLimit, ClosesOnly, Limited' \subseteq Limited,
         \A q \in Procs : proc[q].op = "login" =>
           /\ user'.status # "gone"
           /\ device[proc[q].arg] = "active" => device'[proc[q].arg] = "active"
  PROVE  LoginHolds' /\ LoginsKeepLimit'
<1>1. IsFiniteSet(Limited) /\ IsFiniteSet(Limited') /\ Cardinality(Limited') <= Cardinality(Limited)
  BY DevicesAssumption, FS_Subset DEF Limited, ActiveDevices
<1>2. Cardinality(Limited) \in Nat /\ Cardinality(Limited') \in Nat /\ MaxDevices \in Nat
  BY <1>1, FS_CardinalityType, BoundsAssumption
<1>3. Cardinality(Limited) <= MaxDevices
  BY DEF LoginsKeepLimit, Limited
<1>4. LoginsKeepLimit'
  BY <1>1, <1>2, <1>3 DEF LoginsKeepLimit, Limited
<1>5. Cardinality(Limited) < MaxDevices => Cardinality(Limited') < MaxDevices
  BY <1>1, <1>2
<1>6. LoginHolds'
  <2> SUFFICES ASSUME NEW q \in Procs, proc'[q] = proc[q]
               PROVE  /\ proc'[q].op = "redeem" => proc'[q].arg \in Devices
                      /\ proc'[q].op = "login" =>
                           /\ proc'[q].arg \in Devices /\ user'.status # "gone"
                           /\ device'[proc'[q].arg] = "active" \/ Cardinality(Limited') < MaxDevices
    BY DEF ClosesOnly, LoginHolds, Limited
  <2> QED
    BY <1>5 DEF LoginHolds, Limited
<1> QED
  BY <1>4, <1>6

\* A login that commits finds the room it has counted, since no other has committed meanwhile.
LEMMA LoginCounts ==
  ASSUME TypeOK, LocksHeld, LoginsKeepLimit, NEW p \in Procs, LoginCommit(p)
  PROVE  LoginHolds' /\ LoginsKeepLimit'
<1> DEFINE d == proc[p].arg
<1>1. Ends(p) /\ proc[p].op = "login"
  BY DEF Ends, LoginCommit
<1>2. \A q \in Procs : proc'[q].op # "login" /\ (proc'[q].op = "redeem" => proc'[q].arg \in Devices)
  BY <1>1, EndsProc DEF LocksHeld, LocksExclude, LoginHolds
<1>3. d \in Devices /\ (device[d] = "active" \/ Cardinality(Limited) < MaxDevices)
  BY <1>1 DEF LocksHeld, LoginHolds, Limited
<1>4. IsFiniteSet(Limited) /\ Cardinality(Limited) \in Nat /\ MaxDevices \in Nat
  BY DevicesAssumption, FS_Subset, FS_CardinalityType, BoundsAssumption DEF Limited, ActiveDevices
<1>5. CASE device[d] = "active"
  <2>1. device' = device /\ byCode' = byCode
    BY <1>5 DEF LoginCommit, TypeOK
  <2> QED
    BY <1>2, <2>1 DEF LoginHolds, LoginsKeepLimit, ActiveDevices
<1>6. CASE device[d] # "active"
  <2>1. ActiveDevices' = ActiveDevices \cup {d} /\ byCode' = byCode \ {d} /\ d \notin ActiveDevices
    BY <1>3, <1>6 DEF LoginCommit, TypeOK, ActiveDevices
  <2>2. Limited' = Limited \cup {d} /\ d \notin Limited
    BY <2>1 DEF Limited
  <2>3. Cardinality(Limited') = Cardinality(Limited) + 1
    BY <1>4, <2>2, FS_AddElement
  <2> QED
    BY <1>2, <1>3, <1>4, <1>6, <2>3 DEF LoginHolds, LoginsKeepLimit, Limited
<1> QED
  BY <1>5, <1>6

\* A revocation of everything only takes devices away.
LEMMA BarFewer == ASSUME TypeOK, Bar PROVE Limited' \subseteq Limited /\ ~UserLocked
  BY DEF Bar, Limited, ActiveDevices, TypeOK

\* Every step keeps the logins' limit.
LEMMA DevicesStep ==
  ASSUME TypeOK, LocksHeld, LoginsKeepLimit, Next
  PROVE  LoginHolds' /\ LoginsKeepLimit'
<1> USE DEF LocksHeld
<1>1. ASSUME NEW p \in Procs, Opens(p) PROVE LoginHolds' /\ LoginsKeepLimit'
  <2>1. Opened(p)
    BY <1>1, OpensForm
  <2>2. IsFiniteSet(ActiveDevices) /\ Cardinality(ActiveDevices) \in Nat
        /\ Cardinality(Limited) \in Nat /\ Cardinality(Limited) <= Cardinality(ActiveDevices)
    BY DevicesAssumption, FS_Subset, FS_CardinalityType DEF ActiveDevices, Limited
  <2>3. Cardinality(ActiveDevices) < MaxDevices => Cardinality(Limited) < MaxDevices
    BY <2>2, BoundsAssumption
  <2>4. Limited' = Limited /\ user' = user /\ device' = device
    BY <2>1 DEF Opened, rows, Limited, ActiveDevices
  <2>5. LoginHolds'
    BY <2>1, <2>3, <2>4 DEF Opened, LoginHolds, Limited
  <2> QED
    BY <2>4, <2>5 DEF LoginsKeepLimit, Limited
<1>2. ASSUME ~ \E p \in Procs : Opens(p) PROVE LoginHolds' /\ LoginsKeepLimit'
  <2>1. ClosesOnly
    BY <1>2, OthersClose
  <2>2. ASSUME UNCHANGED <<device, byCode>>, user'.status # user.status => ~UserLocked
        PROVE  LoginHolds' /\ LoginsKeepLimit'
    <3>1. Limited' = Limited
      BY <2>2 DEF Limited, ActiveDevices
    <3> QED
      BY <2>1, <2>2, <3>1, FewerDevices DEF LoginHolds, UserLocked
  <2>3. ASSUME ~UserLocked, Limited' \subseteq Limited PROVE LoginHolds' /\ LoginsKeepLimit'
    BY <2>1, <2>3, FewerDevices DEF UserLocked
  <2>4. ASSUME NEW p \in Procs, Ends(p) PROVE LoginHolds' /\ LoginsKeepLimit'
    <3>1. CASE RedeemWrite(p)
      <4>1. proc[p].arg \in Devices /\ ~UserLocked
        BY <3>1 DEF LoginHolds, RedeemWrite
      <4>2. Limited' \subseteq Limited
        BY <3>1, <4>1 DEF RedeemWrite, Limited, ActiveDevices, TypeOK
      <4> QED
        BY <2>3, <4>1, <4>2
    <3>2. CASE AdminResetRevoke(p) \/ \E s \in {"paused", "deleted"} : UpdateDisable(p, s)
      BY <2>3, <3>2, BarFewer DEF AdminResetRevoke, RevokeAllSessions, UpdateDisable
    <3> QED
      BY <2>2, <2>4, <3>1, <3>2, LoginCounts
         DEF Ends, RefreshCommit, ConfirmWrite, UpdateEnable, AdminResetWrite, Abort, rows
  <2>5. ASSUME Whole PROVE LoginHolds' /\ LoginsKeepLimit'
    <3>1. CASE DeleteAccount \/ (RevokeAllSessions /\ UNCHANGED proc)
      BY <2>3, <3>1, BarFewer DEF DeleteAccount, RevokeAllSessions
    <3>2. CASE DeleteUser
      BY <2>3, <3>2 DEF DeleteUser, Limited, ActiveDevices
    <3>3. ASSUME NEW d \in Devices, RevokeDevice(d) PROVE LoginHolds' /\ LoginsKeepLimit'
      <4>1. Limited' \subseteq Limited
        BY <3>3 DEF RevokeDevice, Limited, ActiveDevices, TypeOK
      <4>2. \A q \in Procs : proc[q].op = "login" =>
              /\ user'.status # "gone"
              /\ device[proc[q].arg] = "active" => device'[proc[q].arg] = "active"
        BY <3>3 DEF RevokeDevice, LoginHolds, TypeOK
      <4> QED
        BY <2>1, <4>1, <4>2, FewerDevices
    <3>4. CASE LockExpires
      <4>1. user'.status = user.status
        BY <3>4 DEF LockExpires, TypeOK, User
      <4> QED
        BY <2>2, <3>4, <4>1 DEF LockExpires
    <3> QED
      BY <2>2, <2>5, <3>1, <3>2, <3>3, <3>4
         DEF Whole, WrongPassword, ChangePassword, Logout, RequestReset
  <2> QED
    BY <1>2, <2>4, <2>5, StepKinds
<1> QED
  BY <1>1, <1>2

\* Every step keeps what is said of reset tokens.
LEMMA ResetsStep ==
  ASSUME TypeOK, LocksHeld, ResetOnce, NewResets, Next
  PROVE  ConfirmHolds' /\ ResetOnce' /\ NewResets'
<1> USE DEF LocksHeld
<1>1. ASSUME NEW p \in Procs, Opens(p) PROVE ConfirmHolds' /\ ResetOnce' /\ NewResets'
  <2>1. Opened(p)
    BY <1>1, OpensForm
  <2> QED
    BY <2>1 DEF Opened, rows, ConfirmHolds, ResetOnce, NewResets
<1>2. ASSUME ~ \E p \in Procs : Opens(p) PROVE ConfirmHolds' /\ ResetOnce' /\ NewResets'
  <2>1. ClosesOnly /\ (user'.status # "gone" => user.status # "gone")
    BY <1>2, OthersClose, GoneStays
  <2>2. CASE UNCHANGED <<reset, uses>>
    BY <2>1, <2>2 DEF ClosesOnly, ConfirmHolds, ResetOnce, NewResets
  <2>3. ASSUME NEW x \in Resets, RequestReset(x) PROVE ConfirmHolds' /\ ResetOnce' /\ NewResets'
    <3>1. user.status # "gone" /\ user' = user /\ uses' = uses /\ reset[x] = "none"
      BY <2>3 DEF RequestReset, Active
    <3>2. \A y \in Resets : reset'[y] = IF y = x THEN "open"
                                       ELSE IF reset[y] = "open" THEN "used" ELSE reset[y]
      BY <2>3 DEF RequestReset
    <3>3. \A q \in Procs : proc'[q].op # "confirm"
      BY <2>1, <2>3 DEF ClosesOnly, RequestReset, ResetHeld, ConfirmHolds
    <3> QED
      BY <3>1, <3>2, <3>3 DEF ConfirmHolds, ResetOnce, NewResets
  <2>4. ASSUME NEW p \in Procs, ConfirmWrite(p) PROVE ConfirmHolds' /\ ResetOnce' /\ NewResets'
    <3> DEFINE x == proc[p].arg
    <3>1. proc[p].op = "confirm" /\ x \in Resets /\ uses[x] = 0
      BY <2>4 DEF ConfirmWrite, ConfirmHolds, NewResets
    <3>2. /\ reset'[x] = "used" /\ uses'[x] = 1
          /\ \A y \in Resets \ {x} : reset'[y] = reset[y] /\ uses'[y] = uses[y]
      BY <2>4, <3>1 DEF ConfirmWrite, TypeOK
    <3>3. \A q \in Procs : proc'[q].op = "confirm" => proc'[q] = proc[q] /\ proc[q].arg # x
      <4>1. proc'[p].op = "idle"
        BY <2>4 DEF ConfirmWrite, Close, NoProc, TypeOK
      <4> QED
        BY <2>1, <3>1, <4>1 DEF ClosesOnly, LocksExclude
    <3>4. ConfirmHolds'
      BY <3>2, <3>3 DEF ConfirmHolds
    <3>5. ResetOnce'
      BY <3>2 DEF ResetOnce
    <3> QED
      BY <2>1, <3>2, <3>4, <3>5 DEF NewResets
  <2>5. CASE DeleteUser
    <3>1. /\ reset' = [x \in Resets |-> "none"] /\ uses' = uses /\ user'.status = "gone"
          /\ \A x \in Resets : ~ResetHeld(x)
      BY <2>5, NoProcTyped DEF DeleteUser, User
    <3>2. \A q \in Procs : proc'[q].op # "confirm"
      BY <2>1, <3>1 DEF ClosesOnly, ResetHeld, ConfirmHolds
    <3> QED
      BY <3>1, <3>2 DEF ConfirmHolds, ResetOnce, NewResets
  <2>6. ASSUME NEW p \in Procs, Ends(p), ~ConfirmWrite(p) PROVE UNCHANGED <<reset, uses>>
    BY <2>6 DEF Ends, LoginCommit, RefreshCommit, RedeemWrite, UpdateEnable, UpdateDisable,
                AdminResetWrite, AdminResetRevoke, RevokeAllSessions, Bar, Abort, rows
  <2>7. ASSUME Whole, ~DeleteUser, ~ \E x \in Resets : RequestReset(x) PROVE UNCHANGED <<reset, uses>>
    BY <2>7 DEF Whole, WrongPassword, LockExpires, ChangePassword, Logout, RevokeDevice,
                DeleteAccount, RevokeAllSessions, Bar
  <2> QED
    BY <1>2, <2>2, <2>3, <2>4, <2>5, <2>6, <2>7, StepKinds
<1> QED
  BY <1>1, <1>2

Outgrown ==
  /\ \A p \in Procs : proc[p].seen.version <= user.version
  /\ \A t \in Issued : /\ tok[t].version <= user.version
                       /\ tok[t].root \in barred => tok[t].version < user.version

\* authVersion one up: whatever was issued is barred and too old.
LEMMA BarOutgrows ==
  ASSUME TypeOK, Outgrown, Bar, user'.version = user.version + 1,
         \A q \in Procs : proc'[q].seen.version = proc[q].seen.version \/ proc'[q].seen.version = 0
  PROVE  Outgrown'
<1>1. user.version \in Nat /\ \A q \in Procs : proc[q].seen.version \in Nat
  BY DEF TypeOK, User, Proc
<1>2. \A t \in Issued : tok[t].version \in Nat
  BY DEF TypeOK, Token, Issued
<1>3. tok' = tok /\ Issued' = Issued
  BY DEF Bar, Issued
<1> QED
  BY <1>1, <1>2, <1>3 DEF Outgrown

\* A token issued for a sign-in that is not barred, with a version read before.
LEMMA IssueOutgrows ==
  ASSUME TypeOK, Outgrown, NEW t \in Tokens, NEW d \in Devices, NEW v \in Nat, NEW r \in Tokens,
         Issue(t, d, v, r), v <= user.version, r \notin barred,
         barred' = barred, user'.version = user.version,
         \A q \in Procs : proc'[q].seen.version = proc[q].seen.version \/ proc'[q].seen.version = 0
  PROVE  Outgrown'
<1>1. user.version \in Nat
  BY DEF TypeOK, User
<1>2. /\ Issued' = Issued \cup {t} /\ tok'[t] = [dev |-> d, version |-> v, root |-> r]
      /\ \A s \in Issued : tok'[s] = tok[s]
  BY IssueTyped
<1> QED
  BY <1>1, <1>2 DEF Outgrown

\* Every step keeps what is said of versions.
LEMMA VersionsStep ==
  ASSUME TypeOK, LocksHeld, SignInsInv, VersionsGrow, Next
  PROVE  VersionsGrow'
<1> USE DEF LocksHeld
<1>1. VersionsGrow <=> stale \/ user.status = "gone" \/ Outgrown
  BY ONLY DEF VersionsGrow, Outgrown
<1>2. VersionsGrow' <=> stale' \/ user'.status = "gone" \/ Outgrown'
  BY ONLY DEF VersionsGrow, Outgrown
<1>3. stale => stale'
  BY DEF Next, ProcNext, LoginBegin, LoginUnlocked, RedeemRead, RefreshBegin, RefreshUnlocked,
         ConfirmRead, ConfirmUnlocked, UpdateRead, AdminResetRead, Open, LoginCommit, RefreshCommit,
         ConfirmWrite, RedeemWrite, UpdateEnable, UpdateDisable, AdminResetWrite, AdminResetRevoke,
         Abort, WrongPassword, LockExpires, ChangePassword, Logout, RequestReset, RevokeDevice,
         DeleteAccount, RevokeAllSessions, DeleteUser, history
<1> SUFFICES ASSUME Outgrown, ~stale', user'.status # "gone" PROVE Outgrown'
  BY <1>1, <1>2, <1>3, GoneStays
<1>4. user.version \in Nat /\ \A q \in Procs : proc[q].seen.version \in Nat /\ proc[q].seen \in User
  BY DEF TypeOK, User, Proc
<1>5. ASSUME NEW p \in Procs, Opens(p) PROVE Outgrown'
  <2>1. Opened(p)
    BY <1>5, OpensForm
  <2>2. \A q \in Procs : proc'[q].seen.version <= user.version
    BY <2>1 DEF Opened, Outgrown
  <2> QED
    BY <2>1, <2>2 DEF Opened, rows, history, Outgrown, Issued
<1>6. ASSUME ~ \E p \in Procs : Opens(p) PROVE Outgrown'
  <2>1. \A q \in Procs : proc'[q].seen.version = proc[q].seen.version \/ proc'[q].seen.version = 0
    BY <1>6, OthersClose
  <2>2. ASSUME UNCHANGED <<tok, barred>>, user'.version = user.version PROVE Outgrown'
    BY <1>4, <2>1, <2>2 DEF Outgrown, Issued
  <2>3. ASSUME NEW p \in Procs, Ends(p) PROVE Outgrown'
    <3>1. CASE LoginCommit(p)
      <4>1. proc[p].arg \in Devices /\ user.status # "gone"
        BY <3>1 DEF LoginCommit, LoginHolds
      <4> PICK t \in Tokens : Issue(t, proc[p].arg, user.version, t)
        BY <3>1 DEF LoginCommit
      <4>2. t \notin barred
        BY <4>1 DEF Issue, SignInsInv, NewSignIns
      <4>3. user'.version = user.version /\ barred' = barred
        BY <3>1 DEF LoginCommit, TypeOK, User, history
      <4> QED
        BY <1>4, <2>1, <4>1, <4>2, <4>3, IssueOutgrows
    <3>2. CASE RedeemWrite(p)
      <4>1. proc[p].arg \in Devices /\ user.status # "gone"
        BY <3>2 DEF RedeemWrite, LoginHolds
      <4> PICK t \in Tokens : Issue(t, proc[p].arg, proc[p].seen.version, t)
        BY <3>2 DEF RedeemWrite
      <4>2. t \notin barred
        BY <4>1 DEF Issue, SignInsInv, NewSignIns
      <4>3. user'.version = user.version /\ barred' = barred /\ proc[p].seen.version <= user.version
        BY <3>2 DEF RedeemWrite, history, Outgrown
      <4> QED
        BY <1>4, <2>1, <4>1, <4>2, <4>3, IssueOutgrows
    <3>3. CASE RefreshCommit(p)
      <4> DEFINE r == proc[p].arg
      <4>1. r \in live /\ tok[r] \in Token
        BY <3>3 DEF RefreshCommit, RefreshHolds, TypeOK, Issued
      <4>2. tok[r].dev \in Devices /\ tok[r].root \in Tokens /\ tok[r].root \notin barred
        BY <4>1 DEF Token, SignInsInv, SignedOutStaysOut, NewSignIns
      <4> PICK t \in Tokens : Issue(t, tok[r].dev, proc[p].seen.version, tok[r].root)
        BY <3>3 DEF RefreshCommit
      <4>3. user'.version = user.version /\ barred' = barred /\ proc[p].seen.version <= user.version
        BY <3>3 DEF RefreshCommit, history, Outgrown
      <4> QED
        BY <1>4, <2>1, <4>2, <4>3, IssueOutgrows
    <3>4. ASSUME NEW s \in {"paused", "deleted"}, UpdateDisable(p, s) PROVE Outgrown'
      <4>1. proc[p].seen.version = user.version /\ Bar
        BY <3>4 DEF UpdateDisable
      <4>2. WithStatus(proc[p].seen, s) \in User
        BY <1>4, WithStatusTyped
      <4>3. user'.version = user.version + 1
        BY <3>4, <4>1, <4>2 DEF UpdateDisable, Bump, User
      <4> QED
        BY <2>1, <4>1, <4>3, BarOutgrows
    <3>5. CASE AdminResetRevoke(p)
      <4>1. Bar /\ user'.version = user.version + 1
        BY <3>5 DEF AdminResetRevoke, RevokeAllSessions, Bump, TypeOK, User
      <4> QED
        BY <2>1, <4>1, BarOutgrows
    <3>6. CASE UpdateEnable(p) \/ AdminResetWrite(p) \/ ConfirmWrite(p)
      <4>1. user'.version = user.version
        BY <1>4, <3>6, WithStatusTyped, NewPasswordTyped DEF UpdateEnable, AdminResetWrite, ConfirmWrite
      <4> QED
        BY <2>2, <3>6, <4>1 DEF UpdateEnable, AdminResetWrite, ConfirmWrite, history
    <3>7. CASE Abort(p)
      BY <2>2, <3>7 DEF Abort, rows, history
    <3> QED
      BY <2>3, <3>1, <3>2, <3>3, <3>4, <3>5, <3>6, <3>7 DEF Ends
  <2>4. ASSUME Whole PROVE Outgrown'
    <3>1. CASE DeleteAccount \/ (RevokeAllSessions /\ UNCHANGED proc)
      <4>1. Bar /\ user'.version = user.version + 1
        BY <3>1 DEF DeleteAccount, RevokeAllSessions, Bump, TypeOK, User
      <4> QED
        BY <2>1, <4>1, BarOutgrows
    <3>2. CASE DeleteUser
      BY <3>2, NoProcTyped DEF DeleteUser, User
    <3>3. CASE WrongPassword \/ LockExpires
      <4>1. user'.version = user.version
        BY <3>3 DEF WrongPassword, LockExpires, Failed, TypeOK, User
      <4> QED
        BY <2>2, <3>3, <4>1 DEF WrongPassword, LockExpires, history
    <3>4. CASE ChangePassword
      <4>1. user \in User
        BY DEF TypeOK
      <4>2. user'.version = user.version
        BY <3>4, <4>1, NewPasswordTyped DEF ChangePassword
      <4> QED
        BY <2>2, <3>4, <4>2 DEF ChangePassword
    <3> QED
      BY <2>2, <2>4, <3>1, <3>2, <3>3, <3>4 DEF Whole, Logout, RequestReset, RevokeDevice, history
  <2> QED
    BY <1>6, <2>3, <2>4, StepKinds
<1> QED
  BY <1>5, <1>6

-----------------------------------------------------------------------------
(* The theorems.                                                           *)

LEMMA InitInv == Init => AuthInv
<1> SUFFICES ASSUME Init PROVE AuthInv
  OBVIOUS
<1>1. LocksHeld
  BY DEF Init, NoProc, LocksHeld, RefreshHolds, LoginHolds, ConfirmHolds, LocksExclude
<1>2. Issued = {} /\ ActiveDevices = {}
  BY DEF Init, Issued, ActiveDevices
<1>3. OneLivePerSignIn /\ SignedOutStaysOut /\ NewSignIns /\ ResetOnce /\ NewResets
  BY <1>2 DEF Init, OneLivePerSignIn, SignedOutStaysOut, NewSignIns, ResetOnce, NewResets
<1>4. LoginsKeepLimit
  <2>1. ActiveDevices \ byCode = {}
    BY <1>2
  <2> QED
    BY <2>1, FS_EmptySet, BoundsAssumption DEF LoginsKeepLimit
<1>5. VersionsGrow
  BY <1>2 DEF Init, VersionsGrow, NoProc, NewUser
<1> QED
  BY <1>1, <1>3, <1>4, <1>5, InitTyped DEF AuthInv

LEMMA StutterInv == AuthInv /\ UNCHANGED vars => AuthInv'
  BY DEF vars, rows, history, AuthInv, TypeOK, Issued, LocksHeld, RefreshHolds, LoginHolds,
         ConfirmHolds, LocksExclude, OneLivePerSignIn, SignedOutStaysOut, NewSignIns, ResetOnce,
         NewResets, LoginsKeepLimit, ActiveDevices, VersionsGrow

\* Every step keeps the types.
LEMMA StepTyped ==
  ASSUME TypeOK, LocksHeld, Next
  PROVE  TypeOK'
  BY OpensTyped, EndsTyped, WholeTyped, StepKinds

\* AuthInv is inductive.
LEMMA StepInv == AuthInv /\ [Next]_vars => AuthInv'
<1> SUFFICES ASSUME AuthInv, Next PROVE AuthInv'
  BY StutterInv
<1> USE DEF AuthInv
<1>1. TypeOK' /\ LocksExclude'
  BY StepTyped, LocksExcludeStep DEF LocksHeld
<1>2. SignInsInv'
  BY SignInsStep DEF SignInsInv, LocksHeld
<1>3. LoginHolds' /\ LoginsKeepLimit'
  BY DevicesStep
<1>4. ConfirmHolds' /\ ResetOnce' /\ NewResets'
  BY ResetsStep
<1>5. VersionsGrow'
  BY VersionsStep DEF SignInsInv, LocksHeld
<1> QED
  BY <1>1, <1>2, <1>3, <1>4, <1>5 DEF SignInsInv, LocksHeld

\* The inductive invariant of the sign-ins holds in every reachable state.
THEOREM Invariant == Spec => []AuthInv
<1> QED
  BY InitInv, StepInv, PTL DEF Spec

\* A refresh token presented twice, at once or later, never leaves a sign-in with two
\* that work (refreshUserTokens).
THEOREM OneLive == Spec => []OneLivePerSignIn
<1>1. AuthInv => OneLivePerSignIn
  BY DEF AuthInv
<1> QED
  BY Invariant, <1>1, PTL

\* No refresh under way outlives the revocation of its token (revokeAllRefreshTokens,
\* revokeDevice, logoutUser).
THEOREM SignedOut == Spec => []SignedOutStaysOut
<1>1. AuthInv => SignedOutStaysOut
  BY DEF AuthInv
<1> QED
  BY Invariant, <1>1, PTL

\* A reset token sets at most one password (confirmPasswordReset).
THEOREM ResetsOnce == Spec => []ResetOnce
<1>1. AuthInv => ResetOnce
  BY DEF AuthInv
<1> QED
  BY Invariant, <1>1, PTL

\* Simultaneous logins never exceed the device limit together (loginUser).
THEOREM DeviceLimit == Spec => []LoginsKeepLimit
<1>1. AuthInv => LoginsKeepLimit
  BY DEF AuthInv
<1> QED
  BY Invariant, <1>1, PTL

\* Unless two status changes have overlapped, an access token that was to end is never
\* accepted again (authVersion and authenticateUserToken).
THEOREM Barred == Spec => []BarredStaysBarred
<1>1. AuthInv => BarredStaysBarred
  <2> SUFFICES ASSUME AuthInv, ~stale, NEW t \in Issued, Accepts(t), tok[t].root \in barred
               PROVE  FALSE
    BY DEF BarredStaysBarred
  <2>1. tok[t].version < user.version /\ tok[t].version = user.version
    BY DEF AuthInv, VersionsGrow, Accepts, Active
  <2>2. user.version \in Nat
    BY DEF AuthInv, TypeOK, User
  <2> QED
    BY <2>1, <2>2
<1> QED
  BY Invariant, <1>1, PTL

-----------------------------------------------------------------------------
(* Auth implements SignInContract.                                         *)

Pair(t) == <<tok[t].root, tok[t].dev>>

LEMMA PairsOn == /\ On = {Pair(t) : t \in live}
                 /\ \A T : {x[1] : x \in {Pair(t) : t \in T}} = Roots(T)
<1>1. On = {Pair(t) : t \in live}
  BY DEF On, Pair
<1>2. ASSUME NEW T PROVE {x[1] : x \in {Pair(t) : t \in T}} = Roots(T)
  <2>1. \A t \in T : Pair(t)[1] = tok[t].root
    BY DEF Pair
  <2> DEFINE P == {Pair(t) : t \in T}
  <2>2. \A x \in P : \E t \in T : x = Pair(t)
    OBVIOUS
  <2>3. \A t \in T : Pair(t) \in P
    OBVIOUS
  <2> HIDE DEF P
  <2>4. {x[1] : x \in P} = {tok[t].root : t \in T}
    BY <2>1, <2>2, <2>3
  <2> QED
    BY <2>4 DEF Roots, P
<1> QED
  BY <1>1, <1>2

\* A revocation signs out one sign-in, those of a device, or all, and nobody else.
LEMMA RevokesSignOut ==
  ASSUME TypeOK, OneLivePerSignIn, NoneLost, NEW S, Revokes(S), Together(S)
  PROVE  Contract!Next
<1> DEFINE X == {Pair(t) : t \in S \cap live}
<1>1. tok' = tok /\ live' = live \ S /\ ended' = ended \cup Roots(S)
  BY DEF Revokes, SignOut
<1>2. On' = On \ X
  <2>1. On' = {Pair(t) : t \in live \ S}
    BY <1>1 DEF On, Pair
  <2>2. ASSUME NEW s \in live, NEW t \in live, Pair(s) = Pair(t) PROVE s = t
    BY <2>2 DEF Pair, OneLivePerSignIn
  <2> QED
    BY <2>1, <2>2, PairsOn
<1>3. ended' = ended \cup {x[1] : x \in X}
  <2>1. {x[1] : x \in X} = Roots(S \cap live)
    BY PairsOn
  <2>2. Roots(S) \subseteq ended \cup Roots(S \cap live)
    BY DEF Revokes, NoneLost, Roots, TypeOK
  <2>3. Roots(S \cap live) \subseteq Roots(S)
    BY DEF Roots
  <2> QED
    BY <1>1, <2>1, <2>2, <2>3
<1>4. Contract!SignOut(X)
  BY <1>2, <1>3 DEF Contract!SignOut
<1>5. CASE S = Issued
  <2>1. X = On
    BY <1>5, PairsOn DEF TypeOK
  <2> QED
    BY <1>4, <2>1 DEF Contract!Next, Contract!LeaveAll
<1>6. ASSUME NEW t \in live, S = {t} PROVE Contract!Next
  <2>1. X = {Pair(t)} /\ Pair(t) \in On
    BY <1>6, PairsOn
  <2> QED
    BY <1>4, <2>1 DEF Contract!Next
<1>7. ASSUME NEW d \in Devices, S = {t \in live : tok[t].dev = d} PROVE Contract!Next
  <2>1. X = {x \in On : x[2] = d}
    BY <1>7, PairsOn DEF Pair
  <2> QED
    BY <1>4, <1>7, <2>1 DEF Contract!Next, Contract!LeaveDevice
<1> QED
  BY <1>5, <1>6, <1>7 DEF Together

\* A new token begins a sign-in, or replaces one of a sign-in that goes on.
LEMMA IssuesGoOn ==
  ASSUME AuthInv, NEW p \in Procs, NEW n \in Tokens, Issues(p, n)
  PROVE  [Contract!Next]_(Contract!vars) /\ (NoneLost => NoneLost')
<1>0. TypeOK /\ RefreshHolds /\ NewSignIns /\ UNCHANGED ended
  BY DEF AuthInv, LocksHeld, Issues
<1>1. CASE /\ user.status # "gone"
           /\ \E d \in Devices, v \in Nat : Issue(n, d, v, n) /\ live' = live \cup {n}
  <2> PICK d \in Devices, v \in Nat : Issue(n, d, v, n) /\ live' = live \cup {n}
    BY <1>1
  <2>1. /\ Issued' = Issued \cup {n} /\ n \notin Issued /\ tok'[n] = [dev |-> d, version |-> v, root |-> n]
        /\ \A s \in Issued : tok'[s] = tok[s]
    BY <1>0, IssueTyped
  <2>2. n \notin ended /\ live \subseteq Issued /\ \A s \in Issued : tok[s].root # n
    BY <1>0, <1>1, <2>1 DEF NewSignIns, TypeOK
  <2>3. On' = On \cup {<<n, d>>}
    BY <2>1, <2>2 DEF On, Pair
  <2>4. \A x \in On : x[1] # n
    BY <2>2 DEF On, Pair
  <2>5. Contract!SignIn(n, d)
    BY <1>0, <2>2, <2>3, <2>4 DEF Contract!SignIn
  <2>6. NoneLost => NoneLost'
    BY <1>0, <2>1, <2>2 DEF NoneLost
  <2> QED
    BY <2>5, <2>6 DEF Contract!Next
<1>2. CASE /\ proc[p].op = "refresh"
           /\ \E v \in Nat : Issue(n, tok[proc[p].arg].dev, v, tok[proc[p].arg].root)
           /\ live' = (live \ {proc[p].arg}) \cup {n}
  <2> DEFINE r == proc[p].arg
  <2>1. r \in live /\ r \in Issued /\ tok[r] \in Token
    BY <1>0, <1>2 DEF RefreshHolds, TypeOK, Issued
  <2>2. tok[r].dev \in Devices /\ tok[r].root \in Tokens
    BY <2>1 DEF Token
  <2> PICK v \in Nat : Issue(n, tok[r].dev, v, tok[r].root)
    BY <1>2
  <2>3. /\ Issued' = Issued \cup {n} /\ n \notin Issued
        /\ tok'[n] = [dev |-> tok[r].dev, version |-> v, root |-> tok[r].root]
        /\ \A s \in Issued : tok'[s] = tok[s]
    BY <1>0, <2>2, IssueTyped
  <2>4. live \subseteq Issued /\ live' = (live \ {r}) \cup {n}
    BY <1>0, <1>2 DEF TypeOK
  <2>5. Pair(n)' = Pair(r) /\ \A s \in live : Pair(s)' = Pair(s)
    BY <2>3, <2>4 DEF Pair
  <2>6. On' = On
    <3>1. On' = {Pair(s)' : s \in (live \ {r}) \cup {n}}
      BY <2>4 DEF On, Pair
    <3> QED
      BY <2>1, <2>4, <2>5, <3>1, PairsOn
  <2>7. NoneLost => NoneLost'
    BY <1>0, <2>1, <2>3, <2>4 DEF NoneLost
  <2> QED
    BY <1>0, <2>6, <2>7 DEF Contract!vars
<1> QED
  BY <1>1, <1>2 DEF Issues

\* A step that touches no tokens.
LEMMA TokensKept ==
  ASSUME UNCHANGED <<tok, live, ended>>
  PROVE  [Contract!Next]_(Contract!vars) /\ (NoneLost => NoneLost')
<1>1. UNCHANGED <<On, Issued>>
  BY DEF On, Issued
<1> QED
  BY <1>1 DEF Contract!vars, NoneLost

\* NoneLost stays, and every step is one of the contract's or none.
LEMMA ContractStep ==
  AuthInv /\ NoneLost /\ [Next]_vars => NoneLost' /\ [Contract!Next]_(Contract!vars)
<1> SUFFICES ASSUME AuthInv, NoneLost, [Next]_vars
             PROVE  NoneLost' /\ [Contract!Next]_(Contract!vars)
  OBVIOUS
<1>0. TypeOK /\ LocksHeld /\ OneLivePerSignIn
  BY DEF AuthInv
<1>1. ASSUME NEW S, Revokes(S), Together(S) PROVE NoneLost' /\ [Contract!Next]_(Contract!vars)
  <2>1. tok' = tok /\ live' = live \ S /\ ended' = ended \cup Roots(S)
    BY <1>1 DEF Revokes, SignOut
  <2>2. NoneLost'
    BY <2>1 DEF NoneLost, Issued, Roots
  <2> QED
    BY <1>0, <1>1, <2>2, RevokesSignOut
<1>2. ASSUME UNCHANGED <<tok, live, ended>> PROVE NoneLost' /\ [Contract!Next]_(Contract!vars)
  BY <1>2, TokensKept
<1>3. ASSUME NEW p \in Procs, Opens(p) PROVE NoneLost' /\ [Contract!Next]_(Contract!vars)
  BY <1>0, <1>2, <1>3, OpensForm DEF Opened, rows, history
<1>4. ASSUME NEW p \in Procs, Ends(p) PROVE NoneLost' /\ [Contract!Next]_(Contract!vars)
  <2>1. CASE Revokes(Issued)
    BY <1>1, <2>1 DEF Together
  <2>2. CASE \E n \in Tokens : Issues(p, n)
    BY <2>2, IssuesGoOn
  <2>3. CASE UNCHANGED <<tok, live, ended, barred>>
    BY <1>2, <2>3
  <2> QED
    BY <1>0, <1>4, <2>1, <2>2, <2>3, EndsForm
<1>5. CASE DeleteUser
  <2>1. tok' = [t \in Tokens |-> None] /\ live' = live \ Issued /\ ended' = ended \cup Roots(Issued)
    BY <1>5 DEF DeleteUser, RevokeTokens, SignOut
  <2>2. live' = {} /\ Issued' = {}
    BY <1>0, <2>1 DEF TypeOK, Issued
  <2>3. NoneLost'
    BY <2>2 DEF NoneLost
  <2>4. On' = On \ On
    BY <2>2 DEF On
  <2>5. {x[1] : x \in On} = Roots(live)
    BY PairsOn
  <2>6. ended' = ended \cup {x[1] : x \in On}
    <3>1. Roots(live) \subseteq Roots(Issued) /\ Roots(Issued) \subseteq ended \cup Roots(live)
      BY <1>0 DEF NoneLost, Roots, TypeOK
    <3> QED
      BY <2>1, <2>5, <3>1
  <2>7. Contract!LeaveAll
    BY <2>4, <2>6 DEF Contract!LeaveAll, Contract!SignOut
  <2> QED
    BY <2>3, <2>7 DEF Contract!Next
<1>6. CASE Whole /\ ~DeleteUser
  BY <1>0, <1>1, <1>2, <1>6, WholeForm
<1>7. CASE UNCHANGED vars
  BY <1>2, <1>7 DEF vars, rows, history
<1> QED
  BY <1>3, <1>4, <1>5, <1>6, <1>7, StepKinds

\* The account's sign-ins keep their contract under every interleaving: each goes on through
\* the rotations of its tokens until it is signed out, alone, with its device or with all
\* others, and is then over (refreshUserTokens, revokeAllRefreshTokens, revokeDevice, logoutUser).
THEOREM SignInRefinement == Spec => ImplementsSignIns
<1>1. Init => NoneLost /\ Contract!Init
  <2> SUFFICES ASSUME Init PROVE NoneLost /\ Contract!Init
    OBVIOUS
  <2>1. Issued = {} /\ On = {} /\ ended = {}
    BY DEF Init, Issued, On
  <2> QED
    BY <2>1 DEF NoneLost, Contract!Init
<1> QED
  BY <1>1, ContractStep, Invariant, PTL DEF Spec, ImplementsSignIns, Contract!Spec
=============================================================================

---------------------------- MODULE AdminsProofs ----------------------------
(***************************************************************************)
(* Proofs about Admins, for any accounts, requests, limits and times.      *)
(***************************************************************************)
EXTENDS Admins, TLAPS

\* Initially nothing is open.
LEMMA InitInv == Init => AdminInv
  BY LimitAssumption DEF Init, AdminInv, TypeOK, OpenIsAllowed, Statuses, Cookie, Columns

\* What is left of a body is a body.
LEMMA Rest ==
  ASSUME NEW b \in Bodies \cup Others, Len(b) # 1
  PROVE  Tail(b) \in Bodies
<1>1. b \in Pairs
  BY DEF Bodies, Others, Logins, Patches
<1>2. PICK x \in {"lock", "unlock"}, y \in {"promote", "demote"} : b = <<x, y>>
  BY <1>1, PairsAssumption
<1>3. Tail(b) = <<y>>
  BY <1>2
<1>4. <<y>> \in Patches \/ <<y>> \in Bodies
  <2>1. y = "promote" \/ y = "demote"
    OBVIOUS
  <2> QED
    BY <2>1 DEF Bodies, Patches
<1> QED
  BY <1>3, <1>4 DEF Bodies

\* The end of a transaction, whatever the request does next.
LEMMA FinishKeeps ==
  ASSUME AdminInv, NEW p \in Requests, snap[p] # None, Finish(p)
  PROVE  /\ req' \in [Requests -> Request \cup {None}]
         /\ snap' \in [Requests -> Columns \cup {None}]
         /\ OpenIsAllowed'
<1> USE DEF AdminInv
<1>1. req[p] \in Request
  BY DEF OpenIsAllowed, TypeOK
<1>2. Len(req[p].ops) # 1 => [target |-> req[p].target, ops |-> Tail(req[p].ops)] \in Request
  BY <1>1, Rest DEF Request
<1>3. req' \in [Requests -> Request \cup {None}] /\ snap' \in [Requests -> Columns \cup {None}]
  BY <1>2 DEF Finish, TypeOK
<1>4. \A q \in Requests : snap'[q] # None => q # p /\ req'[q] = req[q] /\ snap'[q] = snap[q]
  BY DEF Finish, TypeOK
<1> QED
  BY <1>3, <1>4 DEF OpenIsAllowed, Op

\* What a transaction reads is well typed.
LEMMA ReadTyped ==
  ASSUME TypeOK, NEW a \in Admins, NEW op
  PROVE  Read(a, op) \in Columns
<1>1. role[a] \in Roles /\ status[a] \in Statuses /\ failed[a] \in Nat
  BY DEF TypeOK
<1>2. "admin" \in Roles /\ "active" \in Statuses /\ now \in 0..MaxTime /\ 0 \in 0..MaxTime
  BY LimitAssumption DEF TypeOK, Roles, Statuses
<1> QED
  BY <1>1, <1>2 DEF Read, Columns

\* AdminInv is inductive.
LEMMA StepInv == AdminInv /\ [Next]_vars => AdminInv'
<1> SUFFICES ASSUME AdminInv, [Next]_vars PROVE AdminInv'
  OBVIOUS
<1> USE DEF AdminInv
<1>1. ASSUME NEW p \in Requests, NEW a \in Admins, NEW b \in Bodies, Admit(p, a, b) PROVE AdminInv'
  <2>1. [target |-> a, ops |-> b] \in Request
    BY DEF Request
  <2>2. TypeOK'
    BY <1>1, <2>1 DEF Admit, TypeOK, table
  <2>3. \A q \in Requests : snap'[q] # None => req'[q] = req[q] /\ snap'[q] = snap[q]
    BY <1>1 DEF Admit, TypeOK, OpenIsAllowed
  <2> QED
    BY <2>2, <2>3 DEF OpenIsAllowed, Op
<1>2. ASSUME NEW p \in Requests, NEW a \in Admins, NEW b \in Logins, LoginRead(p, a, b) PROVE AdminInv'
  <2>1. [target |-> a, ops |-> b] \in Request /\ Read(a, Head(b)) \in Columns
    BY ReadTyped DEF Request, Others
  <2>2. TypeOK'
    BY <1>2, <2>1 DEF LoginRead, TypeOK, table
  <2>3. req'[p] = [target |-> a, ops |-> b]
    BY <1>2 DEF LoginRead, TypeOK
  <2>6. Head(b) \in {"right", "wrong"}
    BY DEF Logins
  <2>4. \A q \in Requests \ {p} : req'[q] = req[q] /\ snap'[q] = snap[q]
    BY <1>2 DEF LoginRead, TypeOK
  <2>5. req'[p] # None
    BY <2>1, <2>3, NoneAssumption
  <2> QED
    BY <2>2, <2>3, <2>4, <2>5, <2>6 DEF OpenIsAllowed, Op
<1>8. ASSUME NEW p \in Requests, SeedRead(p) PROVE AdminInv'
  <2>1. [target |-> Root, ops |-> <<"seed">>] \in Request /\ Read(Root, "seed") \in Columns
    BY ReadTyped, TokenAssumption DEF Request, Others
  <2>2. TypeOK'
    BY <1>8, <2>1 DEF SeedRead, TypeOK, table
  <2>3. req'[p] = [target |-> Root, ops |-> <<"seed">>]
    BY <1>8 DEF SeedRead, TypeOK
  <2>4. \A q \in Requests \ {p} : req'[q] = req[q] /\ snap'[q] = snap[q]
    BY <1>8 DEF SeedRead, TypeOK
  <2>5. req'[p] # None
    BY <2>1, <2>3, NoneAssumption
  <2> QED
    BY <2>2, <2>3, <2>4, <2>5 DEF OpenIsAllowed, Op
<1>3. ASSUME NEW p \in Requests, Open(p) PROVE AdminInv'
  <2>1. req[p] # None /\ req' = req /\ Allowed(Target(p), Op(p)) /\ UNCHANGED <<table, cookies, now>>
    BY <1>3 DEF Open
  <2>2. req[p] \in Request /\ Target(p) \in Admins
    BY <2>1 DEF TypeOK, Request, Target
  <2>3. snap' = [snap EXCEPT ![p] = Read(Target(p), Op(p))] /\ Read(Target(p), Op(p)) \in Columns
    BY <1>3, <2>2, ReadTyped DEF Open
  <2>4. TypeOK'
    BY <2>1, <2>3 DEF TypeOK, table
  <2>5. ASSUME Op(p) \in {"lock", "demote", "delete"}, Read(Target(p), Op(p)).role = "owner"
        PROVE  Read(Target(p), Op(p)).others
    BY <2>1, <2>5 DEF Allowed, SparesOwners, Read
  <2>6. snap'[p] = Read(Target(p), Op(p)) /\ \A q \in Requests \ {p} : snap'[q] = snap[q]
    BY <2>3 DEF TypeOK
  <2>7. \A q \in Requests : Op(q)' = Op(q)
    BY <2>1 DEF Op
  <2> QED
    BY <2>1, <2>4, <2>5, <2>6, <2>7 DEF OpenIsAllowed
<1>4. ASSUME NEW p \in Requests, Refused(p) PROVE AdminInv'
  <2>1. TypeOK'
    BY <1>4 DEF Refused, TypeOK, table
  <2>2. \A q \in Requests : snap'[q] # None => req'[q] = req[q] /\ snap'[q] = snap[q]
    BY <1>4 DEF Refused, TypeOK
  <2> QED
    BY <2>1, <2>2 DEF OpenIsAllowed, Op
<1>5. ASSUME NEW p \in Requests,
             \/ SetStatus(p) \/ UpdateRole(p) \/ ResetPassword(p) \/ SoftDelete(p)
             \/ CreateAdmin(p) \/ LoginWrong(p) \/ LoginRight(p) \/ SeedRoot(p)
      PROVE  AdminInv'
  <2>1. snap[p] # None /\ Finish(p)
    BY <1>5 DEF SetStatus, UpdateRole, ResetPassword, SoftDelete, CreateAdmin, LoginWrong, LoginRight, SeedRoot
  <2>2. /\ req' \in [Requests -> Request \cup {None}] /\ snap' \in [Requests -> Columns \cup {None}]
        /\ OpenIsAllowed'
    BY <2>1, FinishKeeps
  <2>3. snap[p] \in Columns /\ Target(p) \in Admins
    BY <2>1 DEF OpenIsAllowed, TypeOK, Request, Target
  <2>4. snap[p].failed \in Nat /\ snap[p].at \in 0..MaxTime /\ now \in 0..MaxTime
    BY <2>3 DEF Columns, TypeOK
  <2>5. role' \in [Admins -> Roles]
    BY <1>5, <2>3 DEF SetStatus, UpdateRole, ResetPassword, SoftDelete, CreateAdmin, LoginWrong,
       LoginRight, SeedRoot, TypeOK, Roles, RoleOf, Written
  <2>6. status' \in [Admins -> Statuses]
    BY <1>5, <2>3 DEF SetStatus, UpdateRole, ResetPassword, SoftDelete, CreateAdmin, LoginWrong,
       LoginRight, SeedRoot, TypeOK, Statuses, Written
  <2>7. failed' \in [Admins -> Nat]
    BY <1>5, <2>3, <2>4 DEF SetStatus, UpdateRole, ResetPassword, SoftDelete, CreateAdmin, LoginWrong,
       LoginRight, SeedRoot, TypeOK, Written
  <2>8. deleted' \subseteq Admins /\ resetAt' \in [Admins -> 0..MaxTime]
    BY <1>5, <2>3, <2>4 DEF SetStatus, UpdateRole, ResetPassword, SoftDelete, CreateAdmin, LoginWrong,
       LoginRight, SeedRoot, TypeOK
  <2>9. cookies' \subseteq Cookie /\ now' = now
    <3>1. [who |-> Target(p), ts |-> now] \in Cookie
      BY <2>3, <2>4 DEF Cookie
    <3> QED
      BY <1>5, <3>1 DEF SetStatus, UpdateRole, ResetPassword, SoftDelete, CreateAdmin, LoginWrong,
         LoginRight, SeedRoot, TypeOK
  <2> QED
    BY <2>2, <2>4, <2>5, <2>6, <2>7, <2>8, <2>9 DEF TypeOK
<1>6. CASE Tick
  <2>1. now' \in 0..MaxTime
    BY <1>6, LimitAssumption DEF Tick, TypeOK
  <2> QED
    BY <1>6, <2>1 DEF Tick, TypeOK, OpenIsAllowed, Op, table
<1>7. CASE UNCHANGED vars
  BY <1>7 DEF vars, table, TypeOK, OpenIsAllowed, Op
<1> QED
  BY <1>1, <1>2, <1>3, <1>4, <1>5, <1>6, <1>7, <1>8 DEF Next

\* Accounts and requests stay well typed, and no open transaction was one to refuse.
THEOREM Invariant == Spec => []AdminInv
<1> QED
  BY InitInv, StepInv, PTL DEF Spec

-----------------------------------------------------------------------------
(* Steps that do not touch the accounts.                                   *)

\* Only the end of a transaction changes accounts or cookies.
LEMMA Idle ==
  ASSUME [Next]_vars,
         ~\E p \in Requests : \/ SetStatus(p) \/ UpdateRole(p) \/ ResetPassword(p) \/ SoftDelete(p)
                              \/ CreateAdmin(p) \/ LoginWrong(p) \/ LoginRight(p) \/ SeedRoot(p)
  PROVE  UNCHANGED <<table, cookies>>
<1>1. CASE UNCHANGED vars
  BY <1>1 DEF vars
<1> QED
  BY <1>1 DEF Next, Admit, LoginRead, SeedRead, Open, Refused, Tick

\* A handler that finishes ends its transaction.
LEMMA WriterEnds ==
  ASSUME NEW p \in Requests, TypeOK, snap[p] # None, Finish(p)
  PROVE  Ends(p)
  BY DEF Ends, Finish, TypeOK

\* The last active owner goes by failed logins or by a check another request made untrue.
LEMMA EmptyStep ==
  ASSUME AdminInv, [Next]_vars, OwnerLeft, ~OwnerLeft'
  PROVE  \E p \in Requests : Ends(p) /\ (Op(p) = "wrong" \/ ~StillTrue(p))
<1> USE DEF AdminInv
<1>0. PICK o \in Admins : ActiveOwner(o)
  BY DEF OwnerLeft
<1>1. ASSUME NEW a \in Admins, ActiveOwner(a)' PROVE FALSE
  BY <1>1 DEF OwnerLeft
<1>2. PICK p \in Requests : \/ SetStatus(p) \/ UpdateRole(p) \/ ResetPassword(p) \/ SoftDelete(p)
                            \/ CreateAdmin(p) \/ LoginWrong(p) \/ LoginRight(p) \/ SeedRoot(p)
  <2> SUFFICES ASSUME UNCHANGED table PROVE FALSE
    BY Idle
  <2> QED
    BY <1>0, <1>1 DEF ActiveOwner, table
<1>3. snap[p] # None /\ Finish(p)
  BY <1>2 DEF SetStatus, UpdateRole, ResetPassword, SoftDelete, CreateAdmin, LoginWrong, LoginRight, SeedRoot
<1>4. Ends(p) /\ Target(p) \in Admins
  BY <1>3, WriterEnds DEF OpenIsAllowed, TypeOK, Request, Target
<1>10. PICK t \in Admins : t = Target(p)
  BY <1>4
<1> HIDE DEF AdminInv
<1>5. \A a \in Admins \ {t} :
        role'[a] = role[a] /\ status'[a] = status[a] /\ (a \in deleted' <=> a \in deleted)
  <2>1. SUFFICES ASSUME NEW a \in Admins, a # t
                 PROVE  role'[a] = role[a] /\ status'[a] = status[a] /\ (a \in deleted' <=> a \in deleted)
    OBVIOUS
  <2>2. TypeOK
    BY DEF AdminInv
  <2>3. role'[a] = role[a]
    BY <1>2, <1>10, <2>1, <2>2 DEF SetStatus, UpdateRole, ResetPassword, SoftDelete, CreateAdmin, LoginWrong,
       LoginRight, SeedRoot, TypeOK
  <2>4. status'[a] = status[a]
    BY <1>2, <1>10, <2>1, <2>2 DEF SetStatus, UpdateRole, ResetPassword, SoftDelete, CreateAdmin, LoginWrong,
       LoginRight, SeedRoot, TypeOK
  <2>5. a \in deleted' <=> a \in deleted
    BY <1>2, <1>10, <2>1 DEF SetStatus, UpdateRole, ResetPassword, SoftDelete, CreateAdmin, LoginWrong,
       LoginRight, SeedRoot
  <2> QED
    BY <2>3, <2>4, <2>5
<1>6. \A a \in Admins \ {t} : ~ActiveOwner(a)
  BY <1>1, <1>5 DEF ActiveOwner
<1>7. ActiveOwner(t) /\ ~ActiveOwner(t)' /\ ~OthersLeft(t)
  BY <1>0, <1>1, <1>6 DEF OthersLeft
<1>11. role[t] = "owner" /\ status[t] = "active" /\ t \notin deleted
  BY <1>7 DEF ActiveOwner
<1>12. ~(role'[t] = "owner" /\ status'[t] = "active" /\ t \notin deleted')
  BY <1>7 DEF ActiveOwner
<1>13. t \in DOMAIN role /\ t \in DOMAIN status
  BY DEF AdminInv, TypeOK
<1>8. Op(p) \in {"lock", "demote", "delete", "wrong"}
  <2>1. ~CreateAdmin(p)
    BY <1>10, <1>11 DEF CreateAdmin
  <2>2. CASE SetStatus(p)
    <3>1. Op(p) = "lock" \/ Op(p) = "unlock"
      BY <2>2 DEF SetStatus
    <3>2. ASSUME Op(p) = "unlock" PROVE FALSE
      <4>1. status' = [status EXCEPT ![t] = Written(snap[p].status, "active", @)]
        BY <1>10, <2>2, <3>2 DEF SetStatus
      <4>2. status'[t] = "active"
        BY <1>11, <1>13, <4>1 DEF Written
      <4> QED
        BY <1>11, <1>12, <2>2, <4>2 DEF SetStatus
    <3> QED
      BY <3>1, <3>2
  <2>3. CASE UpdateRole(p)
    <3>1. Op(p) = "promote" \/ Op(p) = "demote"
      BY <2>3 DEF UpdateRole
    <3>2. ASSUME Op(p) = "promote" PROVE FALSE
      <4>1. role' = [role EXCEPT ![t] = "owner"]
        BY <1>10, <2>3, <3>2 DEF UpdateRole, RoleOf
      <4>2. role'[t] = "owner"
        BY <1>13, <4>1
      <4> QED
        BY <1>11, <1>12, <2>3, <4>2 DEF UpdateRole
    <3> QED
      BY <3>1, <3>2
  <2>4. CASE SoftDelete(p)
    BY <2>4 DEF SoftDelete
  <2>5. CASE LoginWrong(p)
    BY <2>5 DEF LoginWrong
  <2>6. CASE ResetPassword(p)
    BY <1>11, <1>12, <2>6 DEF ResetPassword
  <2>7. CASE LoginRight(p)
    BY <1>11, <1>12, <2>7 DEF LoginRight
  <2>8. ~SeedRoot(p)
    BY <1>10, <1>11, <1>12, <1>13 DEF SeedRoot
  <2> QED
    BY <1>2, <2>1, <2>2, <2>3, <2>4, <2>5, <2>6, <2>7, <2>8
<1>9. Op(p) # "wrong" => ~StillTrue(p)
  <2> SUFFICES ASSUME Op(p) \in {"lock", "demote", "delete"}, StillTrue(p) PROVE FALSE
    BY <1>8
  <2>1. snap[p].role = "owner" /\ ~snap[p].others
    BY <1>7, <1>10, <1>11 DEF StillTrue
  <2> QED
    BY <1>3, <2>1 DEF OpenIsAllowed, AdminInv
<1> QED
  BY <1>4, <1>9

\* No step empties the owners but failed logins and races (admin_account_service.py).
THEOREM EmptiedByRaces == Spec => OnlyRacesEmpty
<1>1. AdminInv /\ [Next]_vars =>
        [OwnerLeft /\ ~OwnerLeft' =>
           \E p \in Requests : Ends(p) /\ (Op(p) = "wrong" \/ ~StillTrue(p))]_vars
  BY EmptyStep
<1> QED
  BY <1>1, Invariant, PTL DEF Spec, OnlyRacesEmpty

-----------------------------------------------------------------------------
\* What a step that changes the accounts is.
LEMMA Writer ==
  ASSUME AdminInv, [Next]_vars, ~UNCHANGED <<table, cookies>>
  PROVE  \E p \in Requests :
           /\ \/ SetStatus(p) \/ UpdateRole(p) \/ ResetPassword(p) \/ SoftDelete(p)
              \/ CreateAdmin(p) \/ LoginWrong(p) \/ LoginRight(p) \/ SeedRoot(p)
           /\ snap[p] # None /\ Ends(p) /\ Target(p) \in Admins
<1>1. PICK p \in Requests : \/ SetStatus(p) \/ UpdateRole(p) \/ ResetPassword(p) \/ SoftDelete(p)
                            \/ CreateAdmin(p) \/ LoginWrong(p) \/ LoginRight(p) \/ SeedRoot(p)
  BY Idle
<1>2. snap[p] # None /\ Finish(p)
  BY <1>1 DEF SetStatus, UpdateRole, ResetPassword, SoftDelete, CreateAdmin, LoginWrong, LoginRight, SeedRoot
<1>3. Ends(p)
  BY <1>2, WriterEnds DEF AdminInv
<1>4. Target(p) \in Admins
  BY <1>2 DEF AdminInv, OpenIsAllowed, TypeOK, Request, Target
<1> QED
  BY <1>1, <1>2, <1>3, <1>4

\* A role, a lock or a deletion moves by the request for it.
LEMMA ChangeStep ==
  ASSUME AdminInv, [Next]_vars, NEW a \in Admins,
         NEW op \in {"promote", "demote", "unlock", "delete"}, Change(a, op)
  PROVE  \E p \in Requests : Ends(p) /\ Target(p) = a /\ Op(p) \in MovedBy(op)
<1>0. role \in [Admins -> Roles] /\ status \in [Admins -> Statuses]
  BY DEF AdminInv, TypeOK
<1>1. ~UNCHANGED <<table, cookies>>
  BY DEF Change, table
<1>2. PICK p \in Requests :
           /\ \/ SetStatus(p) \/ UpdateRole(p) \/ ResetPassword(p) \/ SoftDelete(p)
              \/ CreateAdmin(p) \/ LoginWrong(p) \/ LoginRight(p) \/ SeedRoot(p)
           /\ snap[p] # None /\ Ends(p) /\ Target(p) \in Admins
  BY <1>1, Writer
<1>3. PICK t \in Admins : t = Target(p)
  BY <1>2
<1>4. CASE op \in {"promote", "demote"}
  <2>8. RoleOf["promote"] = "owner" /\ RoleOf["demote"] = "admin"
    BY DEF RoleOf
  <2>1. status[a] # "absent" /\ role'[a] # role[a] /\ role'[a] = RoleOf[op]
    <3>1. CASE op = "promote"
      BY <2>8, <3>1 DEF Change
    <3>2. CASE op = "demote"
      BY <2>8, <3>2 DEF Change
    <3> QED
      BY <1>4, <3>1, <3>2
  <2>2. role' # role
    BY <2>1
  <2>3. UpdateRole(p) \/ CreateAdmin(p) \/ SeedRoot(p)
    BY <1>2, <2>2 DEF SetStatus, ResetPassword, SoftDelete, LoginWrong, LoginRight
  <2>4. a = t
    BY <1>0, <1>3, <2>1, <2>3 DEF UpdateRole, CreateAdmin, SeedRoot
  <2>5. ~CreateAdmin(p)
    BY <1>3, <2>1, <2>4 DEF CreateAdmin
  <2>6. CASE UpdateRole(p)
    <3>1. Op(p) \in {"promote", "demote"} /\ role'[a] = RoleOf[Op(p)]
      BY <1>0, <1>3, <2>4, <2>6 DEF UpdateRole
    <3>2. Op(p) = op
      BY <1>4, <2>1, <2>8, <3>1
    <3> QED
      BY <1>2, <1>3, <2>4, <3>2 DEF MovedBy
  <2>7. CASE SeedRoot(p)
    <3>1. Op(p) = "seed" /\ role'[a] = "owner"
      BY <1>0, <1>3, <2>4, <2>7 DEF SeedRoot
    <3>2. op = "promote"
      BY <1>4, <2>1, <2>8, <3>1
    <3> QED
      BY <1>2, <1>3, <2>4, <3>1, <3>2 DEF MovedBy
  <2> QED
    BY <2>3, <2>5, <2>6, <2>7
<1>5. CASE op = "unlock"
  <2>1. status[a] = "locked" /\ status'[a] = "active"
    BY <1>5 DEF Change
  <2>2. SetStatus(p) \/ CreateAdmin(p) \/ LoginWrong(p) \/ SeedRoot(p)
    BY <1>2, <2>1 DEF UpdateRole, ResetPassword, SoftDelete, LoginRight
  <2>3. ~CreateAdmin(p)
    BY <1>0, <1>3, <2>1 DEF CreateAdmin
  <2>4. ~LoginWrong(p)
    BY <1>0, <1>3, <2>1 DEF LoginWrong
  <2>9. ~SeedRoot(p)
    BY <1>0, <1>3, <2>1 DEF SeedRoot
  <2>5. SetStatus(p)
    BY <2>2, <2>3, <2>4, <2>9
  <2>6. a = t
    BY <1>0, <1>3, <2>1, <2>5 DEF SetStatus
  <2>7. Op(p) \in {"lock", "unlock"}
    BY <2>5 DEF SetStatus
  <2>8. ASSUME Op(p) = "lock" PROVE FALSE
    <3>1. status'[a] = Written(snap[p].status, "locked", status[a])
      BY <1>0, <1>3, <2>5, <2>6, <2>8 DEF SetStatus
    <3> QED
      BY <2>1, <3>1 DEF Written
  <2> QED
    BY <1>2, <1>3, <1>5, <2>6, <2>7, <2>8 DEF MovedBy
<1>6. CASE op = "delete"
  <2>1. (a \in deleted) # (a \in deleted')
    BY <1>6 DEF Change
  <2>2. deleted' # deleted
    BY <2>1
  <2>3. SoftDelete(p)
    BY <1>2, <2>2 DEF SetStatus, UpdateRole, ResetPassword, CreateAdmin, LoginWrong, LoginRight, SeedRoot
  <2>4. Op(p) = "delete" /\ a = t
    BY <1>3, <2>1, <2>3 DEF SoftDelete
  <2> QED
    BY <1>2, <1>3, <1>6, <2>4 DEF MovedBy
<1> QED
  BY <1>4, <1>5, <1>6

\* Roles, locks and deletions move by admitted requests only (admin_account_service.py).
THEOREM RightsByRequest == Spec => RightsMoveByRequest
<1>1. AdminInv /\ [Next]_vars =>
        [\A a \in Admins, op \in {"promote", "demote", "unlock", "delete"} :
           Change(a, op) => \E p \in Requests : Ends(p) /\ Target(p) = a /\ Op(p) \in MovedBy(op)]_vars
  BY ChangeStep
<1> QED
  BY <1>1, Invariant, PTL DEF Spec, RightsMoveByRequest

\* A refused cookie stays refused unless a reset takes pwd_reset_at back.
LEMMA CookieStep ==
  ASSUME AdminInv, [Next]_vars, NEW c \in cookies, c.who \in deleted \/ c.ts < resetAt[c.who],
         CookieAccepted(c)'
  PROVE  \E p \in Requests : Ends(p) /\ Op(p) = "reset" /\ snap[p].at < resetAt[c.who]
<1> DEFINE a == c.who
<1>0. a \in Admins /\ c.ts \in 0..MaxTime /\ resetAt \in [Admins -> 0..MaxTime]
  BY DEF AdminInv, TypeOK, Cookie
<1>1. a \notin deleted' /\ resetAt'[a] <= c.ts
  BY DEF CookieAccepted
<1> HIDE DEF a
<1>2. a \in deleted \/ c.ts < resetAt[a]
  BY DEF a
<1>3. ~UNCHANGED <<table, cookies>>
  <2> SUFFICES ASSUME deleted' = deleted, resetAt' = resetAt PROVE FALSE
    BY DEF table
  <2> QED
    BY <1>0, <1>1, <1>2, LimitAssumption
<1>4. PICK p \in Requests :
           /\ \/ SetStatus(p) \/ UpdateRole(p) \/ ResetPassword(p) \/ SoftDelete(p)
              \/ CreateAdmin(p) \/ LoginWrong(p) \/ LoginRight(p) \/ SeedRoot(p)
           /\ snap[p] # None /\ Ends(p) /\ Target(p) \in Admins
  BY <1>3, Writer
<1>5. PICK t \in Admins : t = Target(p)
  BY <1>4
<1>6. deleted \subseteq deleted'
  BY <1>4 DEF SetStatus, UpdateRole, ResetPassword, SoftDelete, CreateAdmin, LoginWrong, LoginRight, SeedRoot
<1>7. c.ts < resetAt[a]
  BY <1>1, <1>2, <1>6
<1>8. resetAt'[a] # resetAt[a]
  BY <1>0, <1>1, <1>7, LimitAssumption
<1>9. ResetPassword(p) \/ SoftDelete(p)
  BY <1>4, <1>8 DEF SetStatus, UpdateRole, CreateAdmin, LoginWrong, LoginRight, SeedRoot
<1>10. a = t
  BY <1>0, <1>5, <1>8, <1>9 DEF ResetPassword, SoftDelete
<1>11. ResetPassword(p)
  BY <1>1, <1>5, <1>9, <1>10 DEF SoftDelete
<1>12. Op(p) = "reset" /\ resetAt'[a] = snap[p].at
  BY <1>0, <1>5, <1>10, <1>11 DEF ResetPassword
<1>13. snap[p].at \in 0..MaxTime
  BY <1>4 DEF AdminInv, TypeOK, Columns
<1>14. snap[p].at < resetAt[a]
  BY <1>0, <1>1, <1>7, <1>12, <1>13, LimitAssumption
<1> QED
  BY <1>4, <1>12, <1>14 DEF a

\* Deletion and reset end the cookies for good (admin_account_service.py, deps.py).
THEOREM RefusedCookies == Spec => RefusedStaysRefused
<1>1. AdminInv /\ [Next]_vars =>
        [\A c \in cookies :
           c.who \in deleted \/ c.ts < resetAt[c.who] =>
             \/ ~CookieAccepted(c)'
             \/ \E p \in Requests : Ends(p) /\ Op(p) = "reset" /\ snap[p].at < resetAt[c.who]]_vars
  <2> SUFFICES ASSUME AdminInv, [Next]_vars, NEW c \in cookies, c.who \in deleted \/ c.ts < resetAt[c.who],
                      CookieAccepted(c)'
               PROVE  \E p \in Requests : Ends(p) /\ Op(p) = "reset" /\ snap[p].at < resetAt[c.who]
    OBVIOUS
  <2> QED
    BY CookieStep
<1> QED
  BY <1>1, Invariant, PTL DEF Spec, RefusedStaysRefused
=============================================================================

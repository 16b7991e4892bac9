---------------------------- MODULE RedeemProofs ----------------------------
(***************************************************************************)
(* Proofs about RedeemCodes, for any codes, users, devices and requests.   *)
(***************************************************************************)
EXTENDS RedeemCodes, FiniteSetTheorems, TLAPS

GrantedTo(c) == {u \in Users : granted[c][u] > 0}

\* Initially no code has granted anything.
LEMMA InitInv == Init => RedeemInv
<1> SUFFICES ASSUME Init PROVE RedeemInv
  OBVIOUS
<1>1. TypeOK
  BY DEF Init, TypeOK, Snapshot, NoSnapshot
<1>2. CodeUses
  <2> SUFFICES ASSUME NEW c \in Codes
               PROVE  /\ used[c] <= MaxUses[c] /\ (lic[c] = "exhausted" <=> used[c] = MaxUses[c])
                      /\ used[c] = Cardinality(GrantedTo(c))
    BY DEF CodeUses, GrantedTo
  <2>1. used[c] = 0 /\ lic[c] # "exhausted"
    BY DEF Init
  <2>2. \A u \in Users : granted[c][u] = 0
    BY DEF Init
  <2>3. GrantedTo(c) = {}
    BY <2>2 DEF GrantedTo
  <2>4. Cardinality(GrantedTo(c)) = 0
    BY <2>3, FS_EmptySet
  <2>5. MaxUses[c] \in Nat \ {0}
    BY MaxUsesAssumption
  <2> QED
    BY <2>1, <2>4, <2>5
<1>3. GrantedOnce /\ RedemptionsKept /\ AbsentUnfunded /\ AbsentUnseen
  BY DEF Init, GrantedOnce, RedemptionsKept, AbsentUnfunded, AbsentUnseen, NoSnapshot
<1> QED
  BY <1>1, <1>2, <1>3 DEF RedeemInv

\* Rows and requests stay well typed when a request begins or ends.
LEMMA ReadTyped ==
  ASSUME TypeOK, NEW p \in Redeemers, NEW r \in Request, RedeemRead(p, r)
  PROVE  TypeOK'
<1>1. [lic |-> lic[r.code], users |-> {u \in Users : account[u] = "active"},
       owners |-> Owners(r.dev), redeemers |-> UsersOf(r.code)] \in Snapshot
  BY DEF TypeOK, Request, Snapshot, Owners, UsersOf
<1> QED
  BY <1>1 DEF RedeemRead, TypeOK, rows

LEMMA FinishTyped ==
  ASSUME TypeOK, NEW p \in Redeemers, Finish(p)
  PROVE  req' \in [Redeemers -> Request \cup {None}] /\ snap' \in [Redeemers -> Snapshot]
<1>1. NoSnapshot \in Snapshot
  BY DEF NoSnapshot, Snapshot
<1> QED
  BY <1>1 DEF Finish, TypeOK

\* The end of a request leaves the other snapshots, of users that do not go absent.
LEMMA FinishSees ==
  ASSUME TypeOK, AbsentUnseen, NEW p \in Redeemers, Finish(p),
         \A v \in Users : account[v] # "absent" => account'[v] # "absent"
  PROVE  AbsentUnseen'
<1> SUFFICES ASSUME NEW q \in Redeemers, NEW v \in (snap')[q].users PROVE account'[v] # "absent"
  BY DEF AbsentUnseen
<1>1. q # p /\ snap'[q] = snap[q]
  BY DEF Finish, TypeOK, NoSnapshot
<1>2. v \in Users
  BY <1>1 DEF TypeOK, Snapshot
<1> QED
  BY <1>1, <1>2 DEF AbsentUnseen

\* So does a step of somebody else.
LEMMA OthersSee ==
  ASSUME TypeOK, AbsentUnseen, UNCHANGED snap,
         \A v \in Users : account[v] # "absent" => account'[v] # "absent"
  PROVE  AbsentUnseen'
<1> SUFFICES ASSUME NEW q \in Redeemers, NEW v \in snap[q].users PROVE account'[v] # "absent"
  BY DEF AbsentUnseen
<1>1. v \in Users
  BY DEF TypeOK, Snapshot
<1> QED
  BY <1>1 DEF AbsentUnseen

\* Steps that leave the codes and what they granted leave the counts.
LEMMA GrantCountsSame ==
  ASSUME CodeUses, GrantedOnce, UNCHANGED <<lic, used, granted>>
  PROVE  CodeUses' /\ GrantedOnce'
  BY DEF CodeUses, GrantedOnce

\* One grant: to a user that exists and has not had one, of a code that has uses left.
LEMMA GrantCounts ==
  ASSUME RedeemInv, NEW c \in Codes, NEW u \in Users, account[u] # "deleted",
         used[c] < MaxUses[c], Grant(c, u)
  PROVE  /\ granted' \in [Codes -> [Users -> Nat]] /\ used' \in [Codes -> Nat]
         /\ lic' \in [Codes -> {"absent", "active", "exhausted"}]
         /\ redeemed' \subseteq Codes \X Users
         /\ CodeUses' /\ GrantedOnce'
<1> USE DEF RedeemInv, UsesThen
<1>1. granted[c][u] = 0
  BY DEF Grant, RedemptionFree, RedemptionsKept, GrantedOnce, TypeOK
<1>2. granted' \in [Codes -> [Users -> Nat]] /\ granted'[c][u] = 1
  BY <1>1 DEF Grant, TypeOK
<1>3. \A d \in Codes, v \in Users : d # c \/ v # u => granted'[d][v] = granted[d][v]
  BY DEF Grant, TypeOK
<1>4. used' \in [Codes -> Nat] /\ used'[c] = used[c] + 1
  BY DEF Grant, TypeOK
<1>5. lic' \in [Codes -> {"absent", "active", "exhausted"}] /\ redeemed' \subseteq Codes \X Users
  BY DEF Grant, TypeOK
<1>6. GrantedOnce'
  BY <1>1, <1>2, <1>3 DEF GrantedOnce
<1>7. CodeUses'
  <2> SUFFICES ASSUME NEW d \in Codes
               PROVE  /\ used'[d] <= MaxUses[d] /\ (lic'[d] = "exhausted" <=> used'[d] = MaxUses[d])
                      /\ used'[d] = Cardinality(GrantedTo(d)')
    BY DEF CodeUses, GrantedTo
  <2>1. IsFiniteSet(GrantedTo(d)) /\ used[d] = Cardinality(GrantedTo(d))
    BY UsersAssumption, FS_Subset DEF CodeUses, GrantedTo
  <2>2. CASE d = c
    <3>1. GrantedTo(c)' = GrantedTo(c) \cup {u} /\ u \notin GrantedTo(c)
      BY <1>1, <1>2, <1>3 DEF GrantedTo
    <3>2. Cardinality(GrantedTo(c)') = used[c] + 1
      BY <2>1, <2>2, <3>1, FS_AddElement
    <3>3. lic'[c] = IF used[c] + 1 >= MaxUses[c] THEN "exhausted" ELSE "active"
      BY DEF Grant, TypeOK
    <3> QED
      BY <1>4, <2>2, <3>2, <3>3, MaxUsesAssumption DEF TypeOK
  <2>3. CASE d # c
    <3>1. GrantedTo(d)' = GrantedTo(d)
      BY <1>3, <2>3 DEF GrantedTo
    <3>2. used'[d] = used[d] /\ lic'[d] = lic[d]
      BY <2>3 DEF Grant, TypeOK
    <3> QED
      BY <2>1, <3>1, <3>2 DEF CodeUses
  <2> QED
    BY <2>2, <2>3
<1> QED
  BY <1>2, <1>4, <1>5, <1>6, <1>7

\* The transaction of a request, for a user that is not deleted and, when new, has
\* been granted nothing.
LEMMA RedeemKeeps ==
  ASSUME RedeemInv, NEW p \in Redeemers, req[p] # None, NEW u \in Users,
         account[u] # "deleted", Redeem(p, u),
         account' \in [Users -> {"absent", "active", "disabled", "deleted"}],
         account'[u] # "absent",
         \A v \in Users \ {u} : account'[v] = account[v]
  PROVE  RedeemInv'
<1> DEFINE c == req[p].code
<1> USE DEF RedeemInv
<1>1. req[p] \in Request /\ c \in Codes /\ req[p].dev \in Devices
  BY DEF TypeOK, Request
<1> AbsentUnseen'
  BY FinishSees DEF Redeem
<1>2. Finish(p) /\ device' \subseteq Devices \X Users
  BY <1>1 DEF Redeem, TypeOK
<1>3. req' \in [Redeemers -> Request \cup {None}] /\ snap' \in [Redeemers -> Snapshot]
  BY <1>2, FinishTyped
<1>4. CASE Grants(p, u)
  <2>1. Grant(c, u) /\ used[c] < MaxUses[c]
    BY <1>1, <1>4, MaxUsesAssumption DEF Redeem, Grants, Exhausted, TypeOK
  <2>2. /\ granted' \in [Codes -> [Users -> Nat]] /\ used' \in [Codes -> Nat]
        /\ lic' \in [Codes -> {"absent", "active", "exhausted"}]
        /\ redeemed' \subseteq Codes \X Users
        /\ CodeUses' /\ GrantedOnce'
    BY <1>1, <2>1, GrantCounts
  <2>3. TypeOK'
    BY <1>2, <1>3, <2>2 DEF TypeOK
  <2>4. \A d \in Codes, v \in Users : d # c \/ v # u => granted'[d][v] = granted[d][v]
    BY <1>1, <2>1 DEF Grant, TypeOK
  <2>5. redeemed' = redeemed \cup {<<c, u>>}
    BY <2>1 DEF Grant
  <2>6. RedemptionsKept'
    BY <2>4, <2>5 DEF RedemptionsKept
  <2>7. AbsentUnfunded'
    BY <2>4 DEF AbsentUnfunded
  <2> QED
    BY <2>2, <2>3, <2>6, <2>7
<1>5. CASE ~Grants(p, u)
  <2>1. UNCHANGED <<lic, used, redeemed, granted>>
    BY <1>5 DEF Redeem
  <2>2. TypeOK'
    BY <1>2, <1>3, <2>1 DEF TypeOK
  <2>3. CodeUses' /\ GrantedOnce'
    BY <2>1 DEF CodeUses, GrantedOnce
  <2>4. RedemptionsKept' /\ AbsentUnfunded'
    BY <2>1 DEF RedemptionsKept, AbsentUnfunded
  <2> QED
    BY <2>2, <2>3, <2>4
<1> QED
  BY <1>4, <1>5

\* RedeemInv is inductive.
LEMMA StepInv == RedeemInv /\ [Next]_vars => RedeemInv'
<1> SUFFICES ASSUME RedeemInv, [Next]_vars PROVE RedeemInv'
  OBVIOUS
<1> USE DEF RedeemInv
<1>1. ASSUME NEW p \in Redeemers, NEW r \in Request, RedeemRead(p, r) PROVE RedeemInv'
  <2>1. TypeOK'
    BY <1>1, ReadTyped
  <2>2. AbsentUnseen'
    BY <1>1 DEF RedeemRead, rows, TypeOK, AbsentUnseen
  <2> QED
    BY <1>1, <2>1, <2>2 DEF RedeemRead, rows, CodeUses, GrantedOnce, RedemptionsKept, AbsentUnfunded
<1>2. ASSUME NEW p \in Redeemers, RedeemExisting(p) PROVE RedeemInv'
  <2> PICK u \in Existing(p) \cap snap[p].users : account[u] # "deleted" /\ Redeem(p, u)
    BY <1>2 DEF RedeemExisting
  <2>1. u \in snap[p].users /\ req[p] # None
    BY <1>2 DEF RedeemExisting
  <2>2. u \in Users /\ account[u] # "absent"
    BY <2>1 DEF TypeOK, Snapshot, AbsentUnseen
  <2> QED
    BY <1>2, <2>1, <2>2, RedeemKeeps DEF RedeemExisting, TypeOK
<1>3. ASSUME NEW p \in Redeemers, RedeemCreating(p) PROVE RedeemInv'
  <2> PICK u \in Users :
        /\ account[u] = "absent"
        /\ account' = [account EXCEPT ![u] = "active"]
        /\ Redeem(p, u)
    BY <1>3 DEF RedeemCreating
  <2>1. /\ account' \in [Users -> {"absent", "active", "disabled", "deleted"}]
        /\ account'[u] # "absent" /\ \A v \in Users \ {u} : account'[v] = account[v]
    BY DEF TypeOK
  <2> QED
    BY <1>3, <2>1, RedeemKeeps DEF RedeemCreating
<1>4. ASSUME NEW p \in Redeemers, RedeemFails(p) PROVE RedeemInv'
  <2>1. TypeOK'
    BY <1>4, FinishTyped DEF RedeemFails, TypeOK, rows
  <2>2. AbsentUnseen'
    BY <1>4, FinishSees DEF RedeemFails, rows
  <2> QED
    BY <1>4, <2>1, <2>2 DEF RedeemFails, rows, CodeUses, GrantedOnce, RedemptionsKept, AbsentUnfunded
<1>5. ASSUME NEW u \in Users, NEW d \in Devices, SignIn(u, d) \/ RevokeDevice(u, d) PROVE RedeemInv'
  <2>1. TypeOK'
    BY <1>5 DEF SignIn, RevokeDevice, TypeOK
  <2>2. \A v \in Users : account[v] # "absent" => account'[v] # "absent"
    BY <1>5 DEF SignIn, RevokeDevice, TypeOK
  <2>3. AbsentUnseen'
    BY <1>5, <2>2, OthersSee DEF SignIn, RevokeDevice
  <2> QED
    BY <1>5, <2>1, <2>3 DEF SignIn, RevokeDevice, TypeOK, CodeUses, GrantedOnce, RedemptionsKept, AbsentUnfunded
<1>6. ASSUME NEW u \in Users, Disable(u) \/ Enable(u) \/ DeleteUser(u) PROVE RedeemInv'
  <2>1. TypeOK'
    BY <1>6 DEF Disable, Enable, DeleteUser, TypeOK
  <2>6. UNCHANGED <<lic, used, granted>>
    BY <1>6 DEF Disable, Enable, DeleteUser
  <2>7. CodeUses' /\ GrantedOnce'
    BY <2>6, GrantCountsSame
  <2>8. /\ \A v \in Users \ {u} : account'[v] = account[v]
        /\ account[u] # "absent" /\ account'[u] # "absent"
    BY <1>6 DEF Disable, Enable, DeleteUser, TypeOK
  <2>2. AbsentUnfunded'
    BY <2>6, <2>8 DEF AbsentUnfunded
  <2>3. RedemptionsKept'
    <3>1. CASE DeleteUser(u)
      <4>1. account'[u] = "deleted"
        BY <3>1 DEF DeleteUser, TypeOK
      <4>2. \A c \in Codes, v \in Users \ {u} : <<c, v>> \in redeemed => <<c, v>> \in redeemed'
        BY <3>1 DEF DeleteUser
      <4> QED
        BY <2>6, <2>8, <4>1, <4>2 DEF RedemptionsKept
    <3>2. CASE Disable(u) \/ Enable(u)
      <4>1. account[u] # "deleted" /\ UNCHANGED redeemed
        BY <3>2 DEF Disable, Enable
      <4> QED
        BY <2>6, <2>8, <4>1 DEF RedemptionsKept
    <3> QED
      BY <1>6, <3>1, <3>2
  <2>4. \A v \in Users : account[v] # "absent" => account'[v] # "absent"
    BY <2>8
  <2>5. AbsentUnseen'
    BY <1>6, <2>4, OthersSee DEF Disable, Enable, DeleteUser
  <2> QED
    BY <2>1, <2>2, <2>3, <2>5, <2>7
<1>7. CASE UNCHANGED vars
  BY <1>7 DEF vars, rows, TypeOK, CodeUses, GrantedOnce, RedemptionsKept, AbsentUnfunded, AbsentUnseen
<1> QED
  BY <1>1, <1>2, <1>3, <1>4, <1>5, <1>6, <1>7 DEF Next, RedeemNext

\* The inductive invariant holds in every reachable state.
THEOREM Invariant == Spec => []RedeemInv
<1> QED
  BY InitInv, StepInv, PTL DEF Spec

\* A code is used at most as often as it may be, whatever redemptions race (redeemCode).
THEOREM UsesBounded == Spec => []CodeUses
<1>1. RedeemInv => CodeUses
  BY DEF RedeemInv
<1> QED
  BY Invariant, <1>1, PTL

\* No user is granted a code twice, stale snapshots included (code_redemptions).
THEOREM OneGrantEach == Spec => []GrantedOnce
<1>1. RedeemInv => GrantedOnce
  BY DEF RedeemInv
<1> QED
  BY Invariant, <1>1, PTL

-----------------------------------------------------------------------------
(* RedeemCodes implements CodeContract.                                    *)

\* What a code has left when it gives away one use.
LEMMA OneLess ==
  ASSUME TypeOK, NEW c \in Codes, UsesThen(c) <= MaxUses[c],
         used' = [used EXCEPT ![c] = UsesThen(c)]
  PROVE  /\ MaxUses[c] - used[c] > 0
         /\ [d \in Codes |-> MaxUses[d] - used'[d]]
              = [[d \in Codes |-> MaxUses[d] - used[d]] EXCEPT ![c] = @ - 1]
<1>1. /\ \A d \in Codes : used[d] \in Nat /\ MaxUses[d] \in Nat
      /\ \A d \in Codes \ {c} : used'[d] = used[d]
      /\ used'[c] = used[c] + 1
  BY MaxUsesAssumption DEF TypeOK, UsesThen
<1>2. MaxUses[c] - used[c] > 0 /\ MaxUses[c] - used'[c] = (MaxUses[c] - used[c]) - 1
  BY <1>1 DEF UsesThen
<1>3. \A d \in Codes \ {c} : MaxUses[d] - used'[d] = MaxUses[d] - used[d]
  BY <1>1
<1> QED
  BY <1>2, <1>3

\* A redemption, for a user that is not erased and stays so, gives one use or nothing.
LEMMA RedeemGives ==
  ASSUME RedeemInv, NEW p \in Redeemers, req[p] # None, NEW u \in Users, Redeem(p, u),
         account[u] # "deleted",
         \A v \in Users : account'[v] = "deleted" <=> account[v] = "deleted"
  PROVE  [Contract!Next]_(Contract!vars)
<1> DEFINE c == req[p].code
<1>1. c \in Codes /\ TypeOK
  BY DEF RedeemInv, TypeOK, Request
<1>2. {v \in Users : account'[v] = "deleted"} = {v \in Users : account[v] = "deleted"}
  OBVIOUS
<1>3. CASE Grants(p, u)
  <2>1. Grant(c, u)
    BY <1>3 DEF Redeem
  <2>2. granted[c][u] = 0
    BY <1>1, <2>1 DEF Grant, RedemptionFree, RedeemInv, RedemptionsKept, TypeOK
  <2>3. granted' = [granted EXCEPT ![c][u] = 1]
    BY <1>1, <2>1, <2>2 DEF Grant, TypeOK
  <2>4. /\ MaxUses[c] - used[c] > 0
        /\ [d \in Codes |-> MaxUses[d] - used'[d]]
             = [[d \in Codes |-> MaxUses[d] - used[d]] EXCEPT ![c] = @ - 1]
    BY <1>1, <2>1, OneLess DEF Grant, UseAllowed
  <2>5. Contract!Give(c, u)
    BY <1>1, <1>2, <2>2, <2>3, <2>4 DEF Contract!Give
  <2> QED
    BY <1>1, <2>5 DEF Contract!Next
<1>4. CASE ~Grants(p, u)
  <2>1. UNCHANGED <<used, granted>>
    BY <1>4 DEF Redeem
  <2> QED
    BY <1>2, <2>1 DEF Contract!vars
<1> QED
  BY <1>3, <1>4

\* Every step is a use given to one user, an erasure, or nothing.
LEMMA ContractStep == RedeemInv /\ [Next]_vars => [Contract!Next]_(Contract!vars)
<1> SUFFICES ASSUME RedeemInv, [Next]_vars PROVE [Contract!Next]_(Contract!vars)
  OBVIOUS
<1>0. TypeOK
  BY DEF RedeemInv
<1>1. ASSUME NEW p \in Redeemers, RedeemExisting(p) PROVE [Contract!Next]_(Contract!vars)
  <2> PICK u \in Existing(p) \cap snap[p].users : account[u] # "deleted" /\ Redeem(p, u)
    BY <1>1 DEF RedeemExisting
  <2>1. u \in Users /\ req[p] # None /\ UNCHANGED account
    BY <1>0, <1>1 DEF RedeemExisting, TypeOK, Snapshot
  <2> QED
    BY <2>1, RedeemGives
<1>2. ASSUME NEW p \in Redeemers, RedeemCreating(p) PROVE [Contract!Next]_(Contract!vars)
  <2> PICK u \in Users :
        /\ account[u] = "absent"
        /\ account' = [account EXCEPT ![u] = "active"]
        /\ Redeem(p, u)
    BY <1>2 DEF RedeemCreating
  <2>1. /\ req[p] # None
        /\ \A v \in Users : account'[v] = "deleted" <=> account[v] = "deleted"
    BY <1>0, <1>2 DEF RedeemCreating, TypeOK
  <2> QED
    BY <2>1, RedeemGives
<1>3. ASSUME NEW u \in Users, DeleteUser(u) PROVE [Contract!Next]_(Contract!vars)
  <2>1. {v \in Users : account'[v] = "deleted"} = {v \in Users : account[v] = "deleted"} \cup {u}
    BY <1>0, <1>3 DEF DeleteUser, TypeOK
  <2>2. account[u] # "deleted" /\ UNCHANGED <<used, granted>>
    BY <1>3 DEF DeleteUser
  <2>3. Contract!Erase(u)
    BY <2>1, <2>2 DEF Contract!Erase
  <2> QED
    BY <2>3 DEF Contract!Next
<1>4. ASSUME UNCHANGED <<used, granted>>,
             \A v \in Users : account'[v] = "deleted" <=> account[v] = "deleted"
      PROVE  [Contract!Next]_(Contract!vars)
  <2>1. {v \in Users : account'[v] = "deleted"} = {v \in Users : account[v] = "deleted"}
    BY <1>4
  <2> QED
    BY <1>4, <2>1 DEF Contract!vars
<1>5. ASSUME NEW p \in Redeemers, RedeemFails(p) \/ \E r \in Request : RedeemRead(p, r)
      PROVE  [Contract!Next]_(Contract!vars)
  BY <1>4, <1>5 DEF RedeemFails, RedeemRead, rows
<1>6. ASSUME NEW u \in Users, Disable(u) \/ Enable(u) PROVE [Contract!Next]_(Contract!vars)
  BY <1>0, <1>4, <1>6 DEF Disable, Enable, TypeOK
<1>7. ASSUME NEW u \in Users, NEW d \in Devices, SignIn(u, d) \/ RevokeDevice(u, d)
      PROVE  [Contract!Next]_(Contract!vars)
  BY <1>0, <1>4, <1>7 DEF SignIn, RevokeDevice, TypeOK
<1>8. CASE UNCHANGED vars
  BY <1>4, <1>8 DEF vars, rows
<1> QED
  BY <1>1, <1>2, <1>3, <1>5, <1>6, <1>7, <1>8 DEF Next, RedeemNext

\* Redemption keeps the contract of a code under every interleaving: a code's uses go to as
\* many users, one each, none of them erased before, and are never given back (redeemCode).
THEOREM CodeRefinement == Spec => ImplementsCodeContract
<1>1. Init => Contract!Init
  <2> SUFFICES ASSUME Init PROVE Contract!Init
    OBVIOUS
  <2>1. MaxUses = [c \in Codes |-> MaxUses[c]] /\ \A c \in Codes : MaxUses[c] \in Nat
    BY MaxUsesAssumption
  <2>2. \A c \in Codes : MaxUses[c] - used[c] = MaxUses[c]
    BY <2>1 DEF Init
  <2>3. [c \in Codes |-> MaxUses[c] - used[c]] = MaxUses
    BY <2>1, <2>2
  <2>4. {u \in Users : account[u] = "deleted"} = {}
    BY DEF Init
  <2> QED
    BY <2>3, <2>4 DEF Init, Contract!Init
<1>2. RedeemInv /\ [Next]_vars => [Contract!Next]_(Contract!vars)
  BY ContractStep
<1> QED
  BY <1>1, <1>2, Invariant, PTL DEF Spec, ImplementsCodeContract, Contract!Spec
=============================================================================

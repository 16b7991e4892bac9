-------------------------- MODULE SubscriptionProofs --------------------------
(***************************************************************************)
(* Proofs about Subscription, for any users, subscriptions and failures.   *)
(***************************************************************************)
EXTENDS Subscription, TLAPS

\* Initially nobody has subscribed and the batch is idle.
LEMMA InitInv == Init => SubscriptionInv
<1> SUFFICES ASSUME Init PROVE SubscriptionInv
  OBVIOUS
<1>1. TypeOK
  BY DEF Init, TypeOK, Status, Tiers
<1>2. PaidTierIsFounded
  BY DEF Init, PaidTierIsFounded
<1>3. SnapshotFounded /\ RenewsOthers /\ BatchExists
  BY DEF Init, SnapshotFounded, RenewsOthers, BatchExists
<1> QED
  BY <1>1, <1>2, <1>3 DEF SubscriptionInv

\* Subscribing, tier changes, deletion and time keep the rows well typed.
LEMMA RequestsTyped ==
  ASSUME TypeOK,
         \/ \E u \in Users : \/ CreateUserSubscription(u) \/ RedeemPeriod(u)
                             \/ SetTierOnly(u) \/ DeleteUser(u)
         \/ \E s \in SubIds : Lapse(s)
  PROVE  TypeOK'
<1> USE DEF TypeOK, Status, Tiers, local
<1>1. CASE \E u \in Users : CreateUserSubscription(u)
  BY <1>1 DEF CreateUserSubscription, Open, SetTier
<1>2. CASE \E u \in Users : RedeemPeriod(u)
  <2> PICK u \in Users : RedeemPeriod(u)
    BY <1>2
  <2> PICK t \in Tiers : SetTier(u, t, FALSE)
    BY DEF RedeemPeriod
  <2> QED
    BY DEF RedeemPeriod, Open, SetTier
<1>3. CASE \E u \in Users : SetTierOnly(u)
  BY <1>3 DEF SetTierOnly, SetTier
<1>4. CASE \E u \in Users : DeleteUser(u)
  BY <1>4 DEF DeleteUser
<1>5. CASE \E s \in SubIds : Lapse(s)
  BY <1>5 DEF Lapse
<1> QED
  BY <1>1, <1>2, <1>3, <1>4, <1>5

\* So does the batch.
LEMMA CronTyped == ASSUME TypeOK, CronNext \/ CronAborts PROVE TypeOK'
<1> USE DEF TypeOK, Status, Tiers, rows
<1>1. CASE CronStart
  BY <1>1 DEF CronStart
<1>2. CASE \E lost \in SUBSET cand : CronExpire(lost)
  BY <1>2 DEF CronExpire
<1>3. CASE \E s \in due : CronRenew(s)
  BY <1>3 DEF CronRenew, CommitFlushed
<1>4. CASE \E s \in due : CronRenewFails(s)
  BY <1>4 DEF CronRenewFails
<1>5. CASE CronEnd
  BY <1>5 DEF CronEnd, CommitFlushed, Idle
<1>6. CASE CronAborts
  BY <1>6 DEF CronAborts, Idle
<1> QED
  BY <1>1, <1>2, <1>3, <1>4, <1>5, <1>6 DEF CronNext

\* A step outside the batch adds foundations: a new subscription or a given tier for
\* the user it pays, and nothing is taken from anybody else.
LEMMA RequestsFounded ==
  ASSUME SubscriptionInv,
         \/ \E u \in Users : \/ CreateUserSubscription(u) \/ RedeemPeriod(u)
                             \/ SetTierOnly(u) \/ DeleteUser(u)
         \/ \E s \in SubIds : Lapse(s)
  PROVE  PaidTierIsFounded' /\ SnapshotFounded' /\ RenewsOthers' /\ BatchExists'
<1> USE NoUserAssumption DEF SubscriptionInv, TypeOK, Tiers
<1>0. UNCHANGED local
  BY DEF CreateUserSubscription, RedeemPeriod, SetTierOnly, DeleteUser, Lapse
<1>1. RenewsOthers'
  BY <1>0 DEF RenewsOthers, local
<1>2. ASSUME NEW u \in Users, NEW s \in SubIds, NEW t \in Tiers, Open(s, u), SetTier(u, t, FALSE),
             UNCHANGED gone
      PROVE  PaidTierIsFounded' /\ SnapshotFounded' /\ BatchExists'
  <2>1. s \in Active(u)' /\ s \notin cand \cup flushed
    BY <1>2 DEF Open, Active, BatchExists
  <2>2. \A v \in Users \ {u} : Active(v) \subseteq Active(v)'
    BY <1>2 DEF Open, Active
  <2>3. \A v \in Users \ {u} : tier'[v] = tier[v] /\ (v \in given <=> v \in given')
    BY <1>2 DEF SetTier
  <2>4. PaidTierIsFounded'
    BY <1>2, <2>1, <2>2, <2>3 DEF PaidTierIsFounded
  <2>5. SnapshotFounded'
    BY <1>0, <1>2, <2>1, <2>2, <2>3 DEF SnapshotFounded, local
  <2>6. BatchExists'
    BY <1>0, <1>2 DEF BatchExists, Open, local
  <2> QED
    BY <2>4, <2>5, <2>6
<1>3. CASE \E u \in Users : CreateUserSubscription(u)
  <2> PICK u \in Users, s \in SubIds : Open(s, u) /\ SetTier(u, "paid", FALSE) /\ UNCHANGED gone
    BY <1>3 DEF CreateUserSubscription
  <2> QED
    BY <1>1, <1>2
<1>4. CASE \E u \in Users : RedeemPeriod(u)
  <2> PICK u \in Users : RedeemPeriod(u)
    BY <1>4
  <2> PICK s \in SubIds, t \in Tiers : Open(s, u) /\ SetTier(u, t, FALSE)
    BY DEF RedeemPeriod
  <2> QED
    BY <1>1, <1>2 DEF RedeemPeriod
<1>5. CASE \E u \in Users : SetTierOnly(u)
  <2> PICK u \in Users : SetTierOnly(u)
    BY <1>5
  <2> PICK t \in Tiers : SetTier(u, t, TRUE)
    BY DEF SetTierOnly
  <2>1. \A v \in Users : Active(v)' = Active(v)
    BY DEF SetTierOnly, Active
  <2>2. \A v \in Users \ {u} : tier'[v] = tier[v] /\ (v \in given <=> v \in given')
    BY DEF SetTier
  <2>3. tier'[u] = "paid" => u \in given'
    BY DEF SetTier
  <2>4. PaidTierIsFounded' /\ SnapshotFounded'
    BY <1>0, <2>1, <2>2, <2>3 DEF SetTierOnly, PaidTierIsFounded, SnapshotFounded, local
  <2> QED
    BY <1>0, <1>1, <2>4 DEF SetTierOnly, BatchExists, local
<1>6. CASE \E u \in Users : DeleteUser(u)
  <2> PICK u \in Users : DeleteUser(u)
    BY <1>6
  <2>1. \A v \in Users \ {u} : Active(v)' = Active(v)
    BY DEF DeleteUser, Active
  <2>2. PaidTierIsFounded' /\ SnapshotFounded'
    BY <1>0, <2>1 DEF DeleteUser, PaidTierIsFounded, SnapshotFounded, local
  <2> QED
    BY <1>0, <1>1, <2>2 DEF DeleteUser, BatchExists, local
<1>7. CASE \E s \in SubIds : Lapse(s)
  <2>1. \A v \in Users : Active(v)' = Active(v)
    BY <1>7 DEF Lapse, Active
  <2> QED
    BY <1>0, <1>1, <1>7, <2>1 DEF Lapse, PaidTierIsFounded, SnapshotFounded, BatchExists, local
<1> QED
  BY <1>3, <1>4, <1>5, <1>6, <1>7

\* The batch takes a tier only from users it has expired, and leaves everybody else a
\* subscription outside what it has flushed.
LEMMA CommitFounded ==
  ASSUME SubscriptionInv, pc # "idle", CommitFlushed, UNCHANGED <<owner, gone>>
  PROVE  PaidTierIsFounded'
<1> SUFFICES ASSUME NEW u \in Users \ gone, tier'[u] = "paid", u \notin given'
             PROVE  Active(u)' # {}
  BY DEF PaidTierIsFounded
<1> USE DEF SubscriptionInv, TypeOK, Tiers
<1>1. u \notin Freed /\ tier[u] = "paid" /\ u \notin given
  BY DEF CommitFlushed
<1>2. \A s \in Active(u) \ flushed : s \in Active(u)'
  BY DEF CommitFlushed, Active
<1>3. CASE seen[u] = "free"
  BY <1>1, <1>2, <1>3 DEF SnapshotFounded
<1>4. CASE seen[u] # "free"
  <2>1. \A s \in flushed : owner[s] # u
    BY <1>1, <1>4 DEF Freed
  <2>2. Active(u) # {}
    BY <1>1 DEF PaidTierIsFounded
  <2> QED
    BY <1>2, <2>1, <2>2 DEF Active
<1> QED
  BY <1>3, <1>4

\* Every step of the batch keeps the foundations.
LEMMA CronFounded ==
  ASSUME SubscriptionInv, CronNext \/ CronAborts
  PROVE  PaidTierIsFounded' /\ SnapshotFounded' /\ RenewsOthers' /\ BatchExists'
<1> USE DEF SubscriptionInv, TypeOK, Tiers, rows
<1>1. CASE CronStart
  <2>1. \A u \in Users : Active(u)' = Active(u)
    BY <1>1 DEF CronStart, Active
  <2>2. flushed' = flushed /\ due' = due /\ seen' = tier
    BY <1>1 DEF CronStart
  <2>3. PaidTierIsFounded' /\ SnapshotFounded'
    BY <1>1, <2>1, <2>2 DEF CronStart, PaidTierIsFounded, SnapshotFounded
  <2> QED
    BY <1>1, <2>2, <2>3 DEF CronStart, RenewsOthers, BatchExists
<1>2. CASE \E lost \in SUBSET cand : CronExpire(lost)
  <2> PICK lost \in SUBSET cand : CronExpire(lost)
    BY <1>2
  <2>1. \A u \in Users : Active(u)' = Active(u)
    BY DEF CronExpire, Active
  <2>2. PaidTierIsFounded'
    BY <2>1 DEF CronExpire, PaidTierIsFounded
  <2>3. ASSUME lost = {} PROVE SnapshotFounded'
    <3>1. cand' \cup flushed' = cand /\ seen' = seen /\ tier' = tier /\ pc # "idle"
      BY <2>3 DEF CronExpire
    <3> QED
      BY <2>1, <3>1 DEF CronExpire, SnapshotFounded
  <2>4. ASSUME lost # {} PROVE SnapshotFounded'
    <3>1. seen' = tier' /\ \A u \in Users : tier'[u] = "paid" => seen'[u] # "free"
      BY <2>4 DEF CronExpire
    <3> QED
      BY <3>1 DEF CronExpire, SnapshotFounded
  <2>5. RenewsOthers' /\ BatchExists'
    BY DEF CronExpire, RenewsOthers, BatchExists
  <2> QED
    BY <2>2, <2>3, <2>4, <2>5
<1>3. CASE \E s \in due : CronRenew(s)
  <2> PICK s \in due : CronRenew(s)
    BY <1>3
  <2>1. pc # "idle" /\ CommitFlushed /\ UNCHANGED <<owner, gone>>
    BY DEF CronRenew
  <2>2. PaidTierIsFounded'
    BY <2>1, CommitFounded
  <2>3. \A u \in Users : Active(u) \ flushed \subseteq Active(u)'
    BY <2>1 DEF CommitFlushed, Active
  <2>4. SnapshotFounded'
    <3> SUFFICES ASSUME NEW u \in Users \ gone, tier'[u] = "paid", seen[u] = "free", u \notin given'
                 PROVE  Active(u)' \ (cand \cup {}) # {}
      BY DEF CronRenew, SnapshotFounded
    <3>1. tier[u] = "paid" /\ u \notin given
      BY <2>1 DEF CommitFlushed, Freed
    <3>2. Active(u) \ (cand \cup flushed) # {}
      BY <2>1, <3>1 DEF SnapshotFounded
    <3> QED
      BY <2>3, <3>2
  <2> QED
    BY <2>2, <2>4 DEF CronRenew, CommitFlushed, RenewsOthers, BatchExists
<1>4. CASE \E s \in due : CronRenewFails(s)
  <2>1. \A u \in Users : Active(u)' = Active(u)
    BY <1>4 DEF CronRenewFails, Active
  <2> QED
    BY <1>4, <2>1 DEF CronRenewFails, PaidTierIsFounded, SnapshotFounded, RenewsOthers, BatchExists
<1>5. CASE CronEnd
  <2>1. PaidTierIsFounded'
    BY <1>5, CommitFounded DEF CronEnd
  <2> QED
    BY <1>5, <2>1 DEF CronEnd, Idle, SnapshotFounded, RenewsOthers, BatchExists
<1>6. CASE CronAborts
  <2>1. \A u \in Users : Active(u)' = Active(u)
    BY <1>6 DEF CronAborts, Active
  <2> QED
    BY <1>6, <2>1 DEF CronAborts, Idle, PaidTierIsFounded, SnapshotFounded, RenewsOthers, BatchExists
<1> QED
  BY <1>1, <1>2, <1>3, <1>4, <1>5, <1>6 DEF CronNext

\* SubscriptionInv is inductive.
LEMMA StepInv == SubscriptionInv /\ [Next]_vars => SubscriptionInv'
<1> SUFFICES ASSUME SubscriptionInv, [Next]_vars PROVE SubscriptionInv'
  OBVIOUS
<1>1. CASE \/ \E u \in Users : \/ CreateUserSubscription(u) \/ RedeemPeriod(u)
                                \/ SetTierOnly(u) \/ DeleteUser(u)
           \/ \E s \in SubIds : Lapse(s)
  BY <1>1, RequestsTyped, RequestsFounded DEF SubscriptionInv
<1>2. CASE CronNext \/ CronAborts
  BY <1>2, CronTyped, CronFounded DEF SubscriptionInv
<1>3. CASE UNCHANGED vars
  BY <1>3 DEF vars, rows, local, SubscriptionInv, TypeOK, PaidTierIsFounded, SnapshotFounded,
              RenewsOthers, BatchExists, Active
<1> QED
  BY <1>1, <1>2, <1>3 DEF Next

\* The inductive invariant holds in every reachable state.
THEOREM Invariant == Spec => []SubscriptionInv
<1> QED
  BY InitInv, StepInv, PTL DEF Spec

\* A paid tier always rests on an active subscription or was given without a period
\* (expireSubscription and everything that sets users.tier).
THEOREM TierFounded == Spec => []PaidTierIsFounded
<1>1. SubscriptionInv => PaidTierIsFounded
  BY DEF SubscriptionInv
<1> QED
  BY Invariant, <1>1, PTL

\* One step neither revives a subscription nor pays a quota to one that ends in it.
LEMMA StepEnds ==
  ASSUME SubscriptionInv, [Next]_vars, NEW s \in SubIds
  PROVE  /\ sub[s] = "expired" => sub'[s] \in {"expired", "deleted"}
         /\ sub'[s] = "expired" => quotas'[s] = quotas[s]
<1> USE DEF SubscriptionInv, TypeOK, rows
<1>1. CASE \E u \in Users : CreateUserSubscription(u)
  BY <1>1 DEF CreateUserSubscription, Open
<1>2. CASE \E u \in Users : RedeemPeriod(u)
  BY <1>2 DEF RedeemPeriod, Open
<1>3. CASE \E u \in Users : SetTierOnly(u) \/ DeleteUser(u)
  BY <1>3 DEF SetTierOnly, DeleteUser
<1>4. CASE \E d \in due : CronRenew(d)
  BY <1>4 DEF CronRenew, CommitFlushed, RenewsOthers
<1>5. CASE CronEnd
  BY <1>5 DEF CronEnd, CommitFlushed
<1>6. CASE \/ CronStart \/ CronAborts \/ \E lost \in SUBSET cand : CronExpire(lost)
           \/ \E d \in due : CronRenewFails(d)
  BY <1>6 DEF CronStart, CronAborts, CronExpire, CronRenewFails
<1>7. CASE (\E x \in SubIds : Lapse(x)) \/ UNCHANGED vars
  BY <1>7 DEF Lapse, vars
<1> QED
  BY <1>1, <1>2, <1>3, <1>4, <1>5, <1>6, <1>7 DEF Next, CronNext

\* A subscription that has ended stays ended and is paid no further quota, though the
\* batch loses part of its work (cron_subscriptions.runOnce).
THEOREM EndIsFinal == Spec => EndedStaysEnded
<1>1. SubscriptionInv /\ [Next]_vars =>
        [\A s \in SubIds :
           /\ sub[s] = "expired" => sub'[s] \in {"expired", "deleted"}
           /\ sub'[s] = "expired" => quotas'[s] = quotas[s]]_vars
  BY StepEnds
<1> QED
  BY Invariant, <1>1, PTL DEF Spec, EndedStaysEnded
===============================================================================

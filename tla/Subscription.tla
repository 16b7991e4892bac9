---------------------------- MODULE Subscription ----------------------------
(***************************************************************************)
(* Subscriptions and the paid tier of their users:                         *)
(* app/services/subscription_service.py, and the batch that ends them,     *)
(* scripts/cron_subscriptions.py, in one process (maintenance_worker.py).  *)
(* Every creation sets next_grant_at = expires_at and so does every        *)
(* renewal, hence one clock, over, says that a period has passed.          *)
(***************************************************************************)
EXTENDS Naturals

CONSTANTS
  Users,
  SubIds,           \* ids of subscriptions rows
  NoUser,
  MaxPeriods        \* bound: periods of one subscription that may pass

ASSUME NoUserAssumption == NoUser \notin Users
ASSUME MaxPeriodsAssumption == MaxPeriods \in Nat

VARIABLES
  owner, sub,       \* per subscription: its user and status
  over,             \* subscriptions past next_grant_at and expires_at
  quotas,           \* monthly quotas paid out, from balance_ledger
  tier,             \* users.tier
  given,            \* users whose paid tier was given without a period
  gone,             \* users hard-deleted by an admin
  pc,               \* the batch: "idle", "expire" or "renew"
  cand,             \* getExpiredCandidates
  seen,             \* users.tier as its transaction sees it
  flushed,          \* subscriptions it has expired and not committed
  due               \* getDueForRenewal, what is left of it

rows == <<owner, sub, over, quotas, tier, given, gone>>
local == <<pc, cand, seen, flushed, due>>
vars == <<rows, local>>

Tiers == {"free", "paid"}
Status == {"none", "active", "expired", "deleted"}

Init ==
  /\ owner = [s \in SubIds |-> NoUser] /\ sub = [s \in SubIds |-> "none"]
  /\ over = {} /\ quotas = [s \in SubIds |-> 0]
  /\ tier = [u \in Users |-> "free"] /\ given = {} /\ gone = {}
  /\ pc = "idle" /\ cand = {} /\ seen = [u \in Users |-> "free"]
  /\ flushed = {} /\ due = {}

Active(u) == {s \in SubIds : owner[s] = u /\ sub[s] = "active"}

\* Users whose tier expireSubscription has set to free.  (Mutant: it forgets to.)
FreedNone == {}
Freed == {u \in Users : seen[u] # "free" /\ \E s \in flushed : owner[s] = u}

-----------------------------------------------------------------------------
(* Subscribing.                                                            *)

Open(s, u) ==
  /\ sub[s] = "none"
  /\ owner' = [owner EXCEPT ![s] = u]
  /\ sub' = [sub EXCEPT ![s] = "active"]
  /\ quotas' = [quotas EXCEPT ![s] = 1]

\* Every writer of users.tier waits for the batch's row lock.
Present(u) == u \notin gone /\ u \notin Freed

SetTier(u, t, isGiven) ==
  /\ tier' = [tier EXCEPT ![u] = t]
  /\ given' = IF t = "free" THEN given \ {u} ELSE IF isGiven THEN given \cup {u} ELSE given

\* createUserSubscription: refused while a subscription is valid, that is active
\* and not over; one the batch has not expired yet does not count.
CreateUserSubscription(u) ==
  /\ Present(u)
  /\ Active(u) \subseteq over
  /\ \E s \in SubIds : Open(s, u)
  /\ SetTier(u, "paid", FALSE)
  /\ UNCHANGED <<over, gone, local>>

\* redeemInviteCode and redeemTrialCode with the tier redeemCode then sets, the
\* code's: whatever subscriptions there are already.
RedeemPeriod(u) ==
  /\ Present(u)
  /\ \E s \in SubIds : Open(s, u)
  /\ \E t \in Tiers : SetTier(u, t, FALSE)
  /\ UNCHANGED <<over, gone, local>>

\* An invite code without days, or updateUser: a tier and no period.
SetTierOnly(u) ==
  /\ Present(u)
  /\ \E t \in Tiers : t # tier[u] /\ SetTier(u, t, TRUE)
  /\ UNCHANGED <<owner, sub, over, quotas, gone, local>>

\* deleteUser deletes the subscriptions with the user.
DeleteUser(u) ==
  /\ Present(u) /\ \A s \in flushed : owner[s] # u
  /\ gone' = gone \cup {u}
  /\ sub' = [s \in SubIds |-> IF owner[s] = u THEN "deleted" ELSE sub[s]]
  /\ UNCHANGED <<owner, over, quotas, tier, given, local>>

-----------------------------------------------------------------------------
(* The batch: one session, whose first part commits only with the second.  *)

Idle == pc' = "idle" /\ cand' = {} /\ flushed' = {} /\ due' = {} /\ seen' = [u \in Users |-> "free"]

\* The commit of what has been expired.
CommitFlushed ==
  /\ sub' = [s \in SubIds |-> IF s \in flushed THEN "expired" ELSE sub[s]]
  /\ tier' = [u \in Users |-> IF u \in Freed THEN "free" ELSE tier[u]]
  /\ given' = given \ Freed

\* (Mutant: looks only at users who still have a paid tier.)
CronStartPaid ==
  /\ pc = "idle"
  /\ cand' = {s \in over : sub[s] = "active" /\ tier[owner[s]] # "free"} /\ cand' # {}
  /\ seen' = tier
  /\ pc' = "expire"
  /\ UNCHANGED <<rows, flushed, due>>

CronStart ==
  /\ pc = "idle"
  /\ cand' = {s \in over : sub[s] = "active"} /\ cand' # {}
  /\ seen' = tier
  /\ pc' = "expire"
  /\ UNCHANGED <<rows, flushed, due>>

\* The loop over the candidates.  An expiry that fails, as that of a deleted row must,
\* rolls the session back, the earlier expiries with it, and the loop goes on: lost
\* are the candidates up to the last failure.  They are active and due again.
\* (Mutant: what is due is read before the loop.)
CronExpireDueFirst(lost) ==
  /\ pc = "expire"
  /\ lost \subseteq cand /\ \A s \in cand \ lost : sub[s] = "active"
  /\ flushed' = cand \ lost
  /\ seen' = IF lost = {} THEN seen ELSE tier
  /\ due' = {s \in cand : sub[s] = "active"}
  /\ pc' = "renew" /\ cand' = {}
  /\ UNCHANGED rows

CronExpire(lost) ==
  /\ pc = "expire"
  /\ lost \subseteq cand /\ \A s \in cand \ lost : sub[s] = "active"
  /\ flushed' = cand \ lost
  /\ seen' = IF lost = {} THEN seen ELSE tier
  /\ due' = {s \in lost : sub[s] = "active"}
  /\ pc' = "renew" /\ cand' = {}
  /\ UNCHANGED rows

\* The next period of a due subscription: the quota, and the expiry moved with it.
CronRenew(s) ==
  /\ pc = "renew" /\ s \in due /\ sub[s] = "active"
  /\ CommitFlushed
  /\ quotas' = [quotas EXCEPT ![s] = @ + 1]
  /\ over' = over \ {s}
  /\ flushed' = {} /\ due' = due \ {s}
  /\ UNCHANGED <<owner, gone, pc, cand, seen>>

\* A grant of nothing or a database error: the rollback takes back whatever is flushed.
CronRenewFails(s) ==
  /\ pc = "renew" /\ s \in due
  /\ flushed' = {} /\ due' = due \ {s}
  /\ UNCHANGED <<rows, pc, cand, seen>>

CronEnd ==
  /\ pc = "renew" /\ due = {}
  /\ CommitFlushed
  /\ Idle
  /\ UNCHANGED <<owner, over, quotas, gone>>

\* The process dies, or refresh() raises for a due subscription deleted meanwhile.
CronAborts ==
  /\ pc # "idle"
  /\ Idle
  /\ UNCHANGED rows

Lapse(s) ==
  /\ sub[s] = "active" /\ s \notin over /\ quotas[s] <= MaxPeriods
  /\ over' = over \cup {s}
  /\ UNCHANGED <<owner, sub, quotas, tier, given, gone, local>>

-----------------------------------------------------------------------------
CronNext ==
  \/ CronStart
  \/ \E lost \in SUBSET cand : CronExpire(lost)
  \/ \E s \in due : CronRenew(s) \/ CronRenewFails(s)
  \/ CronEnd

Next ==
  \/ \E u \in Users : CreateUserSubscription(u) \/ RedeemPeriod(u) \/ SetTierOnly(u) \/ DeleteUser(u)
  \/ CronNext \/ CronAborts
  \/ \E s \in SubIds : Lapse(s)

Spec == Init /\ [][Next]_vars

\* The worker runs the batch again and again, and no subscription meets a failure or
\* a dying process in every run.  Time need not pass.
ExpireIn(s) == \E lost \in SUBSET cand : s \in cand \ lost /\ CronExpire(lost)
CommitIn(s) == s \in flushed /\ (CronEnd \/ \E d \in due : CronRenew(d))
FairSpec ==
  /\ Spec
  /\ WF_vars(CronNext)
  /\ \A s \in SubIds : SF_vars(ExpireIn(s)) /\ SF_vars(CommitIn(s))

-----------------------------------------------------------------------------
(* Properties.                                                             *)

TypeOK ==
  /\ owner \in [SubIds -> Users \cup {NoUser}] /\ sub \in [SubIds -> Status]
  /\ over \subseteq SubIds /\ quotas \in [SubIds -> Nat]
  /\ tier \in [Users -> Tiers] /\ given \subseteq Users /\ gone \subseteq Users
  /\ pc \in {"idle", "expire", "renew"} /\ cand \subseteq SubIds
  /\ seen \in [Users -> Tiers] /\ flushed \subseteq SubIds /\ due \subseteq SubIds

\* Nobody keeps a paid tier once the last subscription has ended, unless it was given
\* without a period (expireSubscription), though the batch writes it from a snapshot
\* and may lose part of its work.
PaidTierIsFounded ==
  \A u \in Users \ gone : tier[u] = "paid" => u \in given \/ Active(u) # {}

\* What makes it inductive: a tier that was free in the batch's snapshot and is paid
\* now rests on something the batch does not end, and it renews only what it has not
\* expired.
SnapshotFounded ==
  pc # "idle" =>
    \A u \in Users \ gone :
      tier[u] = "paid" /\ seen[u] = "free" => u \in given \/ Active(u) \ (cand \cup flushed) # {}
RenewsOthers == flushed \cap due = {}
BatchExists == \A s \in cand \cup flushed : sub[s] # "none"
SubscriptionInv ==
  TypeOK /\ PaidTierIsFounded /\ SnapshotFounded /\ RenewsOthers /\ BatchExists

\* A subscription that ends gets no other quota, then or later, and is never revived,
\* whatever the batch rolls back (cron_subscriptions.runOnce).
EndedStaysEnded ==
  [][\A s \in SubIds :
       /\ sub[s] = "expired" => sub'[s] \in {"expired", "deleted"}
       /\ sub'[s] = "expired" => quotas'[s] = quotas[s]]_vars

\* A subscription whose time is over does not stay active for ever.
LapsedEnds ==
  \A s \in SubIds : sub[s] = "active" /\ s \in over ~> sub[s] # "active" \/ s \notin over
=============================================================================

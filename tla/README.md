# Formal models of Prismatica-API

Prismatica-API is a Flask service over MySQL 8 (InnoDB, REPEATABLE READ) that sells credits to
the users of a desktop corpus tool: accounts and devices, subscriptions and redeem codes,
pre-authorised billing, a paid AI proxy and an administration back end.  This directory holds TLA+
models of its core logic, the TLC runs that check them on small instances and the TLAPS proofs of
what matters most for every size.  Paths below are relative to the repository root.

## 1. The system

| Component | State it keeps | Operations | Talks to |
|---|---|---|---|
| Billing (`app/services/billing_service.py`, `app/routers/billing.py`) | `user_balance` (balance, reserved), `bills`, `balance_ledger`, `idempotency_keys` | estimate, preauth, commit-fixed, commit-metered, settle (token bills), refund, release of expired preauths | Pricing (a quote), AI pipeline and account page (callers), worker |
| Maintenance worker (`scripts/maintenance_worker.py`, `cron_*.py`) | none of its own | every 15..3600 s: release expired preauths, renew and expire subscriptions | Billing, Subscriptions |
| Platform AI (`app/services/platform_ai_service.py`) | a claim in `idempotency_keys`, an open bill, a provider stream | claim, preauth, call, settle or refund, store the answer | Billing, the provider |
| Subscriptions (`app/services/subscription_service.py`, `scripts/cron_subscriptions.py`) | `subscriptions`, `users.tier` | create, grant quota, renew, expire | Billing (grant), codes |
| Codes (`app/services/auth_service.py`, `admin_code_service.py`) | `license_codes`, `code_redemptions`, a licence's devices | issue, redeem, expire | Subscriptions, Billing (grant) |
| Authentication (`identity_auth_service.py`, `token_service.py`, `token_revocation_service.py`, `app/deps.py`) | `users` (failed logins, lock, authVersion), `user_devices`, refresh tokens, revoked jtis | register, login, refresh (rotation), logout, check of every request | all routes |
| Password reset (`password_reset_service.py`) | `password_reset_tokens` | request, confirm, change | Authentication |
| Account page (`account_service.py`) | `users` | /me (releases expired preauths), revoke a device, delete the account | Billing, Authentication |
| Admin: users (`admin_user_service.py`) | `users`, all a user's rows | create, grant credits, tier and status, revoke, reset, delete, one by one or in batches | Billing, Authentication, Audit |
| Admin: accounts and sessions (`admin_account_service.py`, `admin_auth_service.py`, `middleware/admin_session.py`) | `admin_users`, signed cookie | create, enable, disable, role, delete, login | - |
| Pricing (`pricing.py`, `admin_pricing_service.py`, `scripts/migrations`) | versions and rules, one published | draft, publish, migrate, quote, cost from a snapshot | Billing |
| Resource tickets (`resource_service.py`, `security/resource_ticket.py`) | signed expiring tickets, not stored | issue, verify, download | Authentication |
| Audit, exports, metrics, listings | `audit_logs` | append, read | - |
| Shell (config, errors, request id, hashing), migrations, deployment | - | - | - |

What is hard here: several server threads and a worker share rows with **some** row locks; locks are
given up by a commit in the middle of a loop; the ORM keeps objects it has read (`expire_on_commit`
is off and a later `SELECT ... FOR UPDATE` does not refresh them), so decisions are taken on stale
values; clients retry under an idempotency key; preauthorisations expire while they are being
committed; a duplicate idempotency row rolls a whole transaction back silently.  `PROJECT.json`
lists these places with their lines under `hazards`.

What makes each component correct, in one line each:

- *Billing*: reserved credits are exactly the open estimates, each bill is charged or released once,
  one bill per key, the ledger explains every change of the balance, every reservation ends.
- *Platform AI*: one provider call and one charge per key; a failure leaves neither claim nor hold; an
  answer is the one to the question asked.
- *Subscriptions*: one quota per period, the tier agrees with the active subscription.
- *Codes*: a code is redeemed once, by one user.
- *Authentication*: a rotated or revoked token is never accepted again, at most three devices,
  whatever revokes a user stops the tokens issued before it.
- *Password reset*: a reset token works once and ends every older session.
- *Admin users*: what is answered is what was committed, also of a batch that breaks off; a barred user
  has no active device; one erasure per user.
- *Admin accounts*: an active owner remains, nobody's rights move but by an owner's request, a cookie that
  has ended stays refused.
- *Pricing*: there is always a version in force, a bill is held and settled by one version, whatever is
  published meanwhile; a migration keeps the prices it does not set.
- *Resource tickets*: a ticket opens nothing once its account or device is barred.

## 2. The modules

| Module | Role |
|---|---|
| `Billing` | The account of one user: request sessions, the worker, bills, keys, the ledger sums |
| `MCBilling` | Instances for TLC: symmetry, and the documented promises the code breaks |
| `BillingContract` | What the service promises, without processes, keys or time |
| `BillingSerial`, `MCBillingSerial` | `Billing` served one request at a time, and that it implements the contract |
| `KeyedBill`, `BillingKeyed` | What `Billing` keeps of a keyed bill under every interleaving, and that it does |
| `PlatformAi`, `MCPlatformAi` | The AI proxy's requests over bills that behave as `KeyedBill` says |
| `Subscription` | Subscriptions, the paid tier, and the batch that ends and renews |
| `RedeemCodes`, `MCRedeemCodes` | Redemption of codes: accounts, devices, grants, use counts |
| `CodeContract` | What redemption promises of a code, without requests, snapshots or rows |
| `Auth`, `MCAuth` | The sign-ins of one account: login, rotation, passwords, devices, what revokes them |
| `SignInContract` | What an account's sign-ins promise, without tokens, locks or transactions |
| `Accounts` | Admins' and users' changes of several accounts, in batches too, with their audit rows |
| `AccountContract` | What the accounts promise, without requests, batches, steps or columns |
| `Resources`, `MCAccounts` | `Accounts` with the download tickets of a device |
| `Admins`, `MCAdmins` | Administrator accounts, their logins and cookies |
| `Pricing`, `MCPricing` | Price versions, the migrations that publish them, and bills priced by them |
| `BillingProofs`, `PlatformAiProofs`, `SubscriptionProofs`, `RedeemProofs`, `AuthProofs`, `AdminsProofs`, `PricingProofs`, `AccountsProofs` | Theorems |

`PlatformAi` is composed with `Billing` through `KeyedBill`: the one is checked and proved to implement
it, the other to take bills only through its steps, so the pipeline need not carry the whole account.  The
other modules share with `Billing` only the addition of credits, which is its action `GrantQuota`.
`RedeemCodes` and `Auth` both have redemption: the one with the codes and several accounts, the other with the
versions, tokens and locks of one.  `Accounts` has the same functions as `Auth`'s admin actions, but asks
something else: `Auth` what they do to the tokens of one account, `Accounts` what batches over several users
answer and leave behind.  `Resources` is composed with it, because a ticket has nothing but the account to end
it.  A bill of `Pricing` is what `Billing` takes as a quote out of `Costs`: the first has the prices and no
balance, the second the reverse.

### Billing and the code

One user is modelled: every row the service touches carries the user's id and no operation relates
two users (the worker's batch over all users is the same loop over one user's bills).

State: `balance`, `reserved` are the `user_balance` row; `status`, `billKey`, `cost`, `actual` are
columns of `bills` and `origin` is the operation that created the bill; `idem` are the rows of
`idempotency_keys` (operation, key); `lapsed` and `oldKeys` stand for the clock (`preauth_expires_at`
and the 24 h window have passed); `charged`, `held`, `ledgerGranted` are sums over `balance_ledger`;
`pc`, `pins`, `req`, `seen` are what an open session remembers.

| Action | Code |
|---|---|
| `PreauthStart`, `PreauthLookup`, `PreauthReserve`, `PreauthFails` | `preauth`, cut where no lock is held: after the expiry batch, after the key lookup |
| `ReleaseFirst`, `ReleaseNext`, `ReleaseReload`, `ReleaseRefused` | `releaseExpiredPreauths`: its locking SELECT with the first refund, then one refund per step, on the objects it still holds |
| `CommitRead`, `CommitSettle` | `settleFixed`, `settleMetered`, `settleTokens`: the unlocked read, then `settle` under lock on the object read |
| `Refund` | `/billing/refund` and the AI pipeline's refunds (`platform_ai.refund` stands for the streaming name too) |
| `GrantQuota` | `_grantQuotaInternal` (locked) |
| `GrantRead`, `GrantWrite` | the admin's `grantBalance` (not locked) |
| `Lapse`, `KeyAges`, `Crash` | time, and a session that dies: its open transaction is rolled back |

A transaction that locks its rows first and commits at its end is one action.  `pins` is the ORM's
identity map: `"none"` not held, `"unloaded"` expired by a rollback, otherwise the status as it was
read.  `_recordIdempotency` swallows a duplicate by rolling back everything its caller had flushed;
`RefundTxn` and `SettleTxn` have that outcome (`Conflict`), and the refusal by the row constraints of the
migration (`RowAllowed`).  Left out: wording of answers, `version` and `lifetime_*` counters, the
pricing snapshot (a fixed or metered bill costs its quote, a token bill anything up to it), the batch
limit of 500, and `POST /billing/settle`, which always answers with an error.

### BillingContract and BillingSerial

`BillingContract` has four steps: reserve, charge at most the hold, release, grant.  `Billing` does not
implement it (section 4), but `BillingSerial`, the same actions with one request open at a time, does;
every deviation is therefore a race, not an error of one path.

`KeyedBill` is the weaker promise that survives concurrency: the bill of a key is opened once, paid at
most once and in time (though possibly after a refund the commit did not see), and never pending again.

### PlatformAi and the code

State: `claim` is the `platform_ai.request` row of a key with its id, request hash, status, answer and
age; `bill`, `paid`, `lapsed` as in `KeyedBill`; `maker` says whose preauth the `platform_ai.preauth` row
of the key records, `old` that the row is past its 24 hours; `pc`, `job`, `reserved`, `pin`, `seen` are what
a running request remembers, `out`, `ans` how it ended.  `overdue` is history: the keys a claim of which ran
out before it was answered.

| Action | Code |
|---|---|
| `Claim`, `ClaimAnswered`, `ClaimRefused` | `_claimRequest` in its own session, with the handlers around it |
| `PreauthGranted`, `PreauthRefused` | the preauth session: a new bill, the recorded one, or a refusal |
| `ProviderAnswers`, `ProviderFails` | the call; a missing or unverifiable usage is a failure |
| `SettleRead`, `Settled`, `SettleFails` | `settleTokens`: unlocked read, then `settle`'s transaction |
| `Complete` | `_completeRequest`, which writes into whatever row the key has |
| `Refund`, `ReleaseRead`, `ReleaseDelete` | `_refundStreamRequest` or its plain counterpart, `_releaseRequest` (read, then delete by id) |
| `Disconnect`, `Crash` | a stream's client leaves at a yield; the thread dies |
| `ClientRefund`, `ExpireBill`, `LapseBill`, `AgeClaim`, `AgeKey` | the user, the worker, the clock |

A body is split into what the preauth's hash covers (`Sizes`) and what only the claim's covers (`Texts`).
Left out: amounts (they are `Billing`'s), texts, wording.

### Subscription and the code

State: `owner`, `sub`, `quotas` per subscription (`quotas` is the number of its grants in the ledger),
`tier`, `given` (a paid tier set without a period) and `gone` per user, `over` for the clock.  Creation
and renewal set `next_grant_at` and `expires_at` to the same instant, so one flag stands for both.  The
batch is a process: `cand` and `due` are its two lists, `flushed` what it has expired in the open
transaction, `seen` the tiers its snapshot shows.

| Action | Code |
|---|---|
| `CreateUserSubscription` | the admin's `createUserSubscription` with `createSubscription` |
| `RedeemPeriod` | `redeemInviteCode` with days, `redeemTrialCode`, and the tier `redeemCode` sets |
| `SetTierOnly`, `DeleteUser` | an invite code without days or `updateUser`; `deleteUser` |
| `CronStart` | `getExpiredCandidates`, the batch's snapshot |
| `CronExpire(lost)` | the loop of `expireSubscription`; `lost` are the candidates up to its last failure, whose rollback takes the earlier ones back; then `getDueForRenewal` |
| `CronRenew`, `CronRenewFails` | one renewal, whose commit also commits what is flushed, and whose rollback drops it |
| `CronEnd`, `CronAborts` | the session's commit; its exception, or the end of the process |

Left out: which of several subscriptions is shown, the batch limit of 500, `past_due` and `canceled`
(no code writes them), dates other than "over".

### RedeemCodes and the code

State: `account` (`users.status`), `device` (active `user_devices` rows), `lic`, `used` (`license_codes`),
`redeemed` (`code_redemptions`), `granted` (history: what a code has given to whom).  Per request: `req` and
`snap`, the snapshot of its first plain read. InnoDB's REPEATABLE READ makes the difference: a signed code's
row is locked first, so everything is read after the lock; a code in the clear is read before it
(`_decodeRawCode`), and its redemptions, device and user stay as they were then, while the locking read of the
code itself is current (its first row object is garbage by then, so the ORM builds a new one).

| Action | Code |
|---|---|
| `RedeemRead` | `_parseAndVerify` and, for a signed code, `_findLicense(lock=True)` up to the first plain read |
| `RedeemExisting`, `RedeemCreating` | the rest of `redeemCode`, to its commit, for an account that is there or a new one |
| `RedeemFails` | every refusal and error, expired and revoked codes among them |
| `SignIn`, `Disable`, `Enable`, `DeleteUser`, `RevokeDevice` | what else writes the rows redemption reads |

`UseAllowed` and `RedemptionFree` are the constraints of the schema.  Left out: what is granted (a period
is `Subscription`'s, credits are `Billing`'s), the order of several accounts on one device (the model takes
any), the device limit, which redemption does not check.

`CodeContract` is what is left of it without requests and rows: `Give` takes a use for a user who has had none
and is there, `Erase` ends a user and gives nothing back.  A use is `used` taken from `MaxUses`.

### Auth and the code

One account; no operation relates two.  State: `user` is the `users` row (`deleted` for `deleted_at`, `version`
for `auth_version`, `locked` for `locked_until`, which passes), `device` and `tok`, `live` the rows of
`user_devices` and `refresh_tokens`, `reset` those of `password_reset_tokens`.  An access token is never
stored; it is issued with a refresh token and carries its device and version, so `tok` stands for both.
`root` is the first token of a chain of rotations: the sign-in.  `proc` are open transactions with what they
have read.  History: `byCode`, `uses`, `ended`, `barred`, `stale`.

| Action | Code |
|---|---|
| `LoginBegin`, `LoginCommit`, `WrongPassword`, `LockExpires` | `loginUser`: the user's row lock and the device count, then device and tokens; the lockout |
| `RefreshBegin`, `RefreshCommit`, `Logout` | `refreshUserTokens` (the token's row locked, user and device plain reads), `logoutUser` |
| `RequestReset`, `ConfirmRead`, `ConfirmWrite`, `ChangePassword` | `password_reset_service.py` |
| `RevokeDevice`, `DeleteAccount` | `revokeDevice`, `deleteAccount`; the first also the admin's `revokeUserDevice` |
| `UpdateRead`, `UpdateEnable`, `UpdateDisable` | `updateUser` with a status |
| `AdminResetRead`, `AdminResetWrite`, `AdminResetRevoke` | `resetUserPassword`, whose revocation is a transaction of its own |
| `RevokeAllSessions`, `DeleteUser` | the admin's functions of these names |
| `RedeemRead`, `RedeemWrite` | the sign-in part of `redeemCode` |
| `Abort` | any refusal, deadlock or crash of an open transaction |

A transaction that takes its locks first is one action; the others have a step for what they read and one for
what they write.  `UserLocked`, `Held`, `ResetHeld` are the row locks open transactions keep: a writer waits
for them.  Every insert that refers to the user (a device, a token, a jti) waits for the user's row too, and a
rotation needs its device's row, so that revoking a device and rotating exclude each other even where the
admin's function reads the tokens without a lock.  The ORM writes only the columns that differ from what was
read (`NewPassword`, `WithStatus`), and a locking read does not refresh an object that is already held:
`updateUser` therefore computes `authVersion + 1` from its first, unlocked read.  `NewToken` takes the next
token instead of any, since tokens are alike.  Left out: the expiry of tokens by time, the transaction in which
`requireUser` checks the request before its handler's own, e-mail, the text of refusals.

`SignInContract` knows only which sign-ins go on, on which device, and which are over.  A sign-in is the first
token of its series; it goes on while one of the series is live, so that a rotation is no step of the contract
at all, and `over` is what the revocations have ended.

### Accounts, Resources and the code

State: `status`, `deletedAt` are columns of `users` ("absent" before the insert, "erased" after the hard
delete), `device` the users with an active device, `redeeming`, `coded` a redemption under way and the
devices it made active (as in `Auth`, where it has its detail).  `req` are the requests: the users they name,
what their current transaction has read (`seen`), the result per user (`out`), and, as history, which
positions are committed and which have an audit row.

| Action | Code |
|---|---|
| `Ask` | a route's body, for one user or, with `batch`, `batchUsers` |
| `Read`, `NotFound`, `UpdateWrite`, `UpdateMissed`, `WriteLost`, `UpdateNothing`, `EmailTaken` | `updateUser`: the unlocked read, then all it writes with `_revokeUserAuthentication`, or the ways it fails |
| `ResetWrite`, `ResetRevoke`, `ResetMissed` | `resetUserPassword` and the `revokeAllSessions` it calls, two transactions |
| `DeleteUser` | `deleteUser`: its read, the row's lock and the deletion, one transaction |
| `CreateUser`, `Register` | `createUser`, `postRegister` |
| `DeleteAccountBegin`, `DeleteAccount`, `DeleteAccountRefused` | `requireUser` and `deleteAccount` |
| `RevokeSessions`, `RevokeDevice` | the routes of these names |
| `Audit`, `Tally` | `recordAudit` or `auditAction` of one change, and of a whole batch; each may fail and is only logged |
| `Abort` | an exception that is no `ApiError`, a deadlock, a crash: the rest of a batch is not done |
| `SignIn`, `RedeemRead`, `RedeemWrite`, `RedeemFails` | `loginUser`, `redeemCode`, as far as the device goes |
| `Bootstrap`, `Download`, `DownloadEnds`, `Expires`, `Redeploy` | `bootstrapResources`, `downloadResource`, the ticket's TTL, a new configured version |

`updateUser` keeps the object it has read; the lock `_revokeUserAuthentication` takes does not refresh it, and
only columns that differ are written (`Differs`, `DeletedAt`).  Left out: e-mail (but for the refusal it
causes), display name and tier, passwords, the second audit row of a reset, a user's further devices, the
signature and the key of a ticket.

`AccountContract` knows who is there and may sign in, who is signed in, and which changes were made: a user is
created, updated or erased by one change each, made once; the change that closes an account signs its user out;
an erased user is changed by nobody.  Only changes that were made are reported as done or logged.  In
`Accounts` a change is one position of one request, made when it is committed, and reported and logged by what
the request answers and by the audit rows; so a commit that is never answered, or an answer without its
audit row, is allowed, and the reverse is not.  Signed in is who has an active device, unless a redemption alone
made it active (`coded`).

### Admins and the code

State: `role`, `status`, `deleted`, `failed`, `resetAt` are columns of `admin_users`, `cookies` the signed
cookies in circulation, `now` the clock in seconds.  `req` says what a request still has to do (a PATCH may set
the status and then the role, in two transactions), `snap` what its open transaction has read.  No code of this
part locks a row: each transaction decides on its snapshot (`Open`, `LoginRead`, `SeedRead`) and writes the
columns that differ from it over whatever is there (`Written`).

| Action | Code |
|---|---|
| `Admit` | the decorators of `middleware/admin_session.py` and the owner check of `routers/admin_admins.py`, in a session of their own |
| `Open`, `Refused` | the checks of the four services on their snapshot, `_ensureAtLeastOneActiveOwner` among them |
| `SetStatus`, `UpdateRole`, `ResetPassword`, `SoftDelete`, `CreateAdmin` | `setAdminStatus`, `updateAdminRole`, `resetAdminPassword`, `softDeleteAdmin`, `createAdmin` |
| `LoginRead`, `LoginWrong`, `LoginRight` | `loginByPassword`, around its slow password check, and `postLogin`'s cookie |
| `SeedRead`, `SeedRoot` | `seed_admin`, beside servers that already run |

Left out: passwords (and with them `changePassword`, which writes nothing else and ends no session), the age
limit of cookies, audit rows, listings.

### Pricing and the code

State: versions `1..made` with `status`, `at` (`published_at`) and `rules`; `column`, `applied`, `migration`
are what the deployment has done and is doing; `publish` are `publishPricingVersion`s that have locked their
target and not yet the version in force; `bill` is what a preauth sees, then holds, then pays.

| Action | Code |
|---|---|
| `CreatePricingDraft` | `createPricingDraft` with `_validateRule` (`Valid`, `Normalised`) |
| `PublishStart`, `Publish`, `PublishFails` | `publishPricingVersion`: the time and the lock on its target; then everything else |
| `MigrationStart`, `MigrationCommit`, `MigrationStops`, `MigrationDown` | the three pricing migrations: DDL and the source read first, the rest one transaction; the rollback of the last |
| `QuoteOpen`, `Preauth` | `quote` in the preauth's REPEATABLE READ view: the version at its first read, the rule at its second |
| `Settle` | `settleFixed`, `settleMetered`, `settleTokens`, as far as the amount goes |

`Charge`, `Limit`, `Cost` are `costFromSnapshot`; `Expected` is the reference they are checked against.  Left
out: names, modes that need no price, balances and states of bills (`Billing`'s), the rollback of the first two
migrations.

## 3. Runs

| Run | Shows |
|---|---|
| `race` | The invariants that survive every interleaving: one bill per key; a keyed bill charged once; a batch never still to release a charged bill; holds backed by pending bills; statuses only move forward; the ledger explains every change of the balance but a grant's that raced; `KeyedBill` |
| `batch` | The inductive invariant, type correctness with it, with the rollback inside a batch (`ReleaseReload`, `ReleaseRefused`), and that every reservation ends |
| `serial` | The contract, exact holds, and that no write that was reported is rolled back |
| `ai` | No answer without its charge, no answer to another body than the request's but where section 4 says so, no hold left by a failure, bills taken only through `KeyedBill`'s steps |
| `subs` | Paid tiers are founded, ended subscriptions stay ended, lapsed ones end |
| `codes` | A code grants within its uses and counts every grant; `CodeContract`: once to a user who is still there, and no use comes back |
| `auth` | A sign-in has one live token, `SignInContract`: one goes on until it is signed out, alone, with its device or with all others, and never after; a reset token works once, logins keep to the limit, a barred access token stays barred; the inductive invariant |
| `accounts` | What a batch or a request answers and audits is what it committed, wherever it breaks off; a user is erased once; `AccountContract`: every commit is one change of a user, made once, that signs out whom it bars, and nobody erased is changed; `status` and `deleted_at` part only by a stale update; a ticket ends with its sign-in; the inductive invariant |
| `admins` | The last owner goes only by a race or failed logins; rights move only by a request for them (or the seed); a cookie that has ended stays refused |
| `pricing` | A version is always in force; a bill names, holds and pays what one version asks, against a reference of the cost; only a rollback revives a version; migrations keep what they do not set |
| `closed_bill`, `ai_in_progress` | Violations, section 4 |

Bounds.  *Billing*: two sessions and the worker are enough for every pair of racing requests and for a race
with the worker; two bills for one bill's release to eat another's hold, three in `batch` for a batch that
goes on after a rollback; one key shared by two requests (a second key in `batch` and `serial`); costs 1 and
2, so that lifting the wrong amount shows; `Opening` covers some but not all preauths, so INSUFFICIENT_BALANCE
happens; `MaxGranted` bounds the grants, bill ids the preauths.  *PlatformAi*: three requests on one key are
one in progress, one that disturbs it and one that profits; `Sizes` has two members so that a recorded preauth
may not fit, and so that an answer may not; of the exceptions of `AnswersFit` they reach the expired claim,
while the released one takes a fourth request; `AgingKeys` are the keys for which time passes (none in the
violation run: it needs no expiry).  *Subscription*: two users and two subscriptions, so that a rollback takes
another user's expiry back and a user may have two; `MaxPeriods` bounds the renewals.  *RedeemCodes*: two
requests, users and devices, an invite code with two uses and a recharge code.  *Auth*: two open transactions
are every pair of races, and whole transactions run between their steps; two devices for a limit of one; three
tokens are two sign-ins (`TwoSignIns`) and a rotation, or a sign-in rotated twice; one failed login locks;
`MaxVersion` 1 bounds the revocations that raise `authVersion`, and still lets two of them write the same
version.  *Accounts*: two requests on two users, each request run once; a batch of two may name one user
twice.  The constraint `Bound` of `MCAccounts` keeps one of the two requests from being a batch, and shows
redemptions and tickets beside requests for one user only, since a batch is a series of the same transactions;
one ticket, two configured versions.  *Admins*: two requests on two accounts (the last owner needs no third),
two failed logins to a lock, two seconds, one cookie per account, and one PATCH of two changes (`MCPairs`).
*Pricing*: two publishers, four versions (three migrations and a draft, or two drafts), two instants so that
publications may share one, one bill, since bills do not touch one another; rule lists with each mode, a
disabled feature, a maximum of none and one that is refused, with small thousands and millions, and amounts
below, at and over the quote.  Model values are interchangeable (symmetry) except in the runs with liveness.

Deadlock is checked except where the instance really stops: every AI request has run, or every user is
deleted (`subs`, `auth`), every request has run (`accounts`), nobody is left to log in (`admins`), or versions
and bills are used up (`pricing`).

Fairness.  `Billing!FairSpec`: weak fairness of the worker's step, because `maintenance_worker.py` runs the
batch for ever at a fixed interval and catches every exception, and of the passing of time for a bill.
Nothing is assumed of the clients: they may never commit or refund.  Crashes are neither fair nor limited.
`Subscription!FairSpec`: weak fairness of the batch's steps for the same reason, and strong fairness, per
subscription, of its expiry succeeding and being committed: a subscription for which every run fails, or
always dies before the commit, does stay active, and the code does not prevent it.  Time need not pass.

## 4. Where the code departs from what it says

Two are runs TLC finds violated; the quotes are in `PROJECT.json` under `findings`.

1. `closed_bill`: a commit or an expiry batch that has read "pending" charges, refunds or releases a bill
   that another transaction has closed since.  With more time TLC finds each of the four forms: two commits
   charge a bill without key twice, a refunded bill is charged, a settled and now lapsed one refunded, one
   hold released twice.  `KeyedBillChargedOnce` shows that the unique row of `idempotency_keys` contains the
   first for bills with a client key.
2. `ai_in_progress`: a stream refused with CONFLICT releases the claim of the request in progress, and a
   third request calls the provider beside it.  (They cannot be charged twice: `ai`.)

Others are exceptions a property has to name; what it says is that there is nothing else.

- `AnswersFit`: `_completeRequest` stores an answer in whatever row the key has
  (`app/services/platform_ai_service.py:128`).  If the claim ran out after 15 minutes, or a stream with the key
  failed and released it, the row may be that of a request with another body, and a third request with that
  body is then given an answer that is not its own.
- `LedgerMoves`: the admin's grant reads the balance without a lock
  (`app/services/admin_user_service.py:361`) and overwrites a charge that commits in between, whose ledger row
  stays.  The balance is then off by just that charge.
- `BarredStaysBarred`: `updateUser` may write an `authVersion` older than the row's (`stale`): the bump of
  another revocation is lost, and an access token that was to end may be accepted again.
- `LoginsKeepLimit`: `redeemCode` makes a device active without counting.
- `ImplementsAccounts`, `NoDeviceBarred`: a redemption may sign a device in behind a change of status
  (`coded`).
- `PartedByRace`: an update that goes by an old row leaves an active user with a `deleted_at`, who cannot sign
  in, or a deleted one without; so does `createUser` with the status "deleted".
- `OnlyRacesEmpty`: `_ensureAtLeastOneActiveOwner` counts without a lock, so two owners may demote each other;
  and failed logins lock the last owner (`app/services/admin_auth_service.py:52`).
- `RightsMoveByRequest`: `seed_admin` makes a root that was demoted an owner again, each time it runs.
- `RefusedStaysRefused`: a reset takes its time before its slow hash, and one that commits late sets
  `pwd_reset_at` back, so that cookies another one ended are accepted again.
- `OnlyRollbackRevives`: rolling the last pricing migration back publishes the version retired last even if an
  owner's version is in force, and leaves two "published"; quotes take the later one.
- `CarriedOver`: a migration reads its source before its transaction; what an owner publishes in between is
  retired and its prices are not taken over.

And some are seen in the models without a property: a retry after a failed AI call is granted the recorded
preauth of the refunded bill and calls the provider without a reservation (its answer is lost: settling is
refused); an expiry that fails rolls back the earlier ones of its batch, which are then due and get another
quota and period; a batch with `update_status` and no status answers success for every user and changes
nothing; nothing deletes the accounts that `deleteAccount` marks; a device that signs in again while an earlier
ticket lives makes that ticket good again.

## 5. Proofs

Assumptions are the named ones of each module; no sizes are bounded, except that `BillIds` and `Users` are
finite where something is counted.  None of the properties is inductive alone.

`BillingProofs`: `AccountInv` is inductive.

- `OneBillPerKey` needs that an unused bill id has no key (`FreshBills`) and that every idempotency row
  belongs to some bill's key (`KeyRowsHaveBills`): the unique column of `bills` then blocks a second bill.
- `KeyedBillChargedOnce` says that the charges of a keyed bill are those of its one `billing.settle` row.
  A commit on a stale object would add to them, but its row exists, so it is rolled back.
- `BatchNeverHoldsPaidBill` needs that a batch only holds lapsed bills (`BatchLapsed`), which `settle` refuses
  to charge, and that it only holds existing ones (`PinsExist`).

`TypeCorrect` (no credit column is ever negative), `PreauthIdempotent`, `KeyedChargeOnce`, `BatchSafe` follow;
`StatusForward` is the action property from the same invariant.  `HoldsBacked` is proved by counting: the held
credits of the pending bills are a finite set of (bill, unit) pairs whose cardinality changes by a bill's cost
when the bill enters or leaves "pending"; `reserved` loses at least as much, because the cut-off at zero is
harmless. `LedgerExplains` counts the charged credits the same way, step by step.

`KeyedRefinement` needs, besides, that only existing bills lapse and that a keyed bill is settled together
with its row (`KeyInv`); its mapping chooses the bill of a key, and `KeyView` says what it shows without the
choice, because there is one.  For `BillingSerial` the argument is that a request served alone finds what it
remembers still so (`AloneInv`): the bill it pinned is pending, the balance it read is the balance.  Then no
hold is lifted twice, the cut-off is never reached, and `HoldsAreExact` is the count of `HoldsAreBacked` with
equality; no closing row is there for a pending bill and every hold is covered (`MoneyInv`), so that no write
is refused (`WritesHold`), and each step is one of the contract's or none (`ContractRefinement`).

`PlatformAiProofs`: `RequestInv` is inductive.  `AnswersArePaid` needs that a request about to complete has
passed `Settled`, and that paid bills stay over (`PaidIsOver`); `FailedHoldsNothing` follows the paths of
failure (`Phases`): what a request has read of its bill is not contradicted by a pending one later
(`PinsMoveOn`), and from the refund on nothing is pending (`ReleasedHoldsNothing`), whatever other requests
with the key do, because a key's bill is opened once.  `TakesBillsAsPromised` needs that settled bills are
paid ones (`SettledArePaid`), so that a late settlement changes nothing: with `KeyedRefinement` the composition
of the pipeline with the account is proved on both sides.  `AnswersFitBodies` has an inductive invariant of its
own, `FitInv`: as long as nothing has disturbed its key, a request from its claim to its end has the key's row
as its own, open and in time (`HoldersOwn`), so that nobody else claims the key and its answer goes into the
row with its body; who deletes a row deletes its own (`DeletersOwn`), and a row keeps the body and fits the
answer of the request that made it (`RowsFit`).  That a stream releases only what ends in an error
(`StreamsFail`) makes each foreign release one that the property names.

`SubscriptionProofs`: `SubscriptionInv` is inductive.  The batch frees a user by what its snapshot showed, so
`PaidTierIsFounded` needs `SnapshotFounded` (a tier that has become paid since rests on a subscription the
batch does not end), `RenewsOthers` (the batch never renews what it has flushed) and `BatchExists`.
`EndedStaysEnded` is the action property from the same invariant.

`RedeemProofs`: `RedeemInv` is inductive.  `CodeUses` counts: a grant adds one to a finite set of users,
because the redemption row of an earlier grant is still there unless the user is deleted (`RedemptionsKept`),
a deleted user is granted nothing, and an account created by the redemption had been granted nothing
(`AbsentUnfunded`); `AbsentUnseen` keeps the two kinds of user apart.  `CodeRefinement` shows that each step
is one of `CodeContract`'s or none: the unique row stands for a grant as long as the user is there, whatever
the snapshot showed, and the count read under the lock leaves a use to give.

`AuthProofs`: `AuthInv` is inductive.  `OneLivePerSignIn` and `SignedOutStaysOut` need that a refresh holds a
live token (`RefreshHolds`) which nobody else holds or revokes (`LocksExclude`), and that the root of a new
sign-in is not one that has ended (`NewSignIns`); `SignInRefinement` needs also that a sign-in has a live
token until it is ended (`NoneLost`), so that what a revocation ends is just what was going on: one, a
device's, or all; `ResetOnce` that an open token has set no password (`NewResets`) and the same exclusion;
`LoginsKeepLimit` that there is still room when a login commits (`LoginHolds`), by counting.
`BarredStaysBarred` needs `VersionsGrow`: no version a transaction has read is newer than the row's, and the
tokens of a barred sign-in carry an older one, so that neither an enabled account nor a device signed in again
makes one acceptable.

`AdminsProofs`: `AdminInv` is inductive: besides the types it says that an open transaction that takes an
owner away has seen another active one (`OpenIsAllowed`).  `EmptiedByRaces` follows: if what it saw still holds
when it writes, that other owner remains.  `RightsByRequest` and `RefusedCookies` go through the actions with
`Written`: what a login or an unlock writes differs from what it read only in `failed` or towards "active".

`PricingProofs`: `PricingInv` is inductive.  That there is always a version in force needs the order of
migrations (`InitialFirst`), that what a migration made still stands (`AppliedStands`, which the rollback
takes away for its own version only), and that what is being published is a draft of one request
(`OneRequestEach`), so that publishing never retires what it publishes.  `BillsNameTheirPrice`, a part of
`PaidAsQuoted`, needs that a preauth sees the rules of the version it noted (`BillsSee`), and that the rules
of a made version never change. `RevivedByRollback` goes through the actions from the same invariant.
`MigrationCarriesOver` needs that what a migration has read is still in force or has been retired
(`SourceInv`): a publish retires it, and a rollback waits for the lock.

`BillsPaidAsQuoted` proves the arithmetic for every rule and every amount.  Rounding up gives the least number
of units that covers an amount (`CeilLeast`), so a charge is what the reference `Expected` asks; for tokens it
grows with its amounts (`CostTokens`), so that what is used within the quote is paid within the hold.
`QuoteInv` carries this through the steps: the rules of every version are sound, that is, sizes are positive
and limits in order (`RulesSound`), and a bill that is held or settled has the cost its rule asks.
Assumed are `RulesAssumption`, that the rules that come with the code (`BUILTIN_RULES`) and those of the
migrations are sound and that owners send whole numbers, and `AmountsAssumption`, that amounts are natural
numbers.  That a draft is sound is proved from `_validateRule`, and the rules of a migrated version are sound
because its source and what it sets are.

`AccountsProofs`: `AccountsInv` is inductive, request by request and account by account.  `BatchesTell` needs
how far a request is (`InStep`: nothing is committed for the current user before its last step) and what it has
found (`Known`: a user it read or changed was there, so one who is missing was erased); both stay true whatever
the others do, because the accounts only go on (`Forward`).  That a user is erased once needs that DELETE reads
the row again under its lock, and that all committed erasures are of users who are still erased.
`NobodyBarredKeepsADevice` and `PartOnlyByRace` come of one lemma per kind of change (`OneRow`).
`TicketsEndWithSignIns` needs that whoever is no longer active is signed out in the same step (`Closed`), and
then that the user of an ended ticket has no device (`TicketInv`); `AccountsGoOn` says that `Resources` steps
are steps of `Accounts` or leave it alone.

`AccountRefinement` takes the steps apart twice: by what they do to the requests (`ServeMakes`: a position more
is committed, its first commit; `AuditReports`: one committed position more has an audit row or an answer; or
nothing) and to the accounts (`CommitSteps`, `ServeSteps`).  A commit that creates, updates or erases is the
contract's step for that user; a new password of a user who was erased meanwhile is `UpdateNobody`; a
revocation or a sign-in alone is `SignOut` or `SignIn`.  It needs from `AccountsInv` that nothing is committed
before the current step (`InStep`), so that a change is made once, that who was read is there or erased
(`Known`), so that no change is made of a user who is not there yet, and `BatchTells`, so that what is answered
or logged was made.  `NoneAssumption`, that the model value of "no request" is not a request, is all it assumes.

The inductive invariants of `PlatformAi`, `Subscription` and `RedeemCodes` have no run: each only adds to the
properties the runs check what the proofs need, type correctness first.  Add `RequestInv`, `SubscriptionInv` or
`RedeemInv` to the `.cfg` to check them on the instances too; likewise `FitInv`, and `QuoteInv`
with a module that extends `MCPricing` and `PricingProofs`.

Only model-checked: liveness (`PendingEnds`, `LapsedEnds`), which these provers do not reach.  Every other
property of the passing runs is a theorem.

## 6. Not modelled, and what is left

Not modelled: issuing and exporting codes, listings, exports and metrics (inserts and reads on which nothing
else depends), the display name, the proxy for the official corpus token (no state), configuration, hashing,
error texts, schema-only migrations, repair and deployment scripts.

Left:

- One composition of `RedeemCodes` with `Billing` and `Subscription`, which now share grants by name only.

The pricing catalogue has no abstract specification of its own: what one would say, a version in force, a bill
held and paid by one version, is already `PricingInv`, `PaidAsQuoted` and `OnlyRollbackRevives`.

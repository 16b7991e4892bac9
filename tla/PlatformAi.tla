----------------------------- MODULE PlatformAi -----------------------------
(***************************************************************************)
(* The paid AI proxy, app/services/platform_ai_service.py: one user's      *)
(* requests, plain or streamed, from the claim of their idempotency key    *)
(* over preauth, provider call and settlement to the stored answer.  Each  *)
(* step that opens a database session of its own is an action.  Bills are  *)
(* as KeyedBill promises; amounts are left out.                            *)
(***************************************************************************)
EXTENDS FiniteSets

CONSTANTS
  Requests,         \* requests clients send; each runs once
  Keys,             \* their Idempotency-Key values
  Sizes,            \* feature and token bounds: what the preauth's hash covers
  Texts,            \* the rest of the body, which only the claim's hash covers
  NoRow,            \* no row for a key
  AgingKeys         \* bound: the keys for which time passes

VARIABLES
  claim,               \* idempotency_keys rows of platform_ai.request
  bill, paid, lapsed,  \* the key's bill, as in KeyedBill
  maker,               \* the request whose preauth the key's platform_ai.preauth row records
  old,                 \* keys for which that row is past its 24 h
  overdue,             \* history: keys a claim of which expired before its request ended
  pc, job,             \* per request: where it is; its key, body and mode
  reserved,            \* it holds a PreauthResponse
  pin,                 \* bill status settleTokens has read
  seen,                \* the row _releaseRequest has read
  out, ans             \* how it ended, and the request whose answer it returned

bills == <<bill, paid, maker>>
clock == <<lapsed, old, overdue>>
local == <<pc, job, reserved, pin, seen, out, ans>>
vars == <<claim, bills, clock, local>>

Body == Sizes \X Texts
Row == [id : Requests, body : Body, st : {"open", "done"}, ans : Requests, aged : BOOLEAN]
ASSUME NoRowAssumption == NoRow \notin Row \cup Requests

Job == [key : Keys, body : Body, mode : {"plain", "stream"}]
Key(r) == job[r].key
Streams(r) == job[r].mode = "stream"

Init ==
  /\ claim = [k \in Keys |-> NoRow]
  /\ bill = [k \in Keys |-> "none"] /\ paid = {} /\ lapsed = {} /\ old = {} /\ overdue = {}
  /\ maker = [k \in Keys |-> NoRow]
  /\ pc = [r \in Requests |-> "claim"]
  /\ job \in [Requests -> Job]
  /\ reserved = [r \in Requests |-> FALSE]
  /\ pin = [r \in Requests |-> "none"]
  /\ seen = [r \in Requests |-> r]
  /\ out = [r \in Requests |-> "none"]
  /\ ans = [r \in Requests |-> r]

-----------------------------------------------------------------------------
Goto(r, l) == pc' = [pc EXCEPT ![r] = l]
End(r, o) == Goto(r, "end") /\ out' = [out EXCEPT ![r] = o]
Step(r, l) == Goto(r, l) /\ UNCHANGED out

\* The handlers of runPlatformChatStream, while the request is not settled: refund
\* what was reserved, then release the claim.  (Mutant: the refund is forgotten.)
AbandonUnrefunded(r, o) == Goto(r, "release") /\ out' = [out EXCEPT ![r] = o]
Abandon(r, o) ==
  /\ Goto(r, IF reserved[r] THEN "refund" ELSE "release")
  /\ out' = [out EXCEPT ![r] = o]

-----------------------------------------------------------------------------
(* The claim of the key.                                                   *)

LiveRow(k) == claim[k] # NoRow /\ ~claim[k].aged

\* No row, or an expired one, which is replaced.
Claim(r) ==
  /\ pc[r] = "claim"
  /\ ~LiveRow(Key(r))
  /\ claim' = [claim EXCEPT ![Key(r)] =
                 [id |-> r, body |-> job[r].body, st |-> "open", ans |-> r, aged |-> FALSE]]
  /\ Step(r, "preauth")
  /\ UNCHANGED <<bills, clock, job, reserved, pin, seen, ans>>

\* The stored answer of the same request; a stream's client may leave while it is sent.
\* (Mutant: of whatever request.)
ClaimAnsweredAny(r) ==
  /\ pc[r] = "claim" /\ LiveRow(Key(r)) /\ claim[Key(r)].st = "done"
  /\ \/ End(r, "answer") /\ ans' = [ans EXCEPT ![r] = claim[Key(r)].ans]
     \/ Streams(r) /\ Abandon(r, "gone") /\ UNCHANGED ans
  /\ UNCHANGED <<claim, bills, clock, job, reserved, pin, seen>>

ClaimAnswered(r) ==
  /\ pc[r] = "claim" /\ LiveRow(Key(r))
  /\ claim[Key(r)].body = job[r].body /\ claim[Key(r)].st = "done"
  /\ \/ End(r, "answer") /\ ans' = [ans EXCEPT ![r] = claim[Key(r)].ans]
     \/ Streams(r) /\ Abandon(r, "gone") /\ UNCHANGED ans
  /\ UNCHANGED <<claim, bills, clock, job, reserved, pin, seen>>

\* IDEMPOTENCY_CONFLICT for another body, CONFLICT for one in progress (also the
\* loser of two simultaneous inserts).  A stream abandons what it never had.
ClaimRefused(r) ==
  /\ pc[r] = "claim" /\ LiveRow(Key(r))
  /\ claim[Key(r)].body # job[r].body \/ claim[Key(r)].st = "open"
  /\ IF Streams(r) THEN Abandon(r, "error") ELSE End(r, "error")
  /\ UNCHANGED <<claim, bills, clock, job, reserved, pin, seen, ans>>

-----------------------------------------------------------------------------
(* preauth, the provider, settleTokens.                                    *)

\* preauth first releases what has expired.
NothingExpired == \A k \in Keys : bill[k] = "pending" => k \notin lapsed

\* The key's preauth row was recorded for the same feature and bounds.
SameSize(r) == maker[Key(r)] # NoRow /\ job[maker[Key(r)]].body[1] = job[r].body[1]

\* A fresh bill, or the one recorded for the same key and bounds, whatever became
\* of it since.
PreauthGranted(r) ==
  /\ pc[r] = "preauth" /\ NothingExpired
  /\ \/ /\ bill[Key(r)] = "none"
        /\ bill' = [bill EXCEPT ![Key(r)] = "pending"]
        /\ maker' = [maker EXCEPT ![Key(r)] = r]
     \/ /\ SameSize(r) /\ Key(r) \notin old
        /\ UNCHANGED <<bill, maker>>
  /\ reserved' = [reserved EXCEPT ![r] = TRUE]
  /\ Step(r, "provider")
  /\ UNCHANGED <<claim, paid, clock, job, pin, seen, ans>>

\* INSUFFICIENT_BALANCE or a key used for another bill; IDEMPOTENCY_CONFLICT for
\* other bounds; the unique key of an old bill.  A stream releases its claim, and
\* its outer handler releases again.
PreauthRefused(r) ==
  /\ pc[r] = "preauth" /\ NothingExpired
  /\ \/ bill[Key(r)] = "none"
     \/ Key(r) \in old
     \/ ~SameSize(r)
  /\ Goto(r, IF Streams(r) THEN "release twice" ELSE "release")
  /\ out' = [out EXCEPT ![r] = "error"]
  /\ UNCHANGED <<claim, bills, clock, job, reserved, pin, seen, ans>>

\* A text with a verifiable token usage, or not.
ProviderAnswers(r) ==
  /\ pc[r] = "provider"
  /\ Step(r, "settle")
  /\ UNCHANGED <<claim, bills, clock, job, reserved, pin, seen, ans>>

ProviderFails(r) ==
  /\ pc[r] = "provider"
  /\ Abandon(r, "error")
  /\ UNCHANGED <<claim, bills, clock, job, reserved, pin, seen, ans>>

\* settleTokens reads the bill without a lock ...
SettleRead(r) ==
  /\ pc[r] = "settle"
  /\ pin' = [pin EXCEPT ![r] = bill[Key(r)]]
  /\ Step(r, "write")
  /\ UNCHANGED <<claim, bills, clock, job, reserved, seen, ans>>

\* ... and settles on what it read.  A bill settled in between is charged once, by
\* its billing.settle row, and the second caller is told it succeeded.
\* (Mutant: without the check of preauth_expires_at.)
SettledLate(r) ==
  /\ pc[r] = "write" /\ pin[r] = "pending"
  /\ bill' = [bill EXCEPT ![Key(r)] = "settled"] /\ paid' = paid \cup {Key(r)}
  /\ Step(r, "complete")
  /\ pin' = [pin EXCEPT ![r] = "none"]
  /\ UNCHANGED <<claim, maker, clock, job, reserved, seen, ans>>

Settled(r) ==
  /\ pc[r] = "write" /\ pin[r] = "pending" /\ Key(r) \notin lapsed
  /\ IF Key(r) \in paid
     THEN UNCHANGED <<bill, paid>>
     ELSE bill' = [bill EXCEPT ![Key(r)] = "settled"] /\ paid' = paid \cup {Key(r)}
  /\ Step(r, "complete")
  /\ pin' = [pin EXCEPT ![r] = "none"]
  /\ UNCHANGED <<claim, maker, clock, job, reserved, seen, ans>>

\* BILL_ALREADY_SETTLED, BILL_NOT_PENDING, an expired bill, which is refunded; or the
\* balance no longer covers a bill refunded in between.  The plain route does not
\* handle it.  (Mutant: an expired bill is refunded, but settle does not raise.)
SettleFailsUnraised(r) ==
  /\ pc[r] = "write"
  /\ IF pin[r] = "pending" /\ Key(r) \in lapsed
     THEN bill' = [bill EXCEPT ![Key(r)] = "refunded"] /\ Step(r, "complete")
     ELSE /\ pin[r] # "pending" /\ UNCHANGED bill
          /\ IF Streams(r) THEN Abandon(r, "error") ELSE End(r, "error")
  /\ pin' = [pin EXCEPT ![r] = "none"]
  /\ UNCHANGED <<claim, paid, maker, clock, job, reserved, seen, ans>>

SettleFails(r) ==
  /\ pc[r] = "write"
  /\ \/ pin[r] # "pending" /\ UNCHANGED bill
     \/ pin[r] = "pending" /\ Key(r) \in lapsed /\ bill' = [bill EXCEPT ![Key(r)] = "refunded"]
     \/ pin[r] = "pending" /\ bill[Key(r)] = "refunded" /\ UNCHANGED bill
  /\ IF Streams(r) THEN Abandon(r, "error") ELSE End(r, "error")
  /\ pin' = [pin EXCEPT ![r] = "none"]
  /\ UNCHANGED <<claim, paid, maker, clock, job, reserved, seen, ans>>

\* _completeRequest stores the answer in the row of the key, whoever owns it.  With
\* no row the plain route fails; the stream delivers its answer all the same.
Complete(r) ==
  /\ pc[r] = "complete"
  /\ IF claim[Key(r)] = NoRow
     THEN /\ UNCHANGED claim
          /\ End(r, IF Streams(r) THEN "answer" ELSE "error")
     ELSE /\ claim' = [claim EXCEPT ![Key(r)].st = "done", ![Key(r)].ans = r,
                                    ![Key(r)].aged = FALSE]
          /\ End(r, "answer")
  /\ UNCHANGED <<bills, clock, job, reserved, pin, seen, ans>>

-----------------------------------------------------------------------------
(* Failure: refund the bill, release the claim.                            *)

\* A bill that is not pending raises, which is logged (stream) or not (plain);
\* the claim is released either way.
Refund(r) ==
  /\ pc[r] = "refund"
  /\ bill' = IF bill[Key(r)] = "pending" THEN [bill EXCEPT ![Key(r)] = "refunded"] ELSE bill
  /\ Step(r, "release")
  /\ UNCHANGED <<claim, paid, maker, clock, job, reserved, pin, seen, ans>>

AfterRelease(r) == IF pc[r] \in {"release twice", "delete twice"} THEN "release" ELSE "end"

\* _releaseRequest reads the row of the key without a lock, anybody's ...
ReleaseRead(r) ==
  /\ pc[r] \in {"release", "release twice"}
  /\ IF claim[Key(r)] # NoRow /\ claim[Key(r)].st = "open"
     THEN /\ seen' = [seen EXCEPT ![r] = claim[Key(r)].id]
          /\ Step(r, IF pc[r] = "release" THEN "delete" ELSE "delete twice")
     ELSE /\ UNCHANGED seen
          /\ Step(r, AfterRelease(r))
  /\ UNCHANGED <<claim, bills, clock, job, reserved, pin, ans>>

\* ... and deletes it by its id, whatever it holds by then.
ReleaseDelete(r) ==
  /\ pc[r] \in {"delete", "delete twice"}
  /\ claim' = IF claim[Key(r)] # NoRow /\ claim[Key(r)].id = seen[r]
              THEN [claim EXCEPT ![Key(r)] = NoRow] ELSE claim
  /\ Step(r, AfterRelease(r))
  /\ seen' = [seen EXCEPT ![r] = r]
  /\ UNCHANGED <<bills, clock, job, reserved, pin, ans>>

\* A stream's client leaves at one of its yields before the settlement.
Disconnect(r) ==
  /\ Streams(r) /\ pc[r] \in {"claim", "preauth", "provider", "settle"}
  /\ Abandon(r, "gone")
  /\ UNCHANGED <<claim, bills, clock, job, reserved, pin, seen, ans>>

\* The server thread dies, or raises what the plain route does not catch.
Crash(r) ==
  /\ pc[r] # "end"
  /\ End(r, "lost")
  /\ pin' = [pin EXCEPT ![r] = "none"] /\ seen' = [seen EXCEPT ![r] = r]
  /\ UNCHANGED <<claim, bills, clock, job, reserved, ans>>

-----------------------------------------------------------------------------
(* The user, the worker and the clock.                                     *)

\* POST /billing/refund, with the bill's id.
ClientRefund(k) ==
  /\ bill[k] = "pending"
  /\ bill' = [bill EXCEPT ![k] = "refunded"]
  /\ UNCHANGED <<claim, paid, maker, clock, local>>

ExpireBill(k) ==
  /\ bill[k] = "pending" /\ k \in lapsed
  /\ bill' = [bill EXCEPT ![k] = "refunded"]
  /\ UNCHANGED <<claim, paid, maker, clock, local>>

\* Both expire after 15 minutes, the claim a bill was opened under before the bill.
LapseBill(k) ==
  /\ k \in AgingKeys /\ k \notin lapsed /\ bill[k] # "none"
  /\ claim[k] # NoRow /\ claim[k].st = "open" /\ claim[k].id = maker[k] => claim[k].aged
  /\ lapsed' = lapsed \cup {k}
  /\ UNCHANGED <<claim, bills, old, overdue, local>>

\* An answer is kept 24 hours, longer than the preauth row of its bill.
AgeClaim(k) ==
  /\ k \in AgingKeys /\ LiveRow(k)
  /\ claim[k].st = "done" => k \in old
  /\ claim' = [claim EXCEPT ![k].aged = TRUE]
  /\ overdue' = IF claim[k].st = "open" THEN overdue \cup {k} ELSE overdue
  /\ UNCHANGED <<bills, lapsed, old, local>>

AgeKey(k) ==
  /\ k \in lapsed /\ k \notin old
  /\ old' = old \cup {k}
  /\ UNCHANGED <<claim, bills, lapsed, overdue, local>>

-----------------------------------------------------------------------------
RequestNext(r) ==
  \/ Claim(r) \/ ClaimAnswered(r) \/ ClaimRefused(r)
  \/ PreauthGranted(r) \/ PreauthRefused(r)
  \/ ProviderAnswers(r) \/ ProviderFails(r)
  \/ SettleRead(r) \/ Settled(r) \/ SettleFails(r) \/ Complete(r)
  \/ Refund(r) \/ ReleaseRead(r) \/ ReleaseDelete(r)

Next ==
  \/ \E r \in Requests : RequestNext(r) \/ Disconnect(r) \/ Crash(r)
  \/ \E k \in Keys : ClientRefund(k) \/ ExpireBill(k) \/ LapseBill(k) \/ AgeClaim(k) \/ AgeKey(k)

Spec == Init /\ [][Next]_vars

-----------------------------------------------------------------------------
(* Properties.                                                             *)

Status == {"none", "pending", "settled", "refunded"}
Labels == {"claim", "preauth", "provider", "settle", "write", "complete", "refund",
           "release", "release twice", "delete", "delete twice", "end"}

\* Rows, bills and the requests' locals are well typed.
TypeOK ==
  /\ claim \in [Keys -> Row \cup {NoRow}]
  /\ bill \in [Keys -> Status] /\ paid \subseteq Keys /\ lapsed \subseteq Keys /\ old \subseteq Keys
  /\ overdue \subseteq Keys
  /\ maker \in [Keys -> Requests \cup {NoRow}]
  /\ pc \in [Requests -> Labels] /\ job \in [Requests -> Job]
  /\ reserved \in [Requests -> BOOLEAN] /\ pin \in [Requests -> Status]
  /\ seen \in [Requests -> Requests] /\ ans \in [Requests -> Requests]
  /\ out \in [Requests -> {"none", "answer", "error", "gone", "lost"}]

\* No answer for free: whatever a request is answered, from the provider or from the
\* stored row, the bill of its key was charged (runPlatformChat, runPlatformChatStream).
AnswersArePaid ==
  /\ \A r \in Requests : out[r] = "answer" \/ pc[r] = "complete" => Key(r) \in paid
  /\ \A k \in Keys : claim[k] # NoRow /\ claim[k].st = "done" => k \in paid

\* A request that ends in an error, or whose client left, after it had reserved
\* leaves no pending bill, on every path of both routes.
FailedHoldsNothing ==
  \A r \in Requests :
    reserved[r] /\ pc[r] = "end" /\ out[r] \in {"error", "gone"} => bill[Key(r)] # "pending"

\* A request is answered as its own body asked, from the provider or from the row of its
\* key, unless a claim of the key ran out or a stream with the key failed and released: then
\* the row may be another request's when _completeRequest stores an answer in it.
Released(q) == Streams(q) /\ pc[q] = "end" /\ out[q] \in {"error", "gone"}
Disturbed(k) == k \in overdue \/ \E q \in Requests : Key(q) = k /\ Released(q)
AnswersFit ==
  \A r \in Requests : out[r] = "answer" => job[ans[r]].body = job[r].body \/ Disturbed(Key(r))

\* What makes AnswersFit inductive: who has the key's row as its own, and what it holds.
Holding(r) ==
  \/ pc[r] \in {"preauth", "provider", "settle", "write", "complete", "release twice", "delete twice"}
  \/ ~Streams(r) /\ pc[r] \in {"refund", "release", "delete"}
Owns(r) ==
  LET row == claim[Key(r)] IN row # NoRow /\ row.id = r /\ row.st = "open" /\ ~row.aged
HoldersOwn ==
  \A r \in Requests : Holding(r) => Disturbed(Key(r)) \/ Owns(r)
DeletersOwn ==
  \A r \in Requests :
    Holding(r) /\ pc[r] \in {"delete", "delete twice"} => Disturbed(Key(r)) \/ seen[r] = r
RowsFit ==
  \A k \in Keys :
    claim[k] # NoRow =>
      /\ claim[k].body = job[claim[k].id].body
      /\ claim[k].st = "done" => Disturbed(k) \/ job[claim[k].ans].body = claim[k].body
StreamsFail ==
  \A r \in Requests :
    Streams(r) /\ pc[r] \in {"refund", "release", "release twice", "delete", "delete twice"}
      => out[r] \in {"error", "gone"}
StreamsTwice == \A r \in Requests : pc[r] \in {"release twice", "delete twice"} => Streams(r)
OwnAnswers == \A r \in Requests : pc[r] # "end" => ans[r] = r
FitInv == AnswersFit /\ HoldersOwn /\ DeletersOwn /\ RowsFit /\ StreamsFail /\ StreamsTwice /\ OwnAnswers

\* What makes the others inductive.
Phases ==
  \A r \in Requests :
    /\ pc[r] \in {"claim", "preauth"} => ~reserved[r]
    /\ pc[r] \in {"provider", "settle", "write", "complete", "refund"} => reserved[r]
    /\ pc[r] = "write" => pin[r] # "none"
BillsExist == \A r \in Requests : reserved[r] => bill[Key(r)] # "none"
PinsExist == \A r \in Requests : pin[r] # "none" => bill[Key(r)] # "none"
PinsMoveOn == \A r \in Requests : pin[r] \in {"settled", "refunded"} => bill[Key(r)] # "pending"
ReleasedHoldsNothing ==
  \A r \in Requests :
    reserved[r] /\ pc[r] \in {"release", "release twice", "delete", "delete twice"}
      => bill[Key(r)] # "pending"
MakersHaveBills == \A k \in Keys : maker[k] # NoRow => bill[k] # "none"
PaidIsOver == \A k \in paid : bill[k] \in {"settled", "refunded"}
RequestInv ==
  /\ TypeOK /\ AnswersArePaid /\ FailedHoldsNothing
  /\ Phases /\ BillsExist /\ PinsExist /\ PinsMoveOn /\ ReleasedHoldsNothing
  /\ MakersHaveBills /\ PaidIsOver

\* The pipeline takes a bill through no step that Billing does not show to its callers
\* (Billing implements the same KeyedBill).
Keyed == INSTANCE KeyedBill
UsesBillsAsPromised == Keyed!Spec
=============================================================================

--------------------------- MODULE PlatformAiProofs ---------------------------
(***************************************************************************)
(* Proofs about PlatformAi, for every set of requests, keys and bodies.    *)
(***************************************************************************)
EXTENDS PlatformAi, TLAPS

LEMMA InitInv == Init => RequestInv
<1> SUFFICES ASSUME Init PROVE RequestInv
  OBVIOUS
<1>1. TypeOK
  BY DEF Init, TypeOK, Status, Labels
<1> QED
  BY <1>1, NoRowAssumption DEF Init, RequestInv, AnswersArePaid, FailedHoldsNothing, Phases, BillsExist,
     PinsExist, PinsMoveOn, ReleasedHoldsNothing, MakersHaveBills, PaidIsOver

\* What a step of request r may do to the control variables.
LEMMA EndType ==
  ASSUME TypeOK, NEW r \in Requests, NEW o \in {"none", "answer", "error", "gone", "lost"}, End(r, o)
  PROVE  pc' \in [Requests -> Labels] /\ out' \in [Requests -> {"none", "answer", "error", "gone", "lost"}]
  BY DEF TypeOK, End, Goto, Labels

LEMMA StepType ==
  ASSUME TypeOK, NEW r \in Requests, NEW l \in Labels, Step(r, l)
  PROVE  pc' \in [Requests -> Labels] /\ out' \in [Requests -> {"none", "answer", "error", "gone", "lost"}]
  BY DEF TypeOK, Step, Goto

LEMMA AbandonType ==
  ASSUME TypeOK, NEW r \in Requests, NEW o \in {"none", "answer", "error", "gone", "lost"}, Abandon(r, o)
  PROVE  pc' \in [Requests -> Labels] /\ out' \in [Requests -> {"none", "answer", "error", "gone", "lost"}]
  BY DEF TypeOK, Abandon, Goto, Labels

LEMMA RowFields ==
  ASSUME TypeOK, NEW k \in Keys, claim[k] # NoRow
  PROVE  /\ claim[k] \in Row /\ claim[k].id \in Requests /\ claim[k].ans \in Requests
  BY DEF TypeOK, Row

LEMMA KeyType == TypeOK => \A r \in Requests : Key(r) \in Keys /\ job[r].body \in Body
  BY DEF TypeOK, Key, Job

\* The row a claim makes.
NewRow(r) == [id |-> r, body |-> job[r].body, st |-> "open", ans |-> r, aged |-> FALSE]

LEMMA NewRowFields ==
  ASSUME NEW r \in Requests, job[r].body \in Body
  PROVE  /\ NewRow(r) \in Row /\ NewRow(r) # NoRow
         /\ NewRow(r).id = r /\ NewRow(r).st = "open" /\ ~NewRow(r).aged
<1>1. NewRow(r) \in Row
  BY DEF NewRow, Row
<1> QED BY <1>1, NoRowAssumption DEF NewRow

\* A granted preauth opens the bill of its key or leaves the bills as they are.
LEMMA GrantedBill ==
  ASSUME NEW r \in Requests, PreauthGranted(r)
  PROVE  \/ /\ bill' = [bill EXCEPT ![Key(r)] = "pending"] /\ bill[Key(r)] = "none"
            /\ maker' = [maker EXCEPT ![Key(r)] = r]
         \/ bill' = bill /\ maker' = maker /\ maker[Key(r)] # NoRow
  BY DEF PreauthGranted, SameSize

-----------------------------------------------------------------------------
(* Type correctness.                                                       *)

LEMMA RequestType ==
  ASSUME TypeOK, NEW r \in Requests, RequestNext(r) \/ Disconnect(r) \/ Crash(r)
  PROVE  TypeOK'
<1> USE KeyType
<1>1. CASE Claim(r)
  <2>1. NewRow(r) \in Row
    BY NewRowFields
  <2>2. claim' \in [Keys -> Row \cup {NoRow}]
    BY <1>1, <2>1 DEF Claim, TypeOK, NewRow
  <2> QED BY <1>1, <2>2, StepType DEF Claim, Labels, TypeOK, bills, clock
<1>2. CASE ClaimAnswered(r)
  <2>1. ans' \in [Requests -> Requests]
    BY <1>2, RowFields DEF ClaimAnswered, LiveRow, TypeOK
  <2> QED BY <1>2, <2>1, EndType, AbandonType DEF ClaimAnswered, TypeOK, bills, clock
<1>3. CASE ClaimRefused(r)
  BY <1>3, EndType, AbandonType DEF ClaimRefused, TypeOK, bills, clock
<1>4. CASE PreauthGranted(r)
  <2>1. bill' \in [Keys -> Status] /\ maker' \in [Keys -> Requests \cup {NoRow}]
    BY <1>4, GrantedBill DEF TypeOK, Status
  <2> QED BY <1>4, <2>1, StepType DEF PreauthGranted, Labels, TypeOK, clock
<1>5. CASE PreauthRefused(r)
  BY <1>5 DEF PreauthRefused, Goto, Labels, TypeOK, bills, clock
<1>6. CASE ProviderAnswers(r)
  BY <1>6, StepType DEF ProviderAnswers, Labels, TypeOK, bills, clock
<1>7. CASE ProviderFails(r)
  BY <1>7, AbandonType DEF ProviderFails, TypeOK, bills, clock
<1>8. CASE SettleRead(r)
  BY <1>8, StepType DEF SettleRead, Labels, TypeOK, bills, clock
<1>9. CASE Settled(r)
  <2>1. bill' \in [Keys -> Status] /\ paid' \subseteq Keys
    BY <1>9 DEF Settled, TypeOK, Status
  <2>2. pin' \in [Requests -> Status]
    BY <1>9 DEF Settled, TypeOK, Status
  <2> QED BY <1>9, <2>1, <2>2, StepType DEF Settled, Labels, TypeOK, clock
<1>10. CASE SettleFails(r)
  <2>1. bill' \in [Keys -> Status] /\ pin' \in [Requests -> Status]
    BY <1>10 DEF SettleFails, TypeOK, Status
  <2> QED BY <1>10, <2>1, EndType, AbandonType DEF SettleFails, TypeOK, clock
<1>11. CASE Complete(r)
  <2>1. claim' \in [Keys -> Row \cup {NoRow}]
    BY <1>11, RowFields DEF Complete, TypeOK, Row
  <2> QED BY <1>11, <2>1, EndType DEF Complete, TypeOK, bills, clock
<1>12. CASE Refund(r)
  <2>1. bill' \in [Keys -> Status]
    BY <1>12 DEF Refund, TypeOK, Status
  <2> QED BY <1>12, <2>1, StepType DEF Refund, Labels, TypeOK, clock
<1>13. CASE ReleaseRead(r)
  <2>1. seen' \in [Requests -> Requests]
    BY <1>13, RowFields DEF ReleaseRead, TypeOK
  <2>2. UNCHANGED <<claim, bills, clock, job, reserved, pin, ans>> /\ \E l \in Labels : Step(r, l)
    BY <1>13 DEF ReleaseRead, AfterRelease, Labels
  <2> QED BY <2>1, <2>2, StepType DEF TypeOK, bills, clock
<1>14. CASE ReleaseDelete(r)
  <2>1. claim' \in [Keys -> Row \cup {NoRow}] /\ seen' \in [Requests -> Requests]
    BY <1>14 DEF ReleaseDelete, TypeOK
  <2> QED BY <1>14, <2>1, StepType DEF ReleaseDelete, AfterRelease, Labels, TypeOK, bills, clock
<1>15. CASE Disconnect(r)
  BY <1>15, AbandonType DEF Disconnect, TypeOK, bills, clock
<1>16. CASE Crash(r)
  <2>1. pin' \in [Requests -> Status] /\ seen' \in [Requests -> Requests]
    BY <1>16 DEF Crash, TypeOK, Status
  <2> QED BY <1>16, <2>1, EndType DEF Crash, TypeOK, bills, clock
<1> QED
  BY <1>1, <1>2, <1>3, <1>4, <1>5, <1>6, <1>7, <1>8, <1>9, <1>10, <1>11, <1>12, <1>13, <1>14,
     <1>15, <1>16 DEF RequestNext

LEMMA OutsideType ==
  ASSUME TypeOK, NEW k \in Keys,
         ClientRefund(k) \/ ExpireBill(k) \/ LapseBill(k) \/ AgeClaim(k) \/ AgeKey(k)
  PROVE  TypeOK'
<1>1. CASE ClientRefund(k) \/ ExpireBill(k)
  BY <1>1 DEF ClientRefund, ExpireBill, TypeOK, Status, clock, local
<1>2. CASE LapseBill(k) \/ AgeKey(k)
  BY <1>2 DEF LapseBill, AgeKey, TypeOK, bills, local
<1>3. CASE AgeClaim(k)
  <2>1. claim[k] \in Row
    BY <1>3, RowFields DEF AgeClaim, LiveRow
  <2>2. [claim[k] EXCEPT !.aged = TRUE] \in Row
    BY <2>1 DEF Row
  <2>3. claim' = [claim EXCEPT ![k] = [claim[k] EXCEPT !.aged = TRUE]]
    BY <1>3 DEF AgeClaim
  <2>4. claim' \in [Keys -> Row \cup {NoRow}]
    BY <2>2, <2>3 DEF TypeOK
  <2> QED BY <1>3, <2>4 DEF AgeClaim, TypeOK, bills, clock, local
<1> QED BY <1>1, <1>2, <1>3

\* Every row and every request stays well typed.
THEOREM TypeCorrect == Spec => []TypeOK
<1>1. Init => TypeOK
  BY InitInv DEF RequestInv
<1>2. TypeOK /\ [Next]_vars => TypeOK'
  <2>1. ASSUME TypeOK, UNCHANGED vars PROVE TypeOK'
    BY <2>1 DEF TypeOK, vars, bills, clock, local
  <2> QED BY <2>1, RequestType, OutsideType DEF Next
<1> QED BY <1>1, <1>2, PTL DEF Spec

-----------------------------------------------------------------------------
(* The invariant.                                                          *)

\* How a bill moves: opened once, never pending again; a charge stays.
BillForward ==
  /\ \A k \in Keys : /\ bill[k] # "none" => bill'[k] # "none"
                     /\ bill[k] \in {"settled", "refunded"} => bill'[k] \in {"settled", "refunded"}
  /\ paid \subseteq paid'

LEMMA NextBillForward ==
  ASSUME TypeOK, Next
  PROVE  BillForward /\ job' = job
<1> USE KeyType
<1>1. ASSUME NEW r \in Requests, PreauthGranted(r) PROVE BillForward /\ job' = job
  BY <1>1 DEF PreauthGranted, BillForward, TypeOK
<1>2. ASSUME NEW r \in Requests, Settled(r) PROVE BillForward /\ job' = job
  BY <1>2 DEF Settled, BillForward, TypeOK
<1>3. ASSUME NEW r \in Requests, SettleFails(r) PROVE BillForward /\ job' = job
  BY <1>3 DEF SettleFails, BillForward, TypeOK
<1>4. ASSUME NEW r \in Requests, Refund(r) PROVE BillForward /\ job' = job
  BY <1>4 DEF Refund, BillForward, TypeOK
<1>5. ASSUME NEW k \in Keys, ClientRefund(k) \/ ExpireBill(k) PROVE BillForward /\ job' = job
  BY <1>5 DEF ClientRefund, ExpireBill, BillForward, TypeOK, local
<1>6. ASSUME UNCHANGED <<bill, paid, job>> PROVE BillForward /\ job' = job
  BY <1>6 DEF BillForward
<1>7. ASSUME NEW r \in Requests, RequestNext(r) \/ Disconnect(r) \/ Crash(r)
      PROVE  BillForward /\ job' = job
  BY <1>1, <1>2, <1>3, <1>4, <1>6, <1>7
  DEF RequestNext, Claim, ClaimAnswered, ClaimRefused, PreauthRefused, ProviderAnswers,
      ProviderFails, SettleRead, Complete, ReleaseRead, ReleaseDelete, Disconnect, Crash, bills
<1>8. ASSUME NEW k \in Keys, LapseBill(k) \/ AgeClaim(k) \/ AgeKey(k)
      PROVE  BillForward /\ job' = job
  BY <1>6, <1>8 DEF LapseBill, AgeClaim, AgeKey, bills, local
<1> QED
  BY <1>5, <1>7, <1>8 DEF Next

\* What the invariant says of one request.
OneRequest(r) ==
  /\ pc[r] \in {"claim", "preauth"} => ~reserved[r]
  /\ pc[r] \in {"provider", "settle", "write", "complete", "refund"} => reserved[r]
  /\ pc[r] = "write" => pin[r] # "none"
  /\ out[r] = "answer" \/ pc[r] = "complete" => Key(r) \in paid
  /\ reserved[r] /\ pc[r] = "end" /\ out[r] \in {"error", "gone"} => bill[Key(r)] # "pending"
  /\ reserved[r] => bill[Key(r)] # "none"
  /\ pin[r] # "none" => bill[Key(r)] # "none"
  /\ pin[r] \in {"settled", "refunded"} => bill[Key(r)] # "pending"
  /\ reserved[r] /\ pc[r] \in {"release", "release twice", "delete", "delete twice"}
       => bill[Key(r)] # "pending"

LEMMA RequestInvSplit ==
  RequestInv <=> /\ TypeOK /\ \A r \in Requests : OneRequest(r)
                 /\ \A k \in Keys : claim[k] # NoRow /\ claim[k].st = "done" => k \in paid
                 /\ MakersHaveBills /\ PaidIsOver
  BY DEF RequestInv, OneRequest, AnswersArePaid, FailedHoldsNothing, Phases, BillsExist, PinsExist,
         PinsMoveOn, ReleasedHoldsNothing

\* A request that does not move keeps it: bills only move forward.
LEMMA OthersKeep ==
  ASSUME TypeOK, TypeOK', NEW q \in Requests, OneRequest(q), BillForward, job' = job,
         pc'[q] = pc[q], reserved'[q] = reserved[q], pin'[q] = pin[q], out'[q] = out[q]
  PROVE  OneRequest(q)'
<1>1. Key(q)' = Key(q) /\ Key(q) \in Keys
  BY KeyType DEF Key
<1>2. bill[Key(q)] \in Status /\ bill'[Key(q)] \in Status
  BY <1>1 DEF TypeOK
<1> QED BY <1>1, <1>2 DEF OneRequest, BillForward, Status

LEMMA CrashStep ==
  ASSUME TypeOK, NEW r \in Requests, Crash(r)
  PROVE  /\ pc'[r] = "end" /\ out'[r] = "lost" /\ pin'[r] = "none"
         /\ UNCHANGED <<bill, paid, reserved>>
<1>1. pc'[r] = "end" /\ out'[r] = "lost"
  BY DEF Crash, End, Goto, TypeOK
<1>2. pin'[r] = "none"
  BY DEF Crash, TypeOK
<1> QED BY <1>1, <1>2 DEF Crash, bills

LEMMA MoverKeeps ==
  ASSUME RequestInv, TypeOK', NEW r \in Requests, RequestNext(r) \/ Disconnect(r) \/ Crash(r),
         BillForward, job' = job
  PROVE  OneRequest(r)'
<1>0. Key(r)' = Key(r) /\ Key(r) \in Keys
  BY KeyType DEF Key, RequestInv
<1>1. bill[Key(r)] \in Status /\ bill'[Key(r)] \in Status /\ pin[r] \in Status
  BY <1>0 DEF TypeOK, RequestInv
<1>2. OneRequest(r) /\ TypeOK
  BY RequestInvSplit
<1>3. Key(r) \in paid => bill[Key(r)] \in {"settled", "refunded"}
  BY DEF RequestInv, PaidIsOver
<1>4. /\ pc[r] \in {"claim", "preauth"} => ~reserved[r]
      /\ pc[r] \in {"provider", "refund"} => reserved[r]
      /\ pc[r] = "write" => reserved[r] /\ bill[Key(r)] # "none"
      /\ reserved[r] => bill[Key(r)] # "none"
      /\ pin[r] \in {"settled", "refunded"} => bill[Key(r)] # "pending"
      /\ pc[r] = "write" => pin[r] \in {"pending", "settled", "refunded"}
  BY <1>1, <1>2 DEF OneRequest, Status
<1> USE <1>0, <1>1, <1>2
<1>5. CASE Claim(r)
  <2>1. pc[r] = "claim" /\ UNCHANGED <<bill, paid, reserved, pin, out>>
    BY <1>5 DEF Claim, Step, bills
  <2>2. pc'[r] = "preauth"
    BY <1>5 DEF Claim, Step, Goto, TypeOK
  <2> QED BY <2>1, <2>2 DEF OneRequest, Status
<1>6. CASE ClaimAnswered(r)
  <2>1. Key(r) \in paid
    BY <1>6 DEF ClaimAnswered, LiveRow, RequestInv, AnswersArePaid
  <2>2. ~reserved[r] /\ pc[r] = "claim"
    BY <1>6, <1>4 DEF ClaimAnswered
  <2>3. /\ UNCHANGED <<bill, paid, reserved, pin>>
        /\ \/ pc'[r] = "end" /\ out'[r] = "answer"
           \/ pc'[r] = "release" /\ out'[r] = "gone"
    BY <1>6, <2>2 DEF ClaimAnswered, End, Abandon, Goto, TypeOK, bills
  <2> QED BY <2>1, <2>2, <2>3 DEF OneRequest, Status
<1>7. CASE ClaimRefused(r)
  <2>1. pc[r] = "claim" /\ UNCHANGED <<bill, paid, reserved, pin>>
    BY <1>7 DEF ClaimRefused, bills
  <2>2. pc'[r] \in {"end", "release"} /\ out'[r] = "error"
    BY <1>7, <1>4, <2>1 DEF ClaimRefused, End, Abandon, Goto, TypeOK
  <2> QED BY <2>1, <2>2 DEF OneRequest, Status
<1>8. CASE PreauthGranted(r)
  <2>1. bill'[Key(r)] # "none"
    BY <1>8, GrantedBill DEF TypeOK, RequestInv, MakersHaveBills
  <2>2. pc'[r] = "provider" /\ reserved'[r] = TRUE
    BY <1>8 DEF PreauthGranted, Step, Goto, TypeOK
  <2>3. UNCHANGED <<paid, pin, out>> /\ pc[r] = "preauth"
    BY <1>8 DEF PreauthGranted, Step
  <2> QED BY <2>1, <2>2, <2>3 DEF BillForward, OneRequest, Status
<1>9. CASE PreauthRefused(r)
  <2>1. pc[r] = "preauth" /\ UNCHANGED <<bill, paid, reserved, pin>>
    BY <1>9 DEF PreauthRefused, bills
  <2>2. pc'[r] \in {"release", "release twice"} /\ out'[r] = "error"
    BY <1>9 DEF PreauthRefused, Goto, TypeOK
  <2> QED BY <2>1, <2>2 DEF OneRequest, Status
<1>10. CASE ProviderAnswers(r) \/ ProviderFails(r)
  <2>1. reserved[r] /\ pc[r] = "provider" /\ UNCHANGED <<bill, paid, reserved, pin>>
    BY <1>10, <1>4 DEF ProviderAnswers, ProviderFails, bills
  <2>2. \/ pc'[r] = "settle" /\ out'[r] = out[r]
        \/ pc'[r] = "refund" /\ out'[r] = "error"
    BY <1>10, <2>1 DEF ProviderAnswers, ProviderFails, Step, Abandon, Goto, TypeOK
  <2> QED BY <2>1, <2>2 DEF OneRequest, Status
<1>11. CASE SettleRead(r)
  <2>1. pc[r] = "settle" /\ UNCHANGED <<bill, paid, reserved, out>>
    BY <1>11 DEF SettleRead, Step, bills
  <2>2. pc'[r] = "write" /\ pin'[r] = bill[Key(r)]
    BY <1>11 DEF SettleRead, Step, Goto, TypeOK
  <2> QED BY <2>1, <2>2 DEF OneRequest, Status
<1>12. CASE Settled(r)
  <2>1. Key(r) \in paid' /\ bill'[Key(r)] \in {"settled", "refunded"}
    BY <1>12, <1>3 DEF Settled, TypeOK
  <2>2. pc[r] = "write" /\ UNCHANGED <<reserved, out>>
    BY <1>12 DEF Settled, Step
  <2>3. pc'[r] = "complete" /\ pin'[r] = "none"
    BY <1>12 DEF Settled, Step, Goto, TypeOK
  <2> QED BY <2>1, <2>2, <2>3 DEF OneRequest, Status
<1>13. CASE SettleFails(r)
  <2>1. bill'[Key(r)] # "pending" /\ bill'[Key(r)] # "none"
    BY <1>13, <1>4 DEF SettleFails, TypeOK
  <2>2. pc[r] = "write" /\ reserved' = reserved
    BY <1>13 DEF SettleFails
  <2>3. pc'[r] \in {"refund", "end"} /\ pin'[r] = "none" /\ out'[r] = "error"
    BY <1>13, <1>4, <2>2 DEF SettleFails, End, Abandon, Goto, TypeOK
  <2> QED BY <2>1, <2>2, <2>3 DEF OneRequest, Status
<1>14. CASE Complete(r)
  <2>1. pc[r] = "complete" /\ UNCHANGED <<bill, paid, reserved, pin>>
    BY <1>14 DEF Complete, bills
  <2>2. pc'[r] = "end" /\ out'[r] \in {"answer", "error"}
    BY <1>14 DEF Complete, End, Goto, TypeOK
  <2> QED BY <1>3, <2>1, <2>2 DEF OneRequest, Status
<1>15. CASE Refund(r)
  <2>1. pc[r] = "refund" /\ UNCHANGED <<paid, reserved, pin, out>>
    BY <1>15 DEF Refund, Step
  <2>2. pc'[r] = "release" /\ bill'[Key(r)] # "pending" /\ bill'[Key(r)] # "none"
    BY <1>15, <1>4, <2>1 DEF Refund, Step, Goto, TypeOK, Status
  <2> QED BY <2>1, <2>2 DEF OneRequest, Status
<1>16. CASE ReleaseRead(r) \/ ReleaseDelete(r)
  <2>1. /\ pc[r] \in {"release", "release twice", "delete", "delete twice"}
        /\ pc'[r] \in {"release", "delete", "delete twice", "end"}
    BY <1>16 DEF ReleaseRead, ReleaseDelete, AfterRelease, Step, Goto, TypeOK
  <2>2. UNCHANGED <<bill, paid, reserved, pin, out>>
    BY <1>16 DEF ReleaseRead, ReleaseDelete, Step, bills
  <2> QED BY <2>1, <2>2 DEF OneRequest, Status
<1>17. CASE Disconnect(r)
  <2>1. pc'[r] = IF reserved[r] THEN "refund" ELSE "release"
    BY <1>17 DEF Disconnect, Abandon, Goto, TypeOK
  <2>2. UNCHANGED <<bill, paid, reserved, pin>>
    BY <1>17 DEF Disconnect, bills
  <2>3. out'[r] = "gone"
    BY <1>17 DEF Disconnect, Abandon, TypeOK
  <2> QED BY <2>1, <2>2, <2>3 DEF OneRequest, Status
<1>18. CASE Crash(r)
  <2> QED BY <1>18, CrashStep DEF OneRequest, Status
<1> QED
  BY <1>5, <1>6, <1>7, <1>8, <1>9, <1>10, <1>11, <1>12, <1>13, <1>14, <1>15, <1>16, <1>17, <1>18
  DEF RequestNext

\* A step of one request leaves the other requests' variables alone.
LEMMA OthersStand ==
  ASSUME TypeOK, NEW r \in Requests, RequestNext(r) \/ Disconnect(r) \/ Crash(r),
         NEW q \in Requests \ {r}
  PROVE  pc'[q] = pc[q] /\ reserved'[q] = reserved[q] /\ pin'[q] = pin[q] /\ out'[q] = out[q]
<1>1. CASE Crash(r) \/ Disconnect(r)
  BY <1>1 DEF Crash, Disconnect, End, Abandon, Goto, TypeOK
<1>2. CASE Claim(r) \/ ClaimAnswered(r) \/ ClaimRefused(r) \/ PreauthGranted(r) \/ PreauthRefused(r)
  BY <1>2 DEF Claim, ClaimAnswered, ClaimRefused, PreauthGranted, PreauthRefused, End, Abandon, Step,
     Goto, TypeOK
<1>3. CASE ProviderAnswers(r) \/ ProviderFails(r) \/ SettleRead(r) \/ Settled(r) \/ SettleFails(r)
  BY <1>3 DEF ProviderAnswers, ProviderFails, SettleRead, Settled, SettleFails, End, Abandon, Step,
     Goto, TypeOK
<1>4. CASE Complete(r) \/ Refund(r) \/ ReleaseRead(r) \/ ReleaseDelete(r)
  BY <1>4 DEF Complete, Refund, ReleaseRead, ReleaseDelete, End, Abandon, Step, Goto, TypeOK
<1> QED BY <1>1, <1>2, <1>3, <1>4 DEF RequestNext

\* A stored answer is paid for; what is paid for is over.
LEMMA RowsKeep ==
  ASSUME RequestInv, TypeOK', Next, BillForward
  PROVE  /\ \A k \in Keys : claim'[k] # NoRow /\ claim'[k].st = "done" => k \in paid'
         /\ PaidIsOver' /\ MakersHaveBills'
<1>1. \A k \in Keys : claim[k] # NoRow /\ claim[k].st = "done" => k \in paid'
  BY DEF RequestInv, AnswersArePaid, BillForward
<1>2. ASSUME NEW r \in Requests, Claim(r)
      PROVE  \A k \in Keys : claim'[k] # NoRow /\ claim'[k].st = "done" => k \in paid'
  BY <1>1, <1>2 DEF Claim, RequestInv, TypeOK
<1>3. ASSUME NEW r \in Requests, Complete(r)
      PROVE  \A k \in Keys : claim'[k] # NoRow /\ claim'[k].st = "done" => k \in paid'
  <2>1. Key(r) \in paid'
    BY <1>3 DEF Complete, RequestInv, AnswersArePaid, bills
  <2> QED BY <1>1, <1>3, <2>1 DEF Complete, RequestInv, TypeOK
<1>4. ASSUME NEW r \in Requests, ReleaseDelete(r)
      PROVE  \A k \in Keys : claim'[k] # NoRow /\ claim'[k].st = "done" => k \in paid'
  <2>1. \A k \in Keys : claim'[k] = claim[k] \/ claim'[k] = NoRow
    BY <1>4 DEF ReleaseDelete, RequestInv, TypeOK
  <2> QED BY <1>1, <2>1
<1>5. ASSUME NEW k \in Keys, AgeClaim(k)
      PROVE  \A c \in Keys : claim'[c] # NoRow /\ claim'[c].st = "done" => c \in paid'
  BY <1>1, <1>5, RowFields DEF AgeClaim, LiveRow, Row, RequestInv, TypeOK
<1>6. ASSUME claim' = claim
      PROVE  \A k \in Keys : claim'[k] # NoRow /\ claim'[k].st = "done" => k \in paid'
  BY <1>1, <1>6
<1>7. \A k \in Keys : claim'[k] # NoRow /\ claim'[k].st = "done" => k \in paid'
  <2>1. ASSUME NEW r \in Requests, RequestNext(r) \/ Disconnect(r) \/ Crash(r),
               ~Claim(r), ~Complete(r), ~ReleaseDelete(r)
        PROVE  claim' = claim
    BY ONLY <2>1
    DEF RequestNext, ClaimAnswered, ClaimRefused, PreauthGranted, PreauthRefused, ProviderAnswers,
        ProviderFails, SettleRead, Settled, SettleFails, Refund, ReleaseRead, Disconnect, Crash
  <2>2. ASSUME NEW k \in Keys, ClientRefund(k) \/ ExpireBill(k) \/ LapseBill(k) \/ AgeKey(k)
        PROVE  claim' = claim
    BY ONLY <2>2 DEF ClientRefund, ExpireBill, LapseBill, AgeKey
  <2> QED
    BY <1>2, <1>3, <1>4, <1>5, <1>6, <2>1, <2>2 DEF Next
<1>8. ASSUME NEW r \in Requests, Settled(r) PROVE PaidIsOver'
  BY <1>8 DEF Settled, RequestInv, PaidIsOver, TypeOK, BillForward
<1>9. ASSUME paid' = paid PROVE PaidIsOver'
  BY <1>9 DEF RequestInv, PaidIsOver, BillForward, TypeOK
<1>10. PaidIsOver'
  <2>1. ASSUME NEW r \in Requests, RequestNext(r) \/ Disconnect(r) \/ Crash(r), ~Settled(r)
        PROVE  paid' = paid
    BY ONLY <2>1
    DEF RequestNext, Claim, ClaimAnswered, ClaimRefused, PreauthGranted, PreauthRefused, ProviderAnswers,
        ProviderFails, SettleRead, SettleFails, Complete, Refund, ReleaseRead, ReleaseDelete, Disconnect,
        Crash, bills
  <2>2. ASSUME NEW k \in Keys,
               ClientRefund(k) \/ ExpireBill(k) \/ LapseBill(k) \/ AgeClaim(k) \/ AgeKey(k)
        PROVE  paid' = paid
    BY ONLY <2>2 DEF ClientRefund, ExpireBill, LapseBill, AgeClaim, AgeKey, bills
  <2> QED
    BY <1>8, <1>9, <2>1, <2>2 DEF Next
<1>11. ASSUME NEW r \in Requests, PreauthGranted(r) PROVE MakersHaveBills'
  BY <1>11, KeyType DEF PreauthGranted, RequestInv, MakersHaveBills, TypeOK, BillForward
<1>12. ASSUME maker' = maker PROVE MakersHaveBills'
  BY <1>12 DEF RequestInv, MakersHaveBills, BillForward
<1>13. MakersHaveBills'
  <2>1. ASSUME NEW r \in Requests, RequestNext(r) \/ Disconnect(r) \/ Crash(r), ~PreauthGranted(r)
        PROVE  maker' = maker
    BY ONLY <2>1
    DEF RequestNext, Claim, ClaimAnswered, ClaimRefused, PreauthRefused, ProviderAnswers,
        ProviderFails, SettleRead, Settled, SettleFails, Complete, Refund, ReleaseRead, ReleaseDelete,
        Disconnect, Crash, bills
  <2>2. ASSUME NEW k \in Keys,
               ClientRefund(k) \/ ExpireBill(k) \/ LapseBill(k) \/ AgeClaim(k) \/ AgeKey(k)
        PROVE  maker' = maker
    BY ONLY <2>2 DEF ClientRefund, ExpireBill, LapseBill, AgeClaim, AgeKey, bills
  <2> QED
    BY <1>11, <1>12, <2>1, <2>2 DEF Next
<1> QED BY <1>7, <1>10, <1>13

LEMMA NextInv == RequestInv /\ Next => RequestInv'
<1> SUFFICES ASSUME RequestInv, Next PROVE RequestInv'
  OBVIOUS
<1>1. TypeOK /\ TypeOK'
  BY RequestType, OutsideType DEF RequestInv, Next
<1>2. BillForward /\ job' = job
  BY <1>1, NextBillForward
<1>3. \A q \in Requests : OneRequest(q)
  BY RequestInvSplit
<1>4. ASSUME NEW r \in Requests, RequestNext(r) \/ Disconnect(r) \/ Crash(r)
      PROVE  \A q \in Requests : OneRequest(q)'
  BY <1>1, <1>2, <1>3, <1>4, OthersKeep, OthersStand, MoverKeeps
<1>5. ASSUME NEW k \in Keys,
             ClientRefund(k) \/ ExpireBill(k) \/ LapseBill(k) \/ AgeClaim(k) \/ AgeKey(k)
      PROVE  \A q \in Requests : OneRequest(q)'
  <2>1. UNCHANGED local
    BY <1>5 DEF ClientRefund, ExpireBill, LapseBill, AgeClaim, AgeKey
  <2> QED BY <1>1, <1>2, <1>3, <2>1, OthersKeep DEF local
<1>6. \A q \in Requests : OneRequest(q)'
  BY <1>4, <1>5 DEF Next
<1> QED
  BY <1>1, <1>2, <1>6, RowsKeep DEF RequestInv, OneRequest, AnswersArePaid, FailedHoldsNothing, Phases,
     BillsExist, PinsExist, PinsMoveOn, ReleasedHoldsNothing

\* The pipeline keeps what the rows and its requests promise each other (RequestInv).
THEOREM Invariant == Spec => []RequestInv
<1>1. ASSUME RequestInv, UNCHANGED vars PROVE RequestInv'
  <2>1. TypeOK' /\ BillForward /\ job' = job
    BY <1>1 DEF RequestInv, TypeOK, BillForward, vars, bills, clock, local
  <2>2. \A q \in Requests : OneRequest(q)'
    BY <1>1, <2>1, RequestInvSplit, OthersKeep DEF vars, local
  <2>3. /\ \A k \in Keys : claim'[k] # NoRow /\ claim'[k].st = "done" => k \in paid'
        /\ MakersHaveBills' /\ PaidIsOver'
    BY <1>1 DEF RequestInv, AnswersArePaid, MakersHaveBills, PaidIsOver, vars, bills
  <2> QED
    BY <2>1, <2>2, <2>3 DEF RequestInv, OneRequest, AnswersArePaid, FailedHoldsNothing, Phases,
       BillsExist, PinsExist, PinsMoveOn, ReleasedHoldsNothing
<1>2. RequestInv /\ [Next]_vars => RequestInv'
  BY <1>1, NextInv
<1> QED BY <1>2, InitInv, PTL DEF Spec

\* No answer, from the provider or from the store, whose key was not charged.
THEOREM AnswersPaid == Spec => []AnswersArePaid
  BY Invariant, PTL DEF RequestInv

\* A request that failed, or was left by its client, holds no credits.
THEOREM FailuresHoldNothing == Spec => []FailedHoldsNothing
  BY Invariant, PTL DEF RequestInv
-----------------------------------------------------------------------------
(* The bills are taken through the steps of KeyedBill only.                *)

\* A bill is settled by its charge.
SettledArePaid == \A k \in Keys : bill[k] = "settled" => k \in paid

LEMMA BillStep ==
  ASSUME RequestInv, SettledArePaid, Next
  PROVE  SettledArePaid' /\ (Keyed!Next \/ UNCHANGED <<bill, paid, lapsed>>)
<1> USE KeyType DEF SettledArePaid, bills, clock, local
<1>0. TypeOK /\ PinsExist /\ bill \in [Keys -> Status]
  BY DEF RequestInv, TypeOK
<1>1. ASSUME NEW r \in Requests, PreauthGranted(r)
      PROVE  SettledArePaid' /\ (Keyed!Next \/ UNCHANGED <<bill, paid, lapsed>>)
  <2>1. Key(r) \in Keys
    BY <1>0
  <2>2. UNCHANGED <<bill, paid, lapsed>> \/ Keyed!Open(Key(r))
    BY <1>1 DEF PreauthGranted, Keyed!Open
  <2>3. SettledArePaid'
    BY <1>0, <1>1, <2>1 DEF PreauthGranted
  <2> QED BY <2>1, <2>2, <2>3 DEF Keyed!Next
<1>2. ASSUME NEW r \in Requests, Settled(r)
      PROVE  SettledArePaid' /\ (Keyed!Next \/ UNCHANGED <<bill, paid, lapsed>>)
  <2>1. Key(r) \in Keys /\ bill[Key(r)] # "none"
    BY <1>0, <1>2 DEF Settled, PinsExist
  <2>2. Key(r) \notin paid => bill[Key(r)] \in {"pending", "refunded"}
    BY <1>0, <2>1 DEF Status
  <2>3. UNCHANGED <<bill, paid, lapsed>> \/ Keyed!Pay(Key(r))
    BY <1>2, <2>2 DEF Settled, Keyed!Pay
  <2>4. SettledArePaid'
    BY <1>0, <1>2, <2>1 DEF Settled
  <2> QED BY <2>1, <2>3, <2>4 DEF Keyed!Next
<1>3. ASSUME NEW k \in Keys, bill' = [bill EXCEPT ![k] = "refunded"], UNCHANGED <<paid, lapsed>>,
             bill[k] = "pending" \/ (bill[k] # "none" /\ k \in lapsed)
      PROVE  SettledArePaid' /\ (Keyed!Next \/ UNCHANGED <<bill, paid, lapsed>>)
  <2>1. bill' = bill \/ Keyed!End(k)
    <3>1. CASE bill[k] = "refunded"
      BY <1>0, <1>3, <3>1
    <3>2. CASE bill[k] # "refunded"
      BY <1>0, <1>3, <3>2 DEF Keyed!End, Status
    <3> QED BY <3>1, <3>2
  <2>2. SettledArePaid'
    BY <1>0, <1>3
  <2> QED BY <1>3, <2>1, <2>2 DEF Keyed!Next
<1>4. ASSUME NEW r \in Requests, SettleFails(r)
      PROVE  SettledArePaid' /\ (Keyed!Next \/ UNCHANGED <<bill, paid, lapsed>>)
  <2>1. Key(r) \in Keys /\ UNCHANGED <<paid, lapsed>>
    BY <1>0, <1>4 DEF SettleFails
  <2>2. \/ bill' = bill
        \/ bill' = [bill EXCEPT ![Key(r)] = "refunded"] /\ bill[Key(r)] # "none" /\ Key(r) \in lapsed
    BY <1>0, <1>4 DEF SettleFails, PinsExist
  <2> QED BY <1>3, <2>1, <2>2
<1>5. ASSUME NEW r \in Requests, Refund(r)
      PROVE  SettledArePaid' /\ (Keyed!Next \/ UNCHANGED <<bill, paid, lapsed>>)
  <2>1. Key(r) \in Keys /\ UNCHANGED <<paid, lapsed>>
    BY <1>0, <1>5 DEF Refund
  <2>2. bill' = bill \/ (bill' = [bill EXCEPT ![Key(r)] = "refunded"] /\ bill[Key(r)] = "pending")
    BY <1>5 DEF Refund
  <2> QED BY <1>3, <2>1, <2>2
<1>6. ASSUME NEW k \in Keys, ClientRefund(k) \/ ExpireBill(k)
      PROVE  SettledArePaid' /\ (Keyed!Next \/ UNCHANGED <<bill, paid, lapsed>>)
  BY <1>3, <1>6 DEF ClientRefund, ExpireBill
<1>7. ASSUME NEW k \in Keys, LapseBill(k)
      PROVE  SettledArePaid' /\ (Keyed!Next \/ UNCHANGED <<bill, paid, lapsed>>)
  <2>1. Keyed!Lapse(k)
    BY <1>7 DEF LapseBill, Keyed!Lapse
  <2>2. SettledArePaid'
    BY <1>7 DEF LapseBill
  <2> QED BY <2>1, <2>2 DEF Keyed!Next
<1>8. ASSUME UNCHANGED <<bill, paid, lapsed>>
      PROVE  SettledArePaid' /\ (Keyed!Next \/ UNCHANGED <<bill, paid, lapsed>>)
  BY <1>8
<1> QED
  BY <1>1, <1>2, <1>4, <1>5, <1>6, <1>7, <1>8
  DEF Next, RequestNext, Claim, ClaimAnswered, ClaimRefused, PreauthRefused, ProviderAnswers,
      ProviderFails, SettleRead, Complete, ReleaseRead, ReleaseDelete, Disconnect, Crash,
      AgeClaim, AgeKey

\* Whatever requests, the user, the worker and the clock do, the pipeline takes bills as
\* KeyedBill has them (platform_ai_service.py, over preauth, settle and refund).
THEOREM TakesBillsAsPromised == Spec => UsesBillsAsPromised
<1>1. Init => SettledArePaid /\ Keyed!Init
  BY DEF Init, SettledArePaid, Keyed!Init
<1>2. RequestInv /\ SettledArePaid /\ [Next]_vars =>
        SettledArePaid' /\ [Keyed!Next]_(Keyed!vars)
  <2> SUFFICES ASSUME RequestInv, SettledArePaid, [Next]_vars
               PROVE  SettledArePaid' /\ [Keyed!Next]_(Keyed!vars)
    OBVIOUS
  <2>1. CASE Next
    BY <2>1, BillStep DEF Keyed!vars
  <2>2. CASE UNCHANGED vars
    BY <2>2 DEF vars, bills, clock, SettledArePaid, Keyed!vars
  <2> QED BY <2>1, <2>2
<1> QED BY <1>1, <1>2, Invariant, PTL DEF Spec, UsesBillsAsPromised, Keyed!Spec

-----------------------------------------------------------------------------
(* Whose answer a request gets: AnswersFit.                                *)

\* A step of one request leaves what the others have read and were answered alone.
LEMMA OthersRead ==
  ASSUME TypeOK, NEW r \in Requests, RequestNext(r) \/ Disconnect(r) \/ Crash(r),
         NEW q \in Requests \ {r}
  PROVE  seen'[q] = seen[q] /\ ans'[q] = ans[q]
<1>1. CASE Crash(r) \/ Disconnect(r) \/ Claim(r) \/ ClaimAnswered(r) \/ ClaimRefused(r) \/ PreauthGranted(r)
  BY <1>1 DEF Crash, Disconnect, Claim, ClaimAnswered, ClaimRefused, PreauthGranted, TypeOK
<1>2. CASE PreauthRefused(r) \/ ProviderAnswers(r) \/ ProviderFails(r) \/ SettleRead(r) \/ Settled(r)
           \/ SettleFails(r)
  BY <1>2 DEF PreauthRefused, ProviderAnswers, ProviderFails, SettleRead, Settled, SettleFails
<1>3. CASE Complete(r) \/ Refund(r) \/ ReleaseRead(r) \/ ReleaseDelete(r)
  BY <1>3 DEF Complete, Refund, ReleaseRead, ReleaseDelete, TypeOK
<1> QED BY <1>1, <1>2, <1>3 DEF RequestNext

LEMMA MoverRuns ==
  ASSUME NEW r \in Requests, RequestNext(r) \/ Disconnect(r) \/ Crash(r)
  PROVE  pc[r] # "end" /\ overdue' = overdue
  BY DEF RequestNext, Disconnect, Crash, Claim, ClaimAnswered, ClaimRefused, PreauthGranted, PreauthRefused,
         ProviderAnswers, ProviderFails, SettleRead, Settled, SettleFails, Complete, Refund, ReleaseRead,
         ReleaseDelete, clock

\* A key that was disturbed stays so.
LEMMA DisturbedStays ==
  ASSUME TypeOK, [Next]_vars
  PROVE  /\ job' = job
         /\ \A k \in Keys : Disturbed(k) => Disturbed(k)'
         /\ \A r \in Requests : Disturbed(Key(r)) => Disturbed(Key(r))'
<1>1. job' = job
  BY NextBillForward DEF vars, local
<1>2. overdue \subseteq overdue' /\ \A q \in Requests : pc[q] = "end" => pc'[q] = pc[q] /\ out'[q] = out[q]
  <2>1. ASSUME NEW r \in Requests, RequestNext(r) \/ Disconnect(r) \/ Crash(r)
        PROVE  overdue \subseteq overdue' /\ \A q \in Requests : pc[q] = "end" => pc'[q] = pc[q] /\ out'[q] = out[q]
    BY <2>1, MoverRuns, OthersStand
  <2>2. ASSUME NEW k \in Keys,
               ClientRefund(k) \/ ExpireBill(k) \/ LapseBill(k) \/ AgeClaim(k) \/ AgeKey(k)
        PROVE  overdue \subseteq overdue' /\ \A q \in Requests : pc[q] = "end" => pc'[q] = pc[q] /\ out'[q] = out[q]
    BY <2>2 DEF ClientRefund, ExpireBill, LapseBill, AgeClaim, AgeKey, clock, local
  <2>3. CASE UNCHANGED vars
    BY <2>3 DEF vars, clock, local
  <2> QED BY <2>1, <2>2, <2>3 DEF Next
<1> QED BY <1>1, <1>2 DEF Disturbed, Released, Key, Streams

\* What FitInv says of one request, and of one row.
FitRequest(r) ==
  /\ out[r] = "answer" => job[ans[r]].body = job[r].body \/ Disturbed(Key(r))
  /\ Holding(r) => Disturbed(Key(r)) \/ Owns(r)
  /\ Holding(r) /\ pc[r] \in {"delete", "delete twice"} => Disturbed(Key(r)) \/ seen[r] = r
  /\ Streams(r) /\ pc[r] \in {"refund", "release", "release twice", "delete", "delete twice"}
       => out[r] \in {"error", "gone"}
  /\ pc[r] \in {"release twice", "delete twice"} => Streams(r)
  /\ pc[r] # "end" => ans[r] = r
FitRow(k) ==
  claim[k] # NoRow =>
    /\ claim[k].body = job[claim[k].id].body
    /\ claim[k].st = "done" => Disturbed(k) \/ job[claim[k].ans].body = claim[k].body

LEMMA FitSplit ==
  FitInv <=> (\A r \in Requests : FitRequest(r)) /\ (\A k \in Keys : FitRow(k))
  BY DEF FitInv, AnswersFit, HoldersOwn, DeletersOwn, RowsFit, StreamsFail, StreamsTwice, OwnAnswers, FitRequest, FitRow

LEMMA FitInit == Init => FitInv
  BY DEF Init, FitInv, AnswersFit, HoldersOwn, DeletersOwn, RowsFit, StreamsFail, StreamsTwice, OwnAnswers, Holding

\* A request that does not move keeps it as long as its row is left alone.
LEMMA FitStands ==
  ASSUME TypeOK, NEW q \in Requests, FitRequest(q), job' = job, Disturbed(Key(q)) => Disturbed(Key(q))',
         pc'[q] = pc[q], out'[q] = out[q], seen'[q] = seen[q], ans'[q] = ans[q],
         Holding(q) /\ Owns(q) => Owns(q)' \/ Disturbed(Key(q))'
  PROVE  FitRequest(q)'
<1>1. Key(q)' = Key(q) /\ Streams(q)' = Streams(q)
  BY DEF Key, Streams
<1>2. Holding(q)' <=> Holding(q)
  BY <1>1 DEF Holding
<1> QED BY <1>1, <1>2 DEF FitRequest

\* A request's step never takes away the row another one owns, except a failed stream's
\* last step.
LEMMA OthersOwn ==
  ASSUME TypeOK, FitInv, NEW r \in Requests, RequestNext(r) \/ Disconnect(r) \/ Crash(r),
         job' = job, \A p \in Requests : Disturbed(Key(p)) => Disturbed(Key(p))',
         NEW q \in Requests \ {r}, Owns(q)
  PROVE  Owns(q)' \/ Disturbed(Key(q))'
<1> DEFINE k == Key(q)
<1>1. k \in Keys /\ Key(r) \in Keys /\ Key(q)' = k /\ Key(r)' = Key(r) /\ Streams(r)' = Streams(r)
  BY KeyType DEF Key, Streams
<1>2. claim[k] # NoRow /\ claim[k].id = q /\ claim[k].st = "open" /\ ~claim[k].aged
  BY DEF Owns
<1>3. FitRequest(r)
  BY FitSplit
<1>4. ASSUME claim'[k] = claim[k] PROVE Owns(q)'
  BY <1>1, <1>2, <1>4 DEF Owns
<1> HIDE DEF k
<1>5. CASE Claim(r)
  <2>1. Key(r) # k
    BY <1>2, <1>5 DEF Claim, LiveRow
  <2> QED BY <1>1, <1>4, <1>5, <2>1 DEF Claim, TypeOK
<1>6. CASE Complete(r)
  <2>1. CASE Key(r) = k
    <3>1. Disturbed(Key(r))
      BY <1>2, <1>3, <1>6, <2>1 DEF Complete, FitRequest, Holding, Owns
    <3> QED BY <1>1, <2>1, <3>1 DEF k
  <2>2. CASE Key(r) # k
    BY <1>1, <1>4, <1>6, <2>2 DEF Complete, TypeOK
  <2> QED BY <2>1, <2>2
<1>7. CASE ReleaseDelete(r)
  <2>1. CASE Key(r) = k /\ Holding(r)
    <3>1. Disturbed(Key(r)) \/ seen[r] = r
      BY <1>3, <1>7, <2>1 DEF ReleaseDelete, FitRequest
    <3>2. CASE seen[r] = r
      BY <1>1, <1>2, <1>4, <1>7, <2>1, <3>2 DEF ReleaseDelete, TypeOK
    <3> QED BY <1>1, <2>1, <3>1, <3>2 DEF k
  <2>2. CASE Key(r) = k /\ ~Holding(r)
    <3>1. pc[r] = "delete" /\ Streams(r) /\ out[r] \in {"error", "gone"}
      BY <1>3, <1>7, <2>2 DEF ReleaseDelete, Holding, FitRequest
    <3>2. pc'[r] = "end" /\ out'[r] = out[r]
      BY <1>7, <3>1 DEF ReleaseDelete, AfterRelease, Step, Goto, TypeOK
    <3>3. Released(r)' /\ Key(r)' = Key(q)'
      BY <1>1, <2>2, <3>1, <3>2 DEF Released
    <3> QED BY <3>3 DEF Disturbed
  <2>3. CASE Key(r) # k
    BY <1>1, <1>4, <1>7, <2>3 DEF ReleaseDelete, TypeOK
  <2> QED BY <2>1, <2>2, <2>3
<1>8. ASSUME claim' = claim PROVE Owns(q)'
  BY <1>4, <1>8
<1> QED
  BY <1>5, <1>6, <1>7, <1>8
  DEF RequestNext, Disconnect, Crash, ClaimAnswered, ClaimRefused, PreauthGranted, PreauthRefused,
      ProviderAnswers, ProviderFails, SettleRead, Settled, SettleFails, Refund, ReleaseRead

LEMMA MoverFits ==
  ASSUME TypeOK, FitInv, NEW r \in Requests, RequestNext(r) \/ Disconnect(r) \/ Crash(r),
         job' = job, \A p \in Requests : Disturbed(Key(p)) => Disturbed(Key(p))'
  PROVE  FitRequest(r)'
<1>1. Key(r) \in Keys /\ Key(r)' = Key(r) /\ Streams(r)' = Streams(r)
  BY KeyType DEF Key, Streams
<1>2. FitRequest(r) /\ FitRow(Key(r))
  BY <1>1, FitSplit
<1>3. pc[r] # "end" /\ ans[r] = r
  BY <1>2, MoverRuns DEF FitRequest
<1>4. ASSUME claim' = claim PROVE Owns(r)' <=> Owns(r)
  BY <1>1, <1>4 DEF Owns
<1> USE <1>1, <1>2, <1>3 DEF FitRequest
\* A request that ends without an answer has nothing to show.
<1>5. ASSUME pc'[r] = "end", out'[r] # "answer" PROVE FitRequest(r)'
  BY <1>5 DEF Holding
\* One whose row stays its own, if it was, before it ends.
<1>6. ASSUME claim' = claim, ans' = ans, seen' = seen, Holding(r),
             pc'[r] \in Labels \ {"end", "delete", "delete twice"},
             Streams(r) /\ pc'[r] \in {"refund", "release", "release twice"} => out'[r] \in {"error", "gone"},
             pc'[r] = "release twice" => Streams(r)
      PROVE  FitRequest(r)'
  BY <1>4, <1>6 DEF Holding
\* A stream that fails.
<1>7. ASSUME Streams(r), ans' = ans, pc'[r] \in {"refund", "release", "delete"}, out'[r] \in {"error", "gone"}
      PROVE  FitRequest(r)'
  BY <1>7 DEF Holding
<1>8. CASE Claim(r)
  <2>1. pc'[r] = "preauth" /\ ans' = ans
    BY <1>8 DEF Claim, Step, Goto, TypeOK
  <2>2. Owns(r)'
    <3>1. claim'[Key(r)] = NewRow(r) /\ job[r].body \in Body
      BY <1>8, KeyType DEF Claim, TypeOK, NewRow
    <3>2. NewRow(r) # NoRow /\ NewRow(r).id = r /\ NewRow(r).st = "open" /\ ~NewRow(r).aged
      BY <3>1, NewRowFields
    <3> QED BY ONLY <1>1, <3>1, <3>2 DEF Owns
  <2> QED BY <2>1, <2>2 DEF Holding
<1>9. CASE ClaimAnswered(r)
  <2>1. CASE End(r, "answer") /\ ans' = [ans EXCEPT ![r] = claim[Key(r)].ans]
    <3>1. pc'[r] = "end" /\ ans'[r] = claim[Key(r)].ans
      BY <2>1 DEF End, Goto, TypeOK
    <3>2. Disturbed(Key(r)) \/ job[ans'[r]].body = job[r].body
      BY <1>9, <3>1 DEF ClaimAnswered, LiveRow, FitRow
    <3>3. ~Holding(r)'
      BY <3>1 DEF Holding
    <3> QED BY <3>1, <3>2, <3>3
  <2>2. CASE Streams(r) /\ Abandon(r, "gone") /\ UNCHANGED ans
    BY <1>7, <2>2 DEF Abandon, Goto, TypeOK
  <2> QED BY <1>9, <2>1, <2>2 DEF ClaimAnswered
<1>10. CASE ClaimRefused(r)
  <2>1. CASE Streams(r)
    BY <1>7, <1>10, <2>1 DEF ClaimRefused, Abandon, Goto, TypeOK
  <2>2. CASE ~Streams(r)
    BY <1>5, <1>10, <2>2 DEF ClaimRefused, End, Goto, TypeOK
  <2> QED BY <2>1, <2>2
<1>11. CASE PreauthGranted(r) \/ ProviderAnswers(r) \/ SettleRead(r) \/ Settled(r)
  <2>1. pc[r] \in {"preauth", "provider", "settle", "write"} /\ UNCHANGED <<claim, ans, seen>>
    BY <1>11 DEF PreauthGranted, ProviderAnswers, SettleRead, Settled
  <2>2. pc'[r] \in {"provider", "settle", "write", "complete"}
    BY <1>11 DEF PreauthGranted, ProviderAnswers, SettleRead, Settled, Step, Goto, TypeOK
  <2>3. Holding(r)
    BY <2>1 DEF Holding
  <2> QED BY <1>6, <2>1, <2>2, <2>3 DEF Labels
<1>12. CASE PreauthRefused(r) \/ ProviderFails(r)
  <2>1. pc[r] \in {"preauth", "provider"} /\ UNCHANGED <<claim, ans, seen>>
    BY <1>12 DEF PreauthRefused, ProviderFails
  <2>2. /\ pc'[r] \in {"refund", "release", "release twice"} /\ out'[r] = "error"
        /\ pc'[r] = "release twice" => Streams(r)
    <3>1. CASE PreauthRefused(r)
      BY <3>1 DEF PreauthRefused, Goto, TypeOK
    <3>2. CASE ProviderFails(r)
      BY <3>2 DEF ProviderFails, Abandon, Goto, TypeOK
    <3> QED BY <1>12, <3>1, <3>2
  <2>3. Holding(r)
    BY <2>1 DEF Holding
  <2> QED BY <1>6, <2>1, <2>2, <2>3 DEF Labels
<1>13. CASE SettleFails(r)
  <2>1. CASE Streams(r)
    BY <1>7, <1>13, <2>1 DEF SettleFails, Abandon, Goto, TypeOK
  <2>2. CASE ~Streams(r)
    BY <1>5, <1>13, <2>2 DEF SettleFails, End, Goto, TypeOK
  <2> QED BY <2>1, <2>2
<1>14. CASE Complete(r)
  <2>1. pc'[r] = "end" /\ ans' = ans
    BY <1>14 DEF Complete, End, Goto, TypeOK
  <2> QED BY <2>1 DEF Holding
<1>15. CASE Refund(r)
  <2>1. pc[r] = "refund" /\ pc'[r] = "release" /\ UNCHANGED <<claim, ans, seen, out>>
    BY <1>15 DEF Refund, Step, Goto, TypeOK
  <2>2. CASE Streams(r)
    BY <1>7, <2>1, <2>2
  <2>3. CASE ~Streams(r)
    <3>1. Holding(r)
      BY <2>1, <2>3 DEF Holding
    <3> QED BY <1>6, <2>1, <2>3, <3>1 DEF Labels
  <2> QED BY <2>2, <2>3
<1>16. CASE ReleaseRead(r)
  <2>1. pc[r] \in {"release", "release twice"} /\ UNCHANGED <<claim, ans, out>>
    BY <1>16 DEF ReleaseRead, Step
  <2>2. CASE claim[Key(r)] # NoRow /\ claim[Key(r)].st = "open"
    <3>1. /\ seen'[r] = claim[Key(r)].id
          /\ pc'[r] = IF pc[r] = "release" THEN "delete" ELSE "delete twice"
      BY <1>16, <2>2 DEF ReleaseRead, Step, Goto, TypeOK
    <3>2. Holding(r)' => Holding(r)
      BY <2>1, <3>1 DEF Holding
    <3>3. Owns(r) => seen'[r] = r
      BY <3>1 DEF Owns
    <3> QED BY <1>4, <2>1, <3>1, <3>2, <3>3
  <2>3. CASE ~(claim[Key(r)] # NoRow /\ claim[Key(r)].st = "open")
    <3>1. pc'[r] = IF pc[r] = "release twice" THEN "release" ELSE "end"
      BY <1>16, <2>1, <2>3 DEF ReleaseRead, AfterRelease, Step, Goto, TypeOK
    <3>2. ~Owns(r)
      BY <2>3 DEF Owns
    <3>3. Holding(r)' => Holding(r)
      BY <2>1, <3>1 DEF Holding
    <3> QED BY <2>1, <3>1, <3>2, <3>3
  <2> QED BY <2>2, <2>3
<1>17. CASE ReleaseDelete(r)
  <2>1. /\ pc[r] \in {"delete", "delete twice"} /\ UNCHANGED <<ans, out>>
        /\ pc'[r] = IF pc[r] = "delete twice" THEN "release" ELSE "end"
    BY <1>17 DEF ReleaseDelete, AfterRelease, Step, Goto, TypeOK
  <2>2. CASE pc[r] = "delete"
    BY <2>1, <2>2 DEF Holding
  <2>3. CASE pc[r] = "delete twice"
    BY <2>1, <2>3 DEF Holding
  <2> QED BY <2>1, <2>2, <2>3
<1>2a. CASE Disconnect(r)
  <2>1. Streams(r) /\ ans' = ans /\ pc'[r] \in {"refund", "release"} /\ out'[r] = "gone"
    BY <1>2a DEF Disconnect, Abandon, Goto, TypeOK
  <2> QED BY <1>7, <2>1
<1>19. CASE Crash(r)
  BY <1>5, <1>19, CrashStep
<1> QED
  BY <1>8, <1>9, <1>10, <1>11, <1>12, <1>13, <1>14, <1>15, <1>16, <1>17, <1>2a, <1>19 DEF RequestNext

\* A row keeps the body it was made for; an answer is stored in it by its owner, unless the
\* key was disturbed.
LEMMA RowsStayFit ==
  ASSUME TypeOK, FitInv, [Next]_vars, NEW k \in Keys,
         job' = job, Disturbed(k) => Disturbed(k)'
  PROVE  FitRow(k)'
<1>0. FitRow(k) /\ \A r \in Requests : FitRequest(r)
  BY FitSplit
<1>1. ASSUME claim'[k] = claim[k] PROVE FitRow(k)'
  BY <1>0, <1>1 DEF FitRow
<1>2. ASSUME NEW r \in Requests, Claim(r) PROVE FitRow(k)'
  <2>1. CASE Key(r) = k
    <3>1. claim'[k] = NewRow(r)
      BY <1>2, <2>1 DEF Claim, TypeOK, NewRow
    <3> QED BY <3>1 DEF FitRow, NewRow
  <2>2. CASE Key(r) # k
    BY <1>1, <1>2, <2>2 DEF Claim, TypeOK
  <2> QED BY <2>1, <2>2
<1>3. ASSUME NEW r \in Requests, Complete(r) PROVE FitRow(k)'
  <2>1. CASE Key(r) = k /\ claim[k] # NoRow
    <3>1. claim'[k] = [claim[k] EXCEPT !.st = "done", !.ans = r, !.aged = FALSE]
      BY <1>3, <2>1 DEF Complete, TypeOK
    <3>2. claim[k] \in Row
      BY <2>1, RowFields
    <3>3. claim'[k].body = claim[k].body /\ claim'[k].id = claim[k].id /\ claim'[k].ans = r
      BY <3>1, <3>2 DEF Row
    <3>4. Disturbed(k) \/ claim[k].id = r
      BY <1>0, <1>3, <2>1 DEF Complete, FitRequest, Holding, Owns
    <3> QED BY <1>0, <2>1, <3>3, <3>4 DEF FitRow
  <2>2. CASE ~(Key(r) = k /\ claim[k] # NoRow)
    BY <1>1, <1>3, <2>2 DEF Complete, TypeOK
  <2> QED BY <2>1, <2>2
<1>4. ASSUME NEW r \in Requests, ReleaseDelete(r) PROVE FitRow(k)'
  <2>1. claim'[k] \in {claim[k], NoRow}
    BY <1>4 DEF ReleaseDelete, TypeOK
  <2> QED BY <1>1, <2>1 DEF FitRow
<1>5. ASSUME NEW c \in Keys, AgeClaim(c) PROVE FitRow(k)'
  <2>1. CASE c = k
    <3>1. claim'[k] = [claim[k] EXCEPT !.aged = TRUE] /\ claim[k] # NoRow
      BY <1>5, <2>1 DEF AgeClaim, LiveRow, TypeOK
    <3>2. claim[k] \in Row
      BY <3>1, RowFields
    <3>3. /\ claim'[k].body = claim[k].body /\ claim'[k].id = claim[k].id
          /\ claim'[k].ans = claim[k].ans /\ claim'[k].st = claim[k].st
      BY <3>1, <3>2 DEF Row
    <3> QED BY <1>0, <3>1, <3>3 DEF FitRow
  <2>2. CASE c # k
    BY <1>1, <1>5, <2>2 DEF AgeClaim, TypeOK
  <2> QED BY <2>1, <2>2
<1>6. ASSUME claim' = claim PROVE FitRow(k)'
  BY <1>1, <1>6
<1> QED
  BY <1>2, <1>3, <1>4, <1>5, <1>6
  DEF Next, RequestNext, ClaimAnswered, ClaimRefused, PreauthGranted, PreauthRefused, ProviderAnswers,
      ProviderFails, SettleRead, Settled, SettleFails, Refund, ReleaseRead, Disconnect, Crash,
      ClientRefund, ExpireBill, LapseBill, AgeKey, vars

\* An open row that ages disturbs its key.
LEMMA AgedOwn ==
  ASSUME TypeOK, NEW k \in Keys,
         ClientRefund(k) \/ ExpireBill(k) \/ LapseBill(k) \/ AgeClaim(k) \/ AgeKey(k),
         NEW q \in Requests, Owns(q)
  PROVE  Owns(q)' \/ Disturbed(Key(q))'
<1>1. Key(q)' = Key(q)
  BY DEF Key, ClientRefund, ExpireBill, LapseBill, AgeClaim, AgeKey, local
<1>2. CASE AgeClaim(k) /\ Key(q) = k
  BY <1>1, <1>2 DEF AgeClaim, Owns, Disturbed
<1>3. CASE ~(AgeClaim(k) /\ Key(q) = k)
  <2>1. claim'[Key(q)] = claim[Key(q)]
    BY <1>3, KeyType DEF ClientRefund, ExpireBill, LapseBill, AgeClaim, AgeKey, TypeOK
  <2> QED BY <1>1, <2>1 DEF Owns
<1> QED BY <1>2, <1>3

LEMMA FitStep == TypeOK /\ FitInv /\ [Next]_vars => FitInv'
<1> SUFFICES ASSUME TypeOK, FitInv, [Next]_vars PROVE FitInv'
  OBVIOUS
<1>1. /\ job' = job
      /\ \A k \in Keys : Disturbed(k) => Disturbed(k)'
      /\ \A r \in Requests : Disturbed(Key(r)) => Disturbed(Key(r))'
  BY DisturbedStays
<1>2. \A k \in Keys : FitRow(k)'
  BY <1>1, RowsStayFit
<1>3. \A q \in Requests : FitRequest(q)
  BY FitSplit
<1>4. ASSUME NEW r \in Requests, RequestNext(r) \/ Disconnect(r) \/ Crash(r), NEW q \in Requests
      PROVE  FitRequest(q)'
  <2>1. CASE q = r
    BY <1>1, <1>4, <2>1, MoverFits
  <2>2. CASE q # r
    <3>1. pc'[q] = pc[q] /\ out'[q] = out[q] /\ seen'[q] = seen[q] /\ ans'[q] = ans[q]
      BY <1>4, <2>2, OthersStand, OthersRead
    <3>2. Owns(q) => Owns(q)' \/ Disturbed(Key(q))'
      BY <1>1, <1>4, <2>2, OthersOwn
    <3> QED BY <1>1, <1>3, <3>1, <3>2, FitStands
  <2> QED BY <2>1, <2>2
<1>5. ASSUME NEW k \in Keys,
             ClientRefund(k) \/ ExpireBill(k) \/ LapseBill(k) \/ AgeClaim(k) \/ AgeKey(k),
             NEW q \in Requests
      PROVE  FitRequest(q)'
  <2>1. UNCHANGED local
    BY <1>5 DEF ClientRefund, ExpireBill, LapseBill, AgeClaim, AgeKey
  <2>2. Owns(q) => Owns(q)' \/ Disturbed(Key(q))'
    BY <1>5, AgedOwn
  <2> QED BY <1>1, <1>3, <2>1, <2>2, FitStands DEF local
<1>6. ASSUME UNCHANGED vars, NEW q \in Requests PROVE FitRequest(q)'
  <2>1. UNCHANGED <<claim, local>>
    BY <1>6 DEF vars
  <2>2. Owns(q) => Owns(q)'
    BY <2>1 DEF Owns, Key, local
  <2> QED BY <1>1, <1>3, <2>1, <2>2, FitStands DEF local
<1>7. \A q \in Requests : FitRequest(q)'
  BY <1>4, <1>5, <1>6 DEF Next
<1> QED
  BY <1>2, <1>7 DEF FitInv, AnswersFit, HoldersOwn, DeletersOwn, RowsFit, StreamsFail, StreamsTwice,
     OwnAnswers, FitRequest, FitRow

\* Nobody is answered with what another body asked, unless a claim of the key ran out or a
\* stream with the key failed (_claimRequest, _releaseRequest, _completeRequest).
THEOREM AnswersFitBodies == Spec => []AnswersFit
<1>1. FitInv => AnswersFit
  BY DEF FitInv
<1> QED BY <1>1, FitInit, FitStep, TypeCorrect, PTL DEF Spec
=============================================================================

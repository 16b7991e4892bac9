------------------------------ MODULE Pricing ------------------------------
(***************************************************************************)
(* The versioned price catalogue: owners draft and publish versions        *)
(* (admin_pricing_service.py), the deployment's migrations build one from  *)
(* another (scripts/migrations), and a preauth quotes a price that its     *)
(* settlement still goes by (pricing.py, billing_service.py).  Balances    *)
(* are in Billing; of the migrations only the last is rolled back here.    *)
(***************************************************************************)
EXTENDS Naturals, FiniteSets

CONSTANTS
  Publishers, Bills,      \* publish requests, and bills, at once
  Drafts,                 \* the rule lists owners send: functions from features to rules
  Builtin,                \* BUILTIN_RULES
  Initial,                \* what the initial migration publishes
  CorpusRules, AiRules,   \* what the later migrations set
  Thousand, Cap,          \* 1 000 tokens; the cost limit of 1 000 000
  Uses,                   \* bound: amounts quoted and used
  MaxVersions, MaxTime,   \* bounds: versions made, milliseconds that pass
  None

ASSUME BoundsAssumption == MaxVersions \in Nat /\ MaxTime \in Nat
ASSUME NoneAssumption ==
  /\ None \notin [target : 1..MaxVersions, at : 0..MaxTime]
  /\ None \notin [id : {"initial", "corpus", "affordable"}, source : 0..MaxVersions]

\* A rule, and the ones the repository comes with: a size of at least 1 and limits in order.
\* What owners send is whole numbers; _validateRule refuses the rest of it.
Rule == [mode : {"fixed", "metered", "token"}, on : BOOLEAN, size : Nat, fixed : Nat, base : Nat,
         unit : Nat, in : Nat, out : Nat, weighted : BOOLEAN, min : Nat, max : Nat]
InOrder(r) == r \in Rule /\ r.size > 0 /\ r.min <= r.max
Sound(list) == \A f \in DOMAIN list : InOrder(list[f])
Amount == [used : Nat, in : Nat, out : Nat]

ASSUME RulesAssumption ==
  /\ Sound(Builtin) /\ Sound(Initial) /\ Sound(CorpusRules) /\ Sound(AiRules)
  /\ \A raw \in Drafts : \A f \in DOMAIN raw : raw[f] \in Rule
ASSUME AmountsAssumption ==
  /\ Thousand \in Nat \ {0} /\ Cap \in Nat
  /\ Uses \subseteq Amount

VARIABLES
  made,                   \* number of versions made: version_id is 1..made
  status, at, rules,      \* per version: status, published_at, its pricing_rules
  column,                 \* pricing_rules has its column unit_size
  applied,                \* schema_migrations: the version each made, 0 before
  migration,              \* the migration that holds the lock, and its @source_version_id
  now,
  publish,                \* per publish request: its target, locked, and the time it took first
  bill                    \* per bill: the catalogue its preauth sees; then what is held and paid

versions == <<made, status, at, rules>>
deploy == <<column, applied, migration>>
vars == <<versions, deploy, now, publish, bill>>

Ids == 1..MaxVersions
Features == DOMAIN Initial \cup DOMAIN CorpusRules \cup DOMAIN AiRules
Migrations == {"initial", "corpus", "affordable"}
Before == [initial |-> {}, corpus |-> {"initial"}, affordable |-> {"initial", "corpus"}]

-----------------------------------------------------------------------------
(* What a rule costs.                                                      *)

\* (Mutant: whole units only.)
CeilUnitsDown(n, size) == n \div size
CeilUnits(n, size) == (n + size - 1) \div size
AtMost(a, b) == IF a <= b THEN a ELSE b
AtLeast(a, b) == IF a >= b THEN a ELSE b

\* costFromSnapshot before the limits: a fixed price, so much a unit, tokens in one
\* weighted sum, or, of old snapshots, tokens by the started thousand.
Charge(r, u) ==
  CASE r.mode = "fixed" -> r.fixed
    [] r.mode = "metered" -> r.base + CeilUnits(u.used, r.size) * r.unit
    [] r.mode = "token" /\ r.weighted -> r.base + CeilUnits(u.in * r.in + u.out * r.out, r.size)
    [] r.mode = "token" /\ ~r.weighted ->
         r.base + CeilUnits(u.in, Thousand) * r.in + CeilUnits(u.out, Thousand) * r.out

\* A maximum of 0 is none.
Limit(r) == IF r.max = 0 THEN Cap ELSE r.max
Cost(r, u) == AtLeast(r.min, AtMost(Limit(r), Charge(r, u)))

\* _validateRule: what it refuses, and what it makes of the rest.
Valid(r) ==
  /\ r.size > 0 /\ r.min <= r.max
  /\ r.mode = "token" => r.in > 0 \/ r.out > 0
Normalised(r) ==
  IF r.mode = "fixed" THEN [r EXCEPT !.min = r.fixed, !.max = r.fixed]
  ELSE IF r.mode = "token" THEN [r EXCEPT !.weighted = TRUE] ELSE r

-----------------------------------------------------------------------------
(* The catalogue in force.                                                 *)

Published == {v \in 1..made : status[v] = "published"}

\* The version published last, by time and then by id; 0 if none is.
Later(v, w) == at[v] > at[w] \/ (at[v] = at[w] /\ v > w)
Last(S) == IF S = {} THEN 0 ELSE CHOOSE v \in S : \A w \in S \ {v} : Later(v, w)
Active == Last(Published)

\* The rules quotes go by; the built-in ones before anything is published.
Catalogue == IF Active = 0 THEN Builtin ELSE rules[Active]

NoBill == [state |-> "none"]

Init ==
  /\ made = 0
  /\ status = [v \in Ids |-> "absent"] /\ at = [v \in Ids |-> 0] /\ rules = [v \in Ids |-> <<>>]
  /\ column = FALSE /\ applied = [m \in Migrations |-> 0] /\ migration = None
  /\ now = 0
  /\ publish = [p \in Publishers |-> None] /\ bill = [b \in Bills |-> NoBill]

-----------------------------------------------------------------------------
(* Owners.                                                                 *)

\* createPricingDraft, which cannot insert before the column is there.
CreatePricingDraft(raw) ==
  /\ made < MaxVersions /\ column
  /\ raw # <<>> /\ \A f \in DOMAIN raw : Valid(raw[f])
  /\ made' = made + 1
  /\ status' = [status EXCEPT ![made + 1] = "draft"]
  /\ rules' = [rules EXCEPT ![made + 1] = [f \in DOMAIN raw |-> Normalised(raw[f])]]
  /\ UNCHANGED <<at, deploy, now, publish, bill>>

\* publishPricingVersion takes the time, then locks its target; only a draft goes on.
\* (Mutant: whatever is not in force may be published.)
PublishableAny(v) == status[v] \in {"draft", "retired"}
Publishable(v) == status[v] = "draft"
PublishStart(p, v) ==
  /\ publish[p] = None /\ Publishable(v)
  /\ \A q \in Publishers : publish[q] # None => publish[q].target # v
  /\ publish' = [publish EXCEPT ![p] = [target |-> v, at |-> now]]
  /\ UNCHANGED <<versions, deploy, now, bill>>

\* Version v is published at time t and others retire.  (Mutant: the others stay.)
PublishBeside(v, t, others) ==
  /\ status' = [status EXCEPT ![v] = "published"]
  /\ at' = [at EXCEPT ![v] = t]
PublishOver(v, t, others) ==
  /\ status' = [w \in Ids |-> IF w = v THEN "published"
                              ELSE IF w \in others THEN "retired" ELSE status[w]]
  /\ at' = [at EXCEPT ![v] = t]

\* It locks whatever is published by then, retires it and commits.
Publish(p) ==
  /\ publish[p] # None
  /\ PublishOver(publish[p].target, publish[p].at, Published)
  /\ publish' = [publish EXCEPT ![p] = None]
  /\ UNCHANGED <<made, rules, deploy, now, bill>>

\* A deadlock or a lost connection.
PublishFails(p) ==
  /\ publish[p] # None
  /\ publish' = [publish EXCEPT ![p] = None]
  /\ UNCHANGED <<versions, deploy, now, bill>>

-----------------------------------------------------------------------------
(* Migrations, one at a time under GET_LOCK.                               *)

\* migrateUp: the column is added at once, since DDL commits; the version in force is read.
\* (Mutant: the newest version is read, whatever its status.)
SourceNewest == made
Source == Active
MigrationStart(m) ==
  /\ migration = None /\ applied[m] = 0 /\ \A k \in Before[m] : applied[k] # 0
  /\ column' = (column \/ m = "corpus")
  /\ migration' = [id |-> m, source |-> Source]
  /\ UNCHANGED <<versions, applied, now, publish, bill>>

\* The rules a migration inserts: its own, and copies of the others of its source.  The AI
\* rules replace those of the source and stay enabled or not.
MigratedRules(m, old) ==
  CASE m = "initial" -> Initial
    [] m = "corpus" ->
         [f \in DOMAIN old \cup DOMAIN CorpusRules |->
            IF f \in DOMAIN CorpusRules THEN CorpusRules[f] ELSE old[f]]
    [] m = "affordable" ->
         [f \in DOMAIN old |->
            IF f \in DOMAIN AiRules THEN [AiRules[f] EXCEPT !.on = old[f].on] ELSE old[f]]

\* The rest is one transaction, which retires whatever is published by then.
MigrationCommit ==
  LET m == migration.id
      v == made + 1
  IN  /\ migration # None /\ v <= MaxVersions
      /\ made' = v
      /\ rules' = [rules EXCEPT ![v] = MigratedRules(m, IF migration.source = 0 THEN <<>>
                                                       ELSE rules[migration.source])]
      /\ PublishOver(v, now, IF m = "initial" THEN {} ELSE Published)
      /\ applied' = [applied EXCEPT ![m] = v]
      /\ migration' = None
      /\ UNCHANGED <<column, now, publish, bill>>

\* A crash or an error rolls back and frees the lock.
MigrationStops ==
  /\ migration # None /\ migration' = None
  /\ UNCHANGED <<versions, column, applied, now, publish, bill>>

\* migrateDown of the last migration deletes its version, in force or not, and publishes
\* the version retired last.
Retired == {v \in 1..made : status[v] = "retired"}
MigrationDown ==
  LET gone == applied["affordable"]
      back == Last(Retired \ {gone})
  IN  /\ migration = None /\ gone # 0
      /\ status' = [v \in Ids |-> IF v = gone THEN "deleted"
                                   ELSE IF v = back THEN "published" ELSE status[v]]
      /\ at' = IF back = 0 THEN at ELSE [at EXCEPT ![back] = now]
      /\ applied' = [applied EXCEPT !["affordable"] = 0]
      /\ UNCHANGED <<made, rules, column, migration, now, publish, bill>>

-----------------------------------------------------------------------------
(* Bills.                                                                  *)

\* A preauth's first SELECT opens its view of the database (REPEATABLE READ).
QuoteOpen(b) ==
  /\ bill[b].state = "none" /\ (Active # 0 => column)
  /\ bill' = [bill EXCEPT ![b] = [state |-> "open", version |-> Active, rules |-> Catalogue]]
  /\ UNCHANGED <<versions, deploy, now, publish>>

\* quote reads the catalogue again, in that view; an unknown or disabled feature is refused.
\* (Mutant: the second read sees what is committed by then.)
SecondReadCommitted(b) == Catalogue
SecondRead(b) == bill[b].rules
Preauth(b, f, u) ==
  /\ bill[b].state = "open"
  /\ LET seen == SecondRead(b) IN
       /\ f \in DOMAIN seen /\ seen[f].on
       /\ bill' = [bill EXCEPT ![b] =
            [state |-> "held", version |-> bill[b].version, feature |-> f, rule |-> seen[f],
             amount |-> u, hold |-> Cost(seen[f], u)]]
  /\ UNCHANGED <<versions, deploy, now, publish>>

\* What settleFixed, settleMetered and settleTokens take for amount u.
\* (Mutant: by the catalogue in force.)
ToPayNow(l, u) ==
  IF l.rule.mode = "token" /\ l.feature \in DOMAIN Catalogue
    THEN AtMost(l.hold, Cost(Catalogue[l.feature], u)) ELSE l.hold
ToPay(l, u) == IF l.rule.mode = "token" THEN AtMost(l.hold, Cost(l.rule, u)) ELSE l.hold

\* settleMetered refuses a hold that is not what the snapshot costs.
Settle(b, u) ==
  /\ bill[b].state = "held"
  /\ bill[b].rule.mode = "metered" => Cost(bill[b].rule, bill[b].amount) = bill[b].hold
  /\ bill' = [bill EXCEPT ![b] =
       [state |-> "settled", version |-> bill[b].version, feature |-> bill[b].feature,
        rule |-> bill[b].rule, amount |-> bill[b].amount, hold |-> bill[b].hold,
        used |-> u, paid |-> ToPay(bill[b], u)]]
  /\ UNCHANGED <<versions, deploy, now, publish>>

-----------------------------------------------------------------------------
Tick == now < MaxTime /\ now' = now + 1 /\ UNCHANGED <<versions, deploy, publish, bill>>

Next ==
  \/ \E raw \in Drafts : CreatePricingDraft(raw)
  \/ \E p \in Publishers : (\E v \in Ids : PublishStart(p, v)) \/ Publish(p) \/ PublishFails(p)
  \/ \E m \in Migrations : MigrationStart(m)
  \/ MigrationCommit \/ MigrationStops \/ MigrationDown
  \/ \E b \in Bills : \/ QuoteOpen(b)
                      \/ \E f \in Features, u \in Uses : Preauth(b, f, u)
                      \/ \E u \in Uses : Settle(b, u)
  \/ Tick

Spec == Init /\ [][Next]_vars

-----------------------------------------------------------------------------
(* Properties.                                                             *)

TypeOK ==
  /\ made \in 0..MaxVersions /\ now \in 0..MaxTime /\ column \in BOOLEAN
  /\ status \in [Ids -> {"absent", "draft", "published", "retired", "deleted"}]
  /\ at \in [Ids -> 0..MaxTime]
  /\ applied \in [Migrations -> 0..MaxVersions]
  /\ migration \in [id : Migrations, source : 0..MaxVersions] \cup {None}
  /\ publish \in [Publishers -> [target : Ids, at : 0..MaxTime] \cup {None}]
  /\ DOMAIN rules = Ids /\ DOMAIN bill = Bills
  /\ \A b \in Bills : bill[b].state \in {"none", "open", "held", "settled"}

\* Versions are made in order, none before the initial migration; one a migration made was
\* published and stays; what is being published is a draft, of one request.
MadeInOrder == \A v \in Ids : status[v] = "absent" <=> v > made
InitialFirst ==
  applied["initial"] = 0 =>
    /\ made = 0 /\ ~column /\ applied["corpus"] = 0 /\ applied["affordable"] = 0
    /\ migration # None => migration.id = "initial"
AppliedStands ==
  /\ \A m \in Migrations :
       /\ applied[m] <= made /\ (migration # None /\ migration.id = m => applied[m] = 0)
       /\ applied[m] # 0 => status[applied[m]] \in {"published", "retired"}
  /\ applied["initial"] # 0 => applied["initial"] # applied["affordable"]
  /\ applied["corpus"] # 0 => applied["corpus"] # applied["affordable"]
OneRequestEach ==
  \A p, q \in Publishers :
    publish[p] # None => /\ status[publish[p].target] = "draft"
                         /\ (publish[q] # None /\ p # q => publish[q].target # publish[p].target)

\* A bill sees the rules of the version it names.
BillsSee ==
  \A b \in Bills :
    bill[b].state # "none" =>
      /\ bill[b].version \in 0..made
      /\ bill[b].state = "open" =>
           bill[b].rules = IF bill[b].version = 0 THEN Builtin ELSE rules[bill[b].version]

\* Once the initial migration has run there is always a version in force: no publish,
\* migration or rollback leaves quotes to the built-in prices.
AlwaysPublished == applied["initial"] # 0 => Published # {}
PricingInv ==
  TypeOK /\ MadeInOrder /\ InitialFirst /\ AppliedStands /\ OneRequestEach /\ BillsSee /\ AlwaysPublished

\* A bill's rule is that of the version it names.
OwnVersion(l) ==
  LET list == IF l.version = 0 THEN Builtin ELSE rules[l.version]
  IN  l.feature \in DOMAIN list /\ l.rule = list[l.feature]
BillsNameTheirPrice == \A b \in Bills : bill[b].state \in {"held", "settled"} => OwnVersion(bill[b])

\* What a rule should cost: the least number of units that covers the amount, priced, kept
\* within the limits.
Least(n, size) == CHOOSE k \in 0..n : k * size >= n /\ \A j \in 0..n : j * size >= n => k <= j
Expected(r, u) ==
  LET charge == CASE r.mode = "fixed" -> r.fixed
                  [] r.mode = "metered" -> r.base + r.unit * Least(u.used, r.size)
                  [] r.mode = "token" ->
                       IF r.weighted THEN r.base + Least(r.in * u.in + r.out * u.out, r.size)
                       ELSE r.base + r.in * Least(u.in, Thousand) + r.out * Least(u.out, Thousand)
  IN  CASE charge < r.min -> r.min
        [] charge > Limit(r) -> Limit(r)
        [] OTHER -> charge

\* A bill goes by the rule of the version it names: it holds what that rule should cost for
\* the amount quoted, and takes what it should cost for the amount used as long as that is
\* within the quote.  No change of prices touches it, nor does the limit of the hold.
Within(u, w) == u.in <= w.in /\ u.out <= w.out
PaidAsQuoted ==
  /\ BillsNameTheirPrice
  /\ \A b \in Bills :
       LET l == bill[b] IN
         /\ l.state \in {"held", "settled"} => l.hold = Expected(l.rule, l.amount)
         /\ l.state = "settled" =>
              /\ l.paid <= l.hold
              /\ Within(l.used, l.amount) =>
                   l.paid = Expected(l.rule, IF l.rule.mode = "token" THEN l.used ELSE l.amount)

RollsBack == applied["affordable"] # 0 /\ applied'["affordable"] = 0

\* Two versions in force, or a retired one again, come of a rollback and nothing else.
OnlyRollbackRevives ==
  [][(\/ Cardinality(Published') > 1 /\ Published' # Published
      \/ \E v \in Ids : status[v] = "retired" /\ status'[v] = "published")
     => RollsBack]_vars

\* A migration takes over every price it does not set from the version it retires, unless
\* its source has been retired since it was read.
Sets == [corpus |-> DOMAIN CorpusRules, affordable |-> DOMAIN AiRules]
CarriedOver ==
  [][\A m \in {"corpus", "affordable"} :
       applied[m] = 0 /\ applied'[m] # 0 =>
         \/ status[migration.source] \in {"retired", "deleted"}
         \/ \A f \in Features \ Sets[m] :
              /\ f \in DOMAIN Catalogue <=> f \in DOMAIN rules'[applied'[m]]
              /\ f \in DOMAIN Catalogue => rules'[applied'[m]][f] = Catalogue[f]]_vars
=============================================================================

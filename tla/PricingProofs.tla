--------------------------- MODULE PricingProofs ---------------------------
(***************************************************************************)
(* Proofs about Pricing, for any catalogues, publishers, bills and bounds. *)
(***************************************************************************)
EXTENDS Pricing, FiniteSetTheorems, WellFoundedInduction, TLAPS

\* Among versions one was published last: the later ones than a version are fewer the later
\* it is.
LEMMA LastIn ==
  ASSUME TypeOK, NEW S \in SUBSET Ids, S # {}
  PROVE  Last(S) \in S
<1> DEFINE U(v) == {w \in S : Later(w, v)}
           R == StrictSubsetOrdering(S)
           T == {U(v) : v \in S}
<1>1. \A v \in S : v \in Nat /\ at[v] \in Nat
  BY BoundsAssumption DEF TypeOK, Ids
<1>2. IsFiniteSet(S)
  <2>1. IsFiniteSet(Ids)
    BY FS_Interval, BoundsAssumption DEF Ids
  <2> QED
    BY <2>1, FS_Subset
<1>3. PICK X \in T : \A Y \in T : <<Y, X>> \notin R
  <2>1. IsWellFoundedOn(R, SUBSET S)
    BY <1>2, FS_StrictSubsetOrderingWellFounded, FS_FiniteSubsetsOfFinite
  <2>2. T \subseteq SUBSET S /\ T # {}
    OBVIOUS
  <2> HIDE DEF R, T
  <2> QED
    BY <2>1, <2>2, WFMin
<1>4. PICK x \in S : X = U(x)
  OBVIOUS
<1>5. ASSUME NEW w \in U(x) PROVE FALSE
  <2>1. U(w) \subseteq U(x)
    BY <1>1, <1>5 DEF Later
  <2>2. w \notin U(w)
    BY <1>1, <1>5 DEF Later
  <2>3. U(w) # U(x)
    BY <1>5, <2>2
  <2>4. U(w) \in T /\ U(w) \in SUBSET S /\ U(x) \in SUBSET S
    OBVIOUS
  <2> HIDE DEF U, T
  <2>5. <<U(w), U(x)>> \in R
    BY <2>1, <2>3, <2>4 DEF StrictSubsetOrdering
  <2> QED
    BY <1>3, <1>4, <2>4, <2>5
<1>6. \A w \in S \ {x} : Later(x, w)
  BY <1>1, <1>5 DEF Later
<1> QED
  BY <1>6 DEF Last

\* What is in force is one of the versions published, if there are any.
LEMMA ActiveIn ==
  ASSUME TypeOK
  PROVE  /\ Active \in 0..made
         /\ Active = 0 <=> Published = {}
         /\ Active # 0 => Active \in Published
<1>1. Published \in SUBSET Ids /\ Published \subseteq 1..made /\ made \in Nat
  BY BoundsAssumption DEF Published, TypeOK, Ids
<1>2. CASE Published = {}
  BY <1>1, <1>2 DEF Active, Last
<1>3. CASE Published # {}
  <2>1. Active \in Published
    BY <1>1, <1>3, LastIn DEF Active
  <2> QED
    BY <1>1, <1>3, <2>1
<1> QED
  BY <1>2, <1>3

-----------------------------------------------------------------------------
(* The invariant.                                                          *)

PInv == PricingInv /\ BillsNameTheirPrice

\* Nothing is made, published or billed at first.
LEMMA InitInv == Init => PInv
<1> SUFFICES ASSUME Init PROVE PInv
  OBVIOUS
<1>0. /\ made = 0 /\ now = 0 /\ column = FALSE /\ migration = None
      /\ \A m \in Migrations : applied[m] = 0
      /\ \A v \in Ids : status[v] = "absent"
      /\ \A p \in Publishers : publish[p] = None
      /\ \A b \in Bills : bill[b].state = "none"
  BY DEF Init, NoBill
<1>1. TypeOK
  <2>1. 0 \in 0..MaxVersions /\ 0 \in 0..MaxTime
    BY BoundsAssumption
  <2>2. /\ status \in [Ids -> {"absent"}] /\ at \in [Ids -> 0..MaxTime]
        /\ applied \in [Migrations -> 0..MaxVersions] /\ publish \in [Publishers -> {None}]
    BY <2>1 DEF Init
  <2>3. DOMAIN rules = Ids /\ DOMAIN bill = Bills
    BY DEF Init
  <2> QED
    BY <1>0, <2>1, <2>2, <2>3 DEF TypeOK
<1>2. MadeInOrder /\ InitialFirst /\ AppliedStands /\ OneRequestEach /\ BillsSee
  BY <1>0, BoundsAssumption DEF MadeInOrder, InitialFirst, AppliedStands, OneRequestEach, BillsSee,
     Migrations, Ids
<1>3. AlwaysPublished /\ BillsNameTheirPrice
  BY <1>0 DEF AlwaysPublished, Migrations, BillsNameTheirPrice
<1> QED
  BY <1>1, <1>2, <1>3 DEF PInv, PricingInv

\* A step that leaves the bills and the rules of the versions alone keeps the bills' prices.
LEMMA BillsKept ==
  ASSUME PInv, UNCHANGED bill, made' \in Nat, made <= made',
         \A v \in 1..made : rules'[v] = rules[v]
  PROVE  BillsNameTheirPrice' /\ BillsSee'
<1>1. made \in Nat
  BY BoundsAssumption DEF PInv, PricingInv, TypeOK
<1>2. BillsSee
  BY DEF PInv, PricingInv
<1>3. \A b \in Bills : bill[b].state # "none" =>
         bill[b].version \in 0..made'
         /\ (bill[b].version # 0 => rules'[bill[b].version] = rules[bill[b].version])
  BY <1>1, <1>2 DEF BillsSee
<1>4. \A b \in Bills : bill[b].state \in {"held", "settled"} => OwnVersion(bill[b])
  BY DEF PInv, BillsNameTheirPrice
<1>5. \A b \in Bills : bill[b].state \in {"held", "settled"} => OwnVersion(bill[b])'
  BY <1>3, <1>4 DEF OwnVersion
<1> QED
  BY <1>2, <1>3, <1>5 DEF BillsNameTheirPrice, BillsSee

\* A step that leaves the versions alone keeps what is in force.
LEMMA VersionsKept ==
  ASSUME PInv, UNCHANGED versions
  PROVE  /\ MadeInOrder' /\ Published' = Published
         /\ UNCHANGED bill => BillsNameTheirPrice' /\ BillsSee'
<1>1. MadeInOrder' /\ Published' = Published
  BY DEF PInv, PricingInv, MadeInOrder, Published, versions
<1>2. made' \in Nat /\ made <= made' /\ \A v \in 1..made : rules'[v] = rules[v]
  BY BoundsAssumption DEF PInv, PricingInv, TypeOK, versions
<1> QED
  BY <1>1, <1>2, BillsKept

LEMMA DraftStep ==
  ASSUME PInv, NEW raw \in Drafts, CreatePricingDraft(raw)
  PROVE  PInv'
<1> USE DEF PInv, PricingInv
<1>1. TypeOK
  OBVIOUS
<1>2. /\ made' = made + 1 /\ made \in 0..MaxVersions /\ made < MaxVersions /\ made + 1 \in Ids
      /\ status' = [status EXCEPT ![made + 1] = "draft"]
      /\ UNCHANGED <<at, deploy, now, publish, bill>> /\ column
  BY BoundsAssumption DEF CreatePricingDraft, TypeOK, Ids
<1>3. TypeOK'
  <2>1. made' \in 0..MaxVersions
    BY <1>2, BoundsAssumption
  <2>2. DOMAIN rules' = Ids
    BY DEF CreatePricingDraft, TypeOK
  <2>3. status' \in [Ids -> {"absent", "draft", "published", "retired", "deleted"}]
    BY <1>2 DEF TypeOK
  <2> QED
    BY <1>1, <1>2, <2>1, <2>2, <2>3 DEF TypeOK, deploy
<1>4. \A v \in 1..made : rules'[v] = rules[v]
  BY <1>2, BoundsAssumption DEF CreatePricingDraft, TypeOK, Ids
<1>5. BillsNameTheirPrice' /\ BillsSee'
  BY <1>2, <1>4, BillsKept, BoundsAssumption
<1>6. MadeInOrder'
  <2> SUFFICES ASSUME NEW w \in Ids PROVE status'[w] = "absent" <=> w > made'
    BY DEF MadeInOrder
  <2>1. status[w] = "absent" <=> w > made
    BY DEF MadeInOrder
  <2>2. status'[w] = IF w = made + 1 THEN "draft" ELSE status[w]
    BY <1>2 DEF TypeOK
  <2> QED
    BY <1>2, <2>1, <2>2, BoundsAssumption DEF Ids
<1>7. \A v \in 1..made : status'[v] = status[v]
  BY <1>2, BoundsAssumption DEF TypeOK, Ids
<1>8. InitialFirst' /\ AppliedStands'
  <2>1. applied["initial"] # 0
    BY <1>2 DEF InitialFirst
  <2>2. \A m \in Migrations : applied[m] # 0 => applied[m] \in 1..made
    BY BoundsAssumption DEF TypeOK, AppliedStands, Migrations
  <2>3. \A m \in Migrations : applied[m] <= made'
    BY <1>2, BoundsAssumption DEF TypeOK, AppliedStands, Migrations
  <2>4. InitialFirst'
    BY <1>2, <2>1 DEF InitialFirst, deploy
  <2>5. AppliedStands
    OBVIOUS
  <2>6. UNCHANGED <<applied, migration>>
    BY <1>2 DEF deploy
  <2>7. \A m \in Migrations : applied[m] # 0 => status'[applied[m]] = status[applied[m]]
    BY <1>7, <2>2
  <2> QED
    BY <2>3, <2>4, <2>5, <2>6, <2>7 DEF AppliedStands
<1>9. OneRequestEach'
  <2>1. \A p \in Publishers : publish[p] # None => publish[p].target \in Ids
    BY DEF TypeOK
  <2>2. status[made + 1] = "absent"
    BY <1>2, BoundsAssumption DEF MadeInOrder
  <2>3. \A v \in Ids : status[v] = "draft" => status'[v] = "draft"
    BY <1>2, <2>2 DEF TypeOK
  <2> QED
    BY <1>2, <2>1, <2>3 DEF OneRequestEach
<1>10. AlwaysPublished'
  <2>1. Published \subseteq Published'
    BY <1>2, <1>7, BoundsAssumption DEF Published
  <2> QED
    BY <1>2, <2>1 DEF AlwaysPublished, deploy
<1> QED
  BY <1>3, <1>5, <1>6, <1>8, <1>9, <1>10

\* Publishing: version v, which no publish of another request has as its target.
LEMMA OverStep ==
  ASSUME PInv, NEW v \in 1..made, NEW t \in 0..MaxTime, NEW S \in SUBSET Published,
         PublishOver(v, t, S), v \notin {applied[m] : m \in Migrations}, UNCHANGED made
  PROVE  /\ status' \in [Ids -> {"absent", "draft", "published", "retired", "deleted"}]
         /\ at' \in [Ids -> 0..MaxTime]
         /\ MadeInOrder'
         /\ v \in Published'
         /\ Published' = (Published \ S) \cup {v}
         /\ \A m \in Migrations : applied[m] # 0 => status'[applied[m]] \in {"published", "retired"}
<1> USE DEF PInv, PricingInv
<1>1. /\ made \in 0..MaxVersions /\ v \in Ids /\ 1..made \subseteq Ids
      /\ status \in [Ids -> {"absent", "draft", "published", "retired", "deleted"}]
      /\ at \in [Ids -> 0..MaxTime]
  BY BoundsAssumption DEF TypeOK, Ids
<1>2. /\ status' = [w \in Ids |-> IF w = v THEN "published" ELSE IF w \in S THEN "retired" ELSE status[w]]
      /\ at' = [at EXCEPT ![v] = t]
  BY DEF PublishOver
<1>3. S \subseteq 1..made /\ \A w \in S : status[w] = "published"
  BY DEF Published
<1>4. status' \in [Ids -> {"absent", "draft", "published", "retired", "deleted"}] /\ at' \in [Ids -> 0..MaxTime]
  BY <1>1, <1>2
<1>5. MadeInOrder'
  BY <1>1, <1>2, <1>3, BoundsAssumption DEF MadeInOrder, Ids
<1>6. Published' = (Published \ S) \cup {v}
  BY <1>1, <1>2, <1>3 DEF Published
<1>7. ASSUME NEW m \in Migrations, applied[m] # 0 PROVE status'[applied[m]] \in {"published", "retired"}
  <2>1. status[applied[m]] \in {"published", "retired"} /\ applied[m] \in Ids
    BY <1>7, BoundsAssumption DEF AppliedStands, TypeOK, Ids
  <2> QED
    BY <1>2, <2>1
<1> QED
  BY <1>4, <1>5, <1>6, <1>7

LEMMA PublishStartStep ==
  ASSUME PInv, NEW p \in Publishers, NEW v \in Ids, PublishStart(p, v)
  PROVE  PInv'
<1> USE DEF PInv, PricingInv
<1>1. /\ UNCHANGED <<versions, deploy, now, bill>> /\ status[v] = "draft"
      /\ publish' = [publish EXCEPT ![p] = [target |-> v, at |-> now]]
      /\ \A q \in Publishers : publish[q] # None => publish[q].target # v
  BY DEF PublishStart, Publishable
<1>2. MadeInOrder' /\ Published' = Published /\ BillsNameTheirPrice' /\ BillsSee'
  BY <1>1, VersionsKept
<1>3. TypeOK'
  BY <1>1 DEF TypeOK, versions, deploy
<1>4. InitialFirst' /\ AppliedStands' /\ AlwaysPublished'
  BY <1>1, <1>2 DEF InitialFirst, AppliedStands, AlwaysPublished, versions, deploy
<1>5. OneRequestEach'
  <2>1. publish'[p] = [target |-> v, at |-> now] /\ \A q \in Publishers \ {p} : publish'[q] = publish[q]
    BY <1>1 DEF TypeOK
  <2>2. status' = status
    BY <1>1 DEF versions
  <2> QED
    BY <1>1, <2>1, <2>2 DEF OneRequestEach
<1> QED
  BY <1>2, <1>3, <1>4, <1>5

LEMMA PublishStep ==
  ASSUME PInv, NEW p \in Publishers, Publish(p)
  PROVE  PInv' /\ Published' = {publish[p].target}
<1> USE DEF PInv, PricingInv
<1> DEFINE v == publish[p].target
<1>1. /\ publish[p] # None /\ UNCHANGED <<made, rules, deploy, now, bill>>
      /\ PublishOver(v, publish[p].at, Published) /\ publish' = [publish EXCEPT ![p] = None]
  BY DEF Publish
<1>2. publish[p].at \in 0..MaxTime /\ v \in Ids /\ status[v] = "draft"
  BY <1>1 DEF TypeOK, OneRequestEach
<1>3. v \in 1..made
  BY <1>2, BoundsAssumption DEF MadeInOrder, TypeOK, Ids
<1>4. v \notin {applied[m] : m \in Migrations}
  BY <1>2, BoundsAssumption DEF AppliedStands, Ids
<1> HIDE DEF v
<1>5. /\ status' \in [Ids -> {"absent", "draft", "published", "retired", "deleted"}]
      /\ at' \in [Ids -> 0..MaxTime]
      /\ MadeInOrder'
      /\ Published' = {v}
      /\ \A m \in Migrations : applied[m] # 0 => status'[applied[m]] \in {"published", "retired"}
  BY <1>1, <1>2, <1>3, <1>4, OverStep
<1>6. TypeOK'
  BY <1>1, <1>5 DEF TypeOK, deploy
<1>7. BillsNameTheirPrice' /\ BillsSee'
  BY <1>1, BillsKept, BoundsAssumption DEF TypeOK
<1>8. InitialFirst' /\ AppliedStands' /\ AlwaysPublished'
  BY <1>1, <1>5 DEF InitialFirst, AppliedStands, AlwaysPublished, deploy
<1>9. OneRequestEach'
  <2>1. publish'[p] = None /\ \A q \in Publishers \ {p} : publish'[q] = publish[q]
    BY <1>1 DEF TypeOK
  <2>2. \A q \in Publishers \ {p} : publish[q] # None => publish[q].target # v /\ publish[q].target \in Ids
    BY <1>1 DEF OneRequestEach, TypeOK, v
  <2>3. \A w \in Ids \ {v} : status[w] = "draft" => status'[w] = "draft"
    BY <1>1 DEF PublishOver, Published
  <2> QED
    BY <2>1, <2>2, <2>3 DEF OneRequestEach
<1> QED
  BY <1>5, <1>6, <1>7, <1>8, <1>9 DEF v

LEMMA PublishFailsStep ==
  ASSUME PInv, NEW p \in Publishers, PublishFails(p)
  PROVE  PInv'
<1> USE DEF PInv, PricingInv
<1>1. UNCHANGED <<versions, deploy, now, bill>> /\ publish' = [publish EXCEPT ![p] = None]
  BY DEF PublishFails
<1>2. MadeInOrder' /\ Published' = Published /\ BillsNameTheirPrice' /\ BillsSee'
  BY <1>1, VersionsKept
<1>3. TypeOK'
  BY <1>1 DEF TypeOK, versions, deploy
<1>4. InitialFirst' /\ AppliedStands' /\ AlwaysPublished'
  BY <1>1, <1>2 DEF InitialFirst, AppliedStands, AlwaysPublished, versions, deploy
<1>5. OneRequestEach'
  <2>1. \A q \in Publishers : publish'[q] # None => publish'[q] = publish[q]
    BY <1>1 DEF TypeOK
  <2> QED
    BY <1>1, <2>1 DEF OneRequestEach, versions
<1> QED
  BY <1>2, <1>3, <1>4, <1>5

-----------------------------------------------------------------------------
(* Migrations.                                                             *)

LEMMA MigrationStartStep ==
  ASSUME PInv, NEW m \in Migrations, MigrationStart(m)
  PROVE  PInv'
<1> USE DEF PInv, PricingInv
<1>1. /\ UNCHANGED <<versions, applied, now, publish, bill>> /\ applied[m] = 0
      /\ migration' = [id |-> m, source |-> Active] /\ column' = (column \/ m = "corpus")
      /\ \A k \in Before[m] : applied[k] # 0
  BY DEF MigrationStart, Source
<1>2. MadeInOrder' /\ Published' = Published /\ BillsNameTheirPrice' /\ BillsSee'
  BY <1>1, VersionsKept
<1>3. Active \in 0..MaxVersions
  BY ActiveIn, BoundsAssumption DEF TypeOK
<1>4. TypeOK'
  <2>1. migration' \in [id : Migrations, source : 0..MaxVersions]
    BY <1>1, <1>3
  <2>2. column' \in BOOLEAN
    BY <1>1
  <2> QED
    BY <1>1, <2>1, <2>2 DEF TypeOK, versions
<1>5. applied["initial"] = 0 => m = "initial"
  BY <1>1 DEF Before, Migrations
<1>6. InitialFirst'
  BY <1>1, <1>5 DEF InitialFirst, versions
<1>7. AppliedStands'
  <2>1. migration'.id = m
    BY <1>1
  <2> QED
    BY <1>1, <2>1 DEF AppliedStands, versions
<1>8. OneRequestEach' /\ AlwaysPublished'
  BY <1>1, <1>2 DEF OneRequestEach, AlwaysPublished, versions
<1> QED
  BY <1>2, <1>4, <1>6, <1>7, <1>8

LEMMA MigrationCommitStep ==
  ASSUME PInv, MigrationCommit
  PROVE  /\ PInv'
         /\ applied["affordable"] # 0 => applied'["affordable"] # 0
         /\ Published' = {made + 1}
         /\ \A v \in Ids : status[v] = "retired" => status'[v] # "published"
<1> USE DEF PInv, PricingInv
<1> DEFINE v == made + 1
<1>1. PICK m \in Migrations : migration # None /\ migration.id = m
  BY DEF MigrationCommit, TypeOK
<1>2. PICK S \in SUBSET Published :
        /\ v <= MaxVersions /\ made' = v
        /\ S = IF m = "initial" THEN {} ELSE Published
        /\ PublishOver(v, now, S)
        /\ applied' = [applied EXCEPT ![m] = v] /\ migration' = None
        /\ UNCHANGED <<column, now, publish, bill>>
        /\ \E r : rules' = [rules EXCEPT ![v] = r]
  <2>1. (IF m = "initial" THEN {} ELSE Published) \in SUBSET Published
    OBVIOUS
  <2> QED
    BY <1>1, <2>1 DEF MigrationCommit
<1>3. applied[m] = 0
  BY <1>1 DEF AppliedStands
<1>4. /\ made \in 0..MaxVersions /\ v \in Ids /\ 1..made \subseteq Ids /\ v \notin 1..made
      /\ made' \in 0..MaxVersions /\ made' = made + 1
      /\ status \in [Ids -> {"absent", "draft", "published", "retired", "deleted"}]
      /\ applied \in [Migrations -> 0..MaxVersions]
  BY <1>2, BoundsAssumption DEF TypeOK, Ids
<1>5. status[v] = "absent"
  BY <1>4, BoundsAssumption DEF MadeInOrder
<1> HIDE DEF v
<1>6. S = Published
  <2>1. m = "initial" => Published = {}
    BY <1>3, BoundsAssumption DEF InitialFirst, Published
  <2> QED
    BY <1>2, <2>1
<1>7. status' = [w \in Ids |-> IF w = v THEN "published" ELSE IF w \in Published THEN "retired" ELSE status[w]]
  BY <1>2, <1>6 DEF PublishOver
<1>8. Published' = {v}
  <2>1. \A w \in 1..made' : w = v \/ w \in 1..made
    BY <1>2, <1>4, BoundsAssumption DEF v
  <2>2. v \in 1..made'
    BY <1>2, <1>4, BoundsAssumption DEF v
  <2> QED
    BY <1>4, <1>7, <2>1, <2>2 DEF Published
<1>9. MadeInOrder'
  <2> SUFFICES ASSUME NEW w \in Ids PROVE status'[w] = "absent" <=> w > made'
    BY DEF MadeInOrder
  <2>1. status[w] = "absent" <=> w > made
    BY DEF MadeInOrder
  <2>2. w \in Published => status[w] = "published"
    BY DEF Published
  <2>3. status'[w] = "absent" <=> status[w] = "absent" /\ w # v
    BY <1>7, <2>2
  <2> QED
    BY <1>2, <1>4, <2>1, <2>3, BoundsAssumption DEF Ids, v
<1>10. TypeOK'
  <2>1. status' \in [Ids -> {"absent", "draft", "published", "retired", "deleted"}]
    BY <1>4, <1>7
  <2>2. at' \in [Ids -> 0..MaxTime]
    BY <1>2 DEF PublishOver, TypeOK
  <2>3. applied' \in [Migrations -> 0..MaxVersions]
    BY <1>2, <1>4, BoundsAssumption DEF Ids
  <2>4. DOMAIN rules' = Ids
    BY <1>2 DEF TypeOK
  <2> QED
    BY <1>2, <1>4, <2>1, <2>2, <2>3, <2>4 DEF TypeOK
<1>11. BillsNameTheirPrice' /\ BillsSee'
  <2>1. \A w \in 1..made : rules'[w] = rules[w]
    BY <1>2, <1>4 DEF TypeOK
  <2> QED
    BY <1>2, <1>4, <2>1, BillsKept, BoundsAssumption
<1>12. \A k \in Migrations : applied'[k] = IF k = m THEN v ELSE applied[k]
  BY <1>2, <1>4
<1>13. \A k \in Migrations : applied[k] # 0 => applied[k] \in 1..made /\ applied[k] # v /\ applied[k] \in Ids
  BY <1>4, BoundsAssumption DEF AppliedStands, Ids
<1>14. v # 0
  BY <1>4, BoundsAssumption DEF v
<1>15. InitialFirst' /\ AlwaysPublished'
  <2>1. m # "initial" => applied["initial"] # 0
    BY <1>1 DEF InitialFirst
  <2>2. applied'["initial"] # 0
    BY <1>12, <1>14, <2>1 DEF Migrations
  <2> QED
    BY <1>8, <2>2 DEF InitialFirst, AlwaysPublished
<1>16. AppliedStands'
  <2>1. ASSUME NEW k \in Migrations
        PROVE  applied'[k] <= made' /\ (applied'[k] # 0 => status'[applied'[k]] \in {"published", "retired"})
    <3>1. CASE k = m
      BY <1>2, <1>4, <1>7, <1>12, <3>1, BoundsAssumption DEF v
    <3>2. CASE k # m
      <4>1. applied[k] \in Nat /\ applied[k] <= made
        BY <1>4, BoundsAssumption DEF AppliedStands
      <4>2. applied[k] # 0 => status'[applied[k]] \in {"published", "retired"}
        BY <1>7, <1>13 DEF AppliedStands
      <4> QED
        BY <1>4, <1>12, <3>2, <4>1, <4>2, BoundsAssumption
    <3> QED
      BY <3>1, <3>2
  <2>2. \A k, n \in Migrations : k # n /\ (applied[k] # 0 => applied[k] # applied[n]) =>
          (applied'[k] # 0 => applied'[k] # applied'[n])
    BY <1>12, <1>13, <1>14
  <2>3. migration' = None
    BY <1>2
  <2>4. "initial" \in Migrations /\ "corpus" \in Migrations /\ "affordable" \in Migrations
    BY DEF Migrations
  <2> QED
    BY <2>1, <2>2, <2>3, <2>4 DEF AppliedStands
<1>17. OneRequestEach'
  <2>1. \A p \in Publishers : publish[p] # None => publish[p].target \in Ids
    BY DEF TypeOK
  <2>2. \A w \in Ids : status[w] = "draft" => status'[w] = "draft"
    BY <1>5, <1>7 DEF Published
  <2> QED
    BY <1>2, <2>1, <2>2 DEF OneRequestEach
<1>18. applied["affordable"] # 0 => applied'["affordable"] # 0
  BY <1>12, <1>14 DEF Migrations
<1>19. \A w \in Ids : status[w] = "retired" => status'[w] # "published"
  BY <1>5, <1>7
<1> QED
  BY <1>8, <1>9, <1>10, <1>11, <1>15, <1>16, <1>17, <1>18, <1>19 DEF v

LEMMA MigrationStopsStep ==
  ASSUME PInv, MigrationStops
  PROVE  PInv'
<1> USE DEF PInv, PricingInv
<1>1. UNCHANGED <<versions, column, applied, now, publish, bill>> /\ migration' = None
  BY DEF MigrationStops
<1>2. MadeInOrder' /\ Published' = Published /\ BillsNameTheirPrice' /\ BillsSee'
  BY <1>1, VersionsKept
<1>3. TypeOK'
  BY <1>1 DEF TypeOK, versions
<1> QED
  BY <1>1, <1>2, <1>3 DEF InitialFirst, AppliedStands, OneRequestEach, AlwaysPublished, versions

LEMMA MigrationDownStep ==
  ASSUME PInv, MigrationDown
  PROVE  PInv'
<1> USE DEF PInv, PricingInv
<1> DEFINE gone == applied["affordable"]
           left == Retired \ {gone}
           back == Last(left)
<1>1. /\ migration = None /\ gone # 0
      /\ status' = [v \in Ids |-> IF v = gone THEN "deleted" ELSE IF v = back THEN "published" ELSE status[v]]
      /\ at' = IF back = 0 THEN at ELSE [at EXCEPT ![back] = now]
      /\ applied' = [applied EXCEPT !["affordable"] = 0]
      /\ UNCHANGED <<made, rules, column, migration, now, publish, bill>>
  BY DEF MigrationDown
<1>2. /\ made \in 0..MaxVersions /\ 1..made \subseteq Ids
      /\ status \in [Ids -> {"absent", "draft", "published", "retired", "deleted"}]
      /\ applied \in [Migrations -> 0..MaxVersions]
  BY BoundsAssumption DEF TypeOK, Ids
<1>3. /\ "initial" \in Migrations /\ "corpus" \in Migrations /\ "affordable" \in Migrations
      /\ gone \in 1..made /\ status[gone] \in {"published", "retired"}
  BY <1>1, <1>2, BoundsAssumption DEF AppliedStands, Migrations
<1>4. left \in SUBSET Ids /\ (left # {} => back \in left) /\ (left = {} => back = 0)
  <2>1. left \in SUBSET Ids
    BY <1>2 DEF Retired
  <2>2. left = {} => back = 0
    BY DEF Last
  <2> HIDE DEF left
  <2> QED
    BY <2>1, <2>2, LastIn
<1>5. back = 0 \/ (back \in 1..made /\ back \in Ids /\ back # gone /\ status[back] = "retired")
  BY <1>2, <1>4 DEF Retired
<1>6. applied["initial"] # 0
  BY <1>1 DEF InitialFirst
<1>7. applied["initial"] \in 1..made /\ applied["initial"] # gone
      /\ status[applied["initial"]] \in {"published", "retired"}
  BY <1>2, <1>3, <1>6, BoundsAssumption DEF AppliedStands
<1>8. applied["corpus"] # 0 => applied["corpus"] \in 1..made /\ applied["corpus"] # gone
      /\ status[applied["corpus"]] \in {"published", "retired"}
  BY <1>2, <1>3, BoundsAssumption DEF AppliedStands
<1>9. left = {} => status[applied["initial"]] = "published"
  BY <1>7 DEF Retired
<1> HIDE DEF gone, left, back
<1>10. TypeOK'
  <2>1. status' \in [Ids -> {"absent", "draft", "published", "retired", "deleted"}]
    BY <1>1, <1>2
  <2>2. at' \in [Ids -> 0..MaxTime]
    BY <1>1, <1>5 DEF TypeOK
  <2>3. applied' \in [Migrations -> 0..MaxVersions]
    <3>1. 0 \in 0..MaxVersions /\ applied' = [applied EXCEPT !["affordable"] = 0]
      BY <1>1, BoundsAssumption
    <3> QED
      BY <1>2, <3>1
  <2> QED
    BY <1>1, <2>1, <2>2, <2>3 DEF TypeOK
<1>11. BillsNameTheirPrice' /\ BillsSee'
  BY <1>1, <1>2, BillsKept, BoundsAssumption
<1>12. MadeInOrder'
  <2> SUFFICES ASSUME NEW w \in Ids PROVE status'[w] = "absent" <=> w > made'
    BY DEF MadeInOrder
  <2>1. status[w] = "absent" <=> w > made
    BY DEF MadeInOrder
  <2>2. w = gone \/ w = back => ~(w > made)
    BY <1>2, <1>3, <1>5, BoundsAssumption DEF Ids
  <2>3. status'[w] = IF w = gone THEN "deleted" ELSE IF w = back THEN "published" ELSE status[w]
    BY <1>1
  <2> QED
    BY <1>1, <2>1, <2>2, <2>3
<1>13. applied'["initial"] = applied["initial"] /\ applied'["corpus"] = applied["corpus"]
       /\ applied'["affordable"] = 0
  BY <1>1, <1>2, <1>3
<1>14. \A v \in 1..made : v # gone /\ status[v] \in {"published", "retired"} =>
         status'[v] \in {"published", "retired"}
  BY <1>1, <1>2
<1>15. InitialFirst'
  BY <1>1, <1>6, <1>13 DEF InitialFirst
<1>16. AppliedStands'
  <2>1. migration' = None /\ made' = made
    BY <1>1
  <2>2. \A m \in Migrations : m = "initial" \/ m = "corpus" \/ m = "affordable"
    BY DEF Migrations
  <2>3. applied'["initial"] <= made' /\ status'[applied'["initial"]] \in {"published", "retired"}
    BY <1>2, <1>7, <1>13, <1>14, <2>1, BoundsAssumption
  <2>4. /\ applied'["corpus"] <= made'
        /\ applied'["corpus"] # 0 => status'[applied'["corpus"]] \in {"published", "retired"}
    <3>1. applied["corpus"] <= made
      BY <1>3 DEF AppliedStands
    <3> QED
      BY <1>8, <1>13, <1>14, <2>1, <3>1
  <2>5. applied'["affordable"] <= made'
    BY <1>2, <1>13, <2>1, BoundsAssumption
  <2>6. applied'["initial"] # applied'["affordable"]
    BY <1>6, <1>13
  <2>7. ASSUME NEW m \in Migrations
        PROVE  applied'[m] <= made' /\ (applied'[m] # 0 => status'[applied'[m]] \in {"published", "retired"})
    <3>1. CASE m = "initial"
      BY <2>3, <3>1
    <3>2. CASE m = "corpus"
      BY <2>4, <3>2
    <3>3. CASE m = "affordable"
      BY <1>13, <2>5, <3>3
    <3> QED
      BY <2>2, <3>1, <3>2, <3>3
  <2> QED
    BY <1>13, <2>1, <2>6, <2>7 DEF AppliedStands
<1>17. OneRequestEach'
  <2>1. \A p \in Publishers : publish[p] # None => publish[p].target \in Ids
    BY DEF TypeOK
  <2>2. \A w \in Ids : status[w] = "draft" => status'[w] = "draft"
    <3>1. 0 \notin Ids /\ gone \in Ids
      BY <1>2, <1>3, BoundsAssumption DEF Ids
    <3> QED
      BY <1>1, <1>3, <1>5, <3>1
  <2> QED
    BY <1>1, <2>1, <2>2 DEF OneRequestEach
<1>18. AlwaysPublished'
  <2>1. CASE left = {}
    <3>1. status'[applied["initial"]] = "published"
      BY <1>1, <1>2, <1>7, <1>9, <2>1
    <3>2. applied["initial"] \in Published'
      BY <1>1, <1>7, <3>1 DEF Published
    <3> QED
      BY <3>2 DEF AlwaysPublished
  <2>2. CASE left # {}
    <3>1. back \in Ids /\ back # gone /\ back \in 1..made
      BY <1>4, <1>2, <2>2 DEF left, Retired
    <3>2. back \in Published'
      BY <1>1, <3>1 DEF Published
    <3> QED
      BY <3>2 DEF AlwaysPublished
  <2> QED
    BY <2>1, <2>2
<1> QED
  BY <1>10, <1>11, <1>12, <1>15, <1>16, <1>17, <1>18

-----------------------------------------------------------------------------
(* Bills.                                                                  *)

\* A step that only moves bill b.
LEMMA BillStep ==
  ASSUME PInv, UNCHANGED <<versions, deploy, now, publish>>, NEW b \in Bills, NEW l,
         bill' = [bill EXCEPT ![b] = l], l.state \in {"open", "held", "settled"},
         l.version \in 0..made,
         l.state = "open" => l.rules = IF l.version = 0 THEN Builtin ELSE rules[l.version],
         l.state \in {"held", "settled"} => OwnVersion(l)
  PROVE  PInv'
<1> USE DEF PInv, PricingInv
<1>1. MadeInOrder' /\ Published' = Published
  BY VersionsKept
<1>2. bill'[b] = l /\ \A c \in Bills \ {b} : bill'[c] = bill[c]
  BY DEF TypeOK
<1>3. TypeOK'
  <2>1. DOMAIN bill' = Bills
    BY DEF TypeOK
  <2>2. \A c \in Bills : bill'[c].state \in {"none", "open", "held", "settled"}
    BY <1>2 DEF TypeOK
  <2> QED
    BY <2>1, <2>2 DEF TypeOK, versions, deploy
<1>4. made' = made /\ rules' = rules
  BY DEF versions
<1>5. BillsSee'
  BY <1>2, <1>4 DEF BillsSee
<1>6. BillsNameTheirPrice'
  <2>1. \A c \in Bills : bill'[c].state \in {"held", "settled"} => OwnVersion(bill'[c])
    BY <1>2 DEF BillsNameTheirPrice
  <2> QED
    BY <1>4, <2>1 DEF BillsNameTheirPrice, OwnVersion
<1> QED
  BY <1>1, <1>3, <1>5, <1>6 DEF InitialFirst, AppliedStands, OneRequestEach, AlwaysPublished, versions, deploy

LEMMA BillSteps ==
  ASSUME PInv, NEW b \in Bills,
         \/ QuoteOpen(b)
         \/ \E f \in Features, u \in Uses : Preauth(b, f, u)
         \/ \E u \in Uses : Settle(b, u)
  PROVE  PInv' /\ UNCHANGED <<versions, deploy>>
<1> USE DEF PInv, PricingInv
<1>1. CASE QuoteOpen(b)
  <2> DEFINE l == [state |-> "open", version |-> Active, rules |-> Catalogue]
  <2>1. bill' = [bill EXCEPT ![b] = l] /\ UNCHANGED <<versions, deploy, now, publish>>
    BY <1>1 DEF QuoteOpen
  <2>2. Active \in 0..made
    BY ActiveIn
  <2>3. l.state = "open" /\ l.version = Active /\ l.rules = IF Active = 0 THEN Builtin ELSE rules[Active]
    BY DEF Catalogue
  <2> HIDE DEF l
  <2> QED
    BY <2>1, <2>2, <2>3, BillStep
<1>2. ASSUME NEW f \in Features, NEW u \in Uses, Preauth(b, f, u) PROVE PInv' /\ UNCHANGED <<versions, deploy>>
  <2> DEFINE seen == bill[b].rules
             l == [state |-> "held", version |-> bill[b].version, feature |-> f, rule |-> seen[f],
                   amount |-> u, hold |-> Cost(seen[f], u)]
  <2>1. bill' = [bill EXCEPT ![b] = l] /\ UNCHANGED <<versions, deploy, now, publish>>
        /\ bill[b].state = "open" /\ f \in DOMAIN seen
    BY <1>2 DEF Preauth, SecondRead
  <2>2. bill[b].version \in 0..made
        /\ seen = IF bill[b].version = 0 THEN Builtin ELSE rules[bill[b].version]
    BY <2>1 DEF BillsSee
  <2>3. l.state = "held" /\ l.version = bill[b].version /\ l.feature = f /\ l.rule = seen[f]
    OBVIOUS
  <2> HIDE DEF l, seen
  <2>4. OwnVersion(l)
    BY <2>1, <2>2, <2>3 DEF OwnVersion
  <2> QED
    BY <2>1, <2>2, <2>3, <2>4, BillStep
<1>3. ASSUME NEW u \in Uses, Settle(b, u) PROVE PInv' /\ UNCHANGED <<versions, deploy>>
  <2> DEFINE l == [state |-> "settled", version |-> bill[b].version, feature |-> bill[b].feature,
                   rule |-> bill[b].rule, amount |-> bill[b].amount, hold |-> bill[b].hold,
                   used |-> u, paid |-> ToPay(bill[b], u)]
  <2>1. bill' = [bill EXCEPT ![b] = l] /\ UNCHANGED <<versions, deploy, now, publish>>
        /\ bill[b].state = "held"
    BY <1>3 DEF Settle
  <2>2. bill[b].version \in 0..made /\ OwnVersion(bill[b])
    BY <2>1 DEF BillsSee, BillsNameTheirPrice
  <2>3. l.state = "settled" /\ l.version = bill[b].version /\ l.feature = bill[b].feature /\ l.rule = bill[b].rule
    OBVIOUS
  <2> HIDE DEF l
  <2>4. OwnVersion(l)
    BY <2>2, <2>3 DEF OwnVersion
  <2> QED
    BY <2>1, <2>2, <2>3, <2>4, BillStep
<1> QED
  BY <1>1, <1>2, <1>3

\* PInv is inductive.
LEMMA StepInv == PInv /\ [Next]_vars => PInv'
<1> SUFFICES ASSUME PInv, [Next]_vars PROVE PInv'
  OBVIOUS
<1>1. CASE Tick
  <2> USE DEF PInv, PricingInv
  <2>1. UNCHANGED <<versions, deploy, publish, bill>> /\ now' \in 0..MaxTime
    BY <1>1, BoundsAssumption DEF Tick, TypeOK
  <2>2. MadeInOrder' /\ Published' = Published /\ BillsNameTheirPrice' /\ BillsSee'
    BY <2>1, VersionsKept
  <2>3. TypeOK'
    BY <2>1 DEF TypeOK, versions, deploy
  <2> QED
    BY <2>1, <2>2, <2>3 DEF InitialFirst, AppliedStands, OneRequestEach, AlwaysPublished, versions, deploy
<1>2. CASE UNCHANGED vars
  <2> USE DEF PInv, PricingInv
  <2>1. MadeInOrder' /\ Published' = Published /\ BillsNameTheirPrice' /\ BillsSee'
    BY <1>2, VersionsKept DEF vars
  <2>2. TypeOK'
    BY <1>2 DEF TypeOK, versions, deploy, vars
  <2> QED
    BY <1>2, <2>1, <2>2 DEF InitialFirst, AppliedStands, OneRequestEach, AlwaysPublished, versions, deploy, vars
<1> QED
  BY <1>1, <1>2, DraftStep, PublishStartStep, PublishStep, PublishFailsStep, MigrationStartStep,
     MigrationCommitStep, MigrationStopsStep, MigrationDownStep, BillSteps DEF Next

\* Versions are made and published in order, there is always one in force, and every bill
\* sees and names the rules of one version (admin_pricing_service.py, pricing.py).
THEOREM Invariant == Spec => [](PricingInv /\ BillsNameTheirPrice)
<1>1. Spec => []PInv
  BY InitInv, StepInv, PTL DEF Spec
<1> QED
  BY <1>1, PTL DEF PInv

\* What a bill holds and is settled by is the rule of the version it names.
THEOREM BillsNamePrices == Spec => []BillsNameTheirPrice
  BY Invariant, PTL

LEMMA ReviveStep ==
  ASSUME PInv, [Next]_vars,
         \/ Cardinality(Published') > 1 /\ Published' # Published
         \/ \E v \in Ids : status[v] = "retired" /\ status'[v] = "published"
  PROVE  RollsBack
<1> USE DEF PInv, PricingInv
<1>1. ASSUME UNCHANGED <<made, status>> PROVE FALSE
  BY <1>1 DEF Published
<1>2. ASSUME NEW raw \in Drafts, CreatePricingDraft(raw) PROVE FALSE
  <2>1. status' = [status EXCEPT ![made + 1] = "draft"] /\ made' = made + 1
        /\ made \in Nat /\ status \in [Ids -> {"absent", "draft", "published", "retired", "deleted"}]
        /\ made + 1 \in Ids
    BY <1>2, BoundsAssumption DEF CreatePricingDraft, TypeOK, Ids
  <2>2. \A w \in Ids : status'[w] = IF w = made + 1 THEN "draft" ELSE status[w]
    BY <2>1
  <2>3. Published' = Published
    <3>1. status[made + 1] = "absent" /\ 1..(made + 1) = (1..made) \cup {made + 1}
      BY <2>1 DEF MadeInOrder
    <3>2. 1..made' \subseteq Ids
      BY <2>1, BoundsAssumption DEF Ids
    <3> QED
      BY <2>1, <2>2, <3>1, <3>2 DEF Published
  <2> QED
    BY <2>2, <2>3
<1>3. ASSUME NEW p \in Publishers, Publish(p) PROVE FALSE
  <2>1. Cardinality(Published') = 1
    BY <1>3, PublishStep, FS_Singleton
  <2>2. \A v \in Ids : status[v] = "retired" => status'[v] # "published"
    <3>1. status[publish[p].target] = "draft"
      BY <1>3 DEF Publish, OneRequestEach
    <3> QED
      BY <1>3, <3>1 DEF Publish, PublishOver
  <2> QED
    BY <2>1, <2>2
<1>4. ASSUME MigrationCommit PROVE FALSE
  <2>1. Cardinality(Published') = 1
    BY <1>4, MigrationCommitStep, FS_Singleton
  <2> QED
    BY <1>4, <2>1, MigrationCommitStep
<1>5. CASE MigrationDown
  BY <1>5 DEF MigrationDown, RollsBack, TypeOK, Migrations
<1>6. ASSUME NEW p \in Publishers, NEW v \in Ids, PublishStart(p, v) PROVE FALSE
  BY <1>1, <1>6 DEF PublishStart, versions
<1>7. ASSUME NEW p \in Publishers, PublishFails(p) PROVE FALSE
  BY <1>1, <1>7 DEF PublishFails, versions
<1>8. ASSUME NEW m \in Migrations, MigrationStart(m) PROVE FALSE
  BY <1>1, <1>8 DEF MigrationStart, versions
<1>9. CASE MigrationStops \/ Tick \/ UNCHANGED vars
  BY <1>1, <1>9 DEF MigrationStops, Tick, vars, versions
<1>10. ASSUME NEW b \in Bills,
              \/ QuoteOpen(b)
              \/ \E f \in Features, u \in Uses : Preauth(b, f, u)
              \/ \E u \in Uses : Settle(b, u)
       PROVE  FALSE
  BY <1>1, <1>10, BillSteps DEF versions
<1> QED
  BY <1>2, <1>3, <1>4, <1>5, <1>6, <1>7, <1>8, <1>9, <1>10 DEF Next

\* Only a rollback puts a second version in force or brings a retired one back.
THEOREM RevivedByRollback == Spec => OnlyRollbackRevives
<1>1. PInv /\ [Next]_vars =>
        [(\/ Cardinality(Published') > 1 /\ Published' # Published
          \/ \E v \in Ids : status[v] = "retired" /\ status'[v] = "published") => RollsBack]_vars
  BY ReviveStep
<1>2. Spec => []PInv
  BY InitInv, StepInv, PTL DEF Spec
<1> QED
  BY <1>1, <1>2, PTL DEF Spec, OnlyRollbackRevives

-----------------------------------------------------------------------------
(* What a migration takes over: CarriedOver.                               *)

\* What a migration has read is still in force, or has been retired since.
SourceInv ==
  migration # None /\ migration.id # "initial" =>
    /\ migration.source \in 1..made
    /\ status[migration.source] \in {"retired", "deleted"} \/ migration.source = Active

\* The version in force depends on what is published, and when.
LEMMA SameActive == Published' = Published /\ at' = at => Active' = Active
  BY DEF Active, Last, Later

LEMMA SourceKept ==
  ASSUME PInv, SourceInv, UNCHANGED <<versions, migration>>
  PROVE  SourceInv'
<1>1. Published' = Published /\ at' = at /\ made' = made /\ status' = status /\ migration' = migration
  BY DEF versions, Published
<1>2. Active' = Active
  BY <1>1, SameActive
<1> QED
  BY <1>1, <1>2 DEF SourceInv

LEMMA DraftSource ==
  ASSUME PInv, SourceInv, NEW raw \in Drafts, CreatePricingDraft(raw)
  PROVE  SourceInv'
<1> USE DEF PInv, PricingInv
<1>1. /\ made' = made + 1 /\ made \in Nat /\ made + 1 \in Ids
      /\ status' = [status EXCEPT ![made + 1] = "draft"] /\ at' = at /\ migration' = migration
  BY BoundsAssumption DEF CreatePricingDraft, TypeOK, Ids, deploy
<1>2. \A v \in 1..made : status'[v] = status[v]
  BY <1>1, BoundsAssumption DEF TypeOK, Ids
<1>3. status'[made + 1] = "draft"
  BY <1>1 DEF TypeOK
<1>4. \A v : v \in 1..made' <=> v \in 1..made \/ v = made + 1
  BY <1>1
<1>5. Published' = Published
  BY <1>2, <1>3, <1>4 DEF Published
<1>6. Active' = Active
  BY <1>1, <1>5, SameActive
<1> QED
  BY <1>1, <1>2, <1>4, <1>6 DEF SourceInv

\* A publish retires the source, if nobody has before.
LEMMA PublishSource ==
  ASSUME PInv, SourceInv, NEW p \in Publishers, Publish(p)
  PROVE  SourceInv'
<1> USE DEF PInv, PricingInv
<1> DEFINE v == publish[p].target
           s == migration.source
<1>1. /\ publish[p] # None /\ made' = made /\ migration' = migration
      /\ status' = [w \in Ids |-> IF w = v THEN "published" ELSE IF w \in Published THEN "retired" ELSE status[w]]
  BY DEF Publish, PublishOver, deploy
<1>2. status[v] = "draft"
  BY <1>1 DEF OneRequestEach
<1> SUFFICES ASSUME migration # None, migration.id # "initial"
             PROVE  s \in 1..made /\ status'[s] \in {"retired", "deleted"}
  BY <1>1 DEF SourceInv
<1>3. s \in 1..made /\ s \in Ids /\ (status[s] \in {"retired", "deleted"} \/ s = Active)
  BY BoundsAssumption DEF SourceInv, TypeOK, Ids
<1>4. s = Active => s \in Published /\ status[s] = "published"
  BY <1>3, ActiveIn DEF Published
<1> HIDE DEF v, s
<1> QED
  BY <1>1, <1>2, <1>3, <1>4

LEMMA StartSource ==
  ASSUME PInv, NEW m \in Migrations, MigrationStart(m)
  PROVE  SourceInv'
<1> USE DEF PInv, PricingInv
<1>1. /\ UNCHANGED <<made, status, at>> /\ migration' = [id |-> m, source |-> Active]
      /\ \A k \in Before[m] : applied[k] # 0
  BY DEF MigrationStart, Source, versions
<1>2. Active' = Active
  BY <1>1, SameActive DEF Published
<1>3. ASSUME m # "initial" PROVE Active \in 1..made
  <2>1. applied["initial"] # 0
    BY <1>1, <1>3 DEF Before, Migrations
  <2>2. Active \in Published
    BY <2>1, ActiveIn DEF AlwaysPublished
  <2> QED
    BY <2>2 DEF Published
<1> QED
  BY <1>1, <1>2, <1>3 DEF SourceInv

LEMMA SourceStep == PInv /\ SourceInv /\ [Next]_vars => SourceInv'
<1> SUFFICES ASSUME PInv, SourceInv, [Next]_vars PROVE SourceInv'
  OBVIOUS
<1>1. CASE \/ \E p \in Publishers : (\E v \in Ids : PublishStart(p, v)) \/ PublishFails(p)
           \/ \E b \in Bills : \/ QuoteOpen(b)
                               \/ \E f \in Features, u \in Uses : Preauth(b, f, u)
                               \/ \E u \in Uses : Settle(b, u)
           \/ Tick \/ UNCHANGED vars
  BY <1>1, SourceKept
  DEF PublishStart, PublishFails, QuoteOpen, Preauth, Settle, Tick, deploy, vars
<1>2. CASE MigrationCommit \/ MigrationStops
  BY <1>2 DEF MigrationCommit, MigrationStops, SourceInv
<1>3. CASE MigrationDown
  BY <1>3 DEF MigrationDown, SourceInv
<1> QED
  BY <1>1, <1>2, <1>3, DraftSource, PublishSource, StartSource DEF Next

\* Only its own commit marks a migration as applied.
LEMMA CarryStep ==
  ASSUME PInv, SourceInv, [Next]_vars, NEW m \in {"corpus", "affordable"},
         applied[m] = 0, applied'[m] # 0
  PROVE  \/ status[migration.source] \in {"retired", "deleted"}
         \/ \A f \in Features \ Sets[m] :
              /\ f \in DOMAIN Catalogue <=> f \in DOMAIN rules'[applied'[m]]
              /\ f \in DOMAIN Catalogue => rules'[applied'[m]][f] = Catalogue[f]
<1> USE DEF PInv, PricingInv
<1>0. applied \in [Migrations -> 0..MaxVersions] /\ m \in Migrations
  BY DEF TypeOK, Migrations
<1>1. MigrationCommit /\ migration.id = m
  <2>1. ASSUME applied' = applied PROVE FALSE
    BY <2>1
  <2>2. CASE MigrationCommit
    BY <1>0, <2>2 DEF MigrationCommit
  <2>3. CASE MigrationDown
    BY <1>0, <2>3 DEF MigrationDown
  <2>4. ASSUME NEW raw \in Drafts, CreatePricingDraft(raw) PROVE FALSE
    BY <2>1, <2>4 DEF CreatePricingDraft, deploy
  <2>5. ASSUME NEW p \in Publishers, (\E v \in Ids : PublishStart(p, v)) \/ Publish(p) \/ PublishFails(p)
        PROVE  FALSE
    BY <2>1, <2>5 DEF PublishStart, Publish, PublishFails, deploy
  <2>6. ASSUME NEW k \in Migrations, MigrationStart(k) PROVE FALSE
    BY <2>1, <2>6 DEF MigrationStart
  <2>7. CASE MigrationStops \/ Tick \/ UNCHANGED vars
    BY <2>1, <2>7 DEF MigrationStops, Tick, deploy, vars
  <2>8. ASSUME NEW b \in Bills,
               \/ QuoteOpen(b)
               \/ \E f \in Features, u \in Uses : Preauth(b, f, u)
               \/ \E u \in Uses : Settle(b, u)
        PROVE  FALSE
    BY <2>1, <2>8 DEF QuoteOpen, Preauth, Settle, deploy
  <2> QED
    BY <2>2, <2>3, <2>4, <2>5, <2>6, <2>7, <2>8 DEF Next
<1> DEFINE s == migration.source
<1>2. /\ migration # None /\ s \in 1..made
      /\ status[s] \in {"retired", "deleted"} \/ s = Active
  BY <1>1 DEF SourceInv, MigrationCommit
<1> SUFFICES ASSUME s = Active
             PROVE  \A f \in Features \ Sets[m] :
                      /\ f \in DOMAIN Catalogue <=> f \in DOMAIN rules'[applied'[m]]
                      /\ f \in DOMAIN Catalogue => rules'[applied'[m]][f] = Catalogue[f]
  BY <1>2
<1>3. s # 0 /\ Catalogue = rules[s]
  BY <1>2, BoundsAssumption DEF Catalogue, TypeOK
<1>4. applied'[m] = made + 1 /\ made + 1 \in Ids
  BY <1>0, <1>1, BoundsAssumption DEF MigrationCommit, TypeOK, Ids
<1>5. rules'[made + 1] = MigratedRules(m, rules[s])
  BY <1>1, <1>3, <1>4 DEF MigrationCommit, TypeOK
<1> HIDE DEF s
<1>6. CASE m = "corpus"
  <2>1. MigratedRules(m, rules[s]) =
          [f \in DOMAIN rules[s] \cup DOMAIN CorpusRules |->
             IF f \in DOMAIN CorpusRules THEN CorpusRules[f] ELSE rules[s][f]]
    BY <1>6 DEF MigratedRules
  <2>2. Sets[m] = DOMAIN CorpusRules
    BY <1>6 DEF Sets
  <2> QED
    BY <1>3, <1>4, <1>5, <2>1, <2>2
<1>7. CASE m = "affordable"
  <2>1. MigratedRules(m, rules[s]) =
          [f \in DOMAIN rules[s] |->
             IF f \in DOMAIN AiRules THEN [AiRules[f] EXCEPT !.on = rules[s][f].on] ELSE rules[s][f]]
    BY <1>7 DEF MigratedRules
  <2>2. Sets[m] = DOMAIN AiRules
    BY <1>7 DEF Sets
  <2> QED
    BY <1>3, <1>4, <1>5, <2>1, <2>2
<1> QED
  BY <1>6, <1>7

\* A migration keeps every price it does not set, unless its source was retired under it.
THEOREM MigrationCarriesOver == Spec => CarriedOver
<1>1. Init => SourceInv
  BY DEF Init, SourceInv
<1>2. PInv /\ SourceInv /\ [Next]_vars =>
        [\A m \in {"corpus", "affordable"} :
           applied[m] = 0 /\ applied'[m] # 0 =>
             \/ status[migration.source] \in {"retired", "deleted"}
             \/ \A f \in Features \ Sets[m] :
                  /\ f \in DOMAIN Catalogue <=> f \in DOMAIN rules'[applied'[m]]
                  /\ f \in DOMAIN Catalogue => rules'[applied'[m]][f] = Catalogue[f]]_vars
  BY CarryStep
<1> QED
  BY <1>1, <1>2, InitInv, StepInv, SourceStep, PTL DEF Spec, CarriedOver

-----------------------------------------------------------------------------
(* What bills hold and pay: PaidAsQuoted.                                  *)

\* Rounding up by adding size - 1 gives the least number of units that covers the amount.
LEMMA CeilLeast ==
  ASSUME NEW n \in Nat, NEW size \in Nat \ {0}
  PROVE  CeilUnits(n, size) = Least(n, size) /\ CeilUnits(n, size) \in 0..n
<1> DEFINE k == (n + size - 1) \div size
           Covers(j) == j * size >= n
<1>1. k \in Nat /\ k * size <= n + size - 1 /\ n + size - 1 < k * size + size
  <2>1. n + size - 1 \in Nat
    OBVIOUS
  <2> QED
    BY <2>1
<1> HIDE DEF k
<1>2. Covers(k)
  BY <1>1
<1>3. ASSUME NEW j \in Nat, Covers(j) PROVE k <= j
  <2> SUFFICES ASSUME j + 1 <= k PROVE FALSE
    BY <1>1
  <2>1. (j + 1) * size <= k * size /\ (j + 1) * size = j * size + size
    BY <1>1
  <2>2. j * size \in Nat /\ k * size \in Nat
    BY <1>1
  <2> QED
    BY <1>1, <1>3, <2>1, <2>2
<1>4. Covers(n)
  OBVIOUS
<1>5. k \in 0..n
  BY <1>1, <1>3, <1>4
<1>6. \A j \in 0..n : Covers(j) /\ (\A i \in 0..n : Covers(i) => j <= i) => j = k
  <2> HIDE DEF Covers
  <2> QED
    BY <1>2, <1>3, <1>5
<1>7. Least(n, size) = k
  <2>1. Least(n, size) = CHOOSE j \in 0..n : Covers(j) /\ \A i \in 0..n : Covers(i) => j <= i
    BY DEF Least
  <2> HIDE DEF Covers
  <2> QED
    BY <1>2, <1>3, <1>5, <1>6, <2>1
<1> QED
  BY <1>5, <1>7 DEF CeilUnits, k

\* More is never fewer units.
LEMMA CeilMonotone ==
  ASSUME NEW m \in Nat, NEW n \in Nat, m <= n, NEW size \in Nat \ {0}
  PROVE  CeilUnits(m, size) <= CeilUnits(n, size)
<1> DEFINE j == (m + size - 1) \div size
           k == (n + size - 1) \div size
<1>1. j \in Nat /\ j * size <= m + size - 1
  <2>1. m + size - 1 \in Nat
    OBVIOUS
  <2> QED
    BY <2>1
<1>2. k \in Nat /\ n + size - 1 < k * size + size
  <2>1. n + size - 1 \in Nat
    OBVIOUS
  <2> QED
    BY <2>1
<1> HIDE DEF j, k
<1>3. ASSUME k + 1 <= j PROVE FALSE
  <2>1. (k + 1) * size <= j * size /\ (k + 1) * size = k * size + size
    BY <1>1, <1>2, <1>3
  <2>2. j * size \in Nat /\ k * size \in Nat
    BY <1>1, <1>2
  <2> QED
    BY <1>1, <1>2, <2>1, <2>2
<1>4. j <= k
  BY <1>1, <1>2, <1>3
<1> QED
  BY <1>4 DEF CeilUnits, j, k

LEMMA Product == \A a, b, c \in Nat : a * b \in Nat /\ a * b = b * a /\ (a <= c => a * b <= c * b)
  OBVIOUS

\* A rule that is in order charges a number, and for tokens never more for fewer.
LEMMA ChargeTokens ==
  ASSUME NEW r, InOrder(r), r.mode = "token", NEW u \in Amount
  PROVE  /\ Charge(r, u) \in Nat
         /\ Charge(r, u) = IF r.weighted THEN r.base + Least(r.in * u.in + r.out * u.out, r.size)
                           ELSE r.base + r.in * Least(u.in, Thousand) + r.out * Least(u.out, Thousand)
         /\ \A w \in Amount : Within(w, u) => Charge(r, w) <= Charge(r, u)
<1>1. /\ r.size \in Nat \ {0} /\ r.base \in Nat /\ r.in \in Nat /\ r.out \in Nat
      /\ Thousand \in Nat \ {0}
  BY AmountsAssumption DEF InOrder, Rule
<1>2. \A w \in Amount : w.in \in Nat /\ w.out \in Nat
  BY DEF Amount
<1>3. CASE r.weighted
  <2> DEFINE T(w) == w.in * r.in + w.out * r.out
  <2>1. \A w \in Amount : Charge(r, w) = r.base + CeilUnits(T(w), r.size)
    BY <1>3 DEF Charge
  <2>2. \A w \in Amount : w.in * r.in \in Nat /\ w.out * r.out \in Nat
    BY <1>1, <1>2, Product
  <2>3. \A w \in Amount : T(w) \in Nat
    BY <2>2
  <2>4. T(u) = r.in * u.in + r.out * u.out
    BY <1>1, <1>2, Product
  <2>5. ASSUME NEW w \in Amount, Within(w, u) PROVE T(w) <= T(u)
    <3>1. w.in * r.in <= u.in * r.in /\ w.out * r.out <= u.out * r.out
      BY <1>1, <1>2, <2>5, Product DEF Within
    <3> QED
      BY <2>2, <3>1
  <2> HIDE DEF T
  <2>6. CeilUnits(T(u), r.size) = Least(T(u), r.size) /\ CeilUnits(T(u), r.size) \in Nat
    BY <1>1, <2>3, CeilLeast
  <2>7. ASSUME NEW w \in Amount, Within(w, u) PROVE Charge(r, w) <= Charge(r, u)
    <3>1. CeilUnits(T(w), r.size) <= CeilUnits(T(u), r.size)
      BY <1>1, <2>3, <2>5, <2>7, CeilMonotone
    <3>2. CeilUnits(T(w), r.size) \in Nat
      BY <1>1, <2>3, CeilLeast
    <3> QED
      BY <1>1, <2>1, <2>6, <3>1, <3>2
  <2> QED
    BY <1>1, <1>3, <2>1, <2>4, <2>6, <2>7
<1>4. CASE ~r.weighted
  <2> DEFINE I(w) == CeilUnits(w.in, Thousand)
             O(w) == CeilUnits(w.out, Thousand)
  <2>1. \A w \in Amount : Charge(r, w) = r.base + I(w) * r.in + O(w) * r.out
    BY <1>4 DEF Charge
  <2>2. \A w \in Amount : I(w) \in Nat /\ O(w) \in Nat
    BY <1>1, <1>2, CeilLeast
  <2>3. I(u) = Least(u.in, Thousand) /\ O(u) = Least(u.out, Thousand)
    BY <1>1, <1>2, CeilLeast
  <2>4. ASSUME NEW w \in Amount, Within(w, u) PROVE I(w) <= I(u) /\ O(w) <= O(u)
    BY <1>1, <1>2, <2>4, CeilMonotone DEF Within
  <2> HIDE DEF I, O
  <2>5. \A w \in Amount : I(w) * r.in \in Nat /\ O(w) * r.out \in Nat
    BY <1>1, <2>2, Product
  <2>6. ASSUME NEW w \in Amount, Within(w, u) PROVE Charge(r, w) <= Charge(r, u)
    <3>1. I(w) * r.in <= I(u) * r.in /\ O(w) * r.out <= O(u) * r.out
      BY <1>1, <2>2, <2>4, <2>6, Product
    <3> QED
      BY <1>1, <2>1, <2>5, <3>1
  <2>7. I(u) * r.in = r.in * I(u) /\ O(u) * r.out = r.out * O(u)
    BY <1>1, <2>2, Product
  <2> QED
    BY <1>1, <1>4, <2>1, <2>3, <2>5, <2>6, <2>7
<1> QED
  BY <1>3, <1>4

\* A rule in order costs what it should, and for tokens never more for fewer.
LEMMA CostExpected ==
  ASSUME NEW r, InOrder(r), NEW u \in Amount
  PROVE  Cost(r, u) = Expected(r, u) /\ Cost(r, u) \in Nat
<1> DEFINE charge == CASE r.mode = "fixed" -> r.fixed
                       [] r.mode = "metered" -> r.base + r.unit * Least(u.used, r.size)
                       [] r.mode = "token" ->
                            IF r.weighted THEN r.base + Least(r.in * u.in + r.out * u.out, r.size)
                            ELSE r.base + r.in * Least(u.in, Thousand) + r.out * Least(u.out, Thousand)
<1>1. /\ r.mode \in {"fixed", "metered", "token"} /\ r.fixed \in Nat /\ r.base \in Nat /\ r.unit \in Nat
      /\ r.size \in Nat \ {0} /\ r.min \in Nat /\ r.max \in Nat /\ r.min <= r.max /\ u.used \in Nat
  BY DEF InOrder, Rule, Amount
<1>2. Charge(r, u) = charge /\ Charge(r, u) \in Nat
  <2>1. CASE r.mode = "fixed"
    BY <1>1, <2>1 DEF Charge
  <2>2. CASE r.mode = "metered"
    <3>1. CeilUnits(u.used, r.size) = Least(u.used, r.size) /\ CeilUnits(u.used, r.size) \in Nat
      BY <1>1, CeilLeast
    <3>2. Charge(r, u) = r.base + CeilUnits(u.used, r.size) * r.unit
      BY <2>2 DEF Charge
    <3>3. charge = r.base + r.unit * Least(u.used, r.size)
      BY <2>2
    <3> QED
      BY <1>1, <3>1, <3>2, <3>3, Product
  <2>3. CASE r.mode = "token"
    <3>1. charge = IF r.weighted THEN r.base + Least(r.in * u.in + r.out * u.out, r.size)
                   ELSE r.base + r.in * Least(u.in, Thousand) + r.out * Least(u.out, Thousand)
      BY <2>3
    <3> HIDE DEF charge
    <3> QED
      BY <2>3, <3>1, ChargeTokens
  <2> QED
    BY <1>1, <2>1, <2>2, <2>3
<1>3. Expected(r, u) = CASE charge < r.min -> r.min
                         [] charge > Limit(r) -> Limit(r)
                         [] OTHER -> charge
  BY DEF Expected
<1>4. Limit(r) \in Nat /\ r.min <= Limit(r)
  BY <1>1, AmountsAssumption DEF Limit
<1> HIDE DEF charge
<1> QED
  BY <1>1, <1>2, <1>3, <1>4 DEF Cost, AtLeast, AtMost

LEMMA CostTokens ==
  ASSUME NEW r, InOrder(r), r.mode = "token", NEW u \in Amount, NEW w \in Amount, Within(w, u)
  PROVE  Cost(r, w) <= Cost(r, u)
<1>1. Charge(r, u) \in Nat /\ Charge(r, w) \in Nat /\ Charge(r, w) <= Charge(r, u)
  BY ChargeTokens
<1>2. Limit(r) \in Nat /\ r.min \in Nat
  BY AmountsAssumption DEF Limit, InOrder, Rule
<1> QED
  BY <1>1, <1>2 DEF Cost, AtLeast, AtMost

\* Every version's rules are in order, and every bill is priced by such a rule.
RulesSound == \A v \in Ids : Sound(rules[v])
Priced(l) ==
  /\ l.state = "open" => Sound(l.rules)
  /\ l.state \in {"held", "settled"} =>
       /\ InOrder(l.rule) /\ l.amount \in Amount /\ l.hold = Cost(l.rule, l.amount)
  /\ l.state = "settled" =>
       /\ l.used \in Amount
       /\ l.paid = IF l.rule.mode = "token" THEN AtMost(l.hold, Cost(l.rule, l.used)) ELSE l.hold
QuoteInv == RulesSound /\ \A b \in Bills : Priced(bill[b])

LEMMA QuoteInit == Init => QuoteInv
<1> SUFFICES ASSUME Init PROVE QuoteInv
  OBVIOUS
<1>1. \A v \in Ids : DOMAIN rules[v] = {}
  BY DEF Init
<1> QED
  BY <1>1 DEF Init, NoBill, QuoteInv, RulesSound, Sound, Priced

\* What _validateRule lets through is in order.
LEMMA DraftSound ==
  ASSUME TypeOK, QuoteInv, NEW raw \in Drafts, CreatePricingDraft(raw)
  PROVE  QuoteInv'
<1> DEFINE list == [f \in DOMAIN raw |-> Normalised(raw[f])]
<1>1. /\ rules' = [rules EXCEPT ![made + 1] = list] /\ bill' = bill
      /\ \A f \in DOMAIN raw : Valid(raw[f]) /\ raw[f] \in Rule
  BY RulesAssumption DEF CreatePricingDraft
<1>2. ASSUME NEW r \in Rule, Valid(r) PROVE InOrder(Normalised(r))
  <2>1. r.size \in Nat /\ r.size > 0 /\ r.min \in Nat /\ r.max \in Nat /\ r.min <= r.max /\ r.fixed \in Nat
    BY <1>2 DEF Valid, Rule
  <2>2. CASE r.mode = "fixed"
    <3>1. Normalised(r) = [r EXCEPT !.min = r.fixed, !.max = r.fixed]
      BY <2>2 DEF Normalised
    <3>2. \A q : q = [r EXCEPT !.min = r.fixed, !.max = r.fixed] =>
            q \in Rule /\ q.size = r.size /\ q.min = r.fixed /\ q.max = r.fixed
      BY <2>1 DEF Rule
    <3> QED
      BY <2>1, <3>1, <3>2 DEF InOrder
  <2>3. CASE r.mode = "token"
    BY <2>1, <2>3 DEF Normalised, InOrder, Rule
  <2>4. CASE r.mode \notin {"fixed", "token"}
    BY <2>1, <2>4 DEF Normalised, InOrder
  <2> QED
    BY <2>2, <2>3, <2>4
<1>3. Sound(list)
  BY <1>1, <1>2 DEF Sound, InOrder
<1> HIDE DEF list
<1> QED
  BY <1>1, <1>3 DEF QuoteInv, RulesSound, TypeOK

\* What the migrations set is in order; what they take over stays so.
LEMMA MigratedSound ==
  ASSUME TypeOK, QuoteInv, MigrationCommit
  PROVE  QuoteInv'
<1> DEFINE old == IF migration.source = 0 THEN <<>> ELSE rules[migration.source]
           list == MigratedRules(migration.id, old)
<1>1. /\ rules' = [rules EXCEPT ![made + 1] = list] /\ bill' = bill /\ migration # None
  BY DEF MigrationCommit
<1>2. migration.id \in Migrations /\ migration.source \in 0..MaxVersions
  BY <1>1 DEF TypeOK
<1>3. Sound(old)
  <2>1. CASE migration.source = 0
    BY <2>1 DEF Sound
  <2>2. CASE migration.source # 0
    BY <1>2, <2>2, BoundsAssumption DEF QuoteInv, RulesSound, Ids
  <2> QED
    BY <2>1, <2>2
<1> HIDE DEF old
<1>4. ASSUME migration.id = "initial" PROVE Sound(list)
  BY <1>4, RulesAssumption DEF MigratedRules
<1>5. ASSUME migration.id = "corpus" PROVE Sound(list)
  <2>1. list = [f \in DOMAIN old \cup DOMAIN CorpusRules |->
                  IF f \in DOMAIN CorpusRules THEN CorpusRules[f] ELSE old[f]]
    BY <1>5 DEF MigratedRules
  <2> HIDE DEF list
  <2> QED
    BY <1>3, <2>1, RulesAssumption DEF Sound, InOrder
<1>6. ASSUME migration.id = "affordable" PROVE Sound(list)
  <2>1. list = [f \in DOMAIN old |->
                  IF f \in DOMAIN AiRules THEN [AiRules[f] EXCEPT !.on = old[f].on] ELSE old[f]]
    BY <1>6 DEF MigratedRules
  <2>2. \A r, s \in Rule : r.size > 0 /\ r.min <= r.max =>
          LET q == [r EXCEPT !.on = s.on] IN q \in Rule /\ q.size > 0 /\ q.min <= q.max
    BY DEF Rule
  <2> HIDE DEF list
  <2> QED
    BY <1>3, <2>1, <2>2, RulesAssumption DEF Sound, InOrder
<1>7. Sound(list)
  BY <1>2, <1>4, <1>5, <1>6 DEF Migrations
<1> HIDE DEF list
<1> QED
  BY <1>1, <1>7 DEF QuoteInv, RulesSound, TypeOK

LEMMA QuoteBills ==
  ASSUME TypeOK, QuoteInv, NEW b \in Bills,
         \/ QuoteOpen(b)
         \/ \E f \in Features, u \in Uses : Preauth(b, f, u)
         \/ \E u \in Uses : Settle(b, u)
  PROVE  QuoteInv'
<1>0. rules' = rules /\ Uses \subseteq Amount
  BY AmountsAssumption DEF QuoteOpen, Preauth, Settle, versions, Amount
<1>1. ASSUME NEW l, bill' = [bill EXCEPT ![b] = l], Priced(l) PROVE QuoteInv'
  <2>1. \A c \in Bills : Priced(bill'[c])
    BY <1>1 DEF QuoteInv, TypeOK
  <2> QED
    BY <1>0, <2>1 DEF QuoteInv, RulesSound, Priced
<1>2. CASE QuoteOpen(b)
  <2> DEFINE l == [state |-> "open", version |-> Active, rules |-> Catalogue]
  <2>1. bill' = [bill EXCEPT ![b] = l]
    BY <1>2 DEF QuoteOpen
  <2>2. Sound(Catalogue)
    <3>1. Active # 0 => Active \in Ids
      BY ActiveIn, BoundsAssumption DEF TypeOK, Ids
    <3> QED
      BY <3>1, RulesAssumption DEF Catalogue, QuoteInv, RulesSound
  <2>3. l.state = "open" /\ l.rules = Catalogue
    OBVIOUS
  <2> HIDE DEF l
  <2>4. Priced(l)
    BY <2>2, <2>3 DEF Priced
  <2> QED
    BY <1>1, <2>1, <2>4
<1>3. ASSUME NEW f \in Features, NEW u \in Uses, Preauth(b, f, u) PROVE QuoteInv'
  <2> DEFINE r == bill[b].rules[f]
             l == [state |-> "held", version |-> bill[b].version, feature |-> f, rule |-> r,
                   amount |-> u, hold |-> Cost(r, u)]
  <2>1. bill' = [bill EXCEPT ![b] = l] /\ bill[b].state = "open" /\ f \in DOMAIN bill[b].rules
    BY <1>3 DEF Preauth, SecondRead
  <2>2. InOrder(r)
    BY <2>1 DEF QuoteInv, Priced, Sound, InOrder
  <2>3. l.state = "held" /\ l.rule = r /\ l.amount = u /\ l.hold = Cost(r, u)
    OBVIOUS
  <2> HIDE DEF l, r
  <2>4. Priced(l)
    BY <1>0, <2>2, <2>3 DEF Priced
  <2> QED
    BY <1>1, <2>1, <2>4
<1>4. ASSUME NEW u \in Uses, Settle(b, u) PROVE QuoteInv'
  <2> DEFINE k == bill[b]
             l == [state |-> "settled", version |-> k.version, feature |-> k.feature, rule |-> k.rule,
                   amount |-> k.amount, hold |-> k.hold, used |-> u, paid |-> ToPay(k, u)]
  <2>1. bill' = [bill EXCEPT ![b] = l] /\ k.state = "held"
    BY <1>4 DEF Settle
  <2>2. Priced(k)
    BY DEF QuoteInv
  <2>3. /\ l.state = "settled" /\ l.rule = k.rule /\ l.amount = k.amount /\ l.hold = k.hold /\ l.used = u
        /\ l.paid = IF k.rule.mode = "token" THEN AtMost(k.hold, Cost(k.rule, u)) ELSE k.hold
    BY DEF ToPay
  <2> HIDE DEF l, k
  <2>4. Priced(l)
    BY <1>0, <2>1, <2>2, <2>3 DEF Priced
  <2> QED
    BY <1>1, <2>1, <2>4
<1> QED
  BY <1>2, <1>3, <1>4

LEMMA QuoteStep == PInv /\ QuoteInv /\ [Next]_vars => QuoteInv'
<1> SUFFICES ASSUME PInv, QuoteInv, [Next]_vars PROVE QuoteInv'
  OBVIOUS
<1>0. TypeOK
  BY DEF PInv, PricingInv
<1>1. ASSUME UNCHANGED <<rules, bill>> PROVE QuoteInv'
  BY <1>1 DEF QuoteInv, RulesSound
<1>2. CASE \/ \E p \in Publishers : (\E v \in Ids : PublishStart(p, v)) \/ Publish(p) \/ PublishFails(p)
           \/ \E m \in Migrations : MigrationStart(m)
           \/ MigrationStops \/ MigrationDown \/ Tick \/ UNCHANGED vars
  BY <1>1, <1>2
  DEF PublishStart, Publish, PublishFails, MigrationStart, MigrationStops, MigrationDown, Tick,
      versions, vars
<1> QED
  BY <1>0, <1>2, DraftSound, MigratedSound, QuoteBills DEF Next

LEMMA QuoteGives == QuoteInv /\ BillsNameTheirPrice => PaidAsQuoted
<1> SUFFICES ASSUME QuoteInv, BillsNameTheirPrice, NEW b \in Bills
             PROVE  LET l == bill[b] IN
                      /\ l.state \in {"held", "settled"} => l.hold = Expected(l.rule, l.amount)
                      /\ l.state = "settled" =>
                           /\ l.paid <= l.hold
                           /\ Within(l.used, l.amount) =>
                                l.paid = Expected(l.rule, IF l.rule.mode = "token" THEN l.used ELSE l.amount)
  BY DEF PaidAsQuoted
<1> DEFINE l == bill[b]
<1>1. Priced(l)
  BY DEF QuoteInv
<1> HIDE DEF l
<1>2. ASSUME l.state \in {"held", "settled"}
      PROVE  l.hold = Expected(l.rule, l.amount) /\ l.hold = Cost(l.rule, l.amount) /\ l.hold \in Nat
  BY <1>1, <1>2, CostExpected DEF Priced
<1>3. ASSUME l.state = "settled"
      PROVE  /\ l.paid <= l.hold
             /\ Within(l.used, l.amount) =>
                  l.paid = Expected(l.rule, IF l.rule.mode = "token" THEN l.used ELSE l.amount)
  <2>1. InOrder(l.rule) /\ l.amount \in Amount /\ l.used \in Amount
    BY <1>1, <1>3 DEF Priced
  <2>2. CASE l.rule.mode = "token"
    <3>1. l.paid = AtMost(l.hold, Cost(l.rule, l.used))
      BY <1>1, <1>3, <2>2 DEF Priced
    <3>2. Cost(l.rule, l.used) = Expected(l.rule, l.used) /\ Cost(l.rule, l.used) \in Nat
      BY <2>1, CostExpected
    <3>3. Within(l.used, l.amount) => Cost(l.rule, l.used) <= l.hold
      BY <1>2, <1>3, <2>1, <2>2, CostTokens
    <3> QED
      BY <1>2, <1>3, <2>2, <3>1, <3>2, <3>3 DEF AtMost
  <2>3. CASE l.rule.mode # "token"
    BY <1>1, <1>2, <1>3, <2>3 DEF Priced
  <2> QED
    BY <2>2, <2>3
<1> QED
  BY <1>2, <1>3 DEF l

\* A bill holds what the rule of its version should cost for the amount quoted and pays what
\* it should cost for the amount used, never more than the hold (pricing.py:151-187, billing_service.py:508-577).
THEOREM BillsPaidAsQuoted == Spec => []PaidAsQuoted
<1>1. Spec => []QuoteInv
  BY InitInv, StepInv, QuoteInit, QuoteStep, PTL DEF Spec
<1> QED
  BY <1>1, QuoteGives, BillsNamePrices, PTL
=============================================================================

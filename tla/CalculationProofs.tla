-------------------------- MODULE CalculationProofs ---------------------------
(***************************************************************************)
(* Proofs about CalculationRun, for projects of any size, any number of    *)
(* requests and any records, on either store: the gate and the engine mean *)
(* the same, and a run that is not partial is full.  And about the numbers *)
(* of both engines, for catalogues of any size: the books of a run balance *)
(* (TrackerBooksBalance, WWFBooksBalance), and so do those of a scenario   *)
(* with any number of operations (ScenariosBalance).                       *)
(*                                                                         *)
(* The gate counts, the engine selects.  A product that the gate counts as *)
(* having a value has a usable record (GateIsRight), the engine finds one  *)
(* if there is one (SelectedFinds), and records are only ever appended     *)
(* (AppendingKeeps): so what the gate saw is still so when the engine      *)
(* looks, whatever came in between.                                        *)
(*                                                                         *)
(* The wizard reads the same counts.  The counts of a project fit together *)
(* (CountsAreThoseOfAProject), and for all counts that do the step it      *)
(* leads to is open (WizardIsRight).                                       *)
(*                                                                         *)
(* Step 2 is stored product by product: what is stored and what is still   *)
(* to be stored make up the file (PartStored).                             *)
(*                                                                         *)
(* The screens choose and count by code of their own; they are shown to    *)
(* say what the engine does: the value shown for a product (OnlyOneIsShown)*)
(* and the readiness numbers (ValueMeansRow, SoldFits) are the run's, and  *)
(* the counters of a table cover what it lists (CountsByKey).              *)
(*                                                                         *)
(* The reports: what is told about a run follows from it, whatever         *)
(* happened since (TrackerReportsAgree, WWFReportsAgree).  Rounding keeps  *)
(* the order of shares (RoundingKeepsOrder), so a comparison never         *)
(* contradicts the kilograms.  The workbook decides again what is plant    *)
(* and what is animal, and its sums are the headline's (AmountsAreSums).   *)
(* A list of contributors names the first ranks of a strict order, each of *)
(* which is taken once (RanksAreTaken).  The level of uncertainty never    *)
(* falls with more doubt (LevelIsHonest), and of the actions that are      *)
(* advised each is advised once (FirstFits).                               *)
(*                                                                         *)
(* The engines sum up with MapThenSumSet, which picks one element after    *)
(* the other.  It is unfolded here (SumsOf, WwfSumsOf) into Sum, a sum of  *)
(* the weights of a set; that it is defined, splits, and counts nothing    *)
(* twice when counted by key (SumByKey) is shown by induction along the    *)
(* subsets of a finite set.                                                *)
(*                                                                         *)
(* A scenario: each operation adds to a group what it is said to add,      *)
(* whatever came before (ApplyAdds), since nothing is clamped in between.  *)
(* So all of them add a sum (AppliedAdds), for which their order does not  *)
(* matter; that sorting keeps each of them once is SortedFits.             *)
(***************************************************************************)
EXTENDS Calculations, NaturalsInduction, WellFoundedInduction, FiniteSetTheorems,
        SequenceTheorems, TLAPS

-----------------------------------------------------------------------------
(* Rounding *)

\* A quotient and its remainder.
LEMMA Division ==
    ASSUME NEW n \in Nat, NEW d \in Nat \ {0}
    PROVE  /\ n \div d \in Nat /\ n % d \in Nat
           /\ n = d * (n \div d) + (n % d)
           /\ n % d < d
  OBVIOUS

\* Two quotients whose remainders add up to nothing or to one divisor.
LEMMA Remainders ==
    ASSUME NEW d \in Nat \ {0}, NEW h \in Nat, NEW q \in Nat, NEW r \in Nat,
           NEW p \in Nat, NEW s \in Nat,
           r < d, s < d, (d * q + r) + (d * p + s) = d * h
    PROVE  \/ r = 0 /\ s = 0 /\ q + p = h
           \/ r + s = d /\ q + p + 1 = h
<1>1. r + s = d * (h - (q + p))
  OBVIOUS
<1> DEFINE k == h - (q + p)
<1>2. k \in Int /\ r + s = d * k /\ r + s < 2 * d /\ r + s >= 0
  BY <1>1
<1>3. k = 0 \/ k = 1
  <2>1. CASE k < 0
    <3>1. d * k < 0
      BY <2>1, <1>2
    <3> QED BY <3>1, <1>2
  <2>2. CASE k >= 2
    <3>1. d * k >= 2 * d
      BY <2>2, <1>2
    <3> QED BY <3>1, <1>2
  <2> QED BY <2>1, <2>2, <1>2
<1>4. CASE k = 0
  BY <1>4, <1>2
<1>5. CASE k = 1
  BY <1>5, <1>2
<1> QED BY <1>3, <1>4, <1>5

\* Both shares are rounded to the nearest, ties to even, and 100 percent is an even
\* number of units: so what one of them gains the other loses.
LEMMA SharesMake100 ==
    ASSUME Engine!PTConstantsAssumption,
           NEW plant \in Nat, NEW animal \in Nat, plant + animal > 0
    PROVE  Engine!ShareOf(plant, plant + animal) + Engine!ShareOf(animal, plant + animal)
             = ShareHundred
<1> DEFINE d == plant + animal
           n == plant * ShareHundred
           m == animal * ShareHundred
           q == n \div d   r == n % d
           p == m \div d   s == m % d
<1>1. d \in Nat \ {0} /\ ShareHundred \in Nat /\ ShareHundred % 2 = 0
  BY DEF Engine!PTConstantsAssumption
<1>2. n \in Nat /\ m \in Nat /\ n + m = d * ShareHundred
  BY <1>1
<1>3. /\ q \in Nat /\ r \in Nat /\ n = d * q + r /\ r < d
      /\ p \in Nat /\ s \in Nat /\ m = d * p + s /\ s < d
  <2> HIDE DEF n, m, d
  <2> QED BY <1>1, <1>2, Division
<1> HIDE DEF n, m, q, r, p, s
<1>4. \/ r = 0 /\ s = 0 /\ q + p = ShareHundred
      \/ r + s = d /\ q + p + 1 = ShareHundred
  <2> HIDE DEF d
  <2>1. (d * q + r) + (d * p + s) = d * ShareHundred
    BY <1>2, <1>3
  <2> QED BY <2>1, <1>1, <1>3, Remainders
<1>5. /\ Engine!ShareOf(plant, d)
           = IF 2 * r > d \/ (2 * r = d /\ q % 2 = 1) THEN q + 1 ELSE q
      /\ Engine!ShareOf(animal, d)
           = IF 2 * s > d \/ (2 * s = d /\ p % 2 = 1) THEN p + 1 ELSE p
  BY <1>1 DEF Engine!ShareOf, Engine!HalfEven, n, m, q, r, p, s
<1> HIDE DEF d
<1> QED BY <1>1, <1>3, <1>4, <1>5 DEF d

\* The two shares of a run make 100 percent, whatever its rows, as long as its two
\* masses are natural numbers (which the masses of a catalogue are: TrackerBooksBalance).
LEMMA SharesAreWhole ==
    ASSUME Engine!PTConstantsAssumption
    PROVE  \A catalogue, enriched :
             LET run == Engine!Run(catalogue, enriched)
             IN  run.ok /\ run.plant \in Nat /\ run.animal \in Nat
                   => Engine!SharesSumTo100(run)
<1> SUFFICES ASSUME NEW catalogue, NEW enriched,
                    Engine!Run(catalogue, enriched).ok,
                    Engine!Run(catalogue, enriched).plant \in Nat,
                    Engine!Run(catalogue, enriched).animal \in Nat
             PROVE  Engine!SharesSumTo100(Engine!Run(catalogue, enriched))
  OBVIOUS
<1> DEFINE run == Engine!Run(catalogue, enriched)
           plant == Engine!PlantProtein(Engine!Rows(catalogue, enriched))
           animal == Engine!AnimalProtein(Engine!Rows(catalogue, enriched))
<1>1. ~ \E p \in DOMAIN catalogue : catalogue[p].group = "none"
  BY DEF Engine!Run, Engine!Failed
<1>2. /\ run.plant = plant /\ run.animal = animal /\ run.total = plant + animal
      /\ run.plantShare = Engine!ShareOf(plant, plant + animal)
      /\ run.animalShare = Engine!ShareOf(animal, plant + animal)
  BY <1>1 DEF Engine!Run
<1>3. plant \in Nat /\ animal \in Nat
  BY <1>2
<1> HIDE DEF run, plant, animal
<1>4. CASE plant + animal = 0
  BY <1>2, <1>4 DEF run, Engine!SharesSumTo100, Engine!ShareOf, Engine!NoValue
<1>5. CASE plant + animal > 0
  <2>1. run.plantShare + run.animalShare = ShareHundred
    BY <1>2, <1>3, <1>5, SharesMake100
  <2> QED BY <1>2, <1>3, <1>5, <2>1 DEF run, Engine!SharesSumTo100
<1> QED BY <1>3, <1>4, <1>5

-----------------------------------------------------------------------------
(* What the engine selects *)

\* A set of indices with a natural weight each has a lightest one, and of the lightest
\* the first.
LEMMA LeastExists ==
    ASSUME NEW T, T \subseteq Nat, T # {}
    PROVE  \E x \in T : \A y \in T : x <= y
<1>1. PICK x \in T : \A y \in T : <<y, x>> \notin OpToRel(<, Nat)
  BY NatLessThanWellFounded, WFMin
<1>2. ASSUME NEW y \in T PROVE x <= y
  <2>1. <<y, x>> \notin OpToRel(<, Nat)
    BY <1>1
  <2>2. ~(y < x)
    BY <2>1 DEF OpToRel
  <2> QED BY <2>2
<1> QED BY <1>2

LEMMA BestExists ==
    ASSUME NEW S, S \subseteq Nat, S # {}, NEW weight \in [S -> Nat]
    PROVE  \E i \in S : \A j \in S :
             weight[i] < weight[j] \/ (weight[i] = weight[j] /\ i <= j)
<1> DEFINE Weights == {weight[i] : i \in S}
<1>1. Weights \subseteq Nat /\ Weights # {}
  OBVIOUS
<1>2. PICK w \in Weights : \A v \in Weights : w <= v
  <2> HIDE DEF Weights
  <2> QED BY <1>1, LeastExists
<1> DEFINE Light == {i \in S : weight[i] = w}
<1>3. Light \subseteq Nat /\ Light # {}
  BY <1>2
<1>4. PICK i \in Light : \A j \in Light : i <= j
  <2> HIDE DEF Light
  <2> QED BY <1>3, LeastExists
<1>5. ASSUME NEW j \in S
      PROVE  weight[i] < weight[j] \/ (weight[i] = weight[j] /\ i <= j)
  <2>1. w <= weight[j] /\ weight[i] = w /\ weight[j] \in Nat /\ w \in Nat
    BY <1>2, <1>4
  <2>2. CASE weight[j] = w
    BY <2>1, <2>2, <1>4
  <2> QED BY <2>1, <2>2
<1> QED BY <1>4, <1>5

LEMMA UsableFields ==
    ASSUME NEW s \in Seq(EnrichmentRecord), NEW nutrient, NEW i \in Usable(s, nutrient)
    PROVE  /\ i \in 1 .. Len(s) /\ i \in Nat /\ s[i] \in EnrichmentRecord
           /\ s[i].source \in Source /\ Priority[s[i].source] \in Nat
<1>1. i \in 1 .. Len(s)
  BY DEF Usable
<1>2. s[i] \in EnrichmentRecord
  BY <1>1
<1>3. s[i].source \in Source
  BY <1>2 DEF EnrichmentRecord
<1>4. \A a \in Source : Priority[a] \in Nat
  BY DEF Source, Priority
<1> QED BY <1>1, <1>2, <1>3, <1>4

\* The engine finds a value if and only if some record carries one.
LEMMA SelectedFinds ==
    ASSUME NEW s \in Seq(EnrichmentRecord)
    PROVE  Selected(s) # Nothing <=> Usable(s, "protein_pct") # {}
<1> DEFINE U == Usable(s, "protein_pct")
           weight == [i \in U |-> Priority[s[i].source]]
<1>1. U \subseteq Nat /\ weight \in [U -> Nat]
  BY UsableFields
<1>2. ASSUME U # {} PROVE Selected(s) # Nothing
  <2>1. \E i \in U : \A j \in U :
           weight[i] < weight[j] \/ (weight[i] = weight[j] /\ i <= j)
    <3> HIDE DEF U, weight
    <3> QED BY <1>1, <1>2, BestExists
  <2>2. Best(s) \in U
    BY <2>1 DEF Best
  <2>3. s[Best(s)].source \in Source
    BY <2>2, UsableFields
  <2>4. Selected(s).source = s[Best(s)].source
    BY <1>2 DEF Selected
  <2> QED BY <2>3, <2>4 DEF Nothing, Source
<1>3. ASSUME U = {} PROVE Selected(s) = Nothing
  BY <1>3 DEF Selected
<1> QED BY <1>2, <1>3

\* A value that is there stays there.
LEMMA AppendingKeeps ==
    ASSUME NEW s \in Seq(EnrichmentRecord), NEW new \in Seq(EnrichmentRecord),
           NEW nutrient
    PROVE  /\ s \o new \in Seq(EnrichmentRecord)
           /\ Usable(s, nutrient) \subseteq Usable(s \o new, nutrient)
  BY DEF Usable

-----------------------------------------------------------------------------
(* The invariant *)

Request ==
    [methodology : {"protein_tracker", "wwf"}, partial : BOOLEAN, enriched : BOOLEAN,
     asked : SUBSET Product, list : SUBSET Product, classified : SUBSET Product,
     id : Nat]

Types ==
    /\ enabled \subseteq Methodologies /\ enabled # {}
    /\ uploaded \in BOOLEAN
    /\ products \subseteq Product /\ IsFiniteSet(products)
    /\ cls \in [Methodologies -> [Product -> Group \cup {"none"}]]
    /\ open \in [Methodologies -> SUBSET Product]
    /\ records \in [Product -> Seq(EnrichmentRecord)]
    /\ runs \subseteq Run /\ IsFiniteSet(runs)
    /\ created \in 0 .. MaxRuns
    /\ pc \in [Worker -> {"idle", "list", "classified", "compute", "drop"}]
    /\ req \in [Worker -> Request]

\* A request that has passed the gate: what it was asked for is still there, and
\* has values if it was strict.
Passed(w) ==
    /\ req[w].methodology \in enabled
    /\ req[w].asked \subseteq products
    /\ pc[w] # "list" => req[w].asked \subseteq req[w].list
    /\ req[w].methodology = PT /\ ~req[w].partial => \A p \in req[w].asked : HasValue(p)

IInv ==
    /\ Types
    /\ \A w \in Worker : pc[w] # "idle" => Passed(w)
    /\ StrictRunsAreFull

-----------------------------------------------------------------------------
(* The gate *)

LEMMA ValueIsUsable ==
    ASSUME NEW p
    PROVE  HasValue(p) <=> p \in Labelled \/ Usable(records[p], "protein_pct") # {}
  BY DEF HasValue, Usable

\* Counting all of a finite set, or none of it.
LEMMA Counting ==
    ASSUME NEW S, IsFiniteSet(S), NEW T, T \subseteq S
    PROVE  /\ Cardinality(T) \in Nat /\ Cardinality(S) \in Nat
           /\ ~(Cardinality(T) < Cardinality(S)) => T = S
           /\ ~(Cardinality(T) > 0) => T = {}
  BY FS_Subset, FS_CardinalityType, FS_EmptySet

\* The calculation is called ready for what the engine can use.
LEMMA GateIsRight ==
    ASSUME Types, PT \in enabled, W!RunReady(Counts, FALSE)
    PROVE  /\ products # {}
           /\ \A p \in products : cls[PT][p] # "none" /\ HasValue(p)
<1> DEFINE c == Counts
           classified == {p \in products : cls[PT][p] # "none"}
           missing == {p \in products : ~HasValue(p)}
<1>1. W!Blockers(c) = {} /\ c.pt = TRUE
  BY DEF W!RunReady, W!CalculationStatus, Counts, Enabled
<1>2. W!PTGaps(c) = {}
  BY <1>1 DEF W!Blockers, W!PTBlockers
<1>3. c.ptProducts # 0 /\ ~(c.ptClassified < c.ptProducts) /\ ~(c.missing > 0)
  BY <1>2 DEF W!PTGaps, W!When
<1>4. /\ c.ptProducts = Cardinality(products)
      /\ c.ptClassified = Cardinality(classified)
      /\ c.missing = Cardinality(missing)
  BY DEF Counts, Enabled, Count
<1>5. IsFiniteSet(products) /\ classified \subseteq products /\ missing \subseteq products
  BY DEF Types
<1> HIDE DEF c, classified, missing
<1>6. classified = products /\ missing = {}
  BY <1>3, <1>4, <1>5, Counting
<1>7. products # {}
  BY <1>3, <1>4, FS_EmptySet
<1> QED BY <1>6, <1>7 DEF classified, missing

\* The engine has a value for what the workflow takes for ready.
LEMMA EngineFinds ==
    ASSUME Types, NEW p \in Product
    PROVE  HasValue(p) <=> p \in Labelled \/ ValueOf(p, TRUE) # Nothing
<1>1. records[p] \in Seq(EnrichmentRecord)
  BY DEF Types
<1>2. Selected(records[p]) # Nothing <=> Usable(records[p], "protein_pct") # {}
  BY <1>1, SelectedFinds
<1> QED BY <1>2, ValueIsUsable DEF ValueOf

-----------------------------------------------------------------------------
(* The wizard *)

\* Counts that a project can have: one methodology at least, and a product of a
\* methodology is a product.
CountsFit(c) ==
    /\ c.pt \in BOOLEAN /\ c.wwf \in BOOLEAN /\ (c.pt \/ c.wwf)
    /\ c.attempted \in BOOLEAN
    /\ c.uploads \in Nat /\ c.products \in Nat /\ c.runs \in Nat
    /\ c.ptProducts \in Nat /\ c.ptClassified \in Nat /\ c.ptInReview \in Nat
    /\ c.ptEligible \in Nat /\ c.missing \in Nat
    /\ c.wwfProducts \in Nat /\ c.wwfClassified \in Nat /\ c.wwfUnknown \in Nat
    /\ c.ptProducts > 0 \/ c.wwfProducts > 0 => c.products > 0

LEMMA WizardSteps8 ==
    /\ W!WizardSteps = {"upload", "methodology", "ai_classification",
          "manual_classification_review", "nutrition_enrichment_nevo",
          "nutrition_validation", "calculation", "report"}
    /\ IsFiniteSet(W!WizardSteps) /\ Cardinality(W!WizardSteps) = 8
<1> DEFINE S1 == {"upload"}
           S2 == S1 \cup {"methodology"}
           S3 == S2 \cup {"ai_classification"}
           S4 == S3 \cup {"manual_classification_review"}
           S5 == S4 \cup {"nutrition_enrichment_nevo"}
           S6 == S5 \cup {"nutrition_validation"}
           S7 == S6 \cup {"calculation"}
           S8 == S7 \cup {"report"}
<1>1. IsFiniteSet(S1) /\ Cardinality(S1) = 1
  BY FS_Singleton
<1>2. /\ "methodology" \notin S1 /\ "ai_classification" \notin S2
      /\ "manual_classification_review" \notin S3
      /\ "nutrition_enrichment_nevo" \notin S4 /\ "nutrition_validation" \notin S5
      /\ "calculation" \notin S6 /\ "report" \notin S7
  OBVIOUS
<1>3. W!WizardSteps = S8
  BY DEF W!WizardSteps, W!Step, W!StepOrder
<1>4. S8 = {"upload", "methodology", "ai_classification",
            "manual_classification_review", "nutrition_enrichment_nevo",
            "nutrition_validation", "calculation", "report"}
  OBVIOUS
<1> HIDE DEF S1
<1>5. IsFiniteSet(S2) /\ Cardinality(S2) = 2
  BY <1>1, <1>2, FS_AddElement
<1> HIDE DEF S2
<1>6. IsFiniteSet(S3) /\ Cardinality(S3) = 3
  BY <1>5, <1>2, FS_AddElement
<1> HIDE DEF S3
<1>7. IsFiniteSet(S4) /\ Cardinality(S4) = 4
  BY <1>6, <1>2, FS_AddElement
<1> HIDE DEF S4
<1>8. IsFiniteSet(S5) /\ Cardinality(S5) = 5
  BY <1>7, <1>2, FS_AddElement
<1> HIDE DEF S5
<1>9. IsFiniteSet(S6) /\ Cardinality(S6) = 6
  BY <1>8, <1>2, FS_AddElement
<1> HIDE DEF S6
<1>10. IsFiniteSet(S7) /\ Cardinality(S7) = 7
  BY <1>9, <1>2, FS_AddElement
<1> HIDE DEF S7
<1>11. IsFiniteSet(S8) /\ Cardinality(S8) = 8
  BY <1>10, <1>2, FS_AddElement
<1> QED BY <1>3, <1>4, <1>11

\* The larger of zero and a number.
LEMMA AtLeastZero ==
    ASSUME NEW x \in Int
    PROVE  W!Max({0, x}) \in Nat /\ (W!Max({0, x}) = 0 => x <= 0)
<1> DEFINE m == W!Max({0, x})
<1>1. \E y \in {0, x} : \A z \in {0, x} : y >= z
  <2>1. CASE x >= 0
    BY <2>1
  <2>2. CASE x < 0
    BY <2>2
  <2> QED BY <2>1, <2>2
<1>2. m \in {0, x} /\ \A z \in {0, x} : m >= z
  <2>1. m = CHOOSE y \in {0, x} : \A z \in {0, x} : y >= z
    BY DEF W!Max
  <2> HIDE DEF m
  <2> QED BY <1>1, <2>1
<1> HIDE DEF m
<1>3. m >= 0 /\ m >= x /\ m \in Int
  BY <1>2
<1>4. m \in Nat /\ (m = 0 => x <= 0)
  BY <1>3
<1> QED BY <1>4 DEF m

\* A project without a run is blocked or ready: it is never left with nothing to do.
LEMMA SomethingToDo ==
    ASSUME NEW c, CountsFit(c)
    PROVE  W!CalculationStatus(c) = IF c.runs > 0 THEN "complete"
                                    ELSE IF W!Blockers(c) # {} THEN "blocked" ELSE "ready"
<1>1. \A code : W!When(TRUE, code) # {}
  BY DEF W!When
<1>2. ASSUME c.pt, W!PTBlockers(c) = {} PROVE c.ptEligible > 0
  <2>1. /\ W!PTGaps(c) = {}
        /\ W!When(W!PTGaps(c) = {} /\ c.ptEligible = 0, "no_eligible_products") = {}
    BY <1>2 DEF W!PTBlockers
  <2>2. c.ptEligible # 0
    BY <2>1 DEF W!When
  <2> QED BY <2>2 DEF CountsFit
<1>3. W!WWFEligible(c) \in Nat
  BY AtLeastZero DEF W!WWFEligible, CountsFit
<1>4. ASSUME c.wwf, W!WWFBlockers(c) = {} PROVE W!WWFEligible(c) > 0
  <2> DEFINE e == W!WWFEligible(c)
  <2>1. e \in Nat
    BY <1>3
  <2> HIDE DEF e
  <2>2. /\ W!When(c.wwfProducts = 0, "no_eligible_products_wwf") = {}
        /\ W!When(c.wwfClassified < c.wwfProducts, "classification_required_wwf") = {}
        /\ W!When(c.wwfProducts > 0 /\ e = 0 /\ c.wwfClassified >= c.wwfProducts,
                  "no_eligible_products_wwf") = {}
    BY <1>4 DEF W!WWFBlockers, e
  <2>3. /\ c.wwfProducts # 0 /\ ~(c.wwfClassified < c.wwfProducts)
        /\ ~(c.wwfProducts > 0 /\ e = 0 /\ c.wwfClassified >= c.wwfProducts)
    BY <2>2 DEF W!When
  <2>4. e # 0
    BY <2>3 DEF CountsFit
  <2>5. e > 0
    BY <2>1, <2>4
  <2> QED BY <2>5 DEF e
<1>5. ASSUME W!Blockers(c) = {} PROVE W!EligibleRows(c) > 0
  <2>1. (c.pt => W!PTBlockers(c) = {}) /\ (c.wwf => W!WWFBlockers(c) = {})
    BY <1>5 DEF W!Blockers
  <2>2. c.ptEligible \in Nat /\ (c.pt => c.ptEligible > 0)
    BY <1>2, <2>1 DEF CountsFit
  <2>3. c.wwf => W!WWFEligible(c) > 0
    BY <1>4, <2>1
  <2> QED BY <1>3, <2>2, <2>3 DEF W!EligibleRows, CountsFit
<1>6. c.runs \in Nat
  BY DEF CountsFit
<1>7. CASE c.runs > 0
  BY <1>7 DEF W!CalculationStatus
<1>8. CASE c.runs = 0 /\ W!Blockers(c) # {}
  BY <1>8 DEF W!CalculationStatus
<1>9. CASE c.runs = 0 /\ W!Blockers(c) = {}
  BY <1>5, <1>9 DEF W!CalculationStatus
<1> QED BY <1>6, <1>7, <1>8, <1>9

\* What has nothing to do.
Rest == {"complete", "not_needed", "locked"}
Waiting(c) == {i \in DOMAIN W!StepOrder : W!StatusOf(c)[W!StepOrder[i]] \notin Rest}

\* Whatever the counts, the wizard leads to a step that is open, and it is finished
\* only when there is a report.
LEMMA WizardIsRight ==
    ASSUME NEW c, CountsFit(c)
    PROVE  W!LeadsOn(c)
<1>0. \A S : W!Cardinality(S) = Cardinality(S)
  BY DEF W!Cardinality, Cardinality
<1> DEFINE status == W!StatusOf(c)
<1>1. /\ DOMAIN W!StepOrder = 1 .. 11 /\ Len(W!StepOrder) = 11
      /\ W!StepOrder[10] = "calculation" /\ W!StepOrder[11] = "report"
      /\ W!StepOrder[8] = "nutrition_enrichment_ciqual"
      /\ \A i \in 1 .. 11 : W!StepOrder[i] = "nutrition_enrichment_ciqual" => i = 8
  BY DEF W!StepOrder
<1>2. /\ status["nutrition_enrichment_ciqual"] = "not_needed"
      /\ status["calculation"] = W!CalculationStatus(c)
      /\ status["report"] = IF c.runs > 0 THEN "complete" ELSE "locked"
  BY DEF W!StatusOf
<1>3. Waiting(c) = {} => c.runs > 0
  <2> SUFFICES ASSUME Waiting(c) = {} PROVE c.runs > 0
    OBVIOUS
  <2>1. 10 \in DOMAIN W!StepOrder /\ status[W!StepOrder[10]] \in Rest
    BY <1>1 DEF Waiting
  <2>2. W!CalculationStatus(c) \in Rest
    BY <1>1, <1>2, <2>1
  <2> QED BY <2>2, SomethingToDo DEF Rest
<1>4. Waiting(c) = {} => W!Current(c) = "report"
  BY <1>1 DEF W!Current, Waiting, Rest
<1>5. ASSUME Waiting(c) # {}
      PROVE  \E i \in Waiting(c) : W!Current(c) = W!StepOrder[i]
  <2>1. Waiting(c) \subseteq Nat
    BY <1>1 DEF Waiting
  <2>2. \E i \in Waiting(c) : \A j \in Waiting(c) : i <= j
    BY <1>5, <2>1, LeastExists
  <2>3. W!Min(Waiting(c)) \in Waiting(c)
    BY <2>2 DEF W!Min
  <2>4. W!Current(c) = W!StepOrder[W!Min(Waiting(c))]
    BY <1>5 DEF W!Current, Waiting, Rest
  <2> QED BY <2>3, <2>4
<1>6. W!Accessible(c, W!Current(c))
  <2>1. CASE Waiting(c) = {}
    BY <1>2, <1>3, <1>4, <2>1 DEF W!Accessible
  <2>2. CASE Waiting(c) # {}
    <3>1. PICK i \in Waiting(c) : W!Current(c) = W!StepOrder[i]
      BY <1>5, <2>2
    <3>2. status[W!Current(c)] \notin Rest
      BY <3>1 DEF Waiting
    <3> QED BY <1>2, <3>2 DEF W!Accessible, Rest
  <2> QED BY <2>1, <2>2
<1>7. ASSUME W!Progress(c) = 100 PROVE W!Current(c) = "report" /\ c.runs > 0
  <2> DEFINE done == {s \in W!WizardSteps :
                        W!StatusOf(c)[s] \in {"complete", "not_needed"}}
  <2>1. (100 * Cardinality(done)) \div 8 = 100
    BY <1>0, <1>7, WizardSteps8 DEF W!Progress, W!Quantify
  <2>2. done \subseteq W!WizardSteps /\ Cardinality(done) \in Nat
    <3>1. done \subseteq W!WizardSteps
      OBVIOUS
    <3> QED BY <3>1, WizardSteps8, FS_Subset, FS_CardinalityType
  <2>3. Cardinality(done) >= 8
    <3> DEFINE n == Cardinality(done)
    <3>1. n \in Nat /\ (100 * n) \div 8 = 100
      BY <2>1, <2>2
    <3> HIDE DEF n
    <3>2. n >= 8
      BY <3>1
    <3> QED BY <3>2 DEF n
  <2> HIDE DEF done
  <2>4. done = W!WizardSteps
    <3>1. ~(Cardinality(done) < Cardinality(W!WizardSteps))
      BY <2>2, <2>3, WizardSteps8
    <3> QED BY <2>2, <3>1, WizardSteps8, Counting
  <2>5. \A s \in W!WizardSteps : W!StatusOf(c)[s] \in {"complete", "not_needed"}
    BY <2>4 DEF done
  <2>6. c.runs > 0
    <3>1. status["report"] \in {"complete", "not_needed"}
      BY <2>5, WizardSteps8
    <3> QED BY <1>2, <3>1
  <2>7. c.products > 0
    <3>1. W!ClassificationStatus(c) \in {"complete", "not_needed"}
      BY <2>5, WizardSteps8 DEF W!StatusOf
    <3>2. W!ToClassify(c) # 0
      BY <3>1 DEF W!ClassificationStatus
    <3>3. c.ptProducts # 0 \/ c.wwfProducts # 0
      BY <3>2 DEF W!ToClassify, CountsFit
    <3> QED BY <3>3 DEF CountsFit
  <2>8. W!MappingStatus(c) = "complete" /\ W!IngestionStatus(c) = "complete"
    BY <2>7 DEF W!MappingStatus, W!IngestionStatus
  <2>9. \A i \in 1 .. 11 : status[W!StepOrder[i]] \in Rest
    <3>1. \A s \in W!WizardSteps : status[s] \in Rest
      BY <2>5 DEF Rest
    <3>2. status["mapping"] \in Rest /\ status["ingestion"] \in Rest
          /\ status["nutrition_enrichment_ciqual"] \in Rest
      BY <2>8 DEF W!StatusOf, Rest
    <3>3. \A i \in 1 .. 11 : W!StepOrder[i] \in W!WizardSteps
             \cup {"mapping", "ingestion", "nutrition_enrichment_ciqual"}
      BY DEF W!WizardSteps, W!Step, W!StepOrder
    <3> HIDE DEF status
    <3> QED BY <3>1, <3>2, <3>3
  <2>10. Waiting(c) = {}
    BY <1>1, <2>9 DEF Waiting
  <2> QED BY <1>4, <2>6, <2>10
<1> QED BY <1>6, <1>7 DEF W!LeadsOn

\* The counts of a project are such.
LEMMA CountsAreThoseOfAProject ==
    ASSUME ConstantsAssumption, Types
    PROVE  CountsFit(Counts)
<1>1. \A T : T \subseteq products => Cardinality(T) \in Nat
  BY FS_Subset, FS_CardinalityType DEF Types
<1>2. Cardinality(products) \in Nat /\ Cardinality(runs) \in Nat
  BY FS_CardinalityType DEF Types
<1>3. Enabled(PT) \/ Enabled("wwf")
  BY DEF Types, Enabled, PT, Methodologies
<1> DEFINE a == Cardinality({p \in products : cls[PT][p] # "none"})
           b == Cardinality({p \in products : cls[PT][p] # "none" /\ p \in open[PT]})
           d == Cardinality({p \in products : /\ cls[PT][p] # "none"
                                              /\ p \notin open[PT] /\ HasValue(p)})
           e == Cardinality({p \in products : ~HasValue(p)})
           f == Cardinality({p \in products : cls["wwf"][p] # "none"})
           g == Cardinality({p \in products : cls["wwf"][p] = "unknown"})
<1>4. a \in Nat /\ b \in Nat /\ d \in Nat /\ e \in Nat /\ f \in Nat /\ g \in Nat
  BY <1>1
<1>5. /\ Counts.ptClassified = IF Enabled(PT) THEN a ELSE 0
      /\ Counts.ptInReview = IF Enabled(PT) THEN b ELSE 0
      /\ Counts.ptEligible = IF Enabled(PT) THEN d ELSE 0
      /\ Counts.missing = IF Enabled(PT) THEN e ELSE 0
      /\ Counts.wwfClassified = IF Enabled("wwf") THEN f ELSE 0
      /\ Counts.wwfUnknown = IF Enabled("wwf") THEN g ELSE 0
  BY DEF Counts, Count
<1>6. /\ Counts.pt = Enabled(PT) /\ Counts.wwf = Enabled("wwf")
      /\ Counts.attempted = (\E p \in products : records[p] # <<>>)
      /\ Counts.uploads = IF uploaded THEN 1 ELSE 0
      /\ Counts.products = Cardinality(products) /\ Counts.runs = Cardinality(runs)
      /\ Counts.ptProducts = IF Enabled(PT) THEN Cardinality(products) ELSE 0
      /\ Counts.wwfProducts = IF Enabled("wwf") THEN Cardinality(products) ELSE 0
  BY DEF Counts
<1> HIDE DEF a, b, d, e, f, g
<1>7. /\ Counts.pt \in BOOLEAN /\ Counts.wwf \in BOOLEAN /\ Counts.attempted \in BOOLEAN
      /\ Counts.pt \/ Counts.wwf
  <2>1. \A m : Enabled(m) \in BOOLEAN
    BY DEF Enabled
  <2>2. (\E p \in products : records[p] # <<>>) \in BOOLEAN
    OBVIOUS
  <2>3. Counts.pt = Enabled(PT) /\ Counts.wwf = Enabled("wwf")
        /\ Counts.attempted = (\E p \in products : records[p] # <<>>)
    BY <1>6
  <2> HIDE DEF Counts
  <2>4. Counts.pt \in BOOLEAN /\ Counts.wwf \in BOOLEAN
    BY <2>1, <2>3, Zenon
  <2>5. Counts.attempted \in BOOLEAN
    BY <2>2, <2>3, Zenon
  <2>6. Counts.pt \/ Counts.wwf
    BY <1>3, <2>3, Zenon
  <2> QED BY <2>4, <2>5, <2>6
<1>8. /\ Counts.ptClassified \in Nat /\ Counts.ptInReview \in Nat
      /\ Counts.ptEligible \in Nat /\ Counts.missing \in Nat
      /\ Counts.wwfClassified \in Nat /\ Counts.wwfUnknown \in Nat
  BY <1>4, <1>5
<1>9. /\ Counts.uploads \in Nat /\ Counts.products \in Nat /\ Counts.runs \in Nat
      /\ Counts.ptProducts \in Nat /\ Counts.wwfProducts \in Nat
      /\ Counts.ptProducts > 0 \/ Counts.wwfProducts > 0 => Counts.products > 0
  BY <1>2, <1>6
<1> QED BY <1>7, <1>8, <1>9 DEF CountsFit

-----------------------------------------------------------------------------
(* Every step keeps the invariant *)

LEMMA InitIInv == ASSUME ConstantsAssumption, Init PROVE IInv
<1>1. NoRequest \in Request
  BY DEF NoRequest, Request, PT
<1>2. \A m \in Methodologies :
        [p \in Product |-> "none"] \in [Product -> Group \cup {"none"}]
  OBVIOUS
<1>3. [p \in Product |-> <<>>] \in [Product -> Seq(EnrichmentRecord)]
  OBVIOUS
<1>4. IsFiniteSet({}) /\ 0 \in 0 .. MaxRuns
  BY FS_EmptySet DEF ConstantsAssumption
<1>5. Types
  BY <1>1, <1>2, <1>3, <1>4 DEF Init, Types
<1>6. (\A w \in Worker : pc[w] = "idle") /\ runs = {}
  BY DEF Init
<1> QED BY <1>5, <1>6 DEF IInv, StrictRunsAreFull

\* What the project does meanwhile takes no product and no value away.
LEMMA ProjectStep ==
    ASSUME IInv, Types', UNCHANGED <<enabled, runs, pc, req>>,
           products \subseteq products', \A p \in products : HasValue(p) => HasValue(p)'
    PROVE  IInv'
<1>1. ASSUME NEW w \in Worker, pc'[w] # "idle" PROVE Passed(w)'
  <2>1. Passed(w)
    BY <1>1 DEF IInv
  <2> QED BY <2>1 DEF Passed
<1>2. StrictRunsAreFull'
  BY DEF IInv, StrictRunsAreFull
<1> QED BY <1>1, <1>2 DEF IInv

LEMMA UploadStep == ASSUME IInv, Upload PROVE IInv'
<1>1. Types'
  BY DEF IInv, Types, Upload, requests
<1>2. /\ UNCHANGED <<enabled, runs, pc, req>> /\ products \subseteq products'
      /\ \A p \in products : HasValue(p) => HasValue(p)'
  BY DEF Upload, requests, HasValue
<1> QED BY <1>1, <1>2, ProjectStep

LEMMA AddProductStep ==
    ASSUME IInv, NEW p \in Product, AddProduct(p) PROVE IInv'
<1>1. IsFiniteSet(products \cup {p})
  BY FS_AddElement DEF IInv, Types
<1>2. Types'
  BY <1>1 DEF IInv, Types, AddProduct, requests
<1>3. /\ UNCHANGED <<enabled, runs, pc, req>> /\ products \subseteq products'
      /\ \A q \in products : HasValue(q) => HasValue(q)'
  BY DEF AddProduct, requests, HasValue
<1> QED BY <1>2, <1>3, ProjectStep

LEMMA ClassifyStep ==
    ASSUME IInv, NEW p \in Product, Classify(p) PROVE IInv'
<1>1. PICK m \in enabled, g \in Group :
        /\ cls' = [cls EXCEPT ![m][p] = g]
        /\ open' = [open EXCEPT ![m] = @ \cup {p}] \/ UNCHANGED open
  BY DEF Classify
<1>2. cls' \in [Methodologies -> [Product -> Group \cup {"none"}]]
  BY <1>1 DEF IInv, Types
<1>3. open' \in [Methodologies -> SUBSET Product]
  <2>1. open \in [Methodologies -> SUBSET Product]
    BY DEF IInv, Types
  <2>2. [open EXCEPT ![m] = @ \cup {p}] \in [Methodologies -> SUBSET Product]
    BY <2>1
  <2> QED BY <1>1, <2>1, <2>2
<1>4. UNCHANGED <<enabled, uploaded, products, records, runs, created, pc, req>>
  BY DEF Classify, requests
<1>5. Types'
  BY <1>2, <1>3, <1>4 DEF IInv, Types
<1>6. \A q \in products : HasValue(q) => HasValue(q)'
  BY <1>4 DEF HasValue
<1> QED BY <1>4, <1>5, <1>6, ProjectStep

LEMMA DecideStep ==
    ASSUME IInv, NEW p \in Product, Decide(p) PROVE IInv'
<1>1. PICK m \in enabled, g \in Group :
        /\ cls' = [cls EXCEPT ![m][p] = g]
        /\ open' = [open EXCEPT ![m] = @ \ {p}]
  BY DEF Decide
<1>2. cls' \in [Methodologies -> [Product -> Group \cup {"none"}]]
  BY <1>1 DEF IInv, Types
<1>3. open' \in [Methodologies -> SUBSET Product]
  BY <1>1 DEF IInv, Types
<1>4. UNCHANGED <<enabled, uploaded, products, records, runs, created, pc, req>>
  BY DEF Decide, requests
<1>5. Types'
  BY <1>2, <1>3, <1>4 DEF IInv, Types
<1>6. \A q \in products : HasValue(q) => HasValue(q)'
  BY <1>4 DEF HasValue
<1> QED BY <1>4, <1>5, <1>6, ProjectStep

\* Whatever an endpoint appends, the values that were there remain.
LEMMA RecordsStep ==
    ASSUME IInv, NEW p \in Product, NEW new \in Seq(EnrichmentRecord), AddRecords(p, new)
    PROVE  IInv'
<1>1. records[p] \in Seq(EnrichmentRecord)
  BY DEF IInv, Types
<1>2. records' = [records EXCEPT ![p] = records[p] \o new]
  BY DEF AddRecords
<1>3. records' \in [Product -> Seq(EnrichmentRecord)]
  BY <1>1, <1>2, AppendingKeeps DEF IInv, Types
<1>4. UNCHANGED <<enabled, uploaded, products, cls, open, runs, created, pc, req>>
  BY DEF AddRecords, requests
<1>5. Types'
  BY <1>3, <1>4 DEF IInv, Types
<1>6. ASSUME NEW q \in products, HasValue(q) PROVE HasValue(q)'
  <2>1. q \in Product
    BY DEF IInv, Types
  <2>2. q \in Labelled \/ Usable(records[q], "protein_pct") # {}
    BY <1>6, ValueIsUsable
  <2>3. CASE q \in Labelled
    BY <2>3 DEF HasValue
  <2>4. CASE Usable(records[q], "protein_pct") # {}
    <3>1. Usable(records[q], "protein_pct") \subseteq Usable(records'[q], "protein_pct")
      <4>1. CASE q = p
        <5>1. records'[q] = records[p] \o new
          BY <1>2, <2>1, <4>1 DEF IInv, Types
        <5> QED BY <1>1, <4>1, <5>1, AppendingKeeps
      <4>2. CASE q # p
        <5>1. records'[q] = records[q]
          BY <1>2, <2>1, <4>2 DEF IInv, Types
        <5> QED BY <5>1
      <4> QED BY <4>1, <4>2
    <3>2. Usable(records'[q], "protein_pct") # {}
      BY <2>4, <3>1
    <3> QED BY <3>2 DEF HasValue, Usable
  <2> QED BY <2>2, <2>3, <2>4
<1> QED BY <1>4, <1>5, <1>6, ProjectStep

\* What the endpoints append are records.
LEMMA TypesOfRecords ==
    ASSUME ConstantsAssumption, NEW group
    PROVE  /\ Pct \subseteq Int
           /\ \A s \in Source, x, y \in Int :
                 /\ Total(s, x) \in Seq(EnrichmentRecord)
                 /\ Both(s, x, y) \in Seq(EnrichmentRecord)
           /\ NoMatch \in Seq(EnrichmentRecord) /\ <<>> \in Seq(EnrichmentRecord)
           /\ \A a, b \in Seq(EnrichmentRecord) : a \o b \in Seq(EnrichmentRecord)
            /\ \A x \in Int, y \in {NoValue, 0} :
                 NevoEntry(x, y, group) \in Seq(EnrichmentRecord)
           /\ \A s \in {"nevo", "ciqual"} :
                <<Record("protein_pct", s, "needs_manual_review", NoValue)>>
                    \in Seq(EnrichmentRecord)
<1>1. \A n \in Nutrient, s \in Source, t \in Status, x \in Int :
        Record(n, s, t, x) \in EnrichmentRecord
  BY DEF Record, EnrichmentRecord
<1>2. /\ \A n \in {"protein_pct", "plant_protein_pct", "animal_protein_pct"} :
            n \in Nutrient
      /\ \A s \in {"manual_altera", "nevo", "ciqual", "category_average"} : s \in Source
      /\ \A t \in {"enriched", "failed", "needs_manual_review"} : t \in Status
      /\ Pct \subseteq Int /\ NoValue \in Int /\ 0 \in Int
  BY DEF Nutrient, Source, Status, NoValue, ConstantsAssumption
<1>3. \A s \in Source, x, y \in Int :
        Total(s, x) \in Seq(EnrichmentRecord) /\ Both(s, x, y) \in Seq(EnrichmentRecord)
  BY <1>1, <1>2 DEF Total, Both
<1>4. NoMatch \in Seq(EnrichmentRecord)
  BY <1>1, <1>2 DEF NoMatch
<1>5. /\ \A a, b \in Seq(EnrichmentRecord) : a \o b \in Seq(EnrichmentRecord)
      /\ <<>> \in Seq(EnrichmentRecord)
  OBVIOUS
<1>6. \A x \in Int : AssumedSplit(x, group) \in Seq(EnrichmentRecord)
  <2> TAKE x \in Int
  <2>1. /\ Both("nevo", x, 0) \in Seq(EnrichmentRecord)
        /\ Both("nevo", 0, x) \in Seq(EnrichmentRecord)
    BY <1>2, <1>3
  <2> QED BY <1>5, <2>1 DEF AssumedSplit
<1>7. \A x \in Int, y \in {NoValue, 0} : NevoEntry(x, y, group) \in Seq(EnrichmentRecord)
  <2> TAKE x \in Int, y \in {NoValue, 0}
  <2>1. x - y \in Int /\ y \in Int
    BY DEF NoValue
  <2>2. /\ Total("nevo", x) \in Seq(EnrichmentRecord)
        /\ Both("nevo", y, x - y) \in Seq(EnrichmentRecord)
    BY <1>2, <1>3, <2>1
  <2> QED BY <1>5, <1>6, <2>2 DEF NevoEntry
<1>8. \A s \in {"nevo", "ciqual"} :
        <<Record("protein_pct", s, "needs_manual_review", NoValue)>>
            \in Seq(EnrichmentRecord)
  BY <1>1, <1>2
<1> QED BY <1>2, <1>3, <1>4, <1>5, <1>7, <1>8

LEMMA ReferencesAreRecords ==
    ASSUME ConstantsAssumption, NEW group, NEW new \in References(group, Pct)
    PROVE  new \in Seq(EnrichmentRecord)
<1> DEFINE A == {NevoEntry(x, y, group) : x \in Pct, y \in {NoValue, 0}}
           B == {Total("ciqual", x) : x \in Pct}
           C == {<<Record("protein_pct", s, "needs_manual_review", NoValue)>> :
                    s \in {"nevo", "ciqual"}}
<1>a. new \in A \cup B \cup C \cup {NoMatch, <<>>}
  BY DEF References, Picked, Matched
<1>b. new \in A => \E x \in Pct, y \in {NoValue, 0} : new = NevoEntry(x, y, group)
  OBVIOUS
<1>c. new \in B => \E x \in Pct : new = Total("ciqual", x)
  OBVIOUS
<1>d. new \in C => \E s \in {"nevo", "ciqual"} :
                    new = <<Record("protein_pct", s, "needs_manual_review", NoValue)>>
  OBVIOUS
<1> HIDE DEF A, B, C
<1>1. \/ \E x \in Pct, y \in {NoValue, 0} : new = NevoEntry(x, y, group)
      \/ \E x \in Pct : new = Total("ciqual", x)
      \/ \E s \in {"nevo", "ciqual"} :
            new = <<Record("protein_pct", s, "needs_manual_review", NoValue)>>
      \/ new = NoMatch \/ new = <<>>
  BY <1>a, <1>b, <1>c, <1>d
<1>2. "ciqual" \in Source /\ 0 \in Int
  BY DEF Source
<1>3. \A x \in Pct : x \in Int /\ Total("ciqual", x) \in Seq(EnrichmentRecord)
  BY <1>2, TypesOfRecords
<1> QED BY <1>1, <1>3, TypesOfRecords

LEMMA EndpointsAppendRecords ==
    ASSUME ConstantsAssumption, NEW v \in Pct, NEW group
    PROVE  /\ ManualNutrition(v, v, 0) \in Seq(EnrichmentRecord)
           /\ Total("manual_altera", v) \in Seq(EnrichmentRecord)
           /\ CategoryAverage(group, v) \in Seq(EnrichmentRecord)
<1>1. v \in Int /\ 0 \in Int
  BY TypesOfRecords
<1>2. "manual_altera" \in Source /\ "category_average" \in Source
  BY DEF Source
<1>3. /\ Total("manual_altera", v) \in Seq(EnrichmentRecord)
      /\ Both("manual_altera", v, 0) \in Seq(EnrichmentRecord)
      /\ Total("category_average", v) \in Seq(EnrichmentRecord)
  BY <1>1, <1>2, TypesOfRecords
<1>4. ManualNutrition(v, v, 0) \in Seq(EnrichmentRecord)
  BY <1>3, TypesOfRecords DEF ManualNutrition
<1>5. CategoryAverage(group, v) \in Seq(EnrichmentRecord)
  BY <1>3, TypesOfRecords DEF CategoryAverage
<1> QED BY <1>3, <1>4, <1>5

-----------------------------------------------------------------------------
(* The steps of a request *)

\* A request that goes on, with a run more or less.
LEMMA RequestStep ==
    ASSUME IInv, NEW w \in Worker, NEW label, NEW r \in Request, Goto(w, label, r),
           label \in {"idle", "list", "classified", "compute", "drop"},
           UNCHANGED project,
           runs' \subseteq Run, IsFiniteSet(runs'), created' \in 0 .. MaxRuns,
           label # "idle" =>
             /\ r.methodology \in enabled
             /\ r.asked \subseteq products
             /\ label # "list" => r.asked \subseteq r.list
             /\ r.methodology = PT /\ ~r.partial => \A p \in r.asked : HasValue(p),
           \A run \in runs' \ runs :
             run.methodology # PT \/ (~run.partial /\ run.enriched) =>
                 run.asked \subseteq run.rows
    PROVE  IInv'
<1>1. /\ pc' = [pc EXCEPT ![w] = label] /\ req' = [req EXCEPT ![w] = r]
      /\ pc'[w] = label /\ req'[w] = r
      /\ \A v \in Worker : v # w => pc'[v] = pc[v] /\ req'[v] = req[v]
  BY DEF IInv, Types, Goto
<1>2. UNCHANGED <<enabled, uploaded, products, cls, open, records>>
  BY DEF project
<1>3. Types'
  BY <1>1, <1>2 DEF IInv, Types
<1>4. \A p : HasValue(p) <=> HasValue(p)'
  BY <1>2 DEF HasValue
<1>5. ASSUME NEW v \in Worker, pc'[v] # "idle" PROVE Passed(v)'
  <2>1. CASE v = w
    BY <1>1, <1>2, <1>4, <1>5, <2>1 DEF Passed
  <2>2. CASE v # w
    <3>1. Passed(v)
      BY <1>1, <1>5, <2>2 DEF IInv
    <3> QED BY <1>1, <1>2, <1>4, <2>2, <3>1 DEF Passed
  <2> QED BY <2>1, <2>2
<1>6. StrictRunsAreFull'
  BY DEF IInv, StrictRunsAreFull
<1> QED BY <1>3, <1>5, <1>6 DEF IInv

LEMMA NoRequestIsOne == NoRequest \in Request
  BY DEF NoRequest, Request, PT

LEMMA CreateRunStep ==
    ASSUME ConstantsAssumption, IInv, NEW w \in Worker, CreateRun(w) PROVE IInv'
<1>1. PICK m \in enabled, partial \in BOOLEAN, enriched \in BOOLEAN :
        /\ m = PT => W!RunReady(Counts, partial)
        /\ Goto(w, "list", [NoRequest EXCEPT !.methodology = m, !.partial = partial,
                              !.enriched = enriched, !.asked = products,
                              !.id = created + 1])
  BY DEF CreateRun
<1> DEFINE r == [NoRequest EXCEPT !.methodology = m, !.partial = partial,
                                  !.enriched = enriched, !.asked = products,
                                  !.id = created + 1]
<1>2. created \in Nat /\ products \subseteq Product
  BY DEF IInv, Types, ConstantsAssumption
<1>3. /\ r \in Request /\ r.methodology = m /\ r.partial = partial /\ r.asked = products
  <2>1. m \in {"protein_tracker", "wwf"} /\ created + 1 \in Nat
    BY <1>2 DEF IInv, Types, Methodologies, PT
  <2> QED BY <1>2, <2>1, NoRequestIsOne DEF Request
<1>4. UNCHANGED <<project, runs>> /\ created' \in 0 .. MaxRuns
      /\ runs' \subseteq Run /\ IsFiniteSet(runs')
  BY DEF CreateRun, IInv, Types, ConstantsAssumption
<1>5. m = PT /\ ~partial => \A p \in products : HasValue(p)
  <2> SUFFICES ASSUME m = PT, ~partial PROVE \A p \in products : HasValue(p)
    OBVIOUS
  <2>1. partial = FALSE /\ W!RunReady(Counts, partial)
    BY <1>1
  <2> QED BY <2>1, GateIsRight DEF IInv
<1>6. Goto(w, "list", r)
  BY <1>1
<1> HIDE DEF r
<1> QED BY <1>3, <1>4, <1>5, <1>6, RequestStep

LEMMA ListStep ==
    ASSUME IInv, NEW w \in Worker, ListProducts(w) PROVE IInv'
<1> DEFINE r == [req[w] EXCEPT !.list = products]
<1>1. Passed(w) /\ req[w] \in Request /\ products \subseteq Product
  BY DEF IInv, Types, ListProducts
<1>2. /\ r \in Request /\ r.methodology = req[w].methodology /\ r.partial = req[w].partial
      /\ r.asked = req[w].asked /\ r.list = products
  BY <1>1 DEF Request
<1>3. UNCHANGED <<project, runs, created>> /\ Goto(w, "classified", r)
  BY DEF ListProducts
<1>4. runs' \subseteq Run /\ IsFiniteSet(runs') /\ created' \in 0 .. MaxRuns
  BY <1>3 DEF IInv, Types
<1> HIDE DEF r
<1> QED BY <1>1, <1>2, <1>3, <1>4, RequestStep DEF Passed

LEMMA ReadStep ==
    ASSUME IInv, NEW w \in Worker, ReadClassifications(w) PROVE IInv'
<1> DEFINE found == {p \in req[w].list : cls[req[w].methodology][p] # "none"}
           r == [req[w] EXCEPT !.classified = found]
<1>1. Passed(w) /\ req[w] \in Request /\ pc[w] # "list"
  BY DEF IInv, Types, ReadClassifications
<1>2. found \subseteq Product
  BY <1>1 DEF Request
<1>3. /\ r \in Request /\ r.methodology = req[w].methodology /\ r.partial = req[w].partial
      /\ r.asked = req[w].asked /\ r.list = req[w].list
  <2> HIDE DEF found
  <2> QED BY <1>1, <1>2 DEF Request
<1>4. UNCHANGED <<project, runs, created>> /\ Goto(w, "compute", r)
  BY DEF ReadClassifications
<1>5. runs' \subseteq Run /\ IsFiniteSet(runs') /\ created' \in 0 .. MaxRuns
  BY <1>4 DEF IInv, Types
<1> HIDE DEF r
<1> QED BY <1>1, <1>3, <1>4, <1>5, RequestStep DEF Passed

LEMMA RefuseStep ==
    ASSUME IInv, NEW w \in Worker, Refuse(w) PROVE IInv'
<1>1. UNCHANGED <<project, runs, created>> /\ Goto(w, "idle", NoRequest)
  BY DEF Refuse
<1>2. runs' \subseteq Run /\ IsFiniteSet(runs') /\ created' \in 0 .. MaxRuns
  BY <1>1 DEF IInv, Types
<1> QED BY <1>1, <1>2, NoRequestIsOne, RequestStep

\* The engine finds a value for each product the gate saw, among those it listed.
LEMMA ComputeStep ==
    ASSUME IInv, NEW w \in Worker, Compute(w) PROVE IInv'
<1> DEFINE r == req[w]
           run == [id |-> r.id, methodology |-> r.methodology, partial |-> r.partial,
                   enriched |-> r.enriched, asked |-> r.asked, rows |-> RowsOf(r)]
<1>1. Passed(w) /\ r \in Request /\ pc[w] = "compute"
  BY DEF IInv, Types, Compute
<1>2. RowsOf(r) \subseteq Product
  BY <1>1 DEF RowsOf, Request
<1>3. run \in Run
  BY <1>1, <1>2 DEF Run, Request, Methodologies, PT
<1>4. /\ runs' = runs \cup {run} /\ UNCHANGED <<project, created>>
      /\ Goto(w, "drop", r) \/ Goto(w, "idle", NoRequest)
  BY DEF Compute
<1>5. run.methodology # PT \/ (~run.partial /\ run.enriched) =>
                 run.asked \subseteq run.rows
  <2>1. /\ r.asked \subseteq r.list /\ r.asked \subseteq products
        /\ products \subseteq Product
    BY <1>1 DEF Passed, IInv, Types
  <2>2. CASE r.methodology # PT
    BY <2>1, <2>2 DEF RowsOf
  <2>3. CASE r.methodology = PT /\ ~r.partial /\ r.enriched
    <3>1. ASSUME NEW p \in r.asked PROVE p \in RowsOf(r)
      <4>1. HasValue(p) /\ p \in Product /\ p \in r.list
        BY <1>1, <2>1, <2>3 DEF Passed
      <4>2. p \in Labelled \/ ValueOf(p, TRUE) # Nothing
        BY <4>1, EngineFinds DEF IInv
      <4>3. r.enriched = TRUE
        BY <1>1, <2>3 DEF Request
      <4> QED BY <2>3, <4>1, <4>2, <4>3 DEF RowsOf
    <3> QED BY <3>1
  <2> QED BY <2>2, <2>3
<1>6. runs' \subseteq Run /\ IsFiniteSet(runs') /\ created' \in 0 .. MaxRuns
  BY <1>3, <1>4, FS_AddElement DEF IInv, Types
<1>7. \A x \in runs' \ runs :
        x.methodology # PT \/ (~x.partial /\ x.enriched) => x.asked \subseteq x.rows
  BY <1>4, <1>5
<1> HIDE DEF run, r
<1>8. CASE Goto(w, "drop", r)
  BY <1>1, <1>4, <1>6, <1>7, <1>8, RequestStep DEF Passed, r
<1>9. CASE Goto(w, "idle", NoRequest)
  BY <1>4, <1>6, <1>7, <1>9, NoRequestIsOne, RequestStep
<1> QED BY <1>4, <1>8, <1>9

LEMMA DropStep ==
    ASSUME IInv, NEW w \in Worker, DropEmpty(w) PROVE IInv'
<1>1. runs' \subseteq runs
  BY DEF DropEmpty, Without
<1>2. UNCHANGED <<project, created>> /\ Goto(w, "idle", NoRequest)
  BY DEF DropEmpty
<1>3. runs' \subseteq Run /\ IsFiniteSet(runs') /\ created' \in 0 .. MaxRuns
  BY <1>1, <1>2, FS_Subset DEF IInv, Types
<1> QED BY <1>1, <1>2, <1>3, NoRequestIsOne, RequestStep

LEMMA NextIInv == ASSUME ConstantsAssumption, IInv, [Next]_vars PROVE IInv'
<1>1. CASE Upload
  BY <1>1, UploadStep
<1>2. ASSUME NEW p \in Product, AddProduct(p) PROVE IInv'
  BY <1>2, AddProductStep
<1>3. ASSUME NEW p \in Product, Classify(p) PROVE IInv'
  BY <1>3, ClassifyStep
<1>4. ASSUME NEW p \in Product, Decide(p) PROVE IInv'
  BY <1>4, DecideStep
<1>5. ASSUME NEW p \in Product,
             \/ ApplyReferences(p) \/ SubmitManualNutrition(p)
             \/ CreateManualEnrichment(p) \/ ApplyCategoryAverage(p)
      PROVE  IInv'
  <2>1. CASE ApplyReferences(p)
    <3>1. PICK new \in References(cls[PT][p], Pct) : AddRecords(p, new)
      BY <2>1 DEF ApplyReferences
    <3>2. new \in Seq(EnrichmentRecord)
      BY <3>1, ReferencesAreRecords
    <3> QED BY <3>1, <3>2, RecordsStep
  <2>2. CASE SubmitManualNutrition(p)
    <3>1. PICK v \in Pct : AddRecords(p, ManualNutrition(v, v, 0))
      BY <2>2 DEF SubmitManualNutrition
    <3>2. ManualNutrition(v, v, 0) \in Seq(EnrichmentRecord)
      BY EndpointsAppendRecords
    <3> QED BY <3>1, <3>2, RecordsStep
  <2>3. CASE CreateManualEnrichment(p)
    <3>1. PICK v \in Pct : AddRecords(p, Total("manual_altera", v))
      BY <2>3 DEF CreateManualEnrichment
    <3>2. Total("manual_altera", v) \in Seq(EnrichmentRecord)
      BY EndpointsAppendRecords
    <3> QED BY <3>1, <3>2, RecordsStep
  <2>4. CASE ApplyCategoryAverage(p)
    <3>1. PICK v \in Pct : AddRecords(p, CategoryAverage(cls[PT][p], v))
      BY <2>4 DEF ApplyCategoryAverage
    <3>2. CategoryAverage(cls[PT][p], v) \in Seq(EnrichmentRecord)
      BY EndpointsAppendRecords
    <3> QED BY <3>1, <3>2, RecordsStep
  <2> QED BY <1>5, <2>1, <2>2, <2>3, <2>4
<1>6. ASSUME NEW w \in Worker,
             \/ CreateRun(w) \/ ListProducts(w) \/ ReadClassifications(w)
             \/ Refuse(w) \/ Compute(w) \/ DropEmpty(w)
      PROVE  IInv'
  BY <1>6, CreateRunStep, ListStep, ReadStep, RefuseStep, ComputeStep, DropStep
<1>7. CASE UNCHANGED vars
  <2>1. /\ UNCHANGED <<enabled, runs, pc, req>> /\ products \subseteq products'
        /\ \A p \in products : HasValue(p) => HasValue(p)'
    BY <1>7 DEF vars, project, HasValue
  <2>2. Types'
    BY <1>7 DEF IInv, Types, vars, project
  <2> QED BY <2>1, <2>2, ProjectStep
<1> QED BY <1>1, <1>2, <1>3, <1>4, <1>5, <1>6, <1>7 DEF Next

-----------------------------------------------------------------------------
(* Theorems *)

\* The tables and the requests always have their types.
THEOREM TypeCorrect == ASSUME ConstantsAssumption PROVE Spec => []TypeOK
<1>1. ASSUME IInv PROVE TypeOK
  <2>1. \A p \in Product : \A i \in DOMAIN records[p] : records[p][i] \in EnrichmentRecord
    BY <1>1 DEF IInv, Types
  <2> QED BY <1>1, <2>1 DEF IInv, Types, TypeOK
<1> QED BY InitIInv, NextIInv, <1>1, PTL DEF Spec

\* If the workflow calls a calculation ready, each product is classified and the
\* engine finds a value for it, whatever was ingested, reviewed and enriched in which
\* order: _gather_counts and select_protein_enrichment mean the same.
THEOREM GateIsTheEngines ==
    ASSUME ConstantsAssumption PROVE Spec => []GateMatchesEngine
<1>1. ASSUME IInv PROVE GateMatchesEngine
  <2> SUFFICES ASSUME Enabled(PT), W!RunReady(Counts, FALSE)
               PROVE  /\ products # {}
                      /\ \A p \in products :
                            /\ cls[PT][p] # "none"
                            /\ p \in Labelled \/ ValueOf(p, TRUE) # Nothing
    BY DEF GateMatchesEngine
  <2>1. /\ products # {}
        /\ \A p \in products : cls[PT][p] # "none" /\ HasValue(p)
    BY <1>1, GateIsRight DEF IInv, Enabled
  <2>2. \A p \in products : HasValue(p) <=> p \in Labelled \/ ValueOf(p, TRUE) # Nothing
    BY <1>1, EngineFinds DEF IInv, Types
  <2> QED BY <2>1, <2>2
<1> QED BY InitIInv, NextIInv, <1>1, PTL DEF Spec

\* A run that did not ask for a partial outcome has a row for every product its gate
\* was asked about, although products, classifications and records are read later.
THEOREM RunsAreFull ==
    ASSUME ConstantsAssumption PROVE Spec => []StrictRunsAreFull
<1>1. IInv => StrictRunsAreFull
  BY DEF IInv
<1> QED BY InitIInv, NextIInv, <1>1, PTL DEF Spec

\* Whatever has happened in a project, the wizard leads to a step that is open, and
\* it shows 100 percent only when nothing waits and there is a report
\* (compute_workflow_status).
THEOREM WizardAlwaysLeadsOn ==
    ASSUME ConstantsAssumption PROVE Spec => []WizardLeadsOn
<1>1. ASSUME IInv PROVE WizardLeadsOn
  <2>1. CountsFit(Counts)
    BY <1>1, CountsAreThoseOfAProject DEF IInv
  <2> QED BY <2>1, WizardIsRight DEF WizardLeadsOn
<1> QED BY InitIInv, NextIInv, <1>1, PTL DEF Spec

-----------------------------------------------------------------------------
(* Step 2 *)

IsList(f) == f = [i \in DOMAIN f |-> f[i]]

\* While a file is stored, what is there and what is still to do make it up; before, the
\* store holds the last one that was answered with success.  On Postgres nothing is ever
\* stored.
PartStored ==
    /\ upload = [pc |-> upload.pc, file |-> upload.file, todo |-> upload.todo]
    /\ upload.pc \in {"idle", "store"}
    /\ IF upload.pc = "idle"
       THEN /\ DOMAIN stored = DOMAIN accepted
            /\ \A key \in DOMAIN stored : stored[key] = accepted[key] /\ IsList(accepted[key])
       ELSE /\ DOMAIN upload.file = DOMAIN stored \cup DOMAIN upload.todo
            /\ \A key \in DOMAIN stored : stored[key] = upload.file[key]
            /\ \A key \in DOMAIN upload.todo : upload.todo[key] = upload.file[key]
            /\ \A key \in DOMAIN upload.file : IsList(upload.file[key])
    /\ StepTwo!InsertBreaks => DOMAIN stored = {} /\ DOMAIN accepted = {}

LEMMA InitPartStored == StepTwo!Init => PartStored
BY DEF StepTwo!Init, StepTwo!Idle, StepTwo!Nowhere, PartStored

LEMMA NextPartStored ==
    ASSUME PartStored, [StepTwo!Next]_(StepTwo!vars)
    PROVE  PartStored'
<1>1. CASE StepTwo!UploadInvalid
  BY <1>1 DEF StepTwo!UploadInvalid, PartStored, StepTwo!InsertBreaks
<1>2. CASE StepTwo!UploadValid
  <2>1. PICK file \in File :
            upload' = [pc |-> "store", file |-> StepTwo!ValidIngredients(file),
                       todo |-> StepTwo!ValidIngredients(file)]
    BY <1>2 DEF StepTwo!UploadValid
  <2>2. PICK own : StepTwo!ValidIngredients(file) =
            [k \in own |-> [i \in DOMAIN file[k] |-> StepTwo!Ingredient(file[k][i])]]
    BY DEF StepTwo!ValidIngredients
  <2>3. DOMAIN stored' = {} /\ accepted' = accepted /\ upload.pc = "idle"
    BY <1>2 DEF StepTwo!UploadValid, StepTwo!Cleared, StepTwo!Nowhere
  <2>4. \A k \in DOMAIN upload'.file : IsList(upload'.file[k])
    BY <2>1, <2>2 DEF IsList
  <2> QED BY <2>1, <2>3, <2>4 DEF PartStored, StepTwo!InsertBreaks
<1>3. CASE StepTwo!StoreProduct
  <2>1. PICK key \in DOMAIN upload.todo :
            /\ stored' = [k \in DOMAIN stored \cup {key} |->
                            IF k = key THEN upload.todo[key] ELSE stored[k]]
            /\ upload' = [upload EXCEPT !.todo =
                            StepTwo!Restrict(@, DOMAIN @ \ {key})]
    BY <1>3 DEF StepTwo!StoreProduct
  <2> DEFINE rest == [k \in DOMAIN upload.todo \ {key} |-> upload.todo[k]]
  <2>2. upload' = [pc |-> upload.pc, file |-> upload.file, todo |-> rest]
    BY <2>1 DEF PartStored, StepTwo!Restrict
  <2>3. upload.pc = "store" /\ accepted' = accepted /\ ~StepTwo!InsertBreaks
    BY <1>3 DEF StepTwo!StoreProduct
  <2>4. /\ DOMAIN rest = DOMAIN upload.todo \ {key}
        /\ \A k \in DOMAIN rest : rest[k] = upload.todo[k]
    OBVIOUS
  <2> HIDE DEF rest
  <2>5. /\ DOMAIN stored' = DOMAIN stored \cup {key}
        /\ stored'[key] = upload.todo[key]
        /\ \A k \in DOMAIN stored \ {key} : stored'[k] = stored[k]
    BY <2>1
  <2>6. upload'.pc = "store" /\ upload'.todo = rest /\ upload'.file = upload.file
    BY <2>2, <2>3
  <2>7. upload' = [pc |-> upload'.pc, file |-> upload'.file, todo |-> upload'.todo]
    BY <2>2
  <2>8. /\ DOMAIN upload.file = DOMAIN stored' \cup DOMAIN rest
        /\ \A k \in DOMAIN stored' : stored'[k] = upload.file[k]
        /\ \A k \in DOMAIN rest : rest[k] = upload.file[k]
        /\ \A k \in DOMAIN upload.file : IsList(upload.file[k])
    BY <2>1, <2>3, <2>4, <2>5 DEF PartStored
  <2>9. ~StepTwo!InsertBreaks'
    BY <2>3 DEF StepTwo!InsertBreaks
  <2> QED BY <2>6, <2>7, <2>8, <2>9 DEF PartStored
<1>4. CASE StepTwo!Answer
  <2>1. /\ upload.pc = "store" /\ DOMAIN upload.todo = {} /\ upload'.pc = "idle"
        /\ upload' = [pc |-> upload'.pc, file |-> upload'.file, todo |-> upload'.todo]
        /\ accepted' = upload.file /\ stored' = stored
    BY <1>4 DEF StepTwo!Answer, StepTwo!Idle, StepTwo!Nowhere
  <2> QED BY <2>1 DEF PartStored, StepTwo!InsertBreaks
<1>5. CASE StepTwo!Break
  <2>1. /\ upload.pc = "store" /\ upload'.pc = "idle" /\ StepTwo!InsertBreaks
        /\ upload' = [pc |-> upload'.pc, file |-> upload'.file, todo |-> upload'.todo]
        /\ accepted' = accepted /\ stored' = stored
    BY <1>5 DEF StepTwo!Break, StepTwo!Idle
  <2> QED BY <2>1 DEF PartStored, StepTwo!InsertBreaks
<1>6. CASE UNCHANGED StepTwo!vars
  BY <1>6 DEF StepTwo!vars, PartStored, StepTwo!InsertBreaks
<1> QED BY <1>1, <1>2, <1>3, <1>4, <1>5, <1>6 DEF StepTwo!Next

\* A valid file replaces all Step 2 ingredients of a project, and nothing else changes
\* them: between uploads the store holds what the last one said that was answered with
\* success, on either store (upload_wwf_step2_ingredients in api/routes.py).
THEOREM StepTwoReplacesAll == StepTwo!Spec => []Step2IsStored
<1>1. ASSUME PartStored PROVE Step2IsStored
  <2> SUFFICES ASSUME upload.pc = "idle"
               PROVE  /\ DOMAIN stored = DOMAIN accepted
                      /\ \A key \in DOMAIN stored :
                          [i \in DOMAIN stored[key] |-> StepTwo!ReadBack(stored[key][i])]
                                = accepted[key]
    BY DEF Step2IsStored, StepTwo!Step2IsStored
  <2>1. DOMAIN stored = DOMAIN accepted
    BY <1>1 DEF PartStored
  <2>2. ASSUME NEW x, ~StepTwo!InsertBreaks PROVE StepTwo!ReadBack(x) = x
    BY <2>2 DEF StepTwo!ReadBack, StepTwo!InsertBreaks
  <2>3. CASE StepTwo!InsertBreaks
    BY <1>1, <2>1, <2>3 DEF PartStored
  <2>4. CASE ~StepTwo!InsertBreaks
    BY <1>1, <2>1, <2>2, <2>4 DEF PartStored, IsList
  <2> QED BY <2>3, <2>4
<1> QED BY InitPartStored, NextPartStored, <1>1, PTL DEF StepTwo!Spec

-----------------------------------------------------------------------------
(* What the screens say about a run *)

\* The selection the screens speak about is the engine's.
LEMMA OneSelection ==
    ASSUME NEW s
    PROVE  /\ Engine!Usable(s, "protein_pct") = Usable(s, "protein_pct")
           /\ Engine!Best(s) = Best(s)
           /\ Engine!Nothing.pct = NoValue
           /\ Engine!Selected(s).pct =
                IF Usable(s, "protein_pct") = {} THEN NoValue ELSE s[Best(s)].value
<1>1. Engine!Usable(s, "protein_pct") = Usable(s, "protein_pct")
  BY DEF Engine!Usable, Usable, Engine!NoValue, NoValue
<1>2. Engine!Best(s) = Best(s)
  BY <1>1 DEF Engine!Best, Best, Engine!Priority, Priority
<1>3. Engine!Nothing.pct = NoValue
  BY DEF Engine!Nothing, Engine!NoValue, NoValue
<1> HIDE DEF NoValue
<1> QED BY <1>1, <1>2, <1>3 DEF Engine!Selected

LEMMA BestIsBest ==
    ASSUME NEW s \in Seq(EnrichmentRecord), Usable(s, "protein_pct") # {}
    PROVE  LET U == Usable(s, "protein_pct")
           IN  /\ Best(s) \in U
               /\ \A j \in U :
                    \/ Priority[s[Best(s)].source] < Priority[s[j].source]
                    \/ Priority[s[Best(s)].source] = Priority[s[j].source] /\ Best(s) <= j
<1> DEFINE U == Usable(s, "protein_pct")
           weight == [i \in U |-> Priority[s[i].source]]
<1>1. U \subseteq Nat /\ U # {} /\ weight \in [U -> Nat]
  BY UsableFields
<1>2. \E i \in U : \A j \in U :
         weight[i] < weight[j] \/ (weight[i] = weight[j] /\ i <= j)
  <2> HIDE DEF U, weight
  <2> QED BY <1>1, BestExists
<1>3. \E i \in U : \A j \in U :
         LET a == Priority[s[i].source]
             b == Priority[s[j].source]
         IN  a < b \/ (a = b /\ i <= j)
  BY <1>2
<1> QED BY <1>3 DEF Best

\* What the nutrition of a product has for a value.
LEMMA ValueOfNutrition ==
    ASSUME NEW p
    PROVE  Engine!Nutrition(p, TRUE).pct =
             IF p.pct # NoValue THEN p.pct ELSE Engine!Selected(p.records).pct
<1>1. Engine!NoValue = NoValue
  BY DEF Engine!NoValue, NoValue
<1> DEFINE found == IF p.pct # NoValue
                    THEN [Engine!Nothing EXCEPT !.pct = p.pct, !.source = "retailer"]
                    ELSE Engine!Selected(p.records)
<1>2. "pct" \in DOMAIN Engine!Nothing
  BY DEF Engine!Nothing
<1>3. found.pct = IF p.pct # NoValue THEN p.pct ELSE Engine!Selected(p.records).pct
  BY <1>2
<1>4. Engine!Nutrition(p, TRUE) =
         IF p.plant = NoValue /\ p.animal = NoValue THEN found
         ELSE [found EXCEPT !.plant = p.plant, !.animal = p.animal]
  BY <1>1 DEF Engine!Nutrition
<1> HIDE DEF found
<1>5. [found EXCEPT !.plant = p.plant, !.animal = p.animal].pct = found.pct
  OBVIOUS
<1> QED BY <1>3, <1>4, <1>5

\* Records of different sources have different priorities: one of them is first by
\* any rule.
LEMMA OnlyOneIsShown ==
    ASSUME NEW s \in Seq(EnrichmentRecord), Usable(s, "protein_pct") # {},
           Engine!Cardinality({s[i].source : i \in Usable(s, "protein_pct")})
              = Engine!Cardinality(Usable(s, "protein_pct"))
    PROVE  Engine!ShownRecord(s, "protein_pct") = Best(s)
<1> DEFINE U == Usable(s, "protein_pct")
           source == [i \in U |-> s[i].source]
           sources == {s[i].source : i \in U}
           First(i) == \A j \in U :
                          \/ Priority[s[i].source] < Priority[s[j].source]
                          \/ Priority[s[i].source] = Priority[s[j].source] /\ i >= j
<1>1. IsFiniteSet(U)
  <2>1. U \in SUBSET (1 .. Len(s))
    BY UsableFields
  <2>2. IsFiniteSet(1 .. Len(s))
    BY FS_Interval
  <2> QED BY <2>1, <2>2, FS_Subset
<1>2. Cardinality(sources) = Cardinality(U)
  BY DEF Engine!Cardinality, Cardinality
<1>3. source \in Surjection(U, sources)
  BY DEF Surjection
<1>4. \A i, j \in U : s[i].source = s[j].source => i = j
  <2>1. source \in Injection(U, sources)
    <3> HIDE DEF U, source, sources
    <3> QED BY <1>1, <1>2, <1>3, FS_Surjection
  <2> QED BY <2>1 DEF Injection, IsInjective
<1>5. \A a, b \in Source : Priority[a] = Priority[b] => a = b
  BY DEF Source, Priority
<1>6. \A i, j \in U : Priority[s[i].source] = Priority[s[j].source] => i = j
  BY <1>4, <1>5, UsableFields
<1>7. \A i \in U : i \in Nat /\ Priority[s[i].source] \in Nat
  BY UsableFields
<1>8. /\ Best(s) \in U
      /\ \A j \in U : \/ Priority[s[Best(s)].source] < Priority[s[j].source]
                      \/ Priority[s[Best(s)].source] = Priority[s[j].source]
                            /\ Best(s) <= j
  BY BestIsBest
<1> HIDE DEF U
<1>9. First(Best(s))
  BY <1>6, <1>7, <1>8
<1>10. ASSUME NEW i \in U, First(i) PROVE i = Best(s)
  BY <1>6, <1>7, <1>8, <1>10
<1>11. Engine!ShownRecord(s, "protein_pct") = CHOOSE i \in U : First(i)
  <2>1. Engine!Usable(s, "protein_pct") = U /\ U # {}
    BY OneSelection DEF U
  <2>2. Engine!Priority = Priority
    BY DEF Engine!Priority, Priority
  <2> QED BY <2>1, <2>2 DEF Engine!ShownRecord
<1> HIDE DEF First
<1> QED BY <1>8, <1>9, <1>10, <1>11

\* list_nutrition_validations_route: the value the nutrition table shows is the
\* one a run uses, although the table takes the newest record of a source and the
\* engine the oldest, as long as no source has two values for a product.
THEOREM ShownValueIsUsed ==
    ASSUME NEW catalogue, IsCatalogue(catalogue)
    PROVE  Engine!ShownIsUsed(catalogue)
<1> SUFFICES ASSUME NEW k \in DOMAIN catalogue,
                    Engine!Cardinality({catalogue[k].records[i].source :
                            i \in Engine!Usable(catalogue[k].records, "protein_pct")})
                      = Engine!Cardinality(
                            Engine!Usable(catalogue[k].records, "protein_pct"))
             PROVE  Engine!NutritionRow(catalogue[k]).pct
                      = Engine!Nutrition(catalogue[k], TRUE).pct
  BY Zenon DEF Engine!ShownIsUsed
<1> DEFINE p == catalogue[k]
           s == p.records
           total == Engine!ShownRecord(s, "protein_pct")
<1>1. s \in Seq(EnrichmentRecord)
  BY DEF IsCatalogue
<1>2. Engine!NoValue = NoValue
  BY DEF Engine!NoValue, NoValue
<1>3. Engine!NutritionRow(p).pct =
        IF p.pct # NoValue THEN p.pct ELSE IF total = 0 THEN NoValue ELSE s[total].value
  BY <1>2 DEF Engine!NutritionRow
<1>4. Engine!Nutrition(p, TRUE).pct =
        IF p.pct # NoValue THEN p.pct ELSE Engine!Selected(s).pct
  BY ValueOfNutrition
<1> DEFINE shown == IF total = 0 THEN NoValue ELSE s[total].value
<1>5. ASSUME Usable(s, "protein_pct") = {} PROVE shown = Engine!Selected(s).pct
  <2>1. total = 0 /\ Engine!Selected(s).pct = NoValue
    BY <1>5, OneSelection DEF Engine!ShownRecord
  <2> QED BY <2>1
<1>6. ASSUME Usable(s, "protein_pct") # {} PROVE shown = Engine!Selected(s).pct
  <2>1. total = Best(s)
    <3>1. Engine!Usable(s, "protein_pct") = Usable(s, "protein_pct")
      BY OneSelection
    <3>2. Engine!Cardinality({s[i].source : i \in Usable(s, "protein_pct")})
            = Engine!Cardinality(Usable(s, "protein_pct"))
      BY <3>1
    <3> HIDE DEF s
    <3> QED BY <1>1, <1>6, <3>2, OnlyOneIsShown
  <2>2. Best(s) \in Usable(s, "protein_pct")
    BY <1>1, <1>6, BestIsBest
  <2>3. total # 0
    BY <1>1, <2>1, <2>2, UsableFields
  <2>4. Engine!Selected(s).pct = s[Best(s)].value
    BY <1>6, OneSelection
  <2> QED BY <2>1, <2>3, <2>4
<1>7. shown = Engine!Selected(s).pct
  BY <1>5, <1>6
<1> HIDE DEF s, total
<1> QED BY <1>3, <1>4, <1>7

\* A product has a value for the screens if and only if a run gives it a row.
LEMMA ValueMeansRow ==
    ASSUME NEW catalogue, IsCatalogue(catalogue), NEW k \in DOMAIN catalogue
    PROVE  /\ k \in Engine!Included(catalogue, TRUE) <=> Engine!HasProtein(catalogue[k])
           /\ Engine!HasProtein(catalogue[k]) <=>
                \/ catalogue[k].pct # NoValue
                \/ Usable(catalogue[k].records, "protein_pct") # {}
<1> DEFINE p == catalogue[k]
           s == p.records
<1>1. s \in Seq(EnrichmentRecord)
  BY DEF IsCatalogue
<1>2. Engine!NoValue = NoValue
  BY DEF Engine!NoValue, NoValue
<1>3. Engine!Selected(s).pct # NoValue <=> Usable(s, "protein_pct") # {}
  <2>1. ASSUME Usable(s, "protein_pct") # {} PROVE s[Best(s)].value # NoValue
    <3>1. Best(s) \in Usable(s, "protein_pct")
      BY <1>1, <2>1, BestIsBest
    <3> QED BY <3>1 DEF Usable
  <2> HIDE DEF s
  <2> QED BY <2>1, OneSelection
<1>4. Engine!Nutrition(p, TRUE).pct # NoValue <=>
         p.pct # NoValue \/ Engine!Selected(s).pct # NoValue
  BY ValueOfNutrition
<1>5. Engine!HasProtein(p) <=> p.pct # NoValue \/ Engine!Selected(s).pct # NoValue
  BY <1>2 DEF Engine!HasProtein
<1>6. k \in Engine!Included(catalogue, TRUE)
         <=> Engine!Nutrition(p, TRUE).pct # NoValue
  BY <1>2 DEF Engine!Included
<1> QED BY <1>3, <1>4, <1>5, <1>6

\* A run that was not refused.
LEMMA RunIs ==
    ASSUME NEW catalogue, Engine!Run(catalogue, TRUE).ok
    PROVE  /\ \A k \in DOMAIN catalogue : catalogue[k].group # "none"
           /\ DOMAIN Engine!Run(catalogue, TRUE).rows = Engine!Included(catalogue, TRUE)
<1>1. ~ \E p \in DOMAIN catalogue : catalogue[p].group = "none"
  BY DEF Engine!Run, Engine!Failed
<1>2. Engine!Run(catalogue, TRUE).rows = Engine!Rows(catalogue, TRUE)
  BY <1>1 DEF Engine!Run
<1> QED BY <1>1, <1>2 DEF Engine!Rows

\* calculation_preflight_route: a product that is counted as ready gets a row in the
\* run, and of the others only those without a volume or a weight, or that nobody
\* knows, get one.
THEOREM ReadyIsCalculated ==
    ASSUME NEW catalogue, IsCatalogue(catalogue), Engine!Run(catalogue, TRUE).ok
    PROVE  Engine!ReadyMeansIncluded(catalogue, Engine!Run(catalogue, TRUE))
<1> DEFINE run == Engine!Run(catalogue, TRUE)
<1> SUFFICES ASSUME NEW k \in DOMAIN catalogue
             PROVE  IF Engine!IsReady(catalogue[k]) THEN k \in DOMAIN run.rows
                    ELSE k \in DOMAIN run.rows =>
                        \/ ~Engine!HasVolume(catalogue[k])
                        \/ ~Engine!HasWeight(catalogue[k])
                        \/ catalogue[k].group = "unknown"
  BY Zenon DEF Engine!ReadyMeansIncluded
<1>1. catalogue[k].by # "none"
  BY RunIs DEF IsCatalogue
<1>2. k \in DOMAIN run.rows <=> Engine!HasProtein(catalogue[k])
  BY RunIs, ValueMeansRow
<1> HIDE DEF run
<1> QED BY <1>1, <1>2 DEF Engine!IsReady

\* A run is decorated as partial exactly when a product has no row, as many are called
\* excluded as have none, and, unless a product is unknown, those are eligible that have
\* one.
LEMMA CoverageCounts ==
    ASSUME NEW catalogue, IsCatalogue(catalogue), IsFiniteSet(DOMAIN catalogue),
           Engine!Run(catalogue, TRUE).ok
    PROVE  LET rows == DOMAIN Engine!Run(catalogue, TRUE).rows
               coverage == Engine!Coverage(catalogue, Engine!Cardinality(rows))
           IN  /\ coverage.partial <=> rows # DOMAIN catalogue
               /\ (\A k \in DOMAIN catalogue : catalogue[k].group # "unknown") =>
                    /\ coverage.eligible = Engine!Cardinality(rows)
                    /\ {k \in DOMAIN catalogue : Engine!Eligible(catalogue[k])} = rows
               /\ rows \subseteq DOMAIN catalogue
               /\ coverage.excluded = Cardinality(DOMAIN catalogue \ rows)
<1> DEFINE rows == DOMAIN Engine!Run(catalogue, TRUE).rows
           coverage == Engine!Coverage(catalogue, Engine!Cardinality(rows))
           eligible == {k \in DOMAIN catalogue : Engine!Eligible(catalogue[k])}
           total == Cardinality(DOMAIN catalogue)
           included == Cardinality(rows)
<1>1. \A S : Engine!Cardinality(S) = Cardinality(S)
  BY DEF Engine!Cardinality, Cardinality
<1>2. rows = Engine!Included(catalogue, TRUE) /\ rows \subseteq DOMAIN catalogue
  BY RunIs DEF Engine!Included
<1>3. /\ total \in Nat /\ included \in Nat /\ included <= total
      /\ included = total <=> rows = DOMAIN catalogue
      /\ Cardinality(DOMAIN catalogue \ rows) = total - included
  <2> DEFINE all == DOMAIN catalogue
  <2> HIDE DEF rows, all
  <2>1. IsFiniteSet(all) /\ rows \subseteq all
    BY <1>2 DEF all
  <2>2. /\ IsFiniteSet(rows) /\ Cardinality(rows) <= Cardinality(all)
        /\ Cardinality(rows) = Cardinality(all) => rows = all
    BY <2>1, FS_Subset
  <2>3. Cardinality(all) \in Nat /\ Cardinality(rows) \in Nat
    BY <2>1, <2>2, FS_CardinalityType
  <2>4. Cardinality(all \ rows) = Cardinality(all) - Cardinality(all \cap rows)
    BY <2>1, FS_Difference
  <2>5. all \cap rows = rows
    BY <2>1
  <2> QED BY <2>2, <2>3, <2>4, <2>5 DEF all
<1>4. /\ coverage.eligible = Engine!Cardinality(eligible)
      /\ coverage.excluded = IF total > included THEN total - included ELSE 0
      /\ coverage.partial <=> coverage.excluded > 0
  <2>1. Engine!Cardinality(DOMAIN catalogue) = total
         /\ Engine!Cardinality(rows) = included
    BY <1>1
  <2> HIDE DEF total, included, rows
  <2> QED BY <2>1 DEF Engine!Coverage
<1>5. ASSUME \A k \in DOMAIN catalogue : catalogue[k].group # "unknown"
      PROVE  eligible = rows
  <2>1. ASSUME NEW k \in DOMAIN catalogue
        PROVE  Engine!Eligible(catalogue[k]) <=> k \in rows
    <3>1. catalogue[k].by # "none" /\ catalogue[k].group # "unknown"
      BY <1>5, RunIs DEF IsCatalogue
    <3>2. k \in rows <=> \/ catalogue[k].pct # NoValue
                         \/ Usable(catalogue[k].records, "protein_pct") # {}
      BY <1>2, ValueMeansRow
    <3>3. Engine!NoValue = NoValue
           /\ Engine!Usable(catalogue[k].records, "protein_pct")
                = Usable(catalogue[k].records, "protein_pct")
      BY OneSelection DEF Engine!NoValue, NoValue
    <3> HIDE DEF rows
    <3> QED BY <3>1, <3>2, <3>3 DEF Engine!Eligible
  <2> QED BY <1>2, <2>1
<1> HIDE DEF rows, coverage, eligible, total, included
<1>6. coverage.partial <=> rows # DOMAIN catalogue
  <2>1. coverage.excluded > 0 <=> rows # DOMAIN catalogue
    BY <1>3, <1>4
  <2> QED BY <1>4, <2>1, Zenon
<1>7. coverage.excluded = Cardinality(DOMAIN catalogue \ rows)
  BY <1>3, <1>4
<1> QED BY <1>2, <1>4, <1>5, <1>6, <1>7 DEF rows, coverage, eligible

-----------------------------------------------------------------------------
(* Sums *)

\* Induction along a set of numbers, and along the subsets of a finite set: what the
\* library states for an operator, stated for a set, which the provers can take.
LEMMA NumberInduction ==
    ASSUME NEW G, 0 \in G, \A n \in Nat : n \in G => n + 1 \in G
    PROVE  \A n \in Nat : n \in G
<1> SUFFICES ASSUME Nat \ G # {} PROVE FALSE
  OBVIOUS
<1>1. PICK n \in Nat \ G : \A m \in Nat \ G : n <= m
  BY LeastExists
<1>2. n # 0 /\ n - 1 \in Nat
  BY <1>1
<1>3. n - 1 \in G
  BY <1>1, <1>2
<1> QED BY <1>1, <1>2, <1>3

LEMMA SubsetInduction ==
    ASSUME NEW U, IsFiniteSet(U), NEW G, {} \in G,
           \A s \in SUBSET U, x \in U : x \notin s /\ s \in G => s \cup {x} \in G
    PROVE  U \in G
<1> DEFINE Done == {n \in Nat : \A s \in SUBSET U : Cardinality(s) = n => s \in G}
<1>1. \A s \in SUBSET U : IsFiniteSet(s) /\ Cardinality(s) \in Nat
  BY FS_Subset, FS_CardinalityType
<1>2. 0 \in Done
  BY <1>1, FS_EmptySet
<1>3. ASSUME NEW n \in Nat, n \in Done PROVE n + 1 \in Done
  <2> SUFFICES ASSUME NEW s \in SUBSET U, Cardinality(s) = n + 1 PROVE s \in G
    OBVIOUS
  <2>1. s # {}
    BY FS_EmptySet
  <2>2. PICK x \in s : TRUE
    BY <2>1
  <2>3. Cardinality(s \ {x}) = n
    <3>1. IsFiniteSet(s) /\ Cardinality(s) \in Nat
      BY <1>1
    <3>2. Cardinality(s \ {x}) = Cardinality(s) - 1
      BY <2>2, <3>1, FS_RemoveElement
    <3> QED BY <3>1, <3>2
  <2>4. s \ {x} \in G /\ (s \ {x}) \cup {x} = s /\ x \in U
    BY <1>3, <2>2, <2>3
  <2>5. (s \ {x}) \cup {x} \in G
    BY <2>4
  <2> QED BY <2>4, <2>5
<1> HIDE DEF Done
<1>4. Cardinality(U) \in Done
  BY <1>1, <1>2, <1>3, NumberInduction
<1> QED BY <1>4 DEF Done

\* The sum of the weights w of a set, as the community modules take it: one element
\* after the other, in an order that is not known.
Some(s) == CHOOSE x \in s : TRUE
Body(w, S, g) ==
    [s \in SUBSET S |-> IF s = {} THEN 0 ELSE w[Some(s)] + g[s \ {Some(s)}]]
SumBy(w, S) == CHOOSE g : g = Body(w, S, g)
Sum(w, S) == SumBy(w, S)[S]

\* The element that a sum takes first.
LEMMA SomeIsIn == ASSUME NEW s, s # {} PROVE Some(s) \in s
BY DEF Some

\* There is a function that does what the body of a sum says: it is built up along the
\* number of elements.
LEMMA SumIsDefined ==
    ASSUME NEW U, IsFiniteSet(U), NEW w
    PROVE  SumBy(w, U) = Body(w, U, SumBy(w, U))
<1> DEFINE Upto(n) == {s \in SUBSET U : Cardinality(s) <= n}
           At(g, s) == IF s = {} THEN 0 ELSE w[Some(s)] + g[s \ {Some(s)}]
           Done == {n \in Nat : \E g : g = [s \in Upto(n) |-> At(g, s)]}
<1>1. \A s \in SUBSET U : IsFiniteSet(s) /\ Cardinality(s) \in Nat
                          /\ Cardinality(s) <= Cardinality(U)
  BY FS_Subset, FS_CardinalityType
<1>2. \A s \in SUBSET U : s # {} => /\ s \ {Some(s)} \in SUBSET U
                                    /\ Cardinality(s \ {Some(s)}) = Cardinality(s) - 1
  BY <1>1, SomeIsIn, FS_RemoveElement
<1>3. 0 \in Done
  <2> DEFINE g == [s \in Upto(0) |-> 0]
  <2>1. \A s \in Upto(0) : s = {}
    BY <1>1, FS_EmptySet
  <2>2. g = [s \in Upto(0) |-> At(g, s)]
    <3> HIDE DEF Upto
    <3> QED BY <2>1
  <2> HIDE DEF g
  <2> QED BY <2>2
<1>4. ASSUME NEW n \in Nat, n \in Done PROVE n + 1 \in Done
  <2>1. PICK g : g = [s \in Upto(n) |-> At(g, s)]
    BY <1>4
  <2> DEFINE h == [s \in Upto(n + 1) |-> At(g, s)]
  <2>2. Upto(n) \subseteq Upto(n + 1)
    BY <1>1
  <2>3. \A s \in Upto(n + 1) : s # {} => s \ {Some(s)} \in Upto(n)
    BY <1>1, <1>2
  <2> HIDE DEF Upto
  <2>4. \A s \in Upto(n) : h[s] = g[s]
    BY <2>1, <2>2
  <2>5. \A s \in Upto(n + 1) : At(g, s) = At(h, s)
    BY <2>3, <2>4
  <2>6. h = [s \in Upto(n + 1) |-> At(h, s)]
    <3>1. h = [s \in Upto(n + 1) |-> At(g, s)]
      OBVIOUS
    <3> HIDE DEF h, At
    <3> QED BY <2>5, <3>1
  <2> HIDE DEF h
  <2> QED BY <2>6
<1> HIDE DEF Done
<1>5. Cardinality(U) \in Done /\ Cardinality(U) \in Nat
  BY <1>1, <1>3, <1>4, NumberInduction
<1> USE DEF Done
<1>6. PICK g : g = [s \in Upto(Cardinality(U)) |-> At(g, s)]
  BY <1>5
<1>7. Upto(Cardinality(U)) = SUBSET U
  BY <1>1
<1> HIDE DEF Upto
<1>8. g = Body(w, U, g)
  BY <1>6, <1>7 DEF Body
<1> QED BY <1>8 DEF SumBy

\* The sum of a part is the same, whatever it is a part of.
LEMMA SumsAgree ==
    ASSUME NEW U, IsFiniteSet(U), NEW T \in SUBSET U, NEW w
    PROVE  SumBy(w, U)[T] = Sum(w, T)
<1> DEFINE g == SumBy(w, U)
           h == SumBy(w, T)
           Done == {n \in Nat : \A s \in SUBSET T : Cardinality(s) = n => g[s] = h[s]}
<1>1. IsFiniteSet(T) /\ \A s \in SUBSET T : IsFiniteSet(s) /\ Cardinality(s) \in Nat
  BY FS_Subset, FS_CardinalityType
<1>2. g = Body(w, U, g) /\ h = Body(w, T, h)
  BY <1>1, SumIsDefined
<1> HIDE DEF g, h
<1>3. \A s \in SUBSET T :
          /\ g[s] = IF s = {} THEN 0 ELSE w[Some(s)] + g[s \ {Some(s)}]
          /\ h[s] = IF s = {} THEN 0 ELSE w[Some(s)] + h[s \ {Some(s)}]
  <2> SUFFICES ASSUME NEW s \in SUBSET T
               PROVE /\ g[s] = IF s = {} THEN 0 ELSE w[Some(s)] + g[s \ {Some(s)}]
                     /\ h[s] = IF s = {} THEN 0 ELSE w[Some(s)] + h[s \ {Some(s)}]
    OBVIOUS
  <2>1. s \in SUBSET U
    OBVIOUS
  <2>2. Body(w, U, g)[s] = IF s = {} THEN 0 ELSE w[Some(s)] + g[s \ {Some(s)}]
    BY <2>1 DEF Body
  <2>3. Body(w, T, h)[s] = IF s = {} THEN 0 ELSE w[Some(s)] + h[s \ {Some(s)}]
    BY DEF Body
  <2> QED BY <1>2, <2>2, <2>3
<1>4. 0 \in Done
  BY <1>1, <1>3, FS_EmptySet
<1>5. ASSUME NEW n \in Nat, n \in Done PROVE n + 1 \in Done
  <2> SUFFICES ASSUME NEW s \in SUBSET T, Cardinality(s) = n + 1 PROVE g[s] = h[s]
    OBVIOUS
  <2>1. s # {} /\ Some(s) \in s
    BY FS_EmptySet, SomeIsIn
  <2>2. Cardinality(s \ {Some(s)}) = n /\ s \ {Some(s)} \in SUBSET T
    <3>1. IsFiniteSet(s) /\ Cardinality(s) \in Nat
      BY <1>1
    <3>2. Cardinality(s \ {Some(s)}) = Cardinality(s) - 1
      BY <2>1, <3>1, FS_RemoveElement
    <3> QED BY <3>1, <3>2
  <2>3. g[s \ {Some(s)}] = h[s \ {Some(s)}]
    BY <1>5, <2>2
  <2> QED BY <1>3, <2>1, <2>3
<1> HIDE DEF Done
<1>6. Cardinality(T) \in Done /\ Cardinality(T) \in Nat
  BY <1>1, <1>4, <1>5, NumberInduction
<1> QED BY <1>6 DEF Done, Sum, h, g

\* A sum without the first element taken.
LEMMA SumUnfolds ==
    ASSUME NEW U, IsFiniteSet(U), NEW w
    PROVE  Sum(w, U) = IF U = {} THEN 0 ELSE w[Some(U)] + Sum(w, U \ {Some(U)})
<1>1. SumBy(w, U)[U] = Body(w, U, SumBy(w, U))[U]
  BY SumIsDefined
<1>2. Body(w, U, SumBy(w, U))[U] =
          IF U = {} THEN 0 ELSE w[Some(U)] + SumBy(w, U)[U \ {Some(U)}]
  <2> HIDE DEF SumBy
  <2> QED BY DEF Body
<1>3. SumBy(w, U)[U \ {Some(U)}] = Sum(w, U \ {Some(U)})
  BY SumsAgree
<1> QED BY <1>1, <1>2, <1>3 DEF Sum

Weighs(w, S) == \A x \in S : w[x] \in Int

\* A sum of integers is one.
LEMMA SumIsInt ==
    ASSUME NEW U, IsFiniteSet(U), NEW w, Weighs(w, U)
    PROVE  Sum(w, U) \in Int
<1> DEFINE Done == {n \in Nat : \A s \in SUBSET U : Cardinality(s) = n => Sum(w, s) \in Int}
<1>1. \A s \in SUBSET U : IsFiniteSet(s) /\ Cardinality(s) \in Nat
  BY FS_Subset, FS_CardinalityType
<1>2. 0 \in Done
  <2>1. \A s \in SUBSET U : Cardinality(s) = 0 => s = {}
    BY <1>1, FS_EmptySet
  <2>2. Sum(w, {}) = 0
    BY FS_EmptySet, SumUnfolds
  <2> QED BY <2>1, <2>2
<1>3. ASSUME NEW n \in Nat, n \in Done PROVE n + 1 \in Done
  <2> SUFFICES ASSUME NEW s \in SUBSET U, Cardinality(s) = n + 1 PROVE Sum(w, s) \in Int
    OBVIOUS
  <2>1. s # {} /\ Some(s) \in s
    BY FS_EmptySet, SomeIsIn
  <2>2. Cardinality(s \ {Some(s)}) = n /\ s \ {Some(s)} \in SUBSET U
    BY <1>1, <2>1, FS_RemoveElement
  <2>3. Sum(w, s \ {Some(s)}) \in Int /\ w[Some(s)] \in Int
    BY <1>3, <2>1, <2>2 DEF Weighs
  <2>4. Sum(w, s) = w[Some(s)] + Sum(w, s \ {Some(s)})
    BY <1>1, <2>1, SumUnfolds
  <2> QED BY <2>3, <2>4
<1> HIDE DEF Done
<1>4. Cardinality(U) \in Done
  BY <1>1, <1>2, <1>3, NumberInduction
<1> QED BY <1>4 DEF Done

\* The order does not matter: any element may be taken first.
LEMMA SumWithout ==
    ASSUME NEW U, IsFiniteSet(U), NEW w, Weighs(w, U), NEW x \in U
    PROVE  Sum(w, U) = w[x] + Sum(w, U \ {x})
<1> DEFINE Done == {n \in Nat : \A s \in SUBSET U : Cardinality(s) = n =>
                        \A y \in s : Sum(w, s) = w[y] + Sum(w, s \ {y})}
<1>1. \A s \in SUBSET U : IsFiniteSet(s) /\ Cardinality(s) \in Nat
  BY FS_Subset, FS_CardinalityType
<1>2. \A s \in SUBSET U : Sum(w, s) \in Int
  BY <1>1, SumIsInt DEF Weighs
<1>3. 0 \in Done
  BY <1>1, FS_EmptySet
<1>4. ASSUME NEW n \in Nat, n \in Done PROVE n + 1 \in Done
  <2> SUFFICES ASSUME NEW s \in SUBSET U, Cardinality(s) = n + 1, NEW y \in s
               PROVE  Sum(w, s) = w[y] + Sum(w, s \ {y})
    OBVIOUS
  <2> DEFINE z == Some(s)
  <2>1. z \in s /\ Sum(w, s) = w[z] + Sum(w, s \ {z})
    BY <1>1, SomeIsIn, SumUnfolds
  <2> HIDE DEF z
  <2>2. CASE y = z
    BY <2>1, <2>2
  <2>3. CASE y # z
    <3>1. /\ Cardinality(s \ {z}) = n /\ s \ {z} \in SUBSET U /\ y \in s \ {z}
          /\ Cardinality(s \ {y}) = n /\ s \ {y} \in SUBSET U /\ z \in s \ {y}
      BY <1>1, <2>1, <2>3, FS_RemoveElement
    <3> DEFINE rest == s \ {y, z}
    <3>2. (s \ {z}) \ {y} = rest /\ (s \ {y}) \ {z} = rest /\ rest \in SUBSET U
      OBVIOUS
    <3>3. Sum(w, s \ {z}) = w[y] + Sum(w, rest)
      BY <1>4, <3>1, <3>2
    <3>4. Sum(w, s \ {y}) = w[z] + Sum(w, rest)
      BY <1>4, <3>1, <3>2
    <3>5. w[y] \in Int /\ w[z] \in Int /\ Sum(w, rest) \in Int
      BY <1>2, <2>1, <3>2 DEF Weighs
    <3> HIDE DEF rest
    <3> QED BY <2>1, <3>3, <3>4, <3>5
  <2> QED BY <2>2, <2>3
<1> HIDE DEF Done
<1>5. Cardinality(U) \in Done
  BY <1>1, <1>3, <1>4, NumberInduction
<1> QED BY <1>5 DEF Done

\* Nothing weighs nothing.
LEMMA SumOfNone == ASSUME NEW w PROVE Sum(w, {}) = 0
BY FS_EmptySet, SumUnfolds

\* One element more, in the form that an induction along subsets wants.
LEMMA SumWith ==
    ASSUME NEW U, IsFiniteSet(U), NEW w, Weighs(w, U)
    PROVE  \A s \in SUBSET U, x \in U :
             x \notin s => Sum(w, s \cup {x}) = w[x] + Sum(w, s)
<1> SUFFICES ASSUME NEW s \in SUBSET U, NEW x \in U, x \notin s
             PROVE  Sum(w, s \cup {x}) = w[x] + Sum(w, s)
  OBVIOUS
<1> DEFINE more == s \cup {x}
<1>1. IsFiniteSet(more) /\ Weighs(w, more) /\ x \in more /\ more \ {x} = s
  BY FS_Subset DEF Weighs
<1> HIDE DEF more
<1>2. Sum(w, more) = w[x] + Sum(w, more \ {x})
  BY <1>1, SumWithout
<1> QED BY <1>1, <1>2 DEF more

\* So are the sums over its parts.
LEMMA PartsAreInt ==
    ASSUME NEW U, IsFiniteSet(U), NEW w, Weighs(w, U)
    PROVE  \A s \in SUBSET U : Sum(w, s) \in Int /\ IsFiniteSet(s) /\ Weighs(w, s)
<1> SUFFICES ASSUME NEW s \in SUBSET U
             PROVE  Sum(w, s) \in Int /\ IsFiniteSet(s) /\ Weighs(w, s)
  OBVIOUS
<1>1. IsFiniteSet(s) /\ Weighs(w, s)
  BY FS_Subset DEF Weighs
<1> QED BY <1>1, SumIsInt

\* The same weights give the same sum.
LEMMA SumOfSame ==
    ASSUME NEW U, IsFiniteSet(U), NEW v, NEW w, Weighs(w, U), \A x \in U : v[x] = w[x]
    PROVE  Sum(v, U) = Sum(w, U)
<1> DEFINE G == {s \in SUBSET U : Sum(v, s) = Sum(w, s)}
<1>1. Weighs(v, U)
  BY DEF Weighs
<1>2. {} \in G
  BY SumOfNone
<1>3. \A s \in SUBSET U, x \in U : x \notin s /\ s \in G => s \cup {x} \in G
  BY <1>1, SumWith
<1> HIDE DEF G
<1>4. U \in G
  BY <1>2, <1>3, SubsetInduction
<1> QED BY <1>4 DEF G

\* Sums add up.
LEMMA SumOfBoth ==
    ASSUME NEW U, IsFiniteSet(U), NEW u, NEW v, NEW w, Weighs(v, U), Weighs(w, U),
           \A x \in U : u[x] = v[x] + w[x]
    PROVE  Sum(u, U) = Sum(v, U) + Sum(w, U)
<1> DEFINE G == {s \in SUBSET U : Sum(u, s) = Sum(v, s) + Sum(w, s)}
<1>1. Weighs(u, U)
  BY DEF Weighs
<1>2. {} \in G
  BY SumOfNone
<1>3. ASSUME NEW s \in SUBSET U, NEW x \in U, x \notin s, s \in G
      PROVE  s \cup {x} \in G
  <2>1. /\ Sum(u, s \cup {x}) = u[x] + Sum(u, s)
        /\ Sum(v, s \cup {x}) = v[x] + Sum(v, s)
        /\ Sum(w, s \cup {x}) = w[x] + Sum(w, s)
    BY <1>1, <1>3, SumWith
  <2>2. v[x] \in Int /\ w[x] \in Int /\ Sum(v, s) \in Int /\ Sum(w, s) \in Int
    BY PartsAreInt DEF Weighs
  <2>3. Sum(u, s) = Sum(v, s) + Sum(w, s)
    BY <1>3
  <2>4. Sum(u, s \cup {x}) = Sum(v, s \cup {x}) + Sum(w, s \cup {x})
    BY <2>1, <2>2, <2>3
  <2> QED BY <2>4
<1> HIDE DEF G
<1>4. U \in G
  BY <1>2, <1>3, SubsetInduction
<1> QED BY <1>4 DEF G

\* Lighter elements give a lighter sum.
LEMMA SumOfLess ==
    ASSUME NEW U, IsFiniteSet(U), NEW v, NEW w, Weighs(v, U), Weighs(w, U),
           \A x \in U : v[x] <= w[x]
    PROVE  Sum(v, U) <= Sum(w, U)
<1> DEFINE G == {s \in SUBSET U : Sum(v, s) <= Sum(w, s)}
<1>1. {} \in G
  BY SumOfNone
<1>2. ASSUME NEW s \in SUBSET U, NEW x \in U, x \notin s, s \in G
      PROVE  s \cup {x} \in G
  <2>1. /\ Sum(v, s \cup {x}) = v[x] + Sum(v, s)
        /\ Sum(w, s \cup {x}) = w[x] + Sum(w, s)
    BY <1>2, SumWith
  <2>2. v[x] \in Int /\ w[x] \in Int /\ Sum(v, s) \in Int /\ Sum(w, s) \in Int
    BY PartsAreInt DEF Weighs
  <2>3. Sum(v, s \cup {x}) <= Sum(w, s \cup {x})
    BY <1>2, <2>1, <2>2
  <2> QED BY <2>3
<1> HIDE DEF G
<1>3. U \in G
  BY <1>1, <1>2, SubsetInduction
<1> QED BY <1>3 DEF G

\* A sum of natural numbers is one.
LEMMA SumOfNat ==
    ASSUME NEW U, IsFiniteSet(U), NEW w, \A x \in U : w[x] \in Nat
    PROVE  Sum(w, U) \in Nat
<1> DEFINE G == {s \in SUBSET U : Sum(w, s) \in Nat}
<1>1. {} \in G
  BY SumOfNone
<1>2. ASSUME NEW s \in SUBSET U, NEW x \in U, x \notin s, s \in G
      PROVE  s \cup {x} \in G
  <2>1. Sum(w, s \cup {x}) = w[x] + Sum(w, s)
    BY <1>2, SumWith DEF Weighs
  <2>2. Sum(w, s \cup {x}) \in Nat
    BY <1>2, <2>1
  <2> QED BY <2>2
<1> HIDE DEF G
<1>3. U \in G
  BY <1>1, <1>2, SubsetInduction
<1> QED BY <1>3 DEF G

\* A factor may be taken out of a sum.
LEMMA SumOfTimes ==
    ASSUME NEW U, IsFiniteSet(U), NEW w, Weighs(w, U), NEW v, NEW c \in Int,
           \A x \in U : v[x] = c * w[x]
    PROVE  Sum(v, U) = c * Sum(w, U)
<1> DEFINE G == {s \in SUBSET U : Sum(v, s) = c * Sum(w, s)}
<1>0. Weighs(v, U)
  BY DEF Weighs
<1>1. {} \in G
  BY SumOfNone
<1>2. ASSUME NEW s \in SUBSET U, NEW x \in U, x \notin s, s \in G
      PROVE  s \cup {x} \in G
  <2>1. /\ Sum(v, s \cup {x}) = c * w[x] + c * Sum(w, s)
        /\ Sum(w, s \cup {x}) = w[x] + Sum(w, s)
    BY <1>0, <1>2, SumWith
  <2>2. w[x] \in Int /\ Sum(w, s) \in Int
    BY PartsAreInt DEF Weighs
  <2>3. c * (w[x] + Sum(w, s)) = c * w[x] + c * Sum(w, s)
    BY <2>2
  <2>4. Sum(v, s \cup {x}) = c * Sum(w, s \cup {x})
    BY <2>1, <2>3
  <2> QED BY <2>4
<1> HIDE DEF G
<1>3. U \in G
  BY <1>1, <1>2, SubsetInduction
<1> QED BY <1>3 DEF G

\* Ones add up to a number of elements.
LEMMA SumOfOnes ==
    ASSUME NEW U, IsFiniteSet(U), NEW w, \A x \in U : w[x] = 1
    PROVE  Sum(w, U) = Cardinality(U)
<1> DEFINE G == {s \in SUBSET U : Sum(w, s) = Cardinality(s)}
<1>1. {} \in G
  BY SumOfNone, FS_EmptySet
<1>2. ASSUME NEW s \in SUBSET U, NEW x \in U, x \notin s, s \in G
      PROVE  s \cup {x} \in G
  <2>1. Sum(w, s \cup {x}) = w[x] + Sum(w, s)
    BY <1>2, SumWith DEF Weighs
  <2>2. IsFiniteSet(s) /\ Cardinality(s) \in Nat
    BY FS_Subset, FS_CardinalityType
  <2>3. Cardinality(s \cup {x}) = Cardinality(s) + 1
    BY <1>2, <2>2, FS_AddElement
  <2>4. Sum(w, s \cup {x}) = Cardinality(s \cup {x})
    BY <1>2, <2>1, <2>2, <2>3
  <2> QED BY <2>4
<1> HIDE DEF G
<1>3. U \in G
  BY <1>1, <1>2, SubsetInduction
<1> QED BY <1>3 DEF G

\* Two parts that have nothing in common.
LEMMA SumOfUnion ==
    ASSUME NEW S, IsFiniteSet(S), NEW T, IsFiniteSet(T), S \cap T = {},
           NEW w, Weighs(w, S), Weighs(w, T)
    PROVE  Sum(w, S \cup T) = Sum(w, S) + Sum(w, T)
<1> DEFINE U == S \cup T
           G == {s \in SUBSET T : Sum(w, S \cup s) = Sum(w, S) + Sum(w, s)}
<1>1. IsFiniteSet(U) /\ Weighs(w, U)
  BY FS_Union DEF Weighs
<1>2. Sum(w, S) \in Int
  BY SumIsInt
<1>3. {} \in G
  <2>1. S \cup {} = S
    OBVIOUS
  <2> QED BY <1>2, <2>1, SumOfNone
<1>4. ASSUME NEW s \in SUBSET T, NEW x \in T, x \notin s, s \in G
      PROVE  s \cup {x} \in G
  <2>1. Sum(w, s \cup {x}) = w[x] + Sum(w, s)
    BY <1>4, SumWith
  <2> DEFINE base == S \cup s
  <2>2. base \in SUBSET U /\ x \in U /\ x \notin base
    BY <1>4
  <2>3. Sum(w, base \cup {x}) = w[x] + Sum(w, base)
    <3> HIDE DEF base, U
    <3> QED BY <1>1, <2>2, SumWith
  <2>4. S \cup (s \cup {x}) = base \cup {x}
    OBVIOUS
  <2>5. w[x] \in Int /\ Sum(w, s) \in Int
    BY PartsAreInt DEF Weighs
  <2>6. Sum(w, base) = Sum(w, S) + Sum(w, s)
    BY <1>4
  <2> HIDE DEF base, G
  <2>7. Sum(w, base \cup {x}) = Sum(w, S) + Sum(w, s \cup {x})
    BY <1>2, <2>1, <2>3, <2>5, <2>6
  <2>8. Sum(w, S \cup (s \cup {x})) = Sum(w, S) + Sum(w, s \cup {x})
    BY <2>4, <2>7
  <2> QED BY <2>8 DEF G
<1> HIDE DEF G
<1>5. T \in G
  BY <1>3, <1>4, SubsetInduction
<1> QED BY <1>5 DEF G

\* What weighs nothing may be left out.
LEMMA SumOfPart ==
    ASSUME NEW U, IsFiniteSet(U), NEW S \in SUBSET U, NEW w, Weighs(w, S), NEW v,
           \A x \in U : v[x] = IF x \in S THEN w[x] ELSE 0
    PROVE  Sum(v, U) = Sum(w, S)
<1> DEFINE R == U \ S
<1>1. IsFiniteSet(S) /\ IsFiniteSet(R) /\ S \cap R = {} /\ S \cup R = U
  BY FS_Subset
<1>2. Weighs(v, S) /\ Weighs(v, R) /\ \A x \in R : v[x] = 0
  BY DEF Weighs
<1>3. \A x \in S : v[x] = w[x]
  OBVIOUS
<1> HIDE DEF R
<1>4. Sum(v, U) = Sum(v, S) + Sum(v, R)
  <2>1. Sum(v, S \cup R) = Sum(v, S) + Sum(v, R)
    BY <1>1, <1>2, SumOfUnion
  <2> QED BY <1>1, <2>1
<1>5. Sum(v, S) = Sum(w, S)
  BY <1>1, <1>3, SumOfSame
<1>6. Sum(v, R) = 0
  <2> DEFINE G == {s \in SUBSET R : Sum(v, s) = 0}
  <2>1. {} \in G
    BY SumOfNone
  <2>2. \A s \in SUBSET R, x \in R : x \notin s /\ s \in G => s \cup {x} \in G
    BY <1>1, <1>2, SumWith
  <2> HIDE DEF G
  <2>3. R \in G
    BY <1>1, <2>1, <2>2, SubsetInduction
  <2> QED BY <2>3 DEF G
<1>7. Sum(w, S) \in Int
  BY <1>1, SumIsInt
<1> QED BY <1>4, <1>5, <1>6, <1>7

ByKey(w, U, key, K) == [k \in K |-> Sum(w, {x \in U : key[x] = k})]

\* Counted by what they are filed under, nothing is lost and nothing counted twice.
LEMMA SumByKey ==
    ASSUME NEW U, IsFiniteSet(U), NEW w, Weighs(w, U), NEW K, IsFiniteSet(K),
           NEW key, \A x \in U : key[x] \in K
    PROVE  Sum(ByKey(w, U, key, K), K) = Sum(w, U) /\ Weighs(ByKey(w, U, key, K), K)
<1> DEFINE v == ByKey(w, U, key, K)
<1>0. \A k \in K : v[k] = Sum(w, {x \in U : key[x] = k})
  BY DEF ByKey
<1> HIDE DEF v
<1> DEFINE Of(s) == {x \in U : key[x] \in s}
           G == {s \in SUBSET K : Sum(v, s) = Sum(w, Of(s))}
<1>1. Weighs(v, K)
  <2> SUFFICES ASSUME NEW k \in K PROVE v[k] \in Int
    BY DEF Weighs
  <2>1. {x \in U : key[x] = k} \in SUBSET U
    OBVIOUS
  <2>2. Sum(w, {x \in U : key[x] = k}) \in Int
    BY <2>1, PartsAreInt
  <2> QED BY <1>0, <2>2
<1>2. {} \in G
  <2>1. Of({}) = {}
    OBVIOUS
  <2> QED BY <2>1, SumOfNone
<1>3. ASSUME NEW s \in SUBSET K, NEW k \in K, k \notin s, s \in G
      PROVE  s \cup {k} \in G
  <2> DEFINE A == Of(s)   B == {x \in U : key[x] = k}
  <2>1. A \in SUBSET U /\ B \in SUBSET U /\ A \cap B = {} /\ Of(s \cup {k}) = A \cup B
    BY <1>3
  <2>2. Sum(v, s) = Sum(w, A) /\ v[k] = Sum(w, B)
    BY <1>0, <1>3
  <2> HIDE DEF A, B, Of
  <2>3. /\ IsFiniteSet(A) /\ Weighs(w, A) /\ Sum(w, A) \in Int
        /\ IsFiniteSet(B) /\ Weighs(w, B) /\ Sum(w, B) \in Int
    BY <2>1, PartsAreInt
  <2>4. Sum(w, A \cup B) = Sum(w, A) + Sum(w, B)
    BY <2>1, <2>3, SumOfUnion
  <2>5. Sum(v, s \cup {k}) = v[k] + Sum(v, s)
    BY <1>1, <1>3, SumWith
  <2> HIDE DEF G
  <2>6. Sum(v, s \cup {k}) = Sum(w, A \cup B)
    BY <2>2, <2>3, <2>4, <2>5
  <2>7. Sum(v, s \cup {k}) = Sum(w, Of(s \cup {k}))
    BY <2>1, <2>6
  <2> QED BY <2>7 DEF G, Of
<1>4. K \in G
  <2> HIDE DEF G
  <2> QED BY <1>2, <1>3, SubsetInduction
<1>5. Of(K) = U
  OBVIOUS
<1> QED BY <1>1, <1>4, <1>5 DEF v

\* What the engine sums up is a sum of weights.
LEMMA SumsOf ==
    ASSUME NEW S, NEW f(_)
    PROVE  Engine!MapThenSumSet(f, S) = Sum([x \in S |-> f(x)], S)
<1> DEFINE w == [x \in S |-> f(x)]
           B(g) == [s \in SUBSET S |->
                      IF s = {} THEN 0 ELSE f(Some(s)) + g[s \ {Some(s)}]]
<1>1. Engine!MapThenSumSet(f, S) = (CHOOSE g : g = B(g))[S]
  BY DEF Engine!MapThenSumSet, Engine!MapThenFoldSet, Some
<1>2. \A s \in SUBSET S : s # {} => w[Some(s)] = f(Some(s))
  BY SomeIsIn
<1> HIDE DEF w
<1>3. \A g : B(g) = Body(w, S, g)
  BY <1>2 DEF Body
<1> HIDE DEF B
<1>4. (CHOOSE g : g = B(g)) = SumBy(w, S)
  BY <1>3 DEF SumBy
<1> QED BY <1>1, <1>4 DEF Sum, w

\* A weight given on more than is summed up.
LEMMA SumOfRestricted ==
    ASSUME NEW S, IsFiniteSet(S), NEW w, Weighs(w, S), NEW f(_), \A x \in S : f(x) = w[x]
    PROVE  Engine!MapThenSumSet(f, S) = Sum(w, S)
<1> DEFINE v == [x \in S |-> f(x)]
<1>1. \A x \in S : v[x] = w[x]
  OBVIOUS
<1>2. Engine!MapThenSumSet(f, S) = Sum(v, S)
  BY SumsOf
<1> HIDE DEF v
<1> QED BY <1>1, <1>2, SumOfSame

-----------------------------------------------------------------------------
(* The rows of a Protein Tracker run *)

\* What rounding half to even is off by.
LEMMA Rounded ==
    ASSUME NEW n \in Nat, NEW d \in Nat \ {0}
    PROVE  /\ Engine!HalfEven(n, d) \in Nat
           /\ 2 * (d * Engine!HalfEven(n, d)) <= 2 * n + d
           /\ 2 * n <= 2 * (d * Engine!HalfEven(n, d)) + d
<1> DEFINE q == n \div d   r == n % d
<1>1. q \in Nat /\ r \in Nat /\ n = d * q + r /\ r < d
  BY Division
<1>2. Engine!HalfEven(n, d) = IF 2 * r > d \/ (2 * r = d /\ q % 2 = 1) THEN q + 1 ELSE q
  BY DEF Engine!HalfEven
<1> HIDE DEF q, r
<1>3. d * (q + 1) = d * q + d /\ d * q \in Nat
  BY <1>1
<1>4. CASE Engine!HalfEven(n, d) = q + 1
  BY <1>1, <1>2, <1>3, <1>4
<1>5. CASE Engine!HalfEven(n, d) = q
  BY <1>1, <1>2, <1>3, <1>5
<1> QED BY <1>2, <1>4, <1>5

\* The operators of the engine are those that the gate is proved about.
LEMMA OneEngine ==
    /\ Engine!NoValue = NoValue
    /\ Engine!Source = Source
    /\ \A s : Engine!Usable(s, "protein_pct") = Usable(s, "protein_pct")
    /\ \A s : Engine!Best(s) = Best(s)
<1>1. Engine!NoValue = NoValue /\ Engine!Source = Source
  BY DEF Engine!NoValue, NoValue, Engine!Source, Source
<1>2. \A s : Engine!Usable(s, "protein_pct") = Usable(s, "protein_pct")
  BY DEF Engine!Usable, Usable, Engine!NoValue, NoValue
<1>3. ASSUME NEW s PROVE Engine!Best(s) = Best(s)
  BY <1>2 DEF Engine!Best, Best, Engine!Priority, Priority
<1> QED BY <1>1, <1>2, <1>3

\* The value of another nutrient from the same source.
LEMMA SiblingFits ==
    ASSUME NEW p, PTProduct(p), NEW nutrient, NEW source
    PROVE  Engine!Sibling(p.records, nutrient, source) \in Amount
<1> DEFINE same == {i \in Engine!Usable(p.records, nutrient) : p.records[i].source = source}
<1>1. same \subseteq DOMAIN p.records
  BY DEF Engine!Usable
<1>2. DOMAIN p.records \subseteq Nat
  BY DEF PTProduct
<1>3. Engine!Sibling(p.records, nutrient, source)
          = IF same = {} THEN NoValue ELSE p.records[Engine!Min(same)].value
  BY OneEngine DEF Engine!Sibling
<1> HIDE DEF same
<1>4. same # {} => Engine!Min(same) \in same
  <2> HAVE same # {}
  <2>1. \E x \in same : \A y \in same : x <= y
    BY <1>1, <1>2, LeastExists
  <2> QED BY <2>1 DEF Engine!Min
<1> QED BY <1>1, <1>3, <1>4 DEF PTProduct, Amount

\* The values that the engine takes for a product, and the source it names.
LEMMA NutritionFits ==
    ASSUME NEW p, PTProduct(p), NEW enriched
    PROVE  LET n == Engine!Nutrition(p, enriched)
           IN  /\ n.pct \in Amount /\ n.plant \in Amount /\ n.animal \in Amount
               /\ n.pct # NoValue => n.source \in Source \cup {"retailer"}
<1> DEFINE U == Usable(p.records, "protein_pct")
           chosen == Engine!Selected(p.records)
           own == [Engine!Nothing EXCEPT !.pct = p.pct, !.source = "retailer"]
           found == IF p.pct # NoValue THEN own
                    ELSE IF enriched THEN chosen ELSE Engine!Nothing
           Fits(n) == /\ n.pct \in Amount /\ n.plant \in Amount /\ n.animal \in Amount
                      /\ n.pct # NoValue => n.source \in Source \cup {"retailer"}
<1>1. /\ Engine!Nothing = [pct |-> NoValue, plant |-> NoValue, animal |-> NoValue,
                           source |-> "none"]
      /\ NoValue \in Amount
  BY OneEngine DEF Engine!Nothing, Amount
<1> HIDE DEF NoValue
<1>2. /\ own.pct = p.pct /\ own.plant = NoValue /\ own.animal = NoValue
      /\ own.source = "retailer" /\ "plant" \in DOMAIN own /\ "animal" \in DOMAIN own
  <2>1. DOMAIN Engine!Nothing = {"pct", "plant", "animal", "source"}
    BY <1>1
  <2> QED BY <1>1, <2>1
<1>3. Fits(own) /\ Fits(Engine!Nothing)
  <2> HIDE DEF own
  <2> QED BY <1>1, <1>2 DEF PTProduct
<1>4. Fits(chosen)
  <2>1. CASE U = {}
    BY <1>3, <2>1, OneEngine DEF Engine!Selected
  <2>2. CASE U # {}
    <3> DEFINE best == p.records[Best(p.records)]
    <3>1. Best(p.records) \in U
      BY <2>2, BestIsBest DEF PTProduct
    <3>2. best.source \in Source /\ best.value \in Amount
      BY <3>1, UsableFields DEF PTProduct
    <3>3. chosen = [pct |-> best.value,
                    plant |-> Engine!Sibling(p.records, "plant_protein_pct", best.source),
                    animal |-> Engine!Sibling(p.records, "animal_protein_pct", best.source),
                    source |-> best.source]
      BY <2>2, OneEngine DEF Engine!Selected
    <3> HIDE DEF best, chosen
    <3> QED BY <3>2, <3>3, SiblingFits
  <2> QED BY <2>1, <2>2
<1> HIDE DEF own, chosen
<1>5. Fits(found)
  BY <1>3, <1>4
<1>6. Engine!Nutrition(p, enriched) =
          IF p.plant = NoValue /\ p.animal = NoValue THEN found
          ELSE [found EXCEPT !.plant = p.plant, !.animal = p.animal]
  BY OneEngine DEF Engine!Nutrition, own, chosen
<1>7. "plant" \in DOMAIN found /\ "animal" \in DOMAIN found
  <2>1. "plant" \in DOMAIN chosen /\ "animal" \in DOMAIN chosen
    BY <1>1 DEF chosen, Engine!Selected
  <2> QED BY <1>1, <1>2, <2>1
<1> HIDE DEF found
<1> DEFINE other == [found EXCEPT !.plant = p.plant, !.animal = p.animal]
<1>8. /\ other.pct = found.pct /\ other.source = found.source
      /\ other.plant = p.plant /\ other.animal = p.animal
  BY <1>7
<1> HIDE DEF other
<1>9. Fits(other)
  BY <1>5, <1>8 DEF PTProduct
<1> QED BY <1>5, <1>6, <1>9 DEF other

\* A product with a natural number keeps an order.
LEMMA TimesKeepsOrder ==
    ASSUME NEW v \in Nat, NEW x \in Int, NEW t \in Int, x <= t
    PROVE  v * x <= v * t
<1>1. t - x \in Nat
  OBVIOUS
<1>2. v * (t - x) >= 0
  BY <1>1
<1>3. v * (t - x) = v * t - v * x
  OBVIOUS
<1>4. v * t \in Int /\ v * x \in Int
  OBVIOUS
<1> QED BY <1>2, <1>3, <1>4

\* Three roundings, and what the tolerance lets pass.
LEMMA SplitRounds ==
    ASSUME Engine!PTConstantsAssumption, NEW volume \in Nat,
           NEW plant \in Nat, NEW animal \in Nat, NEW pct \in Nat,
           Engine!Distance(plant + animal, pct) <= Tolerance
    PROVE  LET off == Engine!Share(volume, plant) + Engine!Share(volume, animal)
                        - Engine!Share(volume, pct)
               slack == 3 * Hundred + 2 * volume * Tolerance
           IN  /\ 2 * Hundred * off <= slack
               /\ 2 * Hundred * (0 - off) <= slack
<1> DEFINE a == volume * plant   b == volume * animal   c == volume * pct
           A == Engine!Share(volume, plant)   B == Engine!Share(volume, animal)
           C == Engine!Share(volume, pct)
           x == plant + animal - pct
<1>1. Hundred \in Nat \ {0} /\ Tolerance \in Nat
  BY DEF Engine!PTConstantsAssumption
<1>2. a \in Nat /\ b \in Nat /\ c \in Nat /\ a + b - c = volume * x
  OBVIOUS
<1>3. /\ A \in Nat /\ 2 * (Hundred * A) <= 2 * a + Hundred
                   /\ 2 * a <= 2 * (Hundred * A) + Hundred
      /\ B \in Nat /\ 2 * (Hundred * B) <= 2 * b + Hundred
                   /\ 2 * b <= 2 * (Hundred * B) + Hundred
      /\ C \in Nat /\ 2 * (Hundred * C) <= 2 * c + Hundred
                   /\ 2 * c <= 2 * (Hundred * C) + Hundred
  <2> HIDE DEF a, b, c
  <2> QED BY <1>1, <1>2, Rounded DEF Engine!Share, a, b, c
<1>4. x \in Int /\ x <= Tolerance /\ 0 - x <= Tolerance
  BY <1>1 DEF Engine!Distance
<1>5. volume * x <= volume * Tolerance /\ volume * (0 - x) <= volume * Tolerance
  <2> HIDE DEF x
  <2> QED BY <1>1, <1>4, TimesKeepsOrder
<1>6. volume * (0 - x) = 0 - volume * x
  <2> HIDE DEF x
  <2> QED BY <1>4
<1> HIDE DEF a, b, c, x, A, B, C
<1>7. /\ 2 * Hundred * (A + B - C)
            = 2 * (Hundred * A) + 2 * (Hundred * B) - 2 * (Hundred * C)
      /\ 2 * Hundred * (0 - (A + B - C))
            = 2 * (Hundred * C) - 2 * (Hundred * A) - 2 * (Hundred * B)
  BY <1>1, <1>3
<1>8. 2 * volume * Tolerance = 2 * (volume * Tolerance)
  BY <1>1
<1>9. /\ Hundred * A \in Int /\ Hundred * B \in Int /\ Hundred * C \in Int
      /\ volume * Tolerance \in Int /\ volume * x \in Int
  BY <1>1, <1>3, <1>4
<1>10. 2 * Hundred * (A + B - C) <= 3 * Hundred + 2 * volume * Tolerance
  BY <1>1, <1>2, <1>3, <1>5, <1>7, <1>8, <1>9
<1>11. 2 * Hundred * (0 - (A + B - C)) <= 3 * Hundred + 2 * volume * Tolerance
  BY <1>1, <1>2, <1>3, <1>5, <1>6, <1>7, <1>8, <1>9
<1> QED BY <1>10, <1>11 DEF A, B, C

\* A row of a run: natural masses, one of the five sources, and a split only of a
\* composite, off by no more than rounding and the tolerance explain.
LEMMA RowFits ==
    ASSUME Engine!PTConstantsAssumption, NEW catalogue, PTCatalogue(catalogue),
           NEW enriched, NEW k \in DOMAIN Engine!Rows(catalogue, enriched)
    PROVE  LET row == Engine!Rows(catalogue, enriched)[k]
               off == row.plant + row.animal - row.full
               slack == 3 * Hundred + 2 * row.volume * Tolerance
           IN  /\ row.volume \in Nat /\ row.full \in Nat
               /\ row.plant \in Nat /\ row.animal \in Nat
               /\ row.split \in BOOLEAN /\ row.source \in Source \cup {"retailer"}
               /\ row.split => /\ row.group = "composite_products"
                               /\ 2 * Hundred * off <= slack
                               /\ 2 * Hundred * (0 - off) <= slack
<1> DEFINE p == catalogue[k]
           n == Engine!Nutrition(p, enriched)
           volume == Engine!Volume(p)
           split == Engine!UsesSplit(p, n)
           row == Engine!Rows(catalogue, enriched)[k]
<1>1. k \in DOMAIN catalogue /\ n.pct # NoValue
  BY OneEngine DEF Engine!Rows, Engine!Included
<1>2. PTProduct(p)
  BY <1>1 DEF PTCatalogue
<1>3. row = Engine!Row(p, n)
  BY DEF Engine!Rows
<1> HIDE DEF p, n, row, split, volume, NoValue
<1>4. /\ n.pct \in Amount /\ n.plant \in Amount /\ n.animal \in Amount
      /\ n.source \in Source \cup {"retailer"}
  BY <1>1, <1>2, NutritionFits DEF n
<1>5. n.pct \in Nat
  BY <1>1, <1>4 DEF Amount
<1>6. Part \in Nat \ {0} /\ Hundred \in Nat \ {0}
  BY DEF Engine!PTConstantsAssumption
<1>7. volume \in Nat
  <2>1. p.items * p.weight \in Nat
    BY <1>2 DEF PTProduct
  <2> QED BY <1>6, <2>1, Rounded DEF Engine!Volume, volume
<1>8. \A pct \in Nat : Engine!Share(volume, pct) \in Nat
  <2> SUFFICES ASSUME NEW pct \in Nat PROVE Engine!Share(volume, pct) \in Nat
    OBVIOUS
  <2>1. volume * pct \in Nat
    BY <1>7
  <2> QED BY <1>6, <2>1, Rounded DEF Engine!Share
<1>9. /\ row.volume = volume /\ row.full = Engine!Share(volume, n.pct)
      /\ row.group = p.group /\ row.source = n.source /\ row.split = split
      /\ row.plant = IF split THEN Engine!Share(volume, n.plant) ELSE 0
      /\ row.animal = IF split THEN Engine!Share(volume, n.animal) ELSE 0
  BY <1>3 DEF Engine!Row, volume, split
<1>10. split \in BOOLEAN
  BY DEF split, Engine!UsesSplit
<1>11. split => /\ p.group = "composite_products"
                /\ n.plant \in Nat /\ n.animal \in Nat
                /\ Engine!Distance(n.plant + n.animal, n.pct) <= Tolerance
  BY <1>4, OneEngine DEF split, Engine!UsesSplit, Amount
<1>12. CASE split
  <2>1. row.plant = Engine!Share(volume, n.plant) /\ row.animal = Engine!Share(volume, n.animal)
    BY <1>9, <1>12
  <2>2. LET off == row.plant + row.animal - row.full
            slack == 3 * Hundred + 2 * row.volume * Tolerance
        IN  2 * Hundred * off <= slack /\ 2 * Hundred * (0 - off) <= slack
    BY <1>5, <1>7, <1>9, <1>11, <1>12, <2>1, SplitRounds
  <2> QED BY <1>4, <1>5, <1>7, <1>8, <1>9, <1>10, <1>11, <1>12, <2>1, <2>2 DEF row
<1>13. CASE ~split
  BY <1>4, <1>5, <1>7, <1>8, <1>9, <1>10, <1>13 DEF row
<1> QED BY <1>12, <1>13

RowsIn(rows, group) == {k \in DOMAIN rows : rows[k].group = group}
SplitRows(rows) == {k \in DOMAIN rows : rows[k].split}
UnsplitRows(rows) ==
    {k \in DOMAIN rows : rows[k].group = "composite_products" /\ ~rows[k].split}

\* The masses of a run, as sums over its rows.
LEMMA MassesAreSums ==
    ASSUME NEW rows, IsFiniteSet(DOMAIN rows),
           \A k \in DOMAIN rows : rows[k].split \in BOOLEAN,
           NEW full, NEW plant, NEW animal,
           \A k \in DOMAIN rows :
                /\ rows[k].full \in Nat /\ full[k] = rows[k].full
                /\ rows[k].plant \in Nat /\ plant[k] = rows[k].plant
                /\ rows[k].animal \in Nat /\ animal[k] = rows[k].animal
    PROVE  /\ \A group : Engine!GroupProtein(rows, group) = Sum(full, RowsIn(rows, group))
           /\ Engine!Pool(rows) = Sum(full, UnsplitRows(rows))
           /\ Engine!PlantProtein(rows) =
                Sum(full, RowsIn(rows, "plant_based_core"))
                    + Sum(full, RowsIn(rows, "plant_based_non_core"))
                    + Sum(plant, SplitRows(rows))
                    + Engine!HalfEven(Sum(full, UnsplitRows(rows)), 2)
           /\ Engine!AnimalProtein(rows) =
                Sum(full, RowsIn(rows, "animal_core")) + Sum(animal, SplitRows(rows))
                    + Engine!HalfEven(Sum(full, UnsplitRows(rows)), 2)
<1> DEFINE In(group) == RowsIn(rows, group)
           Split == SplitRows(rows)
           Unsplit == UnsplitRows(rows)
<1>1. \A S \in SUBSET DOMAIN rows :
         IsFiniteSet(S) /\ Weighs(full, S) /\ Weighs(plant, S) /\ Weighs(animal, S)
  BY FS_Subset DEF Weighs
<1>2. ASSUME NEW S \in SUBSET DOMAIN rows
      PROVE  /\ Engine!MapThenSumSet(LAMBDA p : rows[p].full, S) = Sum(full, S)
             /\ Engine!MapThenSumSet(LAMBDA p : rows[p].plant, S) = Sum(plant, S)
             /\ Engine!MapThenSumSet(LAMBDA p : rows[p].animal, S) = Sum(animal, S)
  <2> DEFINE f == [p \in S |-> rows[p].full]
             g == [p \in S |-> rows[p].plant]
             h == [p \in S |-> rows[p].animal]
  <2>1. /\ Engine!MapThenSumSet(LAMBDA p : rows[p].full, S) = Sum(f, S)
        /\ Engine!MapThenSumSet(LAMBDA p : rows[p].plant, S) = Sum(g, S)
        /\ Engine!MapThenSumSet(LAMBDA p : rows[p].animal, S) = Sum(h, S)
    BY SumsOf
  <2>2. \A k \in S : f[k] = full[k] /\ g[k] = plant[k] /\ h[k] = animal[k]
    OBVIOUS
  <2> HIDE DEF f, g, h
  <2>3. Sum(f, S) = Sum(full, S) /\ Sum(g, S) = Sum(plant, S) /\ Sum(h, S) = Sum(animal, S)
    BY <1>1, <2>2, SumOfSame
  <2> QED BY <2>1, <2>3
<1>3. ASSUME NEW group PROVE Engine!GroupProtein(rows, group) = Sum(full, In(group))
  <2>1. Engine!GroupProtein(rows, group) =
            Engine!MapThenSumSet(LAMBDA p : rows[p].full, In(group))
    BY DEF Engine!GroupProtein, Engine!SumOf, RowsIn
  <2>2. In(group) \in SUBSET DOMAIN rows
    BY DEF RowsIn
  <2> HIDE DEF In
  <2> QED BY <1>2, <2>1, <2>2
<1>4. Engine!Pool(rows) = Sum(full, Unsplit)
  <2>1. Engine!Pool(rows) = Engine!MapThenSumSet(LAMBDA p : rows[p].full, Unsplit)
    BY DEF Engine!Pool, Engine!SumOf, UnsplitRows
  <2>2. Unsplit \in SUBSET DOMAIN rows
    BY DEF UnsplitRows
  <2> HIDE DEF Unsplit
  <2> QED BY <1>2, <2>1, <2>2
<1>5. /\ Engine!SumOf(rows, LAMBDA row : row.split, LAMBDA row : row.plant) = Sum(plant, Split)
      /\ Engine!SumOf(rows, LAMBDA row : row.split, LAMBDA row : row.animal) = Sum(animal, Split)
  <2>1. /\ Engine!SumOf(rows, LAMBDA row : row.split, LAMBDA row : row.plant)
              = Engine!MapThenSumSet(LAMBDA p : rows[p].plant, Split)
        /\ Engine!SumOf(rows, LAMBDA row : row.split, LAMBDA row : row.animal)
              = Engine!MapThenSumSet(LAMBDA p : rows[p].animal, Split)
    BY DEF Engine!SumOf, SplitRows
  <2>2. Split \in SUBSET DOMAIN rows
    BY DEF SplitRows
  <2> HIDE DEF Split
  <2> QED BY <1>2, <2>1, <2>2
<1> HIDE DEF In, Split, Unsplit
<1>6. /\ Engine!PlantProtein(rows) =
            Sum(full, In("plant_based_core")) + Sum(full, In("plant_based_non_core"))
                + Sum(plant, Split) + Engine!HalfEven(Sum(full, Unsplit), 2)
      /\ Engine!AnimalProtein(rows) =
            Sum(full, In("animal_core")) + Sum(animal, Split)
                + Engine!HalfEven(Sum(full, Unsplit), 2)
  BY <1>3, <1>4, <1>5 DEF Engine!PlantProtein, Engine!AnimalProtein
<1> QED BY <1>3, <1>4, <1>6 DEF In, Split, Unsplit

\* A sum over four elements.
LEMMA SumOfFour ==
    ASSUME NEW w, NEW a, NEW b, NEW c, NEW d, Weighs(w, {a, b, c, d}),
           a # b, a # c, a # d, b # c, b # d, c # d
    PROVE  Sum(w, {a, b, c, d}) = w[a] + w[b] + w[c] + w[d]
<1> DEFINE U == {a, b, c, d}
<1>1. IsFiniteSet(U)
  <2>1. U = ((({} \cup {a}) \cup {b}) \cup {c}) \cup {d}
    OBVIOUS
  <2> HIDE DEF U
  <2> QED BY <2>1, FS_EmptySet, FS_AddElement
<1>2. /\ {} \in SUBSET U /\ {a} \in SUBSET U /\ {a, b} \in SUBSET U /\ {a, b, c} \in SUBSET U
      /\ a \in U /\ b \in U /\ c \in U /\ d \in U
  OBVIOUS
<1>3. /\ {} \cup {a} = {a} /\ {a} \cup {b} = {a, b} /\ {a, b} \cup {c} = {a, b, c}
      /\ {a, b, c} \cup {d} = U
  OBVIOUS
<1>4. a \notin {} /\ b \notin {a} /\ c \notin {a, b} /\ d \notin {a, b, c}
  OBVIOUS
<1>5. w[a] \in Int /\ w[b] \in Int /\ w[c] \in Int /\ w[d] \in Int
  BY DEF Weighs
<1> HIDE DEF U
<1>6. \A s \in SUBSET U, x \in U : x \notin s => Sum(w, s \cup {x}) = w[x] + Sum(w, s)
  BY <1>1, SumWith DEF U
<1>7. Sum(w, {}) = 0
  BY SumOfNone
<1>8. Sum(w, {a}) = w[a] + 0
  BY <1>2, <1>3, <1>4, <1>6, <1>7
<1>9. Sum(w, {a, b}) = w[b] + Sum(w, {a})
  BY <1>2, <1>3, <1>4, <1>6
<1>10. Sum(w, {a, b, c}) = w[c] + Sum(w, {a, b})
  BY <1>2, <1>3, <1>4, <1>6
<1>11. Sum(w, U) = w[d] + Sum(w, {a, b, c})
  BY <1>2, <1>3, <1>4, <1>6
<1> QED BY <1>5, <1>8, <1>9, <1>10, <1>11 DEF U

\* What remains of two equal sums.
LEMMA Difference ==
    ASSUME NEW a \in Int, NEW b \in Int, NEW c \in Int, NEW d \in Int, a + b = d + c
    PROVE  a + b - c = d
  OBVIOUS

\* What split rows are off by, in all.
LEMMA SplitsAreOff ==
    ASSUME NEW S, IsFiniteSet(S), NEW plant, NEW animal, NEW full, NEW slack,
           Weighs(plant, S), Weighs(animal, S), Weighs(full, S), Weighs(slack, S),
           NEW c \in Int,
           \A k \in S : LET off == plant[k] + animal[k] - full[k]
                        IN  c * off <= slack[k] /\ c * (0 - off) <= slack[k]
    PROVE  LET off == Sum(plant, S) + Sum(animal, S) - Sum(full, S)
           IN  c * off <= Sum(slack, S) /\ c * (0 - off) <= Sum(slack, S)
<1> DEFINE both == [k \in S |-> plant[k] + animal[k]]
           off == [k \in S |-> plant[k] + animal[k] - full[k]]
           more == [k \in S |-> c * off[k]]
           less == [k \in S |-> (0 - c) * off[k]]
<1>1. \A k \in S : /\ plant[k] \in Int /\ animal[k] \in Int /\ full[k] \in Int
                    /\ off[k] \in Int /\ both[k] \in Int
                    /\ both[k] = plant[k] + animal[k] /\ both[k] = off[k] + full[k]
                    /\ more[k] = c * off[k] /\ less[k] = (0 - c) * off[k]
                    /\ more[k] \in Int /\ less[k] \in Int
  BY DEF Weighs
<1>2. \A k \in S : more[k] <= slack[k] /\ less[k] <= slack[k]
  <2> SUFFICES ASSUME NEW k \in S PROVE more[k] <= slack[k] /\ less[k] <= slack[k]
    OBVIOUS
  <2> DEFINE x == plant[k] + animal[k] - full[k]
  <2>1. x \in Int /\ c * x <= slack[k] /\ c * (0 - x) <= slack[k]
    BY <1>1
  <2>2. more[k] = c * x /\ less[k] = (0 - c) * x
    OBVIOUS
  <2> HIDE DEF x, more, less
  <2>3. (0 - c) * x = c * (0 - x)
    BY <2>1
  <2> QED BY <2>1, <2>2, <2>3
<1> HIDE DEF both, off, more, less
<1>3. Weighs(both, S) /\ Weighs(off, S) /\ Weighs(more, S) /\ Weighs(less, S)
  BY <1>1 DEF Weighs
<1>4. Sum(both, S) = Sum(plant, S) + Sum(animal, S)
  BY <1>1, SumOfBoth
<1>5. Sum(both, S) = Sum(off, S) + Sum(full, S)
  BY <1>1, <1>3, SumOfBoth
<1>6. /\ Sum(plant, S) \in Int /\ Sum(animal, S) \in Int /\ Sum(full, S) \in Int
      /\ Sum(off, S) \in Int
  BY <1>3, SumIsInt
<1>7. Sum(more, S) = c * Sum(off, S) /\ Sum(less, S) = (0 - c) * Sum(off, S)
  <2>1. 0 - c \in Int
    OBVIOUS
  <2> QED BY <1>1, <1>3, <2>1, SumOfTimes
<1>8. Sum(more, S) <= Sum(slack, S) /\ Sum(less, S) <= Sum(slack, S)
  BY <1>2, <1>3, SumOfLess
<1> DEFINE all == Sum(plant, S) + Sum(animal, S) - Sum(full, S)
<1>9. all = Sum(off, S) /\ all \in Int
  BY <1>4, <1>5, <1>6, Difference
<1> HIDE DEF all
<1>10. c * (0 - all) = (0 - c) * all
  BY <1>9
<1> QED BY <1>7, <1>8, <1>9, <1>10 DEF all

\* The headline is the sum of its groups, but for the roundings of the split rows and
\* the odd half of the pool.
LEMMA HeadlineOfRows ==
    ASSUME Engine!PTConstantsAssumption, NEW catalogue, PTCatalogue(catalogue),
           NEW enriched, Engine!Run(catalogue, enriched).ok
    PROVE  LET run == Engine!Run(catalogue, enriched)
           IN  /\ run.plant \in Nat /\ run.animal \in Nat
               /\ Engine!HeadlineReconciles(run)
<1> DEFINE run == Engine!Run(catalogue, enriched)
           rows == Engine!Rows(catalogue, enriched)
           R == DOMAIN rows
           full == [k \in R |-> rows[k].full]
           plant == [k \in R |-> rows[k].plant]
           animal == [k \in R |-> rows[k].animal]
           slack == [k \in R |-> 3 * Hundred + 2 * rows[k].volume * Tolerance]
           In(group) == RowsIn(rows, group)
           Split == SplitRows(rows)
           Unsplit == UnsplitRows(rows)
           half == Engine!HalfEven(Sum(full, Unsplit), 2)
<1>1. /\ run.rows = rows
      /\ run.plant = Engine!PlantProtein(rows) /\ run.animal = Engine!AnimalProtein(rows)
      /\ run.total = run.plant + run.animal
      /\ run.groups = [g \in Engine!MethodologyGroups |-> Engine!GroupProtein(rows, g)]
  BY DEF Engine!Run, Engine!Failed
<1>2. IsFiniteSet(R)
  <2>1. R \subseteq DOMAIN catalogue
    BY DEF Engine!Rows, Engine!Included
  <2> QED BY <2>1, FS_Subset DEF PTCatalogue
<1>3. Hundred \in Nat \ {0} /\ Tolerance \in Nat
  BY DEF Engine!PTConstantsAssumption
<1> HIDE DEF run, rows
<1>4. ASSUME NEW k \in R
      PROVE  LET off == rows[k].plant + rows[k].animal - rows[k].full
                 width == 3 * Hundred + 2 * rows[k].volume * Tolerance
             IN  /\ rows[k].volume \in Nat /\ rows[k].full \in Nat
                 /\ rows[k].plant \in Nat /\ rows[k].animal \in Nat
                 /\ rows[k].split \in BOOLEAN
                 /\ rows[k].split => /\ rows[k].group = "composite_products"
                                     /\ 2 * Hundred * off <= width
                                     /\ 2 * Hundred * (0 - off) <= width
  BY RowFits DEF rows
<1>5. \A k \in R : /\ full[k] = rows[k].full /\ plant[k] = rows[k].plant
                    /\ animal[k] = rows[k].animal /\ slack[k] \in Nat
                    /\ slack[k] = 3 * Hundred + 2 * rows[k].volume * Tolerance
  BY <1>3, <1>4
<1> HIDE DEF full, plant, animal, slack
<1>6. \A S \in SUBSET R : /\ IsFiniteSet(S) /\ Weighs(full, S) /\ Weighs(plant, S)
                           /\ Weighs(animal, S) /\ Weighs(slack, S)
                           /\ Sum(full, S) \in Nat /\ Sum(plant, S) \in Nat
                           /\ Sum(animal, S) \in Nat /\ Sum(slack, S) \in Nat
  <2> SUFFICES ASSUME NEW S \in SUBSET R
               PROVE  /\ IsFiniteSet(S) /\ Weighs(full, S) /\ Weighs(plant, S)
                      /\ Weighs(animal, S) /\ Weighs(slack, S)
                      /\ Sum(full, S) \in Nat /\ Sum(plant, S) \in Nat
                      /\ Sum(animal, S) \in Nat /\ Sum(slack, S) \in Nat
    OBVIOUS
  <2>1. IsFiniteSet(S)
    BY <1>2, FS_Subset
  <2>2. \A k \in S : /\ full[k] \in Nat /\ plant[k] \in Nat /\ animal[k] \in Nat
                      /\ slack[k] \in Nat
    BY <1>4, <1>5
  <2> QED BY <2>1, <2>2, SumOfNat DEF Weighs
<1>7. /\ \A group : Engine!GroupProtein(rows, group) = Sum(full, In(group))
      /\ run.plant = Sum(full, In("plant_based_core"))
                       + Sum(full, In("plant_based_non_core")) + Sum(plant, Split) + half
      /\ run.animal = Sum(full, In("animal_core")) + Sum(animal, Split) + half
  <2>1. /\ \A group : Engine!GroupProtein(rows, group) = Sum(full, RowsIn(rows, group))
        /\ Engine!PlantProtein(rows) =
                Sum(full, RowsIn(rows, "plant_based_core"))
                    + Sum(full, RowsIn(rows, "plant_based_non_core"))
                    + Sum(plant, SplitRows(rows))
                    + Engine!HalfEven(Sum(full, UnsplitRows(rows)), 2)
        /\ Engine!AnimalProtein(rows) =
                Sum(full, RowsIn(rows, "animal_core")) + Sum(animal, SplitRows(rows))
                    + Engine!HalfEven(Sum(full, UnsplitRows(rows)), 2)
    <3>1. \A k \in DOMAIN rows : rows[k].split \in BOOLEAN
      BY <1>4
    <3>2. \A k \in DOMAIN rows :
                /\ rows[k].full \in Nat /\ full[k] = rows[k].full
                /\ rows[k].plant \in Nat /\ plant[k] = rows[k].plant
                /\ rows[k].animal \in Nat /\ animal[k] = rows[k].animal
      BY <1>4, <1>5
    <3> QED BY <1>2, <3>1, <3>2, MassesAreSums
  <2> QED BY <1>1, <2>1
<1>8. In("composite_products") = Split \cup Unsplit /\ Split \cap Unsplit = {}
  BY <1>4 DEF RowsIn, SplitRows, UnsplitRows
<1>9. \A g : In(g) \in SUBSET R
  BY DEF RowsIn
<1>10. Split \in SUBSET R /\ Unsplit \in SUBSET R
  BY DEF SplitRows, UnsplitRows
<1>11. Engine!SumOf(run.rows, LAMBDA row : row.split,
                    LAMBDA row : 3 * Hundred + 2 * row.volume * Tolerance) = Sum(slack, Split)
  <2> DEFINE S == SplitRows(run.rows)
             w == [p \in S |-> 3 * Hundred + 2 * run.rows[p].volume * Tolerance]
  <2>1. Engine!MapThenSumSet(
              LAMBDA p : 3 * Hundred + 2 * run.rows[p].volume * Tolerance, S) = Sum(w, S)
    BY SumsOf
  <2>2. S = Split /\ \A k \in Split : w[k] = slack[k]
    BY <1>1, <1>5, <1>10
  <2>3. Engine!SumOf(run.rows, LAMBDA row : row.split,
                     LAMBDA row : 3 * Hundred + 2 * row.volume * Tolerance)
          = Engine!MapThenSumSet(
              LAMBDA p : 3 * Hundred + 2 * run.rows[p].volume * Tolerance, S)
    BY DEF Engine!SumOf, SplitRows
  <2> HIDE DEF w, S, Split
  <2>4. Sum(w, Split) = Sum(slack, Split)
    BY <1>6, <1>10, <2>2, SumOfSame
  <2> QED BY <2>1, <2>2, <2>3, <2>4
<1>12. \A k \in Split : LET off == plant[k] + animal[k] - full[k]
                        IN  2 * Hundred * off <= slack[k] /\ 2 * Hundred * (0 - off) <= slack[k]
  BY <1>4, <1>5 DEF SplitRows
<1> HIDE DEF R, In, Split, Unsplit, half
<1>13. Sum(full, In("composite_products")) = Sum(full, Split) + Sum(full, Unsplit)
  BY <1>6, <1>8, <1>10, SumOfUnion
<1>14. half \in Nat /\ 2 * half <= Sum(full, Unsplit) + 1 /\ Sum(full, Unsplit) <= 2 * half + 1
  <2>1. Sum(full, Unsplit) \in Nat
    BY <1>6, <1>10
  <2>2. half \in Nat /\ 2 * (2 * half) <= 2 * Sum(full, Unsplit) + 2
        /\ 2 * Sum(full, Unsplit) <= 2 * (2 * half) + 2
    BY <2>1, Rounded DEF half
  <2> QED BY <2>1, <2>2
<1>15. Engine!MapThenSumSet(LAMBDA g : run.groups[g], Engine!MethodologyGroups)
         = Sum(full, In("plant_based_core")) + Sum(full, In("plant_based_non_core"))
             + Sum(full, In("composite_products")) + Sum(full, In("animal_core"))
  <2> DEFINE MG == {"plant_based_core", "plant_based_non_core", "composite_products",
                    "animal_core"}
             w == [g \in MG |-> run.groups[g]]
  <2>1. Engine!MethodologyGroups = MG
    BY DEF Engine!MethodologyGroups, Engine!PlantGroups
  <2>2. Engine!MapThenSumSet(LAMBDA g : run.groups[g], MG) = Sum(w, MG)
    BY SumsOf
  <2>3. \A g \in MG : w[g] = Sum(full, In(g)) /\ w[g] \in Int
    BY <1>1, <1>6, <1>7, <1>9, <2>1
  <2>4. Sum(w, MG) = w["plant_based_core"] + w["plant_based_non_core"]
                       + w["composite_products"] + w["animal_core"]
    <3> HIDE DEF w
    <3>1. Weighs(w, MG)
      BY <2>3 DEF Weighs
    <3> QED BY <3>1, SumOfFour
  <2> HIDE DEF w
  <2> QED BY <2>1, <2>2, <2>3, <2>4
<1> DEFINE off == Sum(plant, Split) + Sum(animal, Split) - Sum(full, Split)
           groups == Engine!MapThenSumSet(LAMBDA g : run.groups[g], Engine!MethodologyGroups)
           rest == 2 * half - Sum(full, Unsplit)
<1>16. 2 * Hundred * off <= Sum(slack, Split) /\ 2 * Hundred * (0 - off) <= Sum(slack, Split)
  <2>1. 2 * Hundred \in Int
    BY <1>3
  <2> QED BY <1>6, <1>10, <1>12, <2>1, SplitsAreOff
<1>17. /\ off \in Int /\ rest \in Int /\ rest <= 1 /\ 0 - rest <= 1
       /\ run.total \in Nat /\ groups \in Nat /\ run.total - groups = off + rest
       /\ run.plant \in Nat /\ run.animal \in Nat
  BY <1>1, <1>6, <1>7, <1>9, <1>10, <1>13, <1>14, <1>15
<1> HIDE DEF off, groups, rest
<1>18. 2 * Hundred * rest <= 2 * Hundred /\ 2 * Hundred * (0 - rest) <= 2 * Hundred
  <2>1. 2 * Hundred \in Nat /\ 0 - rest \in Int
    BY <1>3, <1>17
  <2>2. 2 * Hundred * rest <= 2 * Hundred * 1 /\ 2 * Hundred * (0 - rest) <= 2 * Hundred * 1
    BY <1>17, <2>1, TimesKeepsOrder
  <2> QED BY <2>1, <2>2
<1>19. /\ 2 * Hundred * (off + rest) = 2 * Hundred * off + 2 * Hundred * rest
       /\ 2 * Hundred * (0 - (off + rest)) = 2 * Hundred * (0 - off) + 2 * Hundred * (0 - rest)
  BY <1>3, <1>17
<1>20. /\ 2 * Hundred * off \in Int /\ 2 * Hundred * (0 - off) \in Int
       /\ 2 * Hundred * rest \in Int /\ 2 * Hundred * (0 - rest) \in Int
       /\ Sum(slack, Split) \in Int
  BY <1>3, <1>6, <1>10, <1>17
<1>21. Engine!Distance(run.total, groups) = IF run.total - groups < 0
                                           THEN 0 - (off + rest) ELSE off + rest
  BY <1>17 DEF Engine!Distance
<1>22. 2 * Hundred * Engine!Distance(run.total, groups) <= 2 * Hundred + Sum(slack, Split)
  <2>1. /\ 2 * Hundred * (off + rest) <= 2 * Hundred + Sum(slack, Split)
        /\ 2 * Hundred * (0 - (off + rest)) <= 2 * Hundred + Sum(slack, Split)
    BY <1>3, <1>16, <1>18, <1>19, <1>20
  <2> QED BY <1>21, <2>1
<1>23. Engine!HeadlineReconciles(run)
  BY <1>11, <1>22 DEF Engine!HeadlineReconciles, groups
<1> QED BY <1>17, <1>23 DEF run

\* What the engine counts is the number of rows it counts.
LEMMA CountsAre ==
    ASSUME NEW S, IsFiniteSet(S)
    PROVE  Engine!MapThenSumSet(LAMBDA p : 1, S) = Cardinality(S)
<1> DEFINE ones == [p \in S |-> 1]
<1>1. Engine!MapThenSumSet(LAMBDA p : 1, S) = Sum(ones, S)
  BY SumsOf
<1>2. \A p \in S : ones[p] = 1
  OBVIOUS
<1> HIDE DEF ones
<1> QED BY <1>1, <1>2, SumOfOnes

\* Two sets that share nothing, counted together.
LEMMA CountOfBoth ==
    ASSUME NEW S, IsFiniteSet(S), NEW T, IsFiniteSet(T), S \cap T = {}
    PROVE  Cardinality(S \cup T) = Cardinality(S) + Cardinality(T)
<1>1. Cardinality(S) \in Nat /\ Cardinality(T) \in Nat
  BY FS_CardinalityType
<1>2. Cardinality(S \cup T) = Cardinality(S) + Cardinality(T) - Cardinality(S \cap T)
  BY FS_Union
<1>3. Cardinality(S \cap T) = 0
  BY FS_EmptySet
<1> QED BY <1>1, <1>2, <1>3

\* Every row has one source, and every product a row or its place among the missing.
LEMMA RowsOfRun ==
    ASSUME Engine!PTConstantsAssumption, NEW catalogue, PTCatalogue(catalogue),
           NEW enriched, Engine!Run(catalogue, enriched).ok
    PROVE  Engine!RowsAccounted(Engine!Run(catalogue, enriched), catalogue, enriched)
<1> DEFINE run == Engine!Run(catalogue, enriched)
           rows == Engine!Rows(catalogue, enriched)
           R == DOMAIN rows
           K == Source \cup {"retailer"}
           key == [k \in R |-> rows[k].source]
           ones == [k \in R |-> 1]
           v == [s \in K |-> run.bySource[s]]
<1>1. /\ run.rows = rows
      /\ run.bySource = [s \in Engine!Source \cup {"retailer"} |->
                           Engine!CountOf(rows, LAMBDA row : row.source = s)]
      /\ run.missing = IF enriched THEN Engine!Cardinality(DOMAIN catalogue \ R) ELSE 0
  BY DEF Engine!Run, Engine!Failed
<1>2. R \subseteq DOMAIN catalogue /\ IsFiniteSet(DOMAIN catalogue)
  BY DEF Engine!Rows, Engine!Included, PTCatalogue
<1>3. IsFiniteSet(R) /\ IsFiniteSet(K)
  <2>1. IsFiniteSet({"manual_altera"})
    BY FS_Singleton
  <2>2. IsFiniteSet({"manual_altera"} \cup {"nevo"})
    BY <2>1, FS_AddElement
  <2>3. IsFiniteSet(({"manual_altera"} \cup {"nevo"}) \cup {"ciqual"})
    BY <2>2, FS_AddElement
  <2>4. IsFiniteSet((({"manual_altera"} \cup {"nevo"}) \cup {"ciqual"}) \cup {"category_average"})
    BY <2>3, FS_AddElement
  <2>5. Source = (({"manual_altera"} \cup {"nevo"}) \cup {"ciqual"}) \cup {"category_average"}
    BY DEF Source
  <2>6. IsFiniteSet(Source \cup {"retailer"})
    BY <2>4, <2>5, FS_AddElement
  <2> QED BY <1>2, <2>6, FS_Subset
<1>4. \A k \in R : rows[k].source \in K
  <2> SUFFICES ASSUME NEW k \in R PROVE rows[k].source \in K
    OBVIOUS
  <2> QED BY RowFits
<1> HIDE DEF run, rows, K
<1>5. \A s \in K : run.bySource[s] = Engine!CountOf(rows, LAMBDA row : row.source = s)
  BY <1>1, OneEngine DEF K
<1>6. \A k \in R : key[k] \in K /\ ones[k] = 1
  BY <1>4
<1>7. Sum(ones, R) = Cardinality(R) /\ Weighs(ones, R)
  <2> HIDE DEF ones
  <2> QED BY <1>3, <1>6, SumOfOnes DEF Weighs
<1>8. \A s \in K : v[s] = Sum(ones, {k \in R : key[k] = s})
  <2> SUFFICES ASSUME NEW s \in K PROVE v[s] = Sum(ones, {k \in R : key[k] = s})
    OBVIOUS
  <2>1. Engine!CountOf(rows, LAMBDA row : row.source = s)
            = Cardinality({k \in R : rows[k].source = s})
    <3> DEFINE S == {k \in DOMAIN rows : rows[k].source = s}
    <3>1. Engine!CountOf(rows, LAMBDA row : row.source = s)
              = Engine!MapThenSumSet(LAMBDA p : 1, S)
      BY DEF Engine!CountOf, Engine!SumOf
    <3>2. IsFiniteSet(S)
      BY <1>3, FS_Subset
    <3> HIDE DEF S
    <3>3. Engine!MapThenSumSet(LAMBDA p : 1, S) = Cardinality(S)
      BY <3>2, CountsAre
    <3> QED BY <3>1, <3>3 DEF S
  <2>2. {k \in R : rows[k].source = s} = {k \in R : key[k] = s}
    OBVIOUS
  <2>3. v[s] = Engine!CountOf(rows, LAMBDA row : row.source = s)
    BY <1>5
  <2>4. IsFiniteSet({k \in R : key[k] = s}) /\ \A k \in {k \in R : key[k] = s} : ones[k] = 1
    BY <1>3, <1>6, FS_Subset
  <2> HIDE DEF ones, v
  <2>5. Sum(ones, {k \in R : key[k] = s}) = Cardinality({k \in R : key[k] = s})
    BY <2>4, SumOfOnes
  <2> QED BY <2>1, <2>2, <2>3, <2>5
<1>9. Engine!MapThenSumSet(LAMBDA s : run.bySource[s], K) = Sum(v, K)
  BY SumsOf
<1>10. DOMAIN run.bySource = K
  BY <1>1, OneEngine DEF K
<1> HIDE DEF v, key, ones, R
<1>11. Sum(v, K) = Sum(ones, R)
  <2>1. \A k \in R : key[k] \in K
    BY <1>6
  <2>2. \A s \in K : v[s] = Sum(ones, {k \in R : key[k] = s})
    BY <1>8
  <2>3. Sum(ByKey(ones, R, key, K), K) = Sum(ones, R) /\ Weighs(ByKey(ones, R, key, K), K)
    BY <1>3, <1>7, <2>1, SumByKey
  <2>4. \A s \in K : v[s] = ByKey(ones, R, key, K)[s]
    BY <2>2 DEF ByKey
  <2>5. Sum(v, K) = Sum(ByKey(ones, R, key, K), K)
    BY <1>3, <2>3, <2>4, SumOfSame
  <2> QED BY <2>3, <2>5
<1>12. enriched => Cardinality(R) + run.missing = Cardinality(DOMAIN catalogue)
  <2> DEFINE M == DOMAIN catalogue \ R
  <2>1. /\ IsFiniteSet(M) /\ R \cup M = DOMAIN catalogue /\ R \cap M = {}
    BY <1>2, FS_Subset
  <2> HIDE DEF M
  <2>2. Cardinality(R \cup M) = Cardinality(R) + Cardinality(M)
    BY <1>3, <2>1, CountOfBoth
  <2>3. enriched => run.missing = Cardinality(M)
    BY <1>1 DEF M, Engine!Cardinality, Cardinality
  <2> QED BY <2>1, <2>2, <2>3
<1>13. Engine!Cardinality(R) = Cardinality(R)
          /\ Engine!Cardinality(DOMAIN catalogue) = Cardinality(DOMAIN catalogue)
  BY DEF Engine!Cardinality, Cardinality
<1> QED BY <1>1, <1>7, <1>9, <1>10, <1>11, <1>12, <1>13 DEF Engine!RowsAccounted, run, R

\* The books of a Protein Tracker run balance: its two shares make 100 percent or there
\* is nothing to share, its headline is what its groups weigh up to what rounding and the
\* tolerance of a split explain, every row has one source and no product is lost.
THEOREM TrackerBooksBalance ==
    ASSUME Engine!PTConstantsAssumption
    PROVE  \A catalogue, enriched :
             LET run == Engine!Run(catalogue, enriched)
             IN  PTCatalogue(catalogue) /\ run.ok
                   => /\ Engine!SharesSumTo100(run)
                      /\ Engine!HeadlineReconciles(run)
                      /\ Engine!RowsAccounted(run, catalogue, enriched)
<1> SUFFICES ASSUME NEW catalogue, NEW enriched, PTCatalogue(catalogue),
                    Engine!Run(catalogue, enriched).ok
             PROVE  LET run == Engine!Run(catalogue, enriched)
                    IN  /\ Engine!SharesSumTo100(run)
                        /\ Engine!HeadlineReconciles(run)
                        /\ Engine!RowsAccounted(run, catalogue, enriched)
  OBVIOUS
<1> DEFINE run == Engine!Run(catalogue, enriched)
<1>1. run.plant \in Nat /\ run.animal \in Nat /\ Engine!HeadlineReconciles(run)
  BY HeadlineOfRows
<1>2. Engine!SharesSumTo100(run)
  BY <1>1, SharesAreWhole
<1>3. Engine!RowsAccounted(run, catalogue, enriched)
  BY RowsOfRun
<1> QED BY <1>1, <1>2, <1>3

\* The image of a finite set under a function.
LEMMA ImageIsFinite ==
    ASSUME NEW U, IsFiniteSet(U), NEW f
    PROVE  IsFiniteSet({f[i] : i \in U})
<1> DEFINE g == [i \in U |-> f[i]]   T == {f[i] : i \in U}
<1>1. g \in Surjection(U, T)
  BY DEF Surjection
<1> QED BY <1>1, FS_Surjection

\* A sum over the values of a function that has each only once.
LEMMA SumOfImage ==
    ASSUME NEW U, IsFiniteSet(U), NEW f, \A i, j \in U : f[i] = f[j] => i = j,
           NEW w, Weighs(w, {f[i] : i \in U}), NEW v, \A i \in U : v[i] = w[f[i]]
    PROVE  Sum(w, {f[i] : i \in U}) = Sum(v, U)
<1> DEFINE T == {f[i] : i \in U}
           Of(s) == {f[i] : i \in s}
           G == {s \in SUBSET U : Sum(w, Of(s)) = Sum(v, s)}
<1>1. IsFiniteSet(T) /\ Weighs(w, T) /\ Weighs(v, U)
  <2>1. Weighs(v, U)
    BY DEF Weighs
  <2> QED BY <2>1, ImageIsFinite
<1>2. {} \in G
  <2>1. Of({}) = {}
    OBVIOUS
  <2> QED BY <2>1, SumOfNone
<1>3. ASSUME NEW s \in SUBSET U, NEW x \in U, x \notin s, s \in G
      PROVE  s \cup {x} \in G
  <2>1. Of(s) \in SUBSET T /\ f[x] \in T /\ f[x] \notin Of(s)
        /\ Of(s \cup {x}) = Of(s) \cup {f[x]}
    BY <1>3
  <2>2. Sum(w, Of(s)) = Sum(v, s) /\ v[x] = w[f[x]]
    BY <1>3
  <2> HIDE DEF T, Of
  <2>3. Sum(w, Of(s) \cup {f[x]}) = w[f[x]] + Sum(w, Of(s))
    BY <1>1, <2>1, SumWith
  <2>4. Sum(v, s \cup {x}) = v[x] + Sum(v, s)
    BY <1>1, <1>3, SumWith
  <2> QED BY <2>1, <2>2, <2>3, <2>4
<1>4. U \in G
  <2> HIDE DEF G
  <2> QED BY <1>2, <1>3, SubsetInduction
<1> QED BY <1>4

-----------------------------------------------------------------------------
(* The books of a WWF run *)

\* What the WWF engine sums up is a sum of weights, too.
LEMMA WwfSumsOf ==
    ASSUME NEW S, NEW f(_)
    PROVE  Wwf!MapThenSumSet(f, S) = Sum([x \in S |-> f(x)], S)
<1> DEFINE w == [x \in S |-> f(x)]
           B(g) == [s \in SUBSET S |->
                      IF s = {} THEN 0 ELSE f(Some(s)) + g[s \ {Some(s)}]]
<1>1. Wwf!MapThenSumSet(f, S) = (CHOOSE g : g = B(g))[S]
  BY DEF Wwf!MapThenSumSet, Wwf!MapThenFoldSet, Some
<1>2. \A s \in SUBSET S : s # {} => w[Some(s)] = f(Some(s))
  BY SomeIsIn
<1> HIDE DEF w
<1>3. \A g : B(g) = Body(w, S, g)
  BY <1>2 DEF Body
<1> HIDE DEF B
<1>4. (CHOOSE g : g = B(g)) = SumBy(w, S)
  BY <1>3 DEF SumBy
<1> QED BY <1>1, <1>4 DEF Sum, w

SumOfEntries(entries, p) ==
    Wwf!MapThenSumSet(LAMBDA i : Wwf!Weight(entries[i].weight, p), DOMAIN entries)

\* What Step 2 adds for a product, and what the product adds.
FromStep2(catalogue, ingredients) ==
    [k \in DOMAIN catalogue |->
        IF k \in DOMAIN ingredients /\ catalogue[k].ownBrand
           /\ catalogue[k].composite /\ Wwf!InScope(catalogue[k])
        THEN SumOfEntries(ingredients[k], catalogue[k])
        ELSE 0]

FromEntries(k, entries, p) ==
    {[of |-> <<k, i>>, group |-> entries[i].food_group, subgroup |-> entries[i].subgroup,
      weight |-> Wwf!Weight(entries[i].weight, p)] : i \in DOMAIN entries}

PartsOf(k, catalogue, ingredients) == Wwf!Parts(k, catalogue[k], ingredients)

\* The weight of a product or of an ingredient.
LEMMA WeightFits ==
    ASSUME Wwf!WWFConstantsAssumption, NEW p, WWFProduct(p), NEW perItem \in Nat
    PROVE  Wwf!Weight(perItem, p) \in Nat
<1>1. Part \in Nat \ {0} /\ perItem * p.items \in Nat
  BY DEF Wwf!WWFConstantsAssumption, WWFProduct
<1>2. Wwf!HalfEven(perItem * p.items, Part) = Engine!HalfEven(perItem * p.items, Part)
  BY DEF Wwf!HalfEven, Engine!HalfEven
<1> QED BY <1>1, <1>2, Rounded DEF Wwf!Weight

\* What Step 2 adds is the weight of the ingredients, one by one.
LEMMA Step2Fits ==
    ASSUME Wwf!WWFConstantsAssumption, NEW p, WWFProduct(p), NEW k, NEW entries,
           IsFiniteSet(DOMAIN entries),
           \A i \in DOMAIN entries : entries[i].weight \in Nat
                                     /\ entries[i].food_group \in Wwf!FoodGroups
    PROVE  LET S == FromEntries(k, entries, p)
           IN  /\ IsFiniteSet(S)
               /\ \A x \in S : x.of[1] = k /\ x.group \in Wwf!FoodGroups /\ x.weight \in Nat
               /\ Sum([x \in S |-> x.weight], S) = SumOfEntries(entries, p)
<1> DEFINE U == DOMAIN entries
           S == FromEntries(k, entries, p)
           f == [i \in U |->
                   [of |-> <<k, i>>, group |-> entries[i].food_group,
                    subgroup |-> entries[i].subgroup,
                    weight |-> Wwf!Weight(entries[i].weight, p)]]
           v == [i \in U |-> Wwf!Weight(entries[i].weight, p)]
           w == [x \in S |-> x.weight]
<1>1. S = {f[i] : i \in U}
  BY DEF FromEntries
<1>2. \A i \in U : f[i].of[1] = k /\ f[i].of[2] = i /\ f[i].group \in Wwf!FoodGroups
                    /\ f[i].weight = v[i]
  OBVIOUS
<1>3. \A i \in U : v[i] \in Nat
  BY WeightFits
<1>4. Wwf!MapThenSumSet(LAMBDA i : Wwf!Weight(entries[i].weight, p), U) = Sum(v, U)
  BY WwfSumsOf
<1> HIDE DEF f, v, U, S
<1>5. \A i, j \in U : f[i] = f[j] => i = j
  BY <1>2
<1>6. \A x \in S : x.of[1] = k /\ x.group \in Wwf!FoodGroups /\ x.weight \in Nat
  BY <1>1, <1>2, <1>3
<1>7. \A i \in U : v[i] = w[f[i]]
  BY <1>1, <1>2
<1>8. Weighs(w, S)
  BY <1>6 DEF Weighs
<1> HIDE DEF w
<1>9. Sum(w, {f[i] : i \in U}) = Sum(v, U)
  <2>1. Weighs(w, {f[i] : i \in U}) /\ IsFiniteSet(U)
    BY <1>1, <1>8 DEF U
  <2> QED BY <1>5, <1>7, <2>1, SumOfImage
<1>10. IsFiniteSet(S)
  <2>1. IsFiniteSet(U)
    BY DEF U
  <2> QED BY <1>1, <2>1, ImageIsFinite
<1> QED BY <1>1, <1>4, <1>6, <1>9, <1>10 DEF U, w, S, SumOfEntries

\* What a product adds: its own weight, or that of its ingredients.
LEMMA PartsFit ==
    ASSUME Wwf!WWFConstantsAssumption, NEW catalogue, WWFCatalogue(catalogue),
           NEW ingredients, WWFIngredients(ingredients), NEW k \in DOMAIN catalogue
    PROVE  LET parts == PartsOf(k, catalogue, ingredients)
               p == catalogue[k]
           IN  /\ IsFiniteSet(parts)
               /\ \A x \in parts : x.of[1] = k /\ x.group \in Wwf!FoodGroups
                                   /\ x.weight \in Nat
               /\ Sum([x \in parts |-> x.weight], parts)
                    = (IF Wwf!InScope(p) /\ ~p.composite THEN Wwf!Weight(p.weight, p) ELSE 0)
                        + FromStep2(catalogue, ingredients)[k]
               /\ FromStep2(catalogue, ingredients)[k] \in Nat
<1> DEFINE p == catalogue[k]
           parts == PartsOf(k, catalogue, ingredients)
           more == FromStep2(catalogue, ingredients)[k]
           w == [x \in parts |-> x.weight]
<1>1. WWFProduct(p)
  BY DEF WWFCatalogue
<1>2. p.composite \in BOOLEAN /\ p.ownBrand \in BOOLEAN /\ p.weight \in Nat
  BY <1>1 DEF WWFProduct
<1>3. CASE Wwf!InScope(p) /\ ~p.composite
  <2> DEFINE x == [of |-> <<k, 0>>, group |-> p.group, subgroup |-> p.subgroup,
                   weight |-> Wwf!Weight(p.weight, p)]
  <2>1. parts = {x} /\ more = 0
    BY <1>3 DEF PartsOf, Wwf!Parts, FromStep2
  <2>2. x.of[1] = k /\ x.group \in Wwf!FoodGroups /\ x.weight = Wwf!Weight(p.weight, p)
    BY <1>3 DEF Wwf!InScope
  <2>3. Wwf!Weight(p.weight, p) \in Nat
    BY <1>1, <1>2, WeightFits
  <2>4. w[x] = Wwf!Weight(p.weight, p)
    BY <2>1, <2>2
  <2> HIDE DEF x, w, parts, more, p
  <2>5. IsFiniteSet(parts) /\ Weighs(w, parts)
    <3>1. IsFiniteSet({x})
      BY FS_Singleton
    <3>2. w[x] \in Int
      BY <2>3, <2>4
    <3> QED BY <2>1, <3>1, <3>2 DEF Weighs
  <2>6. Sum(w, parts) = w[x] + Sum(w, parts \ {x}) /\ parts \ {x} = {}
    BY <2>1, <2>5, SumWithout
  <2>7. Sum(w, parts) = Wwf!Weight(p.weight, p)
    BY <2>3, <2>4, <2>6, SumOfNone
  <2>8. Sum(w, parts) = (IF Wwf!InScope(p) /\ ~p.composite THEN Wwf!Weight(p.weight, p) ELSE 0)
                          + more
    BY <1>3, <2>1, <2>3, <2>7
  <2> QED BY <2>1, <2>2, <2>3, <2>5, <2>8 DEF w, parts, more, p
<1>4. CASE Wwf!InScope(p) /\ p.composite /\ p.ownBrand /\ k \in DOMAIN ingredients
  <2> DEFINE entries == ingredients[k]
             sum == SumOfEntries(entries, p)
  <2>1. parts = FromEntries(k, entries, p) /\ more = sum
    BY <1>4 DEF PartsOf, Wwf!Parts, FromStep2, FromEntries
  <2>2. /\ IsFiniteSet(DOMAIN entries)
        /\ \A i \in DOMAIN entries : entries[i].weight \in Nat
                                     /\ entries[i].food_group \in Wwf!FoodGroups
    BY <1>4 DEF WWFIngredients
  <2> HIDE DEF parts, more, p, entries
  <2>3. /\ IsFiniteSet(parts)
        /\ \A x \in parts : x.of[1] = k /\ x.group \in Wwf!FoodGroups /\ x.weight \in Nat
        /\ Sum([x \in parts |-> x.weight], parts) = sum
    BY <1>1, <2>1, <2>2, Step2Fits
  <2> HIDE DEF sum
  <2>4. Weighs(w, parts) /\ Sum(w, parts) = more /\ \A x \in parts : w[x] \in Nat
    BY <2>1, <2>3 DEF Weighs
  <2> HIDE DEF w
  <2>5. more \in Nat
    BY <2>3, <2>4, SumOfNat
  <2>6. Sum(w, parts) = (IF Wwf!InScope(p) /\ ~p.composite THEN Wwf!Weight(p.weight, p) ELSE 0)
                          + more
    BY <1>4, <2>4, <2>5
  <2> QED BY <2>3, <2>5, <2>6 DEF w, parts, more, p
<1>5. CASE ~Wwf!InScope(p) \/ (p.composite /\ ~(p.ownBrand /\ k \in DOMAIN ingredients))
  <2>1. parts = {} /\ more = 0
    BY <1>5 DEF PartsOf, Wwf!Parts, FromStep2
  <2>2. ~(Wwf!InScope(p) /\ ~p.composite)
    BY <1>5
  <2> HIDE DEF w, parts, more, p
  <2>3. IsFiniteSet(parts) /\ Sum(w, parts) = 0
    BY <2>1, FS_EmptySet, SumOfNone
  <2> QED BY <2>1, <2>2, <2>3 DEF w, parts, more, p
<1> QED BY <1>2, <1>3, <1>4, <1>5

AllParts(catalogue, ingredients) ==
    UNION {PartsOf(k, catalogue, ingredients) : k \in DOMAIN catalogue}

Weights(P) == [x \in P |-> x.weight]
InGroup(P, g) == {x \in P : x.group = g}

\* All that the products of a catalogue add, and which product each part comes from.
LEMMA AllPartsFit ==
    ASSUME Wwf!WWFConstantsAssumption, NEW catalogue, WWFCatalogue(catalogue),
           NEW ingredients, WWFIngredients(ingredients)
    PROVE  LET P == AllParts(catalogue, ingredients)
           IN  /\ IsFiniteSet(P)
               /\ \A x \in P : x.group \in Wwf!FoodGroups /\ x.weight \in Nat
                               /\ x.of[1] \in DOMAIN catalogue
               /\ \A k \in DOMAIN catalogue :
                    {x \in P : x.of[1] = k} = PartsOf(k, catalogue, ingredients)
<1> DEFINE K == DOMAIN catalogue
           f == [k \in K |-> PartsOf(k, catalogue, ingredients)]
           P == AllParts(catalogue, ingredients)
<1>1. P = UNION {f[k] : k \in K}
  BY DEF AllParts
<1>2. ASSUME NEW k \in K
      PROVE  /\ IsFiniteSet(f[k])
             /\ \A x \in f[k] : x.of[1] = k /\ x.group \in Wwf!FoodGroups /\ x.weight \in Nat
  BY PartsFit
<1>3. \A k \in K : f[k] = PartsOf(k, catalogue, ingredients)
  OBVIOUS
<1>4. IsFiniteSet(K)
  BY DEF WWFCatalogue
<1> HIDE DEF f, K, P
<1>5. IsFiniteSet(P)
  <2>1. IsFiniteSet({f[k] : k \in K})
    BY <1>4, ImageIsFinite
  <2> QED BY <1>1, <1>2, <2>1, FS_UNION
<1>6. \A x \in P : x.group \in Wwf!FoodGroups /\ x.weight \in Nat /\ x.of[1] \in K
  BY <1>1, <1>2
<1>7. \A k \in K : {x \in P : x.of[1] = k} = f[k]
  BY <1>1, <1>2
<1> QED BY <1>3, <1>5, <1>6, <1>7 DEF K, P

ScopeOf(catalogue) == {k \in DOMAIN catalogue : Wwf!InScope(catalogue[k])}
CompositesOf(catalogue) == {k \in ScopeOf(catalogue) : catalogue[k].composite}
Sold(catalogue) ==
    [k \in DOMAIN catalogue |-> Wwf!Weight(catalogue[k].weight, catalogue[k])]

\* The masses of a run, as sums over products and over parts.
LEMMA WwfSumsAre ==
    ASSUME Wwf!WWFConstantsAssumption, NEW catalogue, WWFCatalogue(catalogue),
           NEW ingredients, Wwf!Run(catalogue, ingredients).ok
    PROVE  LET run == Wwf!Run(catalogue, ingredients)
           IN  /\ \A k \in DOMAIN catalogue : Sold(catalogue)[k] \in Nat
               /\ run.total = Sum(Sold(catalogue), ScopeOf(catalogue))
               /\ run.composites = Sum(Sold(catalogue), CompositesOf(catalogue))
               /\ DOMAIN run.buckets = Wwf!Buckets
               /\ \A b \in Wwf!Buckets : run.buckets[b] =
                    Sum(Sold(catalogue), {k \in CompositesOf(catalogue) : catalogue[k].bucket = b})
<1> DEFINE run == Wwf!Run(catalogue, ingredients)
           K == DOMAIN catalogue
           a == Sold(catalogue)
           sum(S) == Wwf!MapThenSumSet(
                        LAMBDA k : Wwf!Weight(catalogue[k].weight, catalogue[k]), S)
           scope == {k \in DOMAIN catalogue : Wwf!InScope(catalogue[k])}
           composites == {k \in scope : catalogue[k].composite}
<1>1. \A k \in K : a[k] = Wwf!Weight(catalogue[k].weight, catalogue[k]) /\ a[k] \in Nat
  <2> SUFFICES ASSUME NEW k \in K
               PROVE  a[k] = Wwf!Weight(catalogue[k].weight, catalogue[k]) /\ a[k] \in Nat
    OBVIOUS
  <2>1. WWFProduct(catalogue[k]) /\ catalogue[k].weight \in Nat
    BY DEF WWFCatalogue, WWFProduct
  <2>2. a[k] = Wwf!Weight(catalogue[k].weight, catalogue[k])
    BY DEF Sold
  <2> QED BY <2>1, <2>2, WeightFits
<1>2. ASSUME NEW S \in SUBSET K PROVE sum(S) = Sum(a, S)
  <2> DEFINE v == [k \in S |-> Wwf!Weight(catalogue[k].weight, catalogue[k])]
  <2>1. sum(S) = Sum(v, S)
    BY WwfSumsOf
  <2>2. \A k \in S : v[k] = a[k]
    BY <1>1
  <2>3. IsFiniteSet(S) /\ Weighs(a, S)
    BY <1>1, FS_Subset DEF WWFCatalogue, Weighs
  <2> HIDE DEF v, a, sum
  <2>4. Sum(v, S) = Sum(a, S)
    BY <2>2, <2>3, SumOfSame
  <2> QED BY <2>1, <2>4
<1>3. /\ run.total = sum(scope) /\ run.composites = sum(composites)
      /\ run.buckets = [b \in Wwf!Buckets |-> sum({k \in composites : catalogue[k].bucket = b})]
  BY DEF Wwf!Run, Wwf!Failed
<1>4. scope = ScopeOf(catalogue) /\ composites = CompositesOf(catalogue)
  BY DEF ScopeOf, CompositesOf
<1>5. /\ scope \in SUBSET K /\ composites \in SUBSET K
      /\ \A b : {k \in composites : catalogue[k].bucket = b} \in SUBSET K
  OBVIOUS
<1> HIDE DEF sum, scope, composites, run, a
<1>6. DOMAIN run.buckets = Wwf!Buckets
      /\ \A b \in Wwf!Buckets :
            run.buckets[b] = sum({k \in composites : catalogue[k].bucket = b})
  BY <1>3
<1>7. \A b \in Wwf!Buckets :
            run.buckets[b] = Sum(a, {k \in composites : catalogue[k].bucket = b})
  BY <1>2, <1>5, <1>6
<1>8. run.total = Sum(a, scope) /\ run.composites = Sum(a, composites)
  BY <1>2, <1>3, <1>5
<1> QED BY <1>1, <1>4, <1>6, <1>7, <1>8 DEF run, a

\* Every composite lies in one of the four buckets.
LEMMA BucketsOfRun ==
    ASSUME Wwf!WWFConstantsAssumption, NEW catalogue, WWFCatalogue(catalogue),
           NEW ingredients, Wwf!Run(catalogue, ingredients).ok
    PROVE  Wwf!BucketsReconcile(Wwf!Run(catalogue, ingredients))
<1> DEFINE run == Wwf!Run(catalogue, ingredients)
           C == CompositesOf(catalogue)
           a == Sold(catalogue)
           B == Wwf!Buckets
           key == [k \in C |-> catalogue[k].bucket]
           v == [b \in B |-> run.buckets[b]]
<1>1. /\ \A k \in DOMAIN catalogue : a[k] \in Nat
      /\ run.composites = Sum(a, C)
      /\ \A b \in B : run.buckets[b] = Sum(a, {k \in C : catalogue[k].bucket = b})
  BY WwfSumsAre
<1>2. C \subseteq DOMAIN catalogue /\ \A k \in C : catalogue[k].bucket \in B
  BY DEF CompositesOf, ScopeOf, WWFCatalogue, WWFProduct
<1>3. IsFiniteSet(C) /\ Weighs(a, C)
  BY <1>1, <1>2, FS_Subset DEF WWFCatalogue, Weighs
<1>4. Wwf!MapThenSumSet(LAMBDA b : run.buckets[b], B) = Sum(v, B)
  BY WwfSumsOf
<1>5. IsFiniteSet(B)
  <2>1. IsFiniteSet({"meat_based"})
    BY FS_Singleton
  <2>2. IsFiniteSet({"meat_based"} \cup {"seafood_based"})
    BY <2>1, FS_AddElement
  <2>3. IsFiniteSet(({"meat_based"} \cup {"seafood_based"}) \cup {"vegetarian"})
    BY <2>2, FS_AddElement
  <2>4. IsFiniteSet((({"meat_based"} \cup {"seafood_based"}) \cup {"vegetarian"}) \cup {"vegan"})
    BY <2>3, FS_AddElement
  <2>5. B = (({"meat_based"} \cup {"seafood_based"}) \cup {"vegetarian"}) \cup {"vegan"}
    BY DEF Wwf!Buckets
  <2> QED BY <2>4, <2>5
<1>6. \A k \in C : key[k] \in B
  BY <1>2
<1>7. \A b \in B : {k \in C : catalogue[k].bucket = b} = {k \in C : key[k] = b}
  OBVIOUS
<1> HIDE DEF C, a, B, key
<1>8. Sum(ByKey(a, C, key, B), B) = Sum(a, C) /\ Weighs(ByKey(a, C, key, B), B)
  BY <1>3, <1>5, <1>6, SumByKey
<1>9. \A b \in B : v[b] = ByKey(a, C, key, B)[b]
  BY <1>1, <1>7 DEF ByKey
<1> HIDE DEF v
<1>10. Sum(v, B) = Sum(ByKey(a, C, key, B), B)
  BY <1>5, <1>8, <1>9, SumOfSame
<1> QED BY <1>1, <1>4, <1>8, <1>10 DEF Wwf!BucketsReconcile, run, B

\* Seven food groups.
LEMMA FoodGroupsAreFinite == IsFiniteSet(Wwf!FoodGroups)
<1>1. IsFiniteSet({"FG1"} \cup {"FG2"})
  BY FS_Singleton, FS_AddElement
<1>2. IsFiniteSet({"FG3"} \cup {"FG4"})
  BY FS_Singleton, FS_AddElement
<1>3. IsFiniteSet({"FG5"} \cup {"FG6"})
  BY FS_Singleton, FS_AddElement
<1>4. IsFiniteSet(({"FG1"} \cup {"FG2"}) \cup ({"FG3"} \cup {"FG4"}))
  BY <1>1, <1>2, FS_Union
<1>5. IsFiniteSet(({"FG5"} \cup {"FG6"}) \cup {"FG7"})
  BY <1>3, FS_AddElement
<1>6. IsFiniteSet((({"FG1"} \cup {"FG2"}) \cup ({"FG3"} \cup {"FG4"}))
                    \cup (({"FG5"} \cup {"FG6"}) \cup {"FG7"}))
  BY <1>4, <1>5, FS_Union
<1>7. Wwf!FoodGroups = (({"FG1"} \cup {"FG2"}) \cup ({"FG3"} \cup {"FG4"}))
                          \cup (({"FG5"} \cup {"FG6"}) \cup {"FG7"})
  BY DEF Wwf!FoodGroups
<1> QED BY <1>6, <1>7

SumOfGroups(run, G) == Wwf!MapThenSumSet(LAMBDA g : run.groups[g], G)

\* The food groups of a run, whichever are asked for, weigh what their parts do.
LEMMA WwfGroupsAre ==
    ASSUME Wwf!WWFConstantsAssumption, NEW catalogue, WWFCatalogue(catalogue),
           NEW ingredients, WWFIngredients(ingredients), Wwf!Run(catalogue, ingredients).ok,
           NEW G \in SUBSET Wwf!FoodGroups
    PROVE  LET run == Wwf!Run(catalogue, ingredients)
               P == AllParts(catalogue, ingredients)
           IN  SumOfGroups(run, G) = Sum(Weights(P), {x \in P : x.group \in G})
<1> DEFINE run == Wwf!Run(catalogue, ingredients)
           P == AllParts(catalogue, ingredients)
           w == Weights(P)
           U == {x \in P : x.group \in G}
           key == [x \in U |-> x.group]
           v == [g \in G |-> run.groups[g]]
           sum(S) == Wwf!MapThenSumSet(LAMBDA x : x.weight, S)
<1>1. run.groups = [g \in Wwf!FoodGroups |-> sum({x \in P : x.group = g})]
  BY DEF Wwf!Run, Wwf!Failed, Wwf!TotalOf, AllParts, PartsOf
<1>2. IsFiniteSet(P) /\ \A x \in P : x.weight \in Nat
  BY AllPartsFit
<1>3. Wwf!MapThenSumSet(LAMBDA g : run.groups[g], G) = Sum(v, G)
  BY WwfSumsOf
<1> HIDE DEF run, P
<1>4. \A x \in P : w[x] = x.weight /\ w[x] \in Nat
  BY <1>2 DEF Weights
<1>5. ASSUME NEW S \in SUBSET P PROVE sum(S) = Sum(w, S)
  <2> DEFINE u == [x \in S |-> x.weight]
  <2>1. sum(S) = Sum(u, S)
    BY WwfSumsOf
  <2>2. \A x \in S : u[x] = w[x]
    BY <1>4
  <2>3. IsFiniteSet(S) /\ Weighs(w, S)
    BY <1>2, <1>4, FS_Subset DEF Weighs
  <2> HIDE DEF u, w, sum
  <2>4. Sum(u, S) = Sum(w, S)
    BY <2>2, <2>3, SumOfSame
  <2> QED BY <2>1, <2>4
<1> HIDE DEF w, sum
<1>6. \A g \in G : {x \in P : x.group = g} = {x \in U : key[x] = g}
  OBVIOUS
<1>7. \A x \in U : key[x] \in G
  OBVIOUS
<1>8. IsFiniteSet(U) /\ IsFiniteSet(G) /\ Weighs(w, U) /\ U \in SUBSET P
  BY <1>2, <1>4, FoodGroupsAreFinite, FS_Subset DEF Weighs
<1> HIDE DEF U, key
<1>9. Sum(ByKey(w, U, key, G), G) = Sum(w, U) /\ Weighs(ByKey(w, U, key, G), G)
  BY <1>7, <1>8, SumByKey
<1>10. \A g \in G : v[g] = ByKey(w, U, key, G)[g]
  <2> SUFFICES ASSUME NEW g \in G PROVE v[g] = ByKey(w, U, key, G)[g]
    OBVIOUS
  <2>1. v[g] = sum({x \in P : x.group = g})
    BY <1>1
  <2>2. {x \in P : x.group = g} \in SUBSET P
    OBVIOUS
  <2>3. v[g] = Sum(w, {x \in U : key[x] = g})
    BY <1>5, <1>6, <2>1, <2>2
  <2> QED BY <2>3 DEF ByKey
<1> HIDE DEF v
<1>11. Sum(v, G) = Sum(ByKey(w, U, key, G), G)
  BY <1>8, <1>9, <1>10, SumOfSame
<1> QED BY <1>3, <1>9, <1>11 DEF run, P, w, U, SumOfGroups

\* The food groups weigh what was sold, less the composites, plus what Step 2 stored.
LEMMA GroupsOfRun ==
    ASSUME Wwf!WWFConstantsAssumption, NEW catalogue, WWFCatalogue(catalogue),
           NEW ingredients, WWFIngredients(ingredients), Wwf!Run(catalogue, ingredients).ok
    PROVE  Wwf!GroupsReconcile(Wwf!Run(catalogue, ingredients), catalogue, ingredients)
<1> DEFINE run == Wwf!Run(catalogue, ingredients)
           K == DOMAIN catalogue
           P == AllParts(catalogue, ingredients)
           w == Weights(P)
           key == [x \in P |-> x.of[1]]
           a == Sold(catalogue)
           scope == ScopeOf(catalogue)
           comps == CompositesOf(catalogue)
           more == FromStep2(catalogue, ingredients)
           sold == [k \in K |-> IF k \in scope THEN a[k] ELSE 0]
           less == [k \in K |-> IF k \in comps THEN a[k] ELSE 0]
           c == ByKey(w, P, key, K)
           all == Wwf!MapThenSumSet(LAMBDA g : run.groups[g], Wwf!FoodGroups)
<1>1. /\ IsFiniteSet(P)
      /\ \A x \in P : x.group \in Wwf!FoodGroups /\ x.weight \in Nat /\ x.of[1] \in K
      /\ \A k \in K : {x \in P : x.of[1] = k} = PartsOf(k, catalogue, ingredients)
  BY AllPartsFit
<1>2. IsFiniteSet(K)
  BY DEF WWFCatalogue
<1>3. all = Sum(w, P)
  <2>1. all = Sum(w, {x \in P : x.group \in Wwf!FoodGroups})
    <3>1. Wwf!FoodGroups \in SUBSET Wwf!FoodGroups
      OBVIOUS
    <3>2. SumOfGroups(run, Wwf!FoodGroups) = Sum(w, {x \in P : x.group \in Wwf!FoodGroups})
      BY <3>1, WwfGroupsAre
    <3> QED BY <3>2 DEF SumOfGroups
  <2>2. {x \in P : x.group \in Wwf!FoodGroups} = P
    BY <1>1
  <2> QED BY <2>1, <2>2
<1>4. /\ \A k \in K : a[k] \in Nat
      /\ run.total = Sum(a, scope) /\ run.composites = Sum(a, comps)
  BY WwfSumsAre
<1>5. Wwf!MapThenSumSet(
          LAMBDA k : IF k \in DOMAIN ingredients /\ catalogue[k].ownBrand
                        /\ catalogue[k].composite /\ Wwf!InScope(catalogue[k])
                     THEN Wwf!MapThenSumSet(
                             LAMBDA i : Wwf!Weight(ingredients[k][i].weight, catalogue[k]),
                             DOMAIN ingredients[k])
                     ELSE 0, K) = Sum(more, K)
  <2> DEFINE f(k) == IF k \in DOMAIN ingredients /\ catalogue[k].ownBrand
                        /\ catalogue[k].composite /\ Wwf!InScope(catalogue[k])
                     THEN Wwf!MapThenSumSet(
                             LAMBDA i : Wwf!Weight(ingredients[k][i].weight, catalogue[k]),
                             DOMAIN ingredients[k])
                     ELSE 0
  <2>1. Wwf!MapThenSumSet(LAMBDA k : f(k), K) = Sum([k \in K |-> f(k)], K)
    BY WwfSumsOf
  <2>2. [k \in K |-> f(k)] = more
    BY DEF FromStep2, SumOfEntries
  <2> HIDE DEF more
  <2> QED BY <2>1, <2>2
<1>6. scope \in SUBSET K /\ comps \in SUBSET scope
  BY DEF ScopeOf, CompositesOf
<1>7. \A k \in K : c[k] = (IF k \in scope /\ k \notin comps THEN a[k] ELSE 0) + more[k]
                    /\ more[k] \in Nat
  <2> SUFFICES ASSUME NEW k \in K
               PROVE  /\ c[k] = (IF k \in scope /\ k \notin comps THEN a[k] ELSE 0) + more[k]
                      /\ more[k] \in Nat
    OBVIOUS
  <2> DEFINE parts == PartsOf(k, catalogue, ingredients)
             p == catalogue[k]
             u == [x \in parts |-> x.weight]
  <2>1. /\ IsFiniteSet(parts)
        /\ \A x \in parts : x.weight \in Nat
        /\ Sum(u, parts)
             = (IF Wwf!InScope(p) /\ ~p.composite THEN Wwf!Weight(p.weight, p) ELSE 0) + more[k]
        /\ more[k] \in Nat
    BY PartsFit
  <2>2. {x \in P : key[x] = k} = parts
    BY <1>1
  <2>3. c[k] = Sum(w, parts)
    BY <2>2 DEF ByKey
  <2>4. \A x \in parts : u[x] = w[x]
    BY <2>2 DEF Weights
  <2>5. Weighs(u, parts)
    BY <2>1 DEF Weighs
  <2>6. (Wwf!InScope(p) /\ ~p.composite) <=> (k \in scope /\ k \notin comps)
    BY DEF ScopeOf, CompositesOf
  <2>7. a[k] = Wwf!Weight(p.weight, p)
    BY DEF Sold
  <2> HIDE DEF parts, u, w, c, a, scope, comps, more
  <2>8. Sum(w, parts) = Sum(u, parts)
    BY <2>1, <2>4, <2>5, SumOfSame
  <2> QED BY <2>1, <2>3, <2>6, <2>7, <2>8
<1>8. Sum(c, K) = Sum(w, P) /\ Weighs(c, K)
  <2>1. Weighs(w, P) /\ \A x \in P : key[x] \in K
    BY <1>1 DEF Weighs, Weights
  <2> HIDE DEF w, key, P, K
  <2> QED BY <1>1, <1>2, <2>1, SumByKey DEF P, K
<1> HIDE DEF run, K, P, w, key, a, scope, comps, more, c, all
<1>9. /\ \A k \in K : sold[k] = IF k \in scope THEN a[k] ELSE 0
      /\ \A k \in K : less[k] = IF k \in comps THEN a[k] ELSE 0
  OBVIOUS
<1> HIDE DEF sold, less
<1>10. /\ Weighs(a, scope) /\ Weighs(a, comps) /\ Weighs(more, K)
       /\ Weighs(sold, K) /\ Weighs(less, K) /\ comps \in SUBSET K
  BY <1>4, <1>6, <1>7, <1>9 DEF Weighs
<1>11. Sum(sold, K) = Sum(a, scope) /\ Sum(less, K) = Sum(a, comps)
  BY <1>2, <1>6, <1>9, <1>10, SumOfPart
<1> DEFINE left == [k \in K |-> sold[k] + more[k]]
<1>12. \A k \in K : left[k] = sold[k] + more[k] /\ left[k] = c[k] + less[k]
  BY <1>4, <1>6, <1>7, <1>9
<1> HIDE DEF left
<1>13. Sum(left, K) = Sum(sold, K) + Sum(more, K)
  BY <1>2, <1>10, <1>12, SumOfBoth
<1>14. Sum(left, K) = Sum(c, K) + Sum(less, K)
  BY <1>2, <1>8, <1>10, <1>12, SumOfBoth
<1>15. /\ Sum(sold, K) \in Int /\ Sum(more, K) \in Int /\ Sum(c, K) \in Int
       /\ Sum(less, K) \in Int
  BY <1>2, <1>8, <1>10, SumIsInt
<1>16. all = run.total - run.composites + Sum(more, K)
  BY <1>3, <1>4, <1>8, <1>11, <1>13, <1>14, <1>15
<1> QED BY <1>5, <1>16 DEF Wwf!GroupsReconcile, all, run, K

OfNoOrigin(x) == x.group = "FG3" /\ x.subgroup = "none"

\* One part of the diet: cheese counts at its equivalent, a fat of no origin not at all.
LEMMA DietOfPart ==
    ASSUME Wwf!WWFConstantsAssumption, NEW x, x.weight \in Nat, x.group \in Wwf!FoodGroups
    PROVE  /\ Wwf!DietWeight(x) \in Nat
           /\ Wwf!DairyEquivalent(x.group, x.subgroup, x.weight) \in Nat
           /\ Wwf!DietWeight(x) + (IF OfNoOrigin(x) THEN x.weight ELSE 0)
                = (IF x.group \in Wwf!FoodGroups \ {"FG2"} THEN x.weight ELSE 0)
                    + Wwf!DairyEquivalent(x.group, x.subgroup, x.weight)
           /\ Wwf!IsAnimal(x.group, x.subgroup) \in BOOLEAN
<1>1. /\ Cheese \in Nat /\ Wwf!Factor(x.subgroup) \in Nat
      /\ x.weight * Wwf!Factor(x.subgroup) \in Nat
      /\ x.subgroup \in Wwf!PlantSubgroups => Wwf!Factor(x.subgroup) = 1
  <2>1. Cheese \in Nat
    BY DEF Wwf!WWFConstantsAssumption
  <2>2. Wwf!Factor(x.subgroup) \in Nat
    BY <2>1 DEF Wwf!Factor
  <2>3. x.weight * Wwf!Factor(x.subgroup) \in Nat
    BY <2>2
  <2>4. x.subgroup \in Wwf!PlantSubgroups => Wwf!Factor(x.subgroup) = 1
    BY DEF Wwf!Factor, Wwf!PlantSubgroups
  <2> QED BY <2>1, <2>2, <2>3, <2>4
<1> DEFINE e == Wwf!DairyEquivalent(x.group, x.subgroup, x.weight)
           d == Wwf!DietWeight(x)
<1>2. Wwf!IsAnimal(x.group, x.subgroup) \in BOOLEAN
  <2>1. CASE x.group = "FG1"
    BY <2>1 DEF Wwf!IsAnimal
  <2>2. CASE x.group \in {"FG2", "FG3", "FG7"}
    BY <2>2 DEF Wwf!IsAnimal
  <2>3. CASE x.group \notin {"FG1", "FG2", "FG3", "FG7"}
    BY <2>3 DEF Wwf!IsAnimal
  <2> QED BY <2>1, <2>2, <2>3
<1>3. CASE x.group = "FG2"
  <2>1. e = x.weight * Wwf!Factor(x.subgroup)
    BY <1>3 DEF Wwf!DairyEquivalent
  <2>2. Wwf!IsAnimal("FG2", x.subgroup) <=> x.subgroup \notin Wwf!PlantSubgroups
    BY DEF Wwf!IsAnimal
  <2>3. d = e
    <3>1. CASE Wwf!IsAnimal("FG2", x.subgroup)
      BY <1>3, <3>1 DEF Wwf!DietWeight, Wwf!DairyEquivalent
    <3>2. CASE ~Wwf!IsAnimal("FG2", x.subgroup)
      <4>1. d = x.weight
        BY <1>3, <3>2 DEF Wwf!DietWeight
      <4>2. Wwf!Factor(x.subgroup) = 1
        BY <1>1, <2>2, <3>2
      <4> QED BY <2>1, <4>1, <4>2
    <3> QED BY <3>1, <3>2
  <2>4. ~OfNoOrigin(x) /\ x.group \notin Wwf!FoodGroups \ {"FG2"}
    BY <1>3 DEF OfNoOrigin
  <2> HIDE DEF d, e
  <2> QED BY <1>1, <1>2, <2>1, <2>3, <2>4 DEF d, e
<1>4. CASE x.group # "FG2"
  <2>1. e = 0
    BY <1>4 DEF Wwf!DairyEquivalent
  <2>2. d = IF OfNoOrigin(x) THEN 0 ELSE x.weight
    BY <1>4 DEF Wwf!DietWeight, OfNoOrigin
  <2>3. x.group \in Wwf!FoodGroups \ {"FG2"}
    BY <1>4
  <2> HIDE DEF d, e
  <2> QED BY <1>2, <2>1, <2>2, <2>3 DEF d, e
<1> QED BY <1>3, <1>4

\* What remains when two sums agree.
LEMMA Diets == ASSUME NEW d \in Int, NEW n \in Int, NEW g \in Int, NEW e \in Int,
                      d + n = g + e
               PROVE  d = g + e - n
OBVIOUS

\* Plant and animal weight are the other food groups, the dairy at its equivalent and
\* not the fat of no origin.
LEMMA DietOfRun ==
    ASSUME Wwf!WWFConstantsAssumption, NEW catalogue, WWFCatalogue(catalogue),
           NEW ingredients, WWFIngredients(ingredients), Wwf!Run(catalogue, ingredients).ok
    PROVE  Wwf!DietReconciles(Wwf!Run(catalogue, ingredients), catalogue, ingredients)
<1> DEFINE run == Wwf!Run(catalogue, ingredients)
           P == AllParts(catalogue, ingredients)
           w == Weights(P)
           d == [x \in P |-> Wwf!DietWeight(x)]
           e == [x \in P |-> Wwf!DairyEquivalent(x.group, x.subgroup, x.weight)]
           animal == {x \in P : Wwf!IsAnimal(x.group, x.subgroup)}
           plant == {x \in P : ~Wwf!IsAnimal(x.group, x.subgroup)}
           others == {x \in P : x.group \in Wwf!FoodGroups \ {"FG2"}}
           none == {x \in P : x.group = "FG3" /\ x.subgroup = "none"}
           diet(S) == Wwf!MapThenSumSet(LAMBDA x : Wwf!DietWeight(x), S)
           dairy == Wwf!MapThenSumSet(
                        LAMBDA x : Wwf!DairyEquivalent(x.group, x.subgroup, x.weight),
                        {x \in P : TRUE})
           fat == Wwf!MapThenSumSet(LAMBDA x : x.weight, none)
           groups == Wwf!MapThenSumSet(LAMBDA g : run.groups[g], Wwf!FoodGroups \ {"FG2"})
           rest == [x \in P |-> IF x \in others THEN w[x] ELSE 0]
           lost == [x \in P |-> IF x \in none THEN w[x] ELSE 0]
           both == [x \in P |-> d[x] + lost[x]]
<1>1. run.dairy = dairy /\ run.plant = diet(plant) /\ run.animal = diet(animal)
  BY DEF Wwf!Run, Wwf!Failed, Wwf!TotalOf, AllParts, PartsOf
<1>2. groups = Sum(w, others)
  <2> DEFINE G == Wwf!FoodGroups \ {"FG2"}
  <2>1. G \in SUBSET Wwf!FoodGroups
    OBVIOUS
  <2> HIDE DEF G
  <2>2. SumOfGroups(run, G) = Sum(w, {x \in P : x.group \in G})
    BY <2>1, WwfGroupsAre
  <2> QED BY <2>2 DEF G, SumOfGroups
<1>3. IsFiniteSet(P) /\ \A x \in P : x.group \in Wwf!FoodGroups /\ x.weight \in Nat
  BY AllPartsFit
<1>4. Wwf!DietReconciles(run, catalogue, ingredients)
        <=> run.plant + run.animal = groups + run.dairy - fat
  BY DEF Wwf!DietReconciles, Wwf!TotalOf, AllParts, PartsOf
<1> HIDE DEF run, P, groups
<1>5. \A x \in P : /\ w[x] = x.weight /\ w[x] \in Nat
                    /\ d[x] = Wwf!DietWeight(x) /\ d[x] \in Nat
                    /\ e[x] = Wwf!DairyEquivalent(x.group, x.subgroup, x.weight)
                    /\ e[x] \in Nat
                    /\ Wwf!IsAnimal(x.group, x.subgroup) \in BOOLEAN
                    /\ both[x] = d[x] + lost[x] /\ both[x] = rest[x] + e[x]
  <2> SUFFICES ASSUME NEW x \in P
               PROVE  /\ w[x] = x.weight /\ w[x] \in Nat
                      /\ d[x] = Wwf!DietWeight(x) /\ d[x] \in Nat
                      /\ e[x] = Wwf!DairyEquivalent(x.group, x.subgroup, x.weight)
                      /\ e[x] \in Nat
                      /\ Wwf!IsAnimal(x.group, x.subgroup) \in BOOLEAN
                      /\ both[x] = d[x] + lost[x] /\ both[x] = rest[x] + e[x]
    OBVIOUS
  <2>1. /\ Wwf!DietWeight(x) \in Nat
        /\ Wwf!DairyEquivalent(x.group, x.subgroup, x.weight) \in Nat
        /\ Wwf!DietWeight(x) + (IF OfNoOrigin(x) THEN x.weight ELSE 0)
             = (IF x.group \in Wwf!FoodGroups \ {"FG2"} THEN x.weight ELSE 0)
                 + Wwf!DairyEquivalent(x.group, x.subgroup, x.weight)
        /\ Wwf!IsAnimal(x.group, x.subgroup) \in BOOLEAN
    BY <1>3, DietOfPart
  <2>2. /\ w[x] = x.weight /\ d[x] = Wwf!DietWeight(x)
        /\ e[x] = Wwf!DairyEquivalent(x.group, x.subgroup, x.weight)
    BY DEF Weights
  <2>3. /\ lost[x] = IF OfNoOrigin(x) THEN x.weight ELSE 0
        /\ rest[x] = IF x.group \in Wwf!FoodGroups \ {"FG2"} THEN x.weight ELSE 0
    BY <2>2 DEF OfNoOrigin
  <2>4. both[x] = d[x] + lost[x]
    OBVIOUS
  <2> HIDE DEF w, d, e, both, rest, lost
  <2> QED BY <1>3, <2>1, <2>2, <2>3, <2>4
<1>6. ASSUME NEW S \in SUBSET P PROVE diet(S) = Sum(d, S)
  <2> DEFINE u == [x \in S |-> Wwf!DietWeight(x)]
  <2>1. diet(S) = Sum(u, S)
    BY WwfSumsOf
  <2>2. \A x \in S : u[x] = d[x]
    BY <1>5
  <2>3. IsFiniteSet(S) /\ Weighs(d, S)
    BY <1>3, <1>5, FS_Subset DEF Weighs
  <2> HIDE DEF u, d, diet
  <2>4. Sum(u, S) = Sum(d, S)
    BY <2>2, <2>3, SumOfSame
  <2> QED BY <2>1, <2>4
<1>7. dairy = Sum(e, P)
  <2> DEFINE A == {x \in P : TRUE}
             u == [x \in A |-> Wwf!DairyEquivalent(x.group, x.subgroup, x.weight)]
  <2>1. dairy = Sum(u, A)
    BY WwfSumsOf
  <2>2. A = P /\ \A x \in P : u[x] = e[x]
    BY <1>5
  <2>3. Weighs(e, P)
    BY <1>5 DEF Weighs
  <2> HIDE DEF u, e, dairy, A
  <2>4. Sum(u, P) = Sum(e, P)
    BY <1>3, <2>2, <2>3, SumOfSame
  <2> QED BY <2>1, <2>2, <2>4
<1>8. fat = Sum(w, none)
  <2> DEFINE u == [x \in none |-> x.weight]
  <2>1. fat = Sum(u, none)
    BY WwfSumsOf
  <2>2. \A x \in none : u[x] = w[x]
    BY <1>5
  <2>3. IsFiniteSet(none) /\ Weighs(w, none)
    BY <1>3, <1>5, FS_Subset DEF Weighs
  <2> HIDE DEF u, w, fat, none
  <2>4. Sum(u, none) = Sum(w, none)
    BY <2>2, <2>3, SumOfSame
  <2> QED BY <2>1, <2>4
<1>9. /\ \A x \in P : rest[x] = IF x \in others THEN w[x] ELSE 0
      /\ \A x \in P : lost[x] = IF x \in none THEN w[x] ELSE 0
  OBVIOUS
<1>10. /\ plant \cap animal = {} /\ plant \cup animal = P
       /\ plant \in SUBSET P /\ animal \in SUBSET P
       /\ others \in SUBSET P /\ none \in SUBSET P
  BY <1>5
<1> HIDE DEF w, d, e, both, rest, lost, plant, animal, others, none, diet, dairy, fat
<1>11. /\ Weighs(w, others) /\ Weighs(w, none) /\ Weighs(d, P) /\ Weighs(e, P)
       /\ Weighs(rest, P) /\ Weighs(lost, P)
  BY <1>5, <1>9, <1>10 DEF Weighs
<1>12. Sum(d, P) = Sum(d, plant) + Sum(d, animal)
  <2>1. /\ IsFiniteSet(plant) /\ IsFiniteSet(animal)
        /\ Weighs(d, plant) /\ Weighs(d, animal)
    BY <1>3, <1>10, <1>11, FS_Subset DEF Weighs
  <2> QED BY <1>10, <2>1, SumOfUnion
<1>13. Sum(rest, P) = Sum(w, others) /\ Sum(lost, P) = Sum(w, none)
  BY <1>3, <1>9, <1>10, <1>11, SumOfPart
<1>14. Sum(both, P) = Sum(d, P) + Sum(lost, P)
  BY <1>3, <1>5, <1>11, SumOfBoth
<1>15. Sum(both, P) = Sum(rest, P) + Sum(e, P)
  BY <1>3, <1>5, <1>11, SumOfBoth
<1>16. /\ Sum(d, P) \in Int /\ Sum(lost, P) \in Int /\ Sum(rest, P) \in Int
       /\ Sum(e, P) \in Int
  BY <1>3, <1>11, SumIsInt
<1>17. Sum(d, P) = Sum(rest, P) + Sum(e, P) - Sum(lost, P)
  BY <1>14, <1>15, <1>16, Diets
<1>18. run.plant + run.animal = Sum(d, P)
  BY <1>1, <1>6, <1>10, <1>12
<1>19. groups + run.dairy - fat = Sum(rest, P) + Sum(e, P) - Sum(lost, P)
  BY <1>1, <1>2, <1>7, <1>8, <1>13
<1> QED BY <1>4, <1>17, <1>18, <1>19 DEF run

\* The books of a WWF run balance, step by step: the food groups weigh what was sold less
\* the composites and plus what Step 2 stored for the own-brand ones, every composite is
\* in one of the four buckets, and plant and animal weight are the food groups with
\* cheese at its equivalent and without the fat of no origin.
THEOREM WWFBooksBalance ==
    ASSUME Wwf!WWFConstantsAssumption
    PROVE  \A catalogue, ingredients :
             LET run == Wwf!Run(catalogue, ingredients)
             IN  WWFCatalogue(catalogue) /\ WWFIngredients(ingredients) /\ run.ok
                   => /\ Wwf!GroupsReconcile(run, catalogue, ingredients)
                      /\ Wwf!BucketsReconcile(run)
                      /\ Wwf!DietReconciles(run, catalogue, ingredients)
BY GroupsOfRun, BucketsOfRun, DietOfRun

-----------------------------------------------------------------------------
(* The projection of a scenario: one operation *)

State == [mass : Masses, plantPct : 0 .. Hundred, warnings : Int]

\* What an operation adds to a group.
Change(op, group) ==
    IF Plan!IsSkipped(op) THEN 0
    ELSE (IF op.type = "shift" /\ op.from # op.to
          THEN IF group = op.from THEN -op.amount
               ELSE IF group = op.to THEN op.amount ELSE 0
          ELSE 0)
       + (IF op.type = "increase_plant_core" /\ group = "plant_based_core"
          THEN op.amount ELSE 0)
       - (IF op.type = "reduce_animal_core" /\ group = "animal_core"
          THEN op.amount ELSE 0)

LEMMA PlusAdds ==
    ASSUME NEW state \in State, NEW group \in Plan!Groups, NEW amount \in Int
    PROVE  /\ Plan!Plus(state, group, amount) \in State
           /\ \A g \in Plan!Groups :
                Plan!Plus(state, group, amount).mass[g] =
                    IF g = group THEN state.mass[g] + amount ELSE state.mass[g]
<1> DEFINE m == [state.mass EXCEPT ![group] = @ + amount]
<1>1. state.mass \in Masses /\ state.plantPct \in 0 .. Hundred /\ state.warnings \in Int
      /\ state = [mass |-> state.mass, plantPct |-> state.plantPct,
                  warnings |-> state.warnings]
  BY DEF State
<1>2. m \in Masses /\ \A g \in Plan!Groups :
          m[g] = IF g = group THEN state.mass[g] + amount ELSE state.mass[g]
  BY <1>1 DEF Masses
<1>3. Plan!Plus(state, group, amount) =
          [mass |-> m, plantPct |-> state.plantPct, warnings |-> state.warnings]
  BY <1>1 DEF Plan!Plus
<1> HIDE DEF m
<1> QED BY <1>1, <1>2, <1>3 DEF State

\* An operation adds to each group what it is said to add, whatever came before.
LEMMA ApplyAdds ==
    ASSUME Hundred \in Nat, NEW state \in State, NEW op, IsOperation(op)
    PROVE  /\ Plan!Apply(state, op) \in State
           /\ \A g \in Plan!Groups : /\ Change(op, g) \in Int
                /\ Plan!Apply(state, op).mass[g] = state.mass[g] + Change(op, g)
<1>0. state.mass \in Masses /\ \A g \in Plan!Groups : state.mass[g] \in Int
  BY DEF State, Masses
<1>1. CASE Plan!IsSkipped(op)
  <2>1. Plan!Apply(state, op) = [state EXCEPT !.warnings = @ + 1]
    BY <1>1 DEF Plan!Apply
  <2>2. [state EXCEPT !.warnings = @ + 1] \in State
        /\ [state EXCEPT !.warnings = @ + 1].mass = state.mass
    BY DEF State
  <2> QED BY <1>0, <1>1, <2>1, <2>2 DEF Change
<1>2. CASE ~Plan!IsSkipped(op) /\ op.type = "shift"
  <2>1. op.from \in Plan!Groups /\ op.to \in Plan!Groups /\ op.amount \in Int
        /\ -op.amount \in Int
    BY <1>2 DEF Plan!IsSkipped, IsOperation
  <2>2. Plan!Apply(state, op) =
          IF op.from = op.to THEN state
          ELSE Plan!Plus(Plan!Plus(state, op.from, -op.amount), op.to, op.amount)
    BY <1>2 DEF Plan!Apply
  <2> DEFINE taken == Plan!Plus(state, op.from, -op.amount)
  <2>3. taken \in State /\ \A g \in Plan!Groups :
          taken.mass[g] = IF g = op.from THEN state.mass[g] + (-op.amount)
                          ELSE state.mass[g]
    BY <2>1, PlusAdds
  <2> HIDE DEF taken
  <2>4. /\ Plan!Plus(taken, op.to, op.amount) \in State
        /\ \A g \in Plan!Groups : Plan!Plus(taken, op.to, op.amount).mass[g] =
              IF g = op.to THEN taken.mass[g] + op.amount ELSE taken.mass[g]
    BY <2>1, <2>3, PlusAdds
  <2>5. \A g \in Plan!Groups :
          Change(op, g) = IF op.from = op.to THEN 0
                          ELSE IF g = op.from THEN -op.amount
                          ELSE IF g = op.to THEN op.amount ELSE 0
    BY <1>2, <2>1 DEF Change
  <2>6. CASE op.from = op.to
    BY <1>0, <2>2, <2>5, <2>6
  <2>7. CASE op.from # op.to
    <3>1. Plan!Apply(state, op) = Plan!Plus(taken, op.to, op.amount)
      BY <2>2, <2>7 DEF taken
    <3> QED BY <1>0, <2>1, <2>3, <2>4, <2>5, <2>7, <3>1
  <2> QED BY <2>6, <2>7
<1>3. CASE ~Plan!IsSkipped(op) /\ op.type = "increase_plant_core"
  <2>1. op.amount \in Int /\ "plant_based_core" \in Plan!Groups
    BY <1>3 DEF IsOperation, Plan!Groups
  <2>2. Plan!Apply(state, op) = Plan!Plus(state, "plant_based_core", op.amount)
    BY <1>3 DEF Plan!Apply
  <2>3. \A g \in Plan!Groups :
          Change(op, g) = IF g = "plant_based_core" THEN op.amount ELSE 0
    BY <1>3, <2>1 DEF Change
  <2> DEFINE after == Plan!Plus(state, "plant_based_core", op.amount)
  <2>4. after \in State /\ \A g \in Plan!Groups :
          after.mass[g] = IF g = "plant_based_core" THEN state.mass[g] + (op.amount)
                          ELSE state.mass[g]
    BY <2>1, PlusAdds
  <2> HIDE DEF after
  <2>5. Plan!Apply(state, op) = after
    BY <2>2 DEF after
  <2> QED BY <1>0, <2>1, <2>3, <2>4, <2>5
<1>4. CASE ~Plan!IsSkipped(op) /\ op.type = "reduce_animal_core"
  <2>1. op.amount \in Int /\ -op.amount \in Int /\ "animal_core" \in Plan!Groups
    BY <1>4 DEF IsOperation, Plan!Groups
  <2>2. Plan!Apply(state, op) = Plan!Plus(state, "animal_core", -op.amount)
    BY <1>4 DEF Plan!Apply
  <2>3. \A g \in Plan!Groups :
          Change(op, g) = IF g = "animal_core" THEN -op.amount ELSE 0
    BY <1>4, <2>1 DEF Change
  <2> DEFINE after == Plan!Plus(state, "animal_core", -op.amount)
  <2>4. after \in State /\ \A g \in Plan!Groups :
          after.mass[g] = IF g = "animal_core" THEN state.mass[g] + (-op.amount)
                          ELSE state.mass[g]
    BY <2>1, PlusAdds
  <2> HIDE DEF after
  <2>5. Plan!Apply(state, op) = after
    BY <2>2 DEF after
  <2> QED BY <1>0, <2>1, <2>3, <2>4, <2>5
<1>5. CASE ~Plan!IsSkipped(op) /\ op.type = "improve_split"
  <2>1. Plan!Apply(state, op) = [state EXCEPT !.plantPct = op.plant]
    BY <1>5 DEF Plan!Apply
  <2>0. op.plant \in 0 .. Hundred
    <3>1. /\ op.plant \in Int /\ op.animal \in Int /\ op.plant >= 0 /\ op.animal >= 0
          /\ op.plant + op.animal = Hundred
      BY <1>5 DEF IsOperation, Plan!IsSkipped
    <3> QED BY <3>1
  <2>2. [state EXCEPT !.plantPct = op.plant] \in State
        /\ [state EXCEPT !.plantPct = op.plant].mass = state.mass
    BY <2>0 DEF State
  <2>3. \A g \in Plan!Groups : Change(op, g) = 0
    BY <1>5 DEF Change
  <2> QED BY <1>0, <2>1, <2>2, <2>3
<1>6. ~Plan!IsSkipped(op) => op.type \in
          {"shift", "increase_plant_core", "reduce_animal_core", "improve_split"}
  BY DEF Plan!IsSkipped
<1> QED BY <1>1, <1>2, <1>3, <1>4, <1>5, <1>6

WholeMass(mass) ==
    mass["plant_based_core"] + mass["plant_based_non_core"]
        + mass["composite_products"] + mass["animal_core"]

\* What an operation adds to the whole: shifts and skipped operations nothing.
Added(op) ==
    IF Plan!IsSkipped(op) THEN 0
    ELSE IF op.type = "increase_plant_core" THEN op.amount
    ELSE IF op.type = "reduce_animal_core" THEN -op.amount ELSE 0

\* What an operation adds to the whole is what it adds to the groups.
LEMMA ChangesAreAdded ==
    ASSUME NEW op, IsOperation(op)
    PROVE  /\ Added(op) \in Int
           /\ Change(op, "plant_based_core") + Change(op, "plant_based_non_core")
                + Change(op, "composite_products") + Change(op, "animal_core") = Added(op)
<1> DEFINE a == "plant_based_core"   b == "plant_based_non_core"
           c == "composite_products" d == "animal_core"
<1>1. Plan!Groups = {a, b, c, d}
  BY DEF Plan!Groups
<1>2. CASE Plan!IsSkipped(op)
  BY <1>2 DEF Change, Added
<1>3. CASE ~Plan!IsSkipped(op) /\ op.type = "shift"
  <2>1. op.from \in {a, b, c, d} /\ op.to \in {a, b, c, d} /\ op.amount \in Int
    BY <1>3, <1>1 DEF Plan!IsSkipped, IsOperation
  <2> QED BY <1>3, <2>1 DEF Change, Added
<1>4. CASE ~Plan!IsSkipped(op) /\ op.type = "increase_plant_core"
  <2>1. op.amount \in Int
    BY <1>4 DEF IsOperation
  <2> QED BY <1>4, <2>1 DEF Change, Added
<1>5. CASE ~Plan!IsSkipped(op) /\ op.type = "reduce_animal_core"
  <2>1. op.amount \in Int
    BY <1>5 DEF IsOperation
  <2> QED BY <1>5, <2>1 DEF Change, Added
<1>6. CASE ~Plan!IsSkipped(op) /\ op.type = "improve_split"
  BY <1>6 DEF Change, Added
<1> QED BY <1>2, <1>3, <1>4, <1>5, <1>6 DEF Plan!IsSkipped

-----------------------------------------------------------------------------
(* The projection of a scenario: all its operations *)

\* The largest number of a set.
LEMMA MaxIsIn ==
    ASSUME NEW n \in Nat, NEW s \in SUBSET (1 .. n), s # {}
    PROVE  /\ Plan!Max(s) \in s
           /\ \A y \in s : y <= Plan!Max(s)
<1> DEFINE left == {n - x : x \in s}
<1>0. \A x \in s : x \in Int /\ n - x \in Nat
  OBVIOUS
<1>1. left \in SUBSET Nat /\ left # {}
  BY <1>0
<1>2. PICK m \in left : \A k \in left : m <= k
  BY <1>1, LeastExists
<1>3. PICK x \in s : m = n - x
  BY <1>2
<1>4. \A y \in s : n - x <= n - y
  BY <1>2, <1>3
<1>5. x \in Int /\ \A y \in s : y \in Int
  OBVIOUS
<1>6. \A y \in s : x >= y
  BY <1>4, <1>5
<1>7. Plan!Max(s) \in s /\ \A y \in s : Plan!Max(s) >= y
  BY <1>6 DEF Plan!Max
<1> QED BY <1>5, <1>7

\* What a fold over a sequence says of each set of its places.
FoldBody(seq, base, g) ==
    [s \in SUBSET DOMAIN seq |->
        IF s = {} THEN base
        ELSE Plan!Apply(g[s \ {Plan!Max(s)}], seq[Plan!Max(s)])]
FoldBy(seq, base) == CHOOSE g : g = FoldBody(seq, base, g)

\* There is a function that does so.
LEMMA FoldIsDefined ==
    ASSUME NEW n \in Nat, NEW seq, DOMAIN seq = 1 .. n, NEW base
    PROVE  FoldBy(seq, base) = FoldBody(seq, base, FoldBy(seq, base))
<1> DEFINE U == 1 .. n
           Upto(k) == {s \in SUBSET U : Cardinality(s) <= k}
           At(g, s) == IF s = {} THEN base
                       ELSE Plan!Apply(g[s \ {Plan!Max(s)}], seq[Plan!Max(s)])
           Done == {k \in Nat : \E g : g = [s \in Upto(k) |-> At(g, s)]}
<1>0. IsFiniteSet(U)
  BY FS_Interval
<1>1. \A s \in SUBSET U : IsFiniteSet(s) /\ Cardinality(s) \in Nat
                          /\ Cardinality(s) <= Cardinality(U)
  BY <1>0, FS_Subset, FS_CardinalityType
<1>2. \A s \in SUBSET U : s # {} => /\ s \ {Plan!Max(s)} \in SUBSET U
                                    /\ Cardinality(s \ {Plan!Max(s)}) = Cardinality(s) - 1
  BY <1>1, MaxIsIn, FS_RemoveElement
<1> HIDE DEF U
<1>3. 0 \in Done
  <2> DEFINE g == [s \in Upto(0) |-> base]
  <2>1. \A s \in Upto(0) : s = {}
    BY <1>1, FS_EmptySet
  <2>2. g = [s \in Upto(0) |-> At(g, s)]
    <3> HIDE DEF Upto
    <3> QED BY <2>1
  <2> HIDE DEF g
  <2> QED BY <2>2
<1>4. ASSUME NEW k \in Nat, k \in Done PROVE k + 1 \in Done
  <2>1. PICK g : g = [s \in Upto(k) |-> At(g, s)]
    BY <1>4
  <2> DEFINE h == [s \in Upto(k + 1) |-> At(g, s)]
  <2>2. Upto(k) \subseteq Upto(k + 1)
    BY <1>1
  <2>3. \A s \in Upto(k + 1) : s # {} => s \ {Plan!Max(s)} \in Upto(k)
    BY <1>1, <1>2
  <2> HIDE DEF Upto
  <2>4. \A s \in Upto(k) : h[s] = g[s]
    BY <2>1, <2>2
  <2>5. \A s \in Upto(k + 1) : At(g, s) = At(h, s)
    BY <2>3, <2>4
  <2>6. h = [s \in Upto(k + 1) |-> At(h, s)]
    <3>1. h = [s \in Upto(k + 1) |-> At(g, s)]
      OBVIOUS
    <3> HIDE DEF h, At
    <3> QED BY <2>5, <3>1
  <2> HIDE DEF h, At
  <2>7. \E f : f = [s \in Upto(k + 1) |-> At(f, s)]
    BY <2>6
  <2> QED BY <2>7
<1> HIDE DEF Done
<1>5. Cardinality(U) \in Done /\ Cardinality(U) \in Nat
  BY <1>1, <1>3, <1>4, NumberInduction
<1> USE DEF Done
<1>6. PICK g : g = [s \in Upto(Cardinality(U)) |-> At(g, s)]
  BY <1>5
<1>7. Upto(Cardinality(U)) = SUBSET U /\ DOMAIN seq = U
  BY <1>1 DEF U
<1> HIDE DEF Upto
<1>8. g = FoldBody(seq, base, g)
  BY <1>6, <1>7 DEF FoldBody
<1> QED BY <1>8 DEF FoldBy

\* The fold of the community modules.
LEMMA FoldLeftIs ==
    ASSUME NEW seq, NEW base
    PROVE  Plan!FoldLeft(Plan!Apply, base, seq) = FoldBy(seq, base)[DOMAIN seq]
<1> DEFINE B(g) == [s \in SUBSET DOMAIN seq |->
                      IF s = {} THEN base
                      ELSE Plan!Apply(g[s \ {Plan!Max(s)}], seq[Plan!Max(s)])]
<1>1. Plan!FoldLeft(Plan!Apply, base, seq) = (CHOOSE g : g = B(g))[DOMAIN seq]
  BY DEF Plan!FoldLeft, Plan!MapThenFoldSet
<1>2. \A g : B(g) = FoldBody(seq, base, g)
  BY DEF FoldBody
<1> HIDE DEF B
<1>3. (CHOOSE g : g = B(g)) = FoldBy(seq, base)
  BY <1>2 DEF FoldBy
<1> QED BY <1>1, <1>3

\* Operation by operation.
LEMMA FoldUnfolds ==
    ASSUME NEW n \in Nat, NEW seq, DOMAIN seq = 1 .. n, NEW base
    PROVE  /\ FoldBy(seq, base)[{}] = base
           /\ \A k \in Nat : k + 1 <= n =>
                FoldBy(seq, base)[1 .. (k + 1)]
                    = Plan!Apply(FoldBy(seq, base)[1 .. k], seq[k + 1])
<1> DEFINE f == FoldBy(seq, base)
<1>1. f = FoldBody(seq, base, f)
  BY FoldIsDefined
<1> HIDE DEF f
<1>2. \A s \in SUBSET (1 .. n) :
          f[s] = IF s = {} THEN base
                 ELSE Plan!Apply(f[s \ {Plan!Max(s)}], seq[Plan!Max(s)])
  <2> SUFFICES ASSUME NEW s \in SUBSET (1 .. n)
               PROVE  f[s] = IF s = {} THEN base
                             ELSE Plan!Apply(f[s \ {Plan!Max(s)}], seq[Plan!Max(s)])
    OBVIOUS
  <2>1. FoldBody(seq, base, f)[s] = IF s = {} THEN base
                 ELSE Plan!Apply(f[s \ {Plan!Max(s)}], seq[Plan!Max(s)])
    BY DEF FoldBody
  <2> QED BY <1>1, <2>1
<1>3. ASSUME NEW k \in Nat, k + 1 <= n
      PROVE  f[1 .. (k + 1)] = Plan!Apply(f[1 .. k], seq[k + 1])
  <2> DEFINE s == 1 .. (k + 1)
  <2>1. s \in SUBSET (1 .. n) /\ s # {} /\ k + 1 \in s /\ \A x \in s : x <= k + 1
    BY <1>3
  <2>2. s \ {k + 1} = 1 .. k
    OBVIOUS
  <2>3. \A x \in s : x \in Int
    OBVIOUS
  <2> HIDE DEF s
  <2>4. Plan!Max(s) \in s /\ \A y \in s : y <= Plan!Max(s)
    BY <2>1, MaxIsIn
  <2>5. Plan!Max(s) = k + 1
    <3> DEFINE m == Plan!Max(s)
    <3>1. m \in s /\ m \in Int /\ k + 1 <= m /\ m <= k + 1
      BY <2>1, <2>3, <2>4
    <3> HIDE DEF m
    <3>2. m = k + 1
      BY <3>1
    <3> QED BY <3>2 DEF m
  <2>6. f[s] = Plan!Apply(f[s \ {k + 1}], seq[k + 1])
    BY <1>2, <2>1, <2>5
  <2> QED BY <2>2, <2>6 DEF s
<1> QED BY <1>2, <1>3 DEF f
\* A way to put n operations into another order.
Reorders(f, n, ops, sorted) ==
    /\ f \in [1 .. n -> 1 .. n]
    /\ \A i, j \in 1 .. n : f[i] = f[j] => i = j
    /\ {f[i] : i \in 1 .. n} = 1 .. n
    /\ \A i \in 1 .. n : sorted[i] = ops[f[i]]

\* Sorting loses no operation and takes none twice.
LEMMA SortedFits ==
    ASSUME NEW n \in Nat, NEW ops, DOMAIN ops = 1 .. n,
           \A i \in DOMAIN ops : ops[i].order \in Int
    PROVE  \E f : Reorders(f, n, ops, Plan!Sorted(ops))
<1> DEFINE U == 1 .. n
           Earlier(i) == {j \in U : Plan!Before(ops, j, i)}
           place == [i \in U |-> Plan!Place(ops, i)]
           f == [m \in U |-> CHOOSE i \in U : Plan!Place(ops, i) = m]
<1>1. IsFiniteSet(U) /\ Cardinality(U) = n /\ U \subseteq Int
  BY FS_Interval
<1>2. \A i \in U : ops[i].order \in Int
  OBVIOUS
<1>3. DOMAIN ops = U
  OBVIOUS
<1> HIDE DEF U
<1>4. \A i, j \in U : i # j => Plan!Before(ops, i, j) \/ Plan!Before(ops, j, i)
  <2> SUFFICES ASSUME NEW i \in U, NEW j \in U, i # j
               PROVE  Plan!Before(ops, i, j) \/ Plan!Before(ops, j, i)
    OBVIOUS
  <2>1. i \in Int /\ j \in Int /\ ops[i].order \in Int /\ ops[j].order \in Int
    BY <1>1, <1>2
  <2>2. \/ ops[i].order < ops[j].order \/ ops[j].order < ops[i].order
        \/ (ops[i].order = ops[j].order /\ i < j)
        \/ (ops[j].order = ops[i].order /\ j < i)
    BY <2>1
  <2> QED BY <2>2 DEF Plan!Before
<1>5. \A i \in U : ~Plan!Before(ops, i, i)
  BY <1>1, <1>2 DEF Plan!Before
<1>6. \A i, j, k \in U :
          Plan!Before(ops, i, j) /\ Plan!Before(ops, j, k) => Plan!Before(ops, i, k)
  BY <1>1, <1>2 DEF Plan!Before
<1>7. \A i \in U : /\ Plan!Place(ops, i) = 1 + Cardinality(Earlier(i))
                   /\ Earlier(i) \in SUBSET (U \ {i})
                   /\ IsFiniteSet(Earlier(i)) /\ Cardinality(Earlier(i)) \in Nat
                   /\ Cardinality(Earlier(i)) <= n - 1
  <2> SUFFICES ASSUME NEW i \in U
               PROVE  /\ Plan!Place(ops, i) = 1 + Cardinality(Earlier(i))
                      /\ Earlier(i) \in SUBSET (U \ {i})
                      /\ IsFiniteSet(Earlier(i)) /\ Cardinality(Earlier(i)) \in Nat
                      /\ Cardinality(Earlier(i)) <= n - 1
    OBVIOUS
  <2>1. Plan!Place(ops, i) = 1 + Cardinality(Earlier(i))
    <3>1. \A S : Plan!Cardinality(S) = Cardinality(S)
      BY DEF Plan!Cardinality, Cardinality
    <3> QED BY <1>3, <3>1 DEF Plan!Place
  <2>2. Earlier(i) \in SUBSET (U \ {i})
    BY <1>5
  <2>3. IsFiniteSet(U \ {i}) /\ Cardinality(U \ {i}) = n - 1
    BY <1>1, FS_RemoveElement
  <2> HIDE DEF Earlier
  <2>4. IsFiniteSet(Earlier(i)) /\ Cardinality(Earlier(i)) <= n - 1
    BY <2>2, <2>3, FS_Subset
  <2> QED BY <2>1, <2>2, <2>4, FS_CardinalityType
<1>8. \A i, j \in U : Plan!Before(ops, i, j) => Plan!Place(ops, i) < Plan!Place(ops, j)
  <2> SUFFICES ASSUME NEW i \in U, NEW j \in U, Plan!Before(ops, i, j)
               PROVE  Plan!Place(ops, i) < Plan!Place(ops, j)
    OBVIOUS
  <2>1. Earlier(i) \subseteq Earlier(j) /\ i \in Earlier(j) /\ i \notin Earlier(i)
    BY <1>5, <1>6
  <2> HIDE DEF Earlier
  <2>2. Cardinality(Earlier(i)) <= Cardinality(Earlier(j))
        /\ Cardinality(Earlier(i)) # Cardinality(Earlier(j))
    <3>1. IsFiniteSet(Earlier(j)) /\ Earlier(i) \in SUBSET Earlier(j)
          /\ Earlier(i) # Earlier(j)
      BY <1>7, <2>1
    <3> QED BY <3>1, FS_Subset
  <2> QED BY <1>7, <2>2
<1>9. \A i \in U : Plan!Place(ops, i) \in U
  <2>1. \A m \in Nat : m <= n - 1 => 1 + m \in U
    BY DEF U
  <2> HIDE DEF Earlier
  <2> QED BY <1>7, <2>1
<1>10. \A i, j \in U : Plan!Place(ops, i) = Plan!Place(ops, j) => i = j
  <2>1. \A i \in U : Plan!Place(ops, i) \in Int
    BY <1>1, <1>9
  <2> QED BY <1>4, <1>8, <2>1
<1>11. \A m \in U : \E i \in U : Plan!Place(ops, i) = m
  <2>1. place \in Injection(U, U)
    BY <1>9, <1>10 DEF Injection, IsInjective
  <2> HIDE DEF place
  <2>2. place \in Surjection(U, U)
    BY <1>1, <2>1, FS_Injection
  <2>3. \A m \in U : \E i \in U : place[i] = m
    BY <2>2 DEF Surjection
  <2> QED BY <2>3 DEF place
<1>12. \A m \in U : f[m] \in U /\ Plan!Place(ops, f[m]) = m
  <2> SUFFICES ASSUME NEW m \in U PROVE f[m] \in U /\ Plan!Place(ops, f[m]) = m
    OBVIOUS
  <2>1. \E i \in U : Plan!Place(ops, i) = m
    BY <1>11
  <2>2. f[m] = CHOOSE i \in U : Plan!Place(ops, i) = m
    OBVIOUS
  <2> HIDE DEF f
  <2> QED BY <2>1, <2>2
<1>13. \A m \in U : Plan!Sorted(ops)[m] = ops[f[m]]
  BY <1>3 DEF Plan!Sorted
<1>14. f \in [U -> U]
  BY <1>12
<1> HIDE DEF f
<1>15. \A i, j \in U : f[i] = f[j] => i = j
  BY <1>12
<1>16. {f[i] : i \in U} = U
  <2>1. \A m \in U : f[Plan!Place(ops, m)] = m
    BY <1>9, <1>10, <1>12
  <2> QED BY <1>9, <1>12, <2>1
<1>17. Reorders(f, n, ops, Plan!Sorted(ops))
  BY <1>13, <1>14, <1>15, <1>16 DEF Reorders, U
<1> QED BY <1>17

\* What is summed up over groups and operations.
LEMMA PlanSumsOf ==
    ASSUME NEW S, NEW f(_)
    PROVE  Plan!MapThenSumSet(f, S) = Sum([x \in S |-> f(x)], S)
<1> DEFINE w == [x \in S |-> f(x)]
           B(g) == [s \in SUBSET S |->
                      IF s = {} THEN 0 ELSE f(Some(s)) + g[s \ {Some(s)}]]
<1>1. Plan!MapThenSumSet(f, S) = (CHOOSE g : g = B(g))[S]
  BY DEF Plan!MapThenSumSet, Plan!MapThenFoldSet, Some
<1>2. \A s \in SUBSET S : s # {} => w[Some(s)] = f(Some(s))
  BY SomeIsIn
<1> HIDE DEF w
<1>3. \A g : B(g) = Body(w, S, g)
  BY <1>2 DEF Body
<1> HIDE DEF B
<1>4. (CHOOSE g : g = B(g)) = SumBy(w, S)
  BY <1>3 DEF SumBy
<1> QED BY <1>1, <1>4 DEF Sum, w

Changes(ops, group) == [i \in DOMAIN ops |-> Change(ops[i], group)]
Additions(ops) == [i \in DOMAIN ops |-> Added(ops[i])]

\* The operations one after the other: each group has what they add to it, in all.
LEMMA FoldAdds ==
    ASSUME Hundred \in Nat, NEW n \in Nat, NEW seq, DOMAIN seq = 1 .. n,
           \A i \in 1 .. n : IsOperation(seq[i]), NEW base \in State
    PROVE  /\ FoldBy(seq, base)[1 .. n] \in State
           /\ \A g \in Plan!Groups :
                FoldBy(seq, base)[1 .. n].mass[g]
                    = base.mass[g] + Sum(Changes(seq, g), 1 .. n)
<1> DEFINE f == FoldBy(seq, base)
           U == 1 .. n
           Fits(k) == /\ f[1 .. k] \in State
                      /\ \A g \in Plan!Groups :
                           f[1 .. k].mass[g] = base.mass[g] + Sum(Changes(seq, g), 1 .. k)
           G == {k \in Nat : k <= n => Fits(k)}
<1>1. /\ f[{}] = base
      /\ \A k \in Nat : k + 1 <= n => f[1 .. (k + 1)] = Plan!Apply(f[1 .. k], seq[k + 1])
  BY FoldUnfolds
<1> HIDE DEF f
<1>2. \A g \in Plan!Groups : base.mass[g] \in Int
  BY DEF State, Masses
<1>3. \A g \in Plan!Groups : Weighs(Changes(seq, g), U)
  <2>1. \A i \in U, g \in Plan!Groups : Change(seq[i], g) \in Int
    BY ApplyAdds
  <2> HIDE DEF U
  <2>2. DOMAIN seq = U
    BY DEF U
  <2> QED BY <2>1, <2>2 DEF Weighs, Changes
<1>4. IsFiniteSet(U)
  BY FS_Interval
<1>5. 0 \in G
  <2>1. 1 .. 0 = {}
    OBVIOUS
  <2>2. \A g \in Plan!Groups : Sum(Changes(seq, g), {}) = 0
    BY SumOfNone
  <2>3. f[1 .. 0] = base
    BY <1>1, <2>1
  <2>4. \A g \in Plan!Groups : base.mass[g] = base.mass[g] + Sum(Changes(seq, g), 1 .. 0)
    BY <1>2, <2>1, <2>2
  <2> QED BY <2>3, <2>4
<1>6. ASSUME NEW k \in Nat, k \in G PROVE k + 1 \in G
  <2> SUFFICES ASSUME k + 1 <= n PROVE Fits(k + 1)
    OBVIOUS
  <2>1. Fits(k)
    BY <1>6
  <2>2. 1 .. (k + 1) = (1 .. k) \cup {k + 1} /\ k + 1 \notin 1 .. k
        /\ 1 .. k \in SUBSET U /\ k + 1 \in U
    OBVIOUS
  <2>3. f[1 .. (k + 1)] = Plan!Apply(f[1 .. k], seq[k + 1]) /\ IsOperation(seq[k + 1])
    BY <1>1, <2>2
  <2> DEFINE before == f[1 .. k]   after == f[1 .. (k + 1)]
  <2>4. before \in State
    BY <2>1
  <2>5. /\ after \in State
        /\ \A g \in Plan!Groups : /\ Change(seq[k + 1], g) \in Int
             /\ after.mass[g] = before.mass[g] + Change(seq[k + 1], g)
    <3> HIDE DEF before, after, Fits
    <3>1. after = Plan!Apply(before, seq[k + 1])
      BY <2>3 DEF before, after
    <3> QED BY <2>3, <2>4, <3>1, ApplyAdds
  <2>6. ASSUME NEW g \in Plan!Groups
        PROVE  after.mass[g] = base.mass[g] + Sum(Changes(seq, g), 1 .. (k + 1))
    <3>1. Weighs(Changes(seq, g), U)
      BY <1>3
    <3> HIDE DEF U
    <3>2. Sum(Changes(seq, g), (1 .. k) \cup {k + 1})
            = Changes(seq, g)[k + 1] + Sum(Changes(seq, g), 1 .. k)
      BY <1>4, <2>2, <3>1, SumWith
    <3>3. Changes(seq, g)[k + 1] = Change(seq[k + 1], g)
      BY <2>2 DEF Changes, U
    <3>4. Sum(Changes(seq, g), 1 .. k) \in Int
      BY <1>4, <2>2, <3>1, PartsAreInt
    <3>5. before.mass[g] = base.mass[g] + Sum(Changes(seq, g), 1 .. k)
      BY <2>1
    <3>6. /\ Change(seq[k + 1], g) \in Int
          /\ after.mass[g] = before.mass[g] + Change(seq[k + 1], g)
      BY <2>5
    <3>7. Sum(Changes(seq, g), 1 .. (k + 1)) = Changes(seq, g)[k + 1] + Sum(Changes(seq, g), 1 .. k)
      BY <2>2, <3>2
    <3> HIDE DEF before, after
    <3> QED BY <1>2, <3>3, <3>4, <3>5, <3>6, <3>7
  <2> QED BY <2>5, <2>6
<1> HIDE DEF G
<1>7. n \in G
  BY <1>5, <1>6, NumberInduction
<1> USE DEF G
<1> QED BY <1>7 DEF f

\* All operations of a scenario, in their order.
LEMMA AppliedAdds ==
    ASSUME Hundred \in Nat, NEW mass \in Masses, NEW ops, IsPlan(ops)
    PROVE  /\ Plan!Applied(mass, ops) \in State
           /\ IsFiniteSet(DOMAIN ops)
           /\ \A g \in Plan!Groups :
                /\ Weighs(Changes(ops, g), DOMAIN ops)
                /\ Plan!Applied(mass, ops).mass[g]
                     = mass[g] + Sum(Changes(ops, g), DOMAIN ops)
<1>1. PICK n \in Nat : DOMAIN ops = 1 .. n
  BY FS_CardinalityType DEF IsPlan
<1> DEFINE U == 1 .. n
           sorted == Plan!Sorted(ops)
           base == Plan!Base(mass)
<1>2. \A i \in U : IsOperation(ops[i])
  BY <1>1 DEF IsPlan
<1>3. IsFiniteSet(U)
  BY FS_Interval
<1>4. DOMAIN sorted = U
  BY <1>1 DEF Plan!Sorted
<1>5. PICK f \in [U -> U] :
             /\ \A i, j \in U : f[i] = f[j] => i = j
             /\ {f[i] : i \in U} = U
             /\ \A i \in U : sorted[i] = ops[f[i]]
  <2>1. \A i \in DOMAIN ops : ops[i].order \in Int
    BY <1>1, <1>2 DEF IsOperation
  <2>2. \E f : Reorders(f, n, ops, Plan!Sorted(ops))
    <3> HIDE DEF U, sorted, base
    <3> QED BY <1>1, <2>1, SortedFits
  <2> QED BY <2>2 DEF Reorders
<1>6. base \in State /\ base.mass = mass
  <2>1. Hundred \div 2 \in 0 .. Hundred
    OBVIOUS
  <2> QED BY <2>1 DEF Plan!Base, State
<1>7. Plan!Applied(mass, ops) = FoldBy(sorted, base)[U]
  BY <1>4, FoldLeftIs DEF Plan!Applied
<1> HIDE DEF sorted, base
<1>8. \A i \in U : f[i] \in U
  OBVIOUS
<1>9. \A i \in U : IsOperation(sorted[i])
  BY <1>2, <1>5, <1>8
<1>10. /\ Plan!Applied(mass, ops) \in State
       /\ \A g \in Plan!Groups : Plan!Applied(mass, ops).mass[g]
             = mass[g] + Sum(Changes(sorted, g), U)
  <2>1. /\ FoldBy(sorted, base)[1 .. n] \in State
        /\ \A g \in Plan!Groups :
             FoldBy(sorted, base)[1 .. n].mass[g]
                 = base.mass[g] + Sum(Changes(sorted, g), 1 .. n)
    <3>1. DOMAIN sorted = 1 .. n /\ \A i \in 1 .. n : IsOperation(sorted[i])
      BY <1>4, <1>9
    <3> HIDE DEF U
    <3> QED BY <1>6, <3>1, FoldAdds
  <2> QED BY <1>6, <1>7, <2>1
<1>11. \A g \in Plan!Groups : Weighs(Changes(ops, g), U)
  <2>1. \A i \in U, g \in Plan!Groups : Change(ops[i], g) \in Int
    BY <1>2, <1>6, ApplyAdds
  <2> HIDE DEF U
  <2>2. DOMAIN ops = U
    BY <1>1 DEF U
  <2> QED BY <2>1, <2>2 DEF Weighs, Changes
<1>12. ASSUME NEW g \in Plan!Groups
       PROVE  Sum(Changes(sorted, g), U) = Sum(Changes(ops, g), U)
  <2> DEFINE w == Changes(ops, g)   v == Changes(sorted, g)
  <2>1. \A i \in U : v[i] = w[f[i]]
    <3> HIDE DEF U
    <3>1. DOMAIN ops = U
      BY <1>1 DEF U
    <3> QED BY <1>4, <1>5, <1>8, <3>1 DEF Changes
  <2>2. Weighs(w, {f[i] : i \in U})
    BY <1>5, <1>11
  <2> HIDE DEF U, w, v
  <2>3. Sum(w, {f[i] : i \in U}) = Sum(v, U)
    BY <1>3, <1>5, <2>1, <2>2, SumOfImage
  <2> QED BY <1>5, <2>3 DEF w, v
<1> QED BY <1>1, <1>3, <1>10, <1>11, <1>12

Warned(ops) == [i \in DOMAIN ops |-> IF Plan!IsSkipped(ops[i]) THEN 1 ELSE 0]

\* What an operation does besides: it warns if it is skipped, and sets a split.
LEMMA ApplyWarns ==
    ASSUME NEW state \in State, NEW op, IsOperation(op)
    PROVE  /\ Plan!Apply(state, op).warnings
                = state.warnings + (IF Plan!IsSkipped(op) THEN 1 ELSE 0)
           /\ op.type # "improve_split" =>
                Plan!Apply(state, op).plantPct = state.plantPct
<1>0. /\ state.mass \in Masses /\ state.plantPct \in Int /\ state.warnings \in Int
      /\ state = [mass |-> state.mass, plantPct |-> state.plantPct,
                  warnings |-> state.warnings]
  BY DEF State
<1>1. ASSUME NEW s \in State, NEW group, NEW amount
      PROVE  /\ Plan!Plus(s, group, amount).warnings = s.warnings
             /\ Plan!Plus(s, group, amount).plantPct = s.plantPct
             /\ group \in Plan!Groups /\ amount \in Int => Plan!Plus(s, group, amount) \in State
  <2>1. "warnings" \in DOMAIN s /\ "plantPct" \in DOMAIN s
    BY DEF State
  <2>2. /\ Plan!Plus(s, group, amount).warnings = s.warnings
        /\ Plan!Plus(s, group, amount).plantPct = s.plantPct
    BY <2>1 DEF Plan!Plus
  <2> QED BY <2>2, PlusAdds
<1>2. CASE Plan!IsSkipped(op)
  <2>1. Plan!Apply(state, op) = [state EXCEPT !.warnings = @ + 1]
    BY <1>2 DEF Plan!Apply
  <2>2. [state EXCEPT !.warnings = @ + 1].warnings = state.warnings + 1
        /\ [state EXCEPT !.warnings = @ + 1].plantPct = state.plantPct
    BY DEF State
  <2> QED BY <1>2, <2>1, <2>2
<1>3. CASE ~Plan!IsSkipped(op) /\ op.type = "shift"
  <2>1. Plan!Apply(state, op) =
          IF op.from = op.to THEN state
          ELSE Plan!Plus(Plan!Plus(state, op.from, -op.amount), op.to, op.amount)
    BY <1>3 DEF Plan!Apply
  <2>2. op.from \in Plan!Groups /\ op.amount \in Int /\ -op.amount \in Int
    BY <1>3 DEF Plan!IsSkipped, IsOperation
  <2> DEFINE taken == Plan!Plus(state, op.from, -op.amount)
  <2>3. taken \in State /\ taken.warnings = state.warnings /\ taken.plantPct = state.plantPct
    BY <1>1, <2>2
  <2> HIDE DEF taken
  <2>4. /\ Plan!Plus(taken, op.to, op.amount).warnings = taken.warnings
        /\ Plan!Plus(taken, op.to, op.amount).plantPct = taken.plantPct
    BY <1>1, <2>3
  <2>5. Plan!Apply(state, op) =
          IF op.from = op.to THEN state ELSE Plan!Plus(taken, op.to, op.amount)
    BY <2>1 DEF taken
  <2> QED BY <1>0, <1>3, <2>3, <2>4, <2>5
<1>4. CASE ~Plan!IsSkipped(op) /\ op.type = "increase_plant_core"
  <2>1. Plan!Apply(state, op) = Plan!Plus(state, "plant_based_core", op.amount)
    BY <1>4 DEF Plan!Apply
  <2> QED BY <1>0, <1>1, <1>4, <2>1
<1>5. CASE ~Plan!IsSkipped(op) /\ op.type = "reduce_animal_core"
  <2>1. Plan!Apply(state, op) = Plan!Plus(state, "animal_core", -op.amount)
    BY <1>5 DEF Plan!Apply
  <2> QED BY <1>0, <1>1, <1>5, <2>1
<1>6. CASE ~Plan!IsSkipped(op) /\ op.type = "improve_split"
  <2>1. Plan!Apply(state, op) = [state EXCEPT !.plantPct = op.plant]
    BY <1>6 DEF Plan!Apply
  <2>2. [state EXCEPT !.plantPct = op.plant].warnings = state.warnings
    BY DEF State
  <2> QED BY <1>0, <1>6, <2>1, <2>2
<1>7. ~Plan!IsSkipped(op) => op.type \in
          {"shift", "increase_plant_core", "reduce_animal_core", "improve_split"}
  BY DEF Plan!IsSkipped
<1> QED BY <1>2, <1>3, <1>4, <1>5, <1>6, <1>7

\* All operations: the warnings are those of each, and without a split to set the
\* split stays.
LEMMA FoldWarns ==
    ASSUME Hundred \in Nat, NEW n \in Nat, NEW seq, DOMAIN seq = 1 .. n,
           \A i \in 1 .. n : IsOperation(seq[i]), NEW base \in State
    PROVE  /\ FoldBy(seq, base)[1 .. n].warnings
                = base.warnings + Sum(Warned(seq), 1 .. n)
           /\ (\A i \in 1 .. n : seq[i].type # "improve_split") =>
                FoldBy(seq, base)[1 .. n].plantPct = base.plantPct
<1> DEFINE f == FoldBy(seq, base)
           U == 1 .. n
           NoSplit == \A i \in U : seq[i].type # "improve_split"
           Fits(k) == /\ f[1 .. k] \in State
                      /\ f[1 .. k].warnings = base.warnings + Sum(Warned(seq), 1 .. k)
                      /\ NoSplit => f[1 .. k].plantPct = base.plantPct
           G == {k \in Nat : k <= n => Fits(k)}
<1>1. /\ f[{}] = base
      /\ \A k \in Nat : k + 1 <= n => f[1 .. (k + 1)] = Plan!Apply(f[1 .. k], seq[k + 1])
  BY FoldUnfolds
<1> HIDE DEF f
<1>2. base.warnings \in Int
  BY DEF State
<1>3. Weighs(Warned(seq), U) /\ IsFiniteSet(U)
  BY FS_Interval DEF Weighs, Warned
<1>4. 0 \in G
  <2>1. 1 .. 0 = {}
    OBVIOUS
  <2>2. Sum(Warned(seq), {}) = 0
    BY SumOfNone
  <2>3. f[1 .. 0] = base
    BY <1>1, <2>1
  <2>4. base.warnings = base.warnings + Sum(Warned(seq), 1 .. 0)
    BY <1>2, <2>1, <2>2
  <2> QED BY <2>3, <2>4
<1>5. ASSUME NEW k \in Nat, k \in G PROVE k + 1 \in G
  <2> SUFFICES ASSUME k + 1 <= n PROVE Fits(k + 1)
    OBVIOUS
  <2>1. Fits(k)
    BY <1>5
  <2>2. 1 .. (k + 1) = (1 .. k) \cup {k + 1} /\ k + 1 \notin 1 .. k
        /\ 1 .. k \in SUBSET U /\ k + 1 \in U
    OBVIOUS
  <2>3. f[1 .. (k + 1)] = Plan!Apply(f[1 .. k], seq[k + 1]) /\ IsOperation(seq[k + 1])
    BY <1>1, <2>2
  <2> DEFINE before == f[1 .. k]   after == f[1 .. (k + 1)]   op == seq[k + 1]
  <2>4. /\ before \in State /\ before.warnings = base.warnings + Sum(Warned(seq), 1 .. k)
        /\ NoSplit => before.plantPct = base.plantPct /\ op.type # "improve_split"
    BY <2>1, <2>2
  <2>5. /\ after \in State
        /\ after.warnings = before.warnings + (IF Plan!IsSkipped(op) THEN 1 ELSE 0)
        /\ op.type # "improve_split" => after.plantPct = before.plantPct
    <3>1. after = Plan!Apply(before, op) /\ IsOperation(op)
      BY <2>3
    <3> HIDE DEF before, after, op, Fits
    <3> QED BY <2>4, <3>1, ApplyAdds, ApplyWarns
  <2>6. Sum(Warned(seq), 1 .. (k + 1)) = Warned(seq)[k + 1] + Sum(Warned(seq), 1 .. k)
        /\ Sum(Warned(seq), 1 .. k) \in Int
    <3> DEFINE w == Warned(seq)   s == 1 .. k
    <3>0. s \in SUBSET U /\ k + 1 \in U /\ k + 1 \notin s
      BY <2>2
    <3> HIDE DEF U, before, after, op, NoSplit, Fits, w, s
    <3>4. Weighs(w, U) /\ IsFiniteSet(U)
      BY <1>3 DEF w
    <3>5. Sum(w, s \cup {k + 1}) = w[k + 1] + Sum(w, s)
      BY <3>0, <3>4, SumWith
    <3>1. Sum(Warned(seq), (1 .. k) \cup {k + 1})
            = Warned(seq)[k + 1] + Sum(Warned(seq), 1 .. k)
      BY <3>5 DEF w, s
    <3>2. Sum(Warned(seq), 1 .. k) \in Int
      BY <1>3, <2>2, PartsAreInt
    <3> QED BY <2>2, <3>1, <3>2
  <2>7. Warned(seq)[k + 1] = IF Plan!IsSkipped(op) THEN 1 ELSE 0
    BY <2>2 DEF Warned
  <2>8. after.warnings = base.warnings + Sum(Warned(seq), 1 .. (k + 1))
    <3> HIDE DEF before, after, op
    <3> QED BY <1>2, <2>4, <2>5, <2>6, <2>7
  <2>9. NoSplit => after.plantPct = base.plantPct
    <3> HIDE DEF before, after, op, NoSplit
    <3> QED BY <2>4, <2>5
  <2> QED BY <2>5, <2>8, <2>9
<1> HIDE DEF G
<1>6. n \in G
  BY <1>4, <1>5, NumberInduction
<1> USE DEF G
<1> QED BY <1>6 DEF f

\* Every operation warns and sets the split as it does in the given order.
LEMMA AppliedWarns ==
    ASSUME Hundred \in Nat, NEW mass \in Masses, NEW ops, IsPlan(ops)
    PROVE  /\ Plan!Applied(mass, ops).warnings = 0 + Sum(Warned(ops), DOMAIN ops)
           /\ (\A i \in DOMAIN ops : ops[i].type # "improve_split") =>
                Plan!Applied(mass, ops).plantPct = Hundred \div 2
<1>1. PICK n \in Nat : DOMAIN ops = 1 .. n
  BY FS_CardinalityType DEF IsPlan
<1> DEFINE U == 1 .. n
           sorted == Plan!Sorted(ops)
           base == Plan!Base(mass)
<1>2. \A i \in U : IsOperation(ops[i])
  BY <1>1 DEF IsPlan
<1>3. IsFiniteSet(U)
  BY FS_Interval
<1>4. DOMAIN sorted = U
  BY <1>1 DEF Plan!Sorted
<1>5. PICK f \in [U -> U] :
             /\ \A i, j \in U : f[i] = f[j] => i = j
             /\ {f[i] : i \in U} = U
             /\ \A i \in U : sorted[i] = ops[f[i]]
  <2>1. \A i \in DOMAIN ops : ops[i].order \in Int
    BY <1>1, <1>2 DEF IsOperation
  <2>2. \E f : Reorders(f, n, ops, Plan!Sorted(ops))
    <3> HIDE DEF U, sorted, base
    <3> QED BY <1>1, <2>1, SortedFits
  <2> QED BY <2>2 DEF Reorders
<1>6. base \in State /\ base.warnings = 0 /\ base.plantPct = Hundred \div 2
  <2>1. Hundred \div 2 \in 0 .. Hundred
    OBVIOUS
  <2> QED BY <2>1 DEF Plan!Base, State
<1>7. Plan!Applied(mass, ops) = FoldBy(sorted, base)[U]
  BY <1>4, FoldLeftIs DEF Plan!Applied
<1> HIDE DEF sorted, base
<1>8. \A i \in U : f[i] \in U
  OBVIOUS
<1>9. \A i \in U : IsOperation(sorted[i])
  BY <1>2, <1>5, <1>8
<1>10. /\ FoldBy(sorted, base)[1 .. n].warnings = base.warnings + Sum(Warned(sorted), 1 .. n)
       /\ (\A i \in 1 .. n : sorted[i].type # "improve_split") =>
            FoldBy(sorted, base)[1 .. n].plantPct = base.plantPct
  <2>1. DOMAIN sorted = 1 .. n /\ \A i \in 1 .. n : IsOperation(sorted[i])
    BY <1>4, <1>9
  <2> HIDE DEF U
  <2> QED BY <1>6, <2>1, FoldWarns
<1>11. (\A i \in U : ops[i].type # "improve_split") =>
          \A i \in U : sorted[i].type # "improve_split"
  BY <1>5, <1>8
<1>12. Sum(Warned(sorted), U) = Sum(Warned(ops), U)
  <2> DEFINE w == Warned(ops)   v == Warned(sorted)
  <2>0. DOMAIN ops = U
    BY <1>1
  <2>1. \A i \in U : v[i] = w[f[i]]
    <3> HIDE DEF U
    <3> QED BY <1>4, <1>5, <1>8, <2>0 DEF Warned
  <2>2. Weighs(w, {f[i] : i \in U})
    <3>1. Weighs(w, U)
      BY <2>0 DEF Weighs, Warned
    <3> QED BY <1>5, <3>1
  <2> HIDE DEF U, w, v
  <2>3. Sum(w, {f[i] : i \in U}) = Sum(v, U)
    BY <1>3, <1>5, <2>1, <2>2, SumOfImage
  <2> QED BY <1>5, <2>3 DEF w, v
<1> QED BY <1>1, <1>6, <1>7, <1>10, <1>11, <1>12

\* The whole is what its four groups are.
LEMMA WholeIsTheSum ==
    ASSUME NEW mass, \A g \in Plan!Groups : mass[g] \in Int
    PROVE  Plan!TotalMass(mass) = WholeMass(mass) /\ WholeMass(mass) \in Int
<1> DEFINE w == [g \in Plan!Groups |-> mass[g]]
           a == "plant_based_core"   b == "plant_based_non_core"
           c == "composite_products" d == "animal_core"
<1>1. Plan!TotalMass(mass) = Sum(w, Plan!Groups)
  BY PlanSumsOf DEF Plan!TotalMass
<1>2. Plan!Groups = {a, b, c, d}
  BY DEF Plan!Groups
<1>3. Weighs(w, {a, b, c, d})
  BY <1>2 DEF Weighs
<1>4. w[a] = mass[a] /\ w[b] = mass[b] /\ w[c] = mass[c] /\ w[d] = mass[d]
  BY <1>2
<1>5. Sum(w, {a, b, c, d}) = w[a] + w[b] + w[c] + w[d]
  <2>1. a # b /\ a # c /\ a # d /\ b # c /\ b # d /\ c # d
    OBVIOUS
  <2> HIDE DEF w, a, b, c, d
  <2> QED BY <1>3, <2>1, SumOfFour
<1> HIDE DEF w
<1>6. WholeMass(mass) \in Int
  BY <1>2 DEF WholeMass
<1> QED BY <1>1, <1>2, <1>4, <1>5, <1>6 DEF WholeMass

\* Two shares rounded half up make a whole, or one last place more.
LEMMA HalvesUp ==
    ASSUME NEW d \in Nat \ {0}, NEW h \in Nat, NEW p \in Nat, NEW a \in Nat, p + a = d
    PROVE  Plan!HalfUp(p * h, d) + Plan!HalfUp(a * h, d) \in {h, h + 1}
<1> DEFINE n == 2 * (p * h) + d   m == 2 * (a * h) + d   e == 2 * d
           q == n \div e  r == n % e  x == m \div e  s == m % e
<1>1. p * h + a * h = d * h
  <2>1. (p + a) * h = p * h + a * h
    OBVIOUS
  <2> QED BY <2>1
<1>2. p * h \in Nat /\ a * h \in Nat /\ d * h \in Nat
  OBVIOUS
<1>3. n \in Nat /\ m \in Nat /\ e \in Nat \ {0} /\ n + m = e * (h + 1)
  <2>1. e * (h + 1) = 2 * (d * h) + 2 * d
    OBVIOUS
  <2>2. n + m = 2 * (p * h + a * h) + 2 * d
    BY <1>2
  <2> QED BY <1>1, <1>2, <2>1, <2>2
<1>4. Plan!HalfUp(p * h, d) = q /\ Plan!HalfUp(a * h, d) = x
  BY DEF Plan!HalfUp
<1> HIDE DEF n, m, e
<1>5. /\ q \in Nat /\ r \in Nat /\ n = e * q + r /\ r < e
      /\ x \in Nat /\ s \in Nat /\ m = e * x + s /\ s < e
  BY <1>3, Division
<1> HIDE DEF q, r, x, s
<1>6. (e * q + r) + (e * x + s) = e * (h + 1)
  BY <1>3, <1>5
<1>7. \/ r = 0 /\ s = 0 /\ q + x = h + 1
      \/ r + s = e /\ q + x + 1 = h + 1
  <2> DEFINE whole == h + 1
  <2>1. whole \in Nat /\ (e * q + r) + (e * x + s) = e * whole /\ e \in Nat \ {0}
    BY <1>3, <1>6
  <2> HIDE DEF whole
  <2>2. \/ r = 0 /\ s = 0 /\ q + x = whole
        \/ r + s = e /\ q + x + 1 = whole
    BY <1>5, <2>1, Remainders
  <2> QED BY <2>2 DEF whole
<1> QED BY <1>4, <1>5, <1>7

\* project_pt_scenario keeps the books of a scenario, whatever its operations: plant and
\* animal protein make up the groups after clamping, these weigh what the base run had,
\* what was added and taken, and what clamping gave back; nothing is below zero.
THEOREM ScenariosBalance ==
    ASSUME Hundred \in Nat, ShareHundred \in Nat
    PROVE  \A mass \in Masses : \A ops :
             IsPlan(ops) => Plan!Balances(mass, ops)
<1> SUFFICES ASSUME NEW mass \in Masses, NEW ops, IsPlan(ops)
             PROVE  Plan!Balances(mass, ops)
  OBVIOUS
<1> DEFINE after == Plan!Applied(mass, ops)
           final == Plan!Clamped(after.mass)
           outcome == Plan!Project(mass, ops)
           a == "plant_based_core"   b == "plant_based_non_core"
           c == "composite_products" d == "animal_core"
           pct == after.plantPct
           U == DOMAIN ops
           given == Plan!MapThenSumSet(LAMBDA g : -after.mass[g], outcome.clamped)
<1>1. after \in State /\ IsFiniteSet(U)
      /\ \A g \in Plan!Groups : /\ Weighs(Changes(ops, g), U)
           /\ after.mass[g] = mass[g] + Sum(Changes(ops, g), U)
  BY AppliedAdds
<1>2. Plan!Groups = {a, b, c, d}
  BY DEF Plan!Groups
<1>3. /\ \A g \in Plan!Groups : mass[g] \in Int /\ after.mass[g] \in Int
      /\ pct \in 0 .. Hundred
  BY <1>1 DEF State, Masses
<1>4. \A g \in Plan!Groups : /\ final[g] = IF after.mass[g] < 0 THEN 0 ELSE after.mass[g]
                             /\ final[g] \in Nat
  <2>1. \A g \in Plan!Groups : final[g] = IF after.mass[g] < 0 THEN 0 ELSE after.mass[g]
    BY DEF Plan!Clamped
  <2> HIDE DEF after, final
  <2> QED BY <1>3, <2>1
<1>5. /\ outcome.mass = final
      /\ outcome.clamped = {g \in Plan!Groups : after.mass[g] < 0}
      /\ outcome.plant = (final[a] + final[b]) * Hundred + final[c] * pct
      /\ outcome.animal = final[d] * Hundred + final[c] * (Hundred - pct)
      /\ outcome.plantShare = Plan!ShareOf(outcome.plant, outcome.plant + outcome.animal)
      /\ outcome.animalShare = Plan!ShareOf(outcome.animal, outcome.plant + outcome.animal)
  BY DEF Plan!Project
<1> HIDE DEF after, final, outcome, pct, U
<1>6. outcome.plant \in Nat /\ outcome.animal \in Nat
      /\ outcome.plant + outcome.animal = Hundred * Plan!TotalMass(outcome.mass)
  <2> DEFINE p == final[a]   n == final[b]   m == final[c]   o == final[d]
             rest == Hundred - pct
  <2>1. p \in Nat /\ n \in Nat /\ m \in Nat /\ o \in Nat
    BY <1>2, <1>4
  <2>2. Plan!TotalMass(final) = p + n + m + o
    BY <1>4, WholeIsTheSum DEF WholeMass
  <2>3. pct \in Nat /\ rest \in Nat /\ pct + rest = Hundred
    BY <1>3
  <2> HIDE DEF p, n, m, o, rest
  <2>4. m * pct \in Nat /\ m * rest \in Nat /\ (p + n) * Hundred \in Nat /\ o * Hundred \in Nat
    BY <2>1, <2>3
  <2>5. m * pct + m * rest = m * Hundred
    <3>1. m * (pct + rest) = m * pct + m * rest
      BY <2>1, <2>3
    <3> QED BY <2>3, <3>1
  <2>6. (p + n) * Hundred + o * Hundred + m * Hundred = Hundred * (p + n + m + o)
    BY <2>1
  <2>7. outcome.plant = (p + n) * Hundred + m * pct
        /\ outcome.animal = o * Hundred + m * rest
    BY <1>5 DEF p, n, m, o, rest
  <2>8. m * Hundred \in Nat
    BY <2>1
  <2> QED BY <1>5, <2>2, <2>4, <2>5, <2>6, <2>7, <2>8
<1>7. outcome.plantShare # Plan!NoShare =>
          outcome.plantShare + outcome.animalShare \in {ShareHundred, ShareHundred + 1}
  <2> DEFINE total == outcome.plant + outcome.animal
  <2>1. CASE total > 0
    <3>1. total \in Nat \ {0}
      BY <1>6, <2>1
    <3>2. Plan!HalfUp(outcome.plant * ShareHundred, total)
            + Plan!HalfUp(outcome.animal * ShareHundred, total)
              \in {ShareHundred, ShareHundred + 1}
      <4> DEFINE p == outcome.plant   q == outcome.animal
      <4>1. p \in Nat /\ q \in Nat /\ p + q = total
        BY <1>6
      <4> HIDE DEF p, q, total
      <4>2. Plan!HalfUp(p * ShareHundred, total) + Plan!HalfUp(q * ShareHundred, total)
              \in {ShareHundred, ShareHundred + 1}
        BY <3>1, <4>1, HalvesUp
      <4> QED BY <4>2 DEF p, q
    <3> HIDE DEF total
    <3> QED BY <1>5, <2>1, <3>2 DEF Plan!ShareOf, total
  <2>2. CASE ~(total > 0)
    BY <1>5, <2>2 DEF Plan!ShareOf
  <2> QED BY <2>1, <2>2
<1>8. Plan!Net(ops) = Sum(Additions(ops), U) /\ Weighs(Additions(ops), U)
  <2> DEFINE f(i) == IF Plan!IsSkipped(ops[i]) THEN 0
                     ELSE CASE ops[i].type = "increase_plant_core" -> ops[i].amount
                            [] ops[i].type = "reduce_animal_core" -> -ops[i].amount
                            [] OTHER -> 0
             v == [i \in DOMAIN ops |-> f(i)]
  <2>1. Plan!Net(ops) = Sum(v, DOMAIN ops)
    BY PlanSumsOf DEF Plan!Net
  <2>2. \A i \in DOMAIN ops : v[i] = Additions(ops)[i]
    <3> SUFFICES ASSUME NEW i \in DOMAIN ops PROVE f(i) = Added(ops[i])
      BY DEF Additions
    <3>1. CASE ops[i].type = "increase_plant_core"
      BY <3>1 DEF Added
    <3>2. CASE ops[i].type = "reduce_animal_core"
      BY <3>2 DEF Added
    <3>3. CASE ops[i].type # "increase_plant_core" /\ ops[i].type # "reduce_animal_core"
      BY <3>3 DEF Added
    <3> QED BY <3>1, <3>2, <3>3
  <2>3. Weighs(Additions(ops), DOMAIN ops)
    BY ChangesAreAdded DEF IsPlan, Weighs, Additions
  <2> HIDE DEF v
  <2>4. IsFiniteSet(DOMAIN ops)
    BY <1>1 DEF U
  <2>5. Sum(v, DOMAIN ops) = Sum(Additions(ops), DOMAIN ops)
    BY <2>2, <2>3, <2>4, SumOfSame
  <2> QED BY <2>1, <2>3, <2>5 DEF U
<1>9. Sum(Changes(ops, a), U) + Sum(Changes(ops, b), U) + Sum(Changes(ops, c), U)
        + Sum(Changes(ops, d), U) = Sum(Additions(ops), U)
  <2> DEFINE w(g) == Changes(ops, g)
             ab == [i \in U |-> w(a)[i] + w(b)[i]]
             abc == [i \in U |-> ab[i] + w(c)[i]]
  <2>1. Weighs(w(a), U) /\ Weighs(w(b), U) /\ Weighs(w(c), U) /\ Weighs(w(d), U)
    BY <1>1, <1>2
  <2>2. \A i \in U : Additions(ops)[i] = abc[i] + w(d)[i]
    BY ChangesAreAdded DEF IsPlan, Additions, Changes, U
  <2>3. (\A i \in U : ab[i] = w(a)[i] + w(b)[i]) /\ (\A i \in U : abc[i] = ab[i] + w(c)[i])
    OBVIOUS
  <2>4. Weighs(ab, U) /\ Weighs(abc, U)
    BY <2>1 DEF Weighs
  <2> HIDE DEF w, ab, abc
  <2>5. Sum(ab, U) = Sum(w(a), U) + Sum(w(b), U)
    BY <1>1, <2>1, <2>3, SumOfBoth
  <2>6. Sum(abc, U) = Sum(ab, U) + Sum(w(c), U)
    BY <1>1, <2>1, <2>3, <2>4, SumOfBoth
  <2>7. Sum(Additions(ops), U) = Sum(abc, U) + Sum(w(d), U)
    BY <1>1, <2>1, <2>2, <2>4, SumOfBoth
  <2> QED BY <2>5, <2>6, <2>7 DEF w
<1>10. given = Plan!TotalMass(final) - Plan!TotalMass(after.mass)
  <2> DEFINE S == {g \in Plan!Groups : after.mass[g] < 0}
             w == [g \in S |-> -after.mass[g]]
             v == [g \in Plan!Groups |-> final[g] - after.mass[g]]
  <2>1. given = Sum(w, S)
    <3>1. \A T : Plan!MapThenSumSet(LAMBDA g : -after.mass[g], T)
                    = Sum([g \in T |-> -after.mass[g]], T)
      BY PlanSumsOf
    <3> QED BY <1>5, <3>1
  <2>2. IsFiniteSet(Plan!Groups)
    <3>1. Plan!Groups = ((({} \cup {a}) \cup {b}) \cup {c}) \cup {d}
      BY <1>2
    <3> QED BY <3>1, FS_EmptySet, FS_AddElement
  <2>3. S \in SUBSET Plan!Groups /\ Weighs(w, S)
    BY <1>3 DEF Weighs
  <2>4. \A g \in Plan!Groups : v[g] = IF g \in S THEN w[g] ELSE 0
    BY <1>3, <1>4
  <2>5. Weighs(v, {a, b, c, d})
    BY <1>2, <1>3, <1>4 DEF Weighs
  <2>6. v[a] = final[a] - after.mass[a] /\ v[b] = final[b] - after.mass[b]
        /\ v[c] = final[c] - after.mass[c] /\ v[d] = final[d] - after.mass[d]
    BY <1>2
  <2> HIDE DEF S, w, v, given
  <2>7. Sum(v, Plan!Groups) = Sum(w, S)
    BY <2>2, <2>3, <2>4, SumOfPart
  <2>8. Sum(v, {a, b, c, d}) = v[a] + v[b] + v[c] + v[d]
    <3>1. a # b /\ a # c /\ a # d /\ b # c /\ b # d /\ c # d
      OBVIOUS
    <3> HIDE DEF a, b, c, d
    <3> QED BY <2>5, <3>1, SumOfFour
  <2>9. /\ Plan!TotalMass(final) = final[a] + final[b] + final[c] + final[d]
        /\ Plan!TotalMass(after.mass)
              = after.mass[a] + after.mass[b] + after.mass[c] + after.mass[d]
    BY <1>3, <1>4, WholeIsTheSum DEF WholeMass
  <2>10. /\ final[a] \in Int /\ final[b] \in Int /\ final[c] \in Int /\ final[d] \in Int
         /\ after.mass[a] \in Int /\ after.mass[b] \in Int /\ after.mass[c] \in Int
         /\ after.mass[d] \in Int
    BY <1>2, <1>3, <1>4
  <2> QED BY <1>2, <2>1, <2>6, <2>7, <2>8, <2>9, <2>10
<1>11. Plan!TotalMass(after.mass) = Plan!TotalMass(mass) + Sum(Additions(ops), U)
  <2>1. /\ Plan!TotalMass(mass) = mass[a] + mass[b] + mass[c] + mass[d]
        /\ Plan!TotalMass(after.mass)
              = after.mass[a] + after.mass[b] + after.mass[c] + after.mass[d]
    BY <1>3, WholeIsTheSum DEF WholeMass
  <2>2. /\ mass[a] \in Int /\ mass[b] \in Int /\ mass[c] \in Int /\ mass[d] \in Int
        /\ Sum(Changes(ops, a), U) \in Int /\ Sum(Changes(ops, b), U) \in Int
        /\ Sum(Changes(ops, c), U) \in Int /\ Sum(Changes(ops, d), U) \in Int
    BY <1>1, <1>2, <1>3, SumIsInt
  <2>3. /\ after.mass[a] = mass[a] + Sum(Changes(ops, a), U)
        /\ after.mass[b] = mass[b] + Sum(Changes(ops, b), U)
        /\ after.mass[c] = mass[c] + Sum(Changes(ops, c), U)
        /\ after.mass[d] = mass[d] + Sum(Changes(ops, d), U)
    BY <1>1, <1>2
  <2> QED BY <1>9, <2>1, <2>2, <2>3
<1>12. /\ Plan!TotalMass(final) \in Int /\ Plan!TotalMass(mass) \in Int
       /\ Sum(Additions(ops), U) \in Int
  BY <1>1, <1>3, <1>4, <1>8, SumIsInt, WholeIsTheSum
<1>13. Plan!TotalMass(outcome.mass) = Plan!TotalMass(mass) + Plan!Net(ops) + given
  <2> HIDE DEF given
  <2> QED BY <1>5, <1>8, <1>10, <1>11, <1>12
<1>14. \A g \in Plan!Groups : outcome.mass[g] >= 0
  BY <1>4, <1>5
<1> QED BY <1>6, <1>7, <1>13, <1>14 DEF Plan!Balances, outcome, after

\* project_pt_scenario applies the operations in the order they are numbered, and any
\* other numbering gives the same masses, since nothing is clamped between them; it gives
\* the same outcome in all, if no operation sets a split.
THEOREM OrderDoesNotMatter ==
    ASSUME Hundred \in Nat
    PROVE  \A mass \in Masses : \A ops :
             IsPlan(ops) => Plan!OrderIsFree(mass, ops)
<1> SUFFICES ASSUME NEW mass \in Masses, NEW ops, IsPlan(ops)
             PROVE  Plan!OrderIsFree(mass, ops)
  OBVIOUS
<1> DEFINE back == [i \in DOMAIN ops |-> [ops[i] EXCEPT !.order = -@]]
           U == DOMAIN ops
           there == Plan!Applied(mass, ops)
           again == Plan!Applied(mass, back)
           NoSplit == \A i \in U : ops[i].type # "improve_split"
<1>1. DOMAIN back = U
  OBVIOUS
<1>2. ASSUME NEW i \in U
      PROVE  /\ IsOperation(back[i])
             /\ back[i].type = ops[i].type
             /\ Plan!IsSkipped(back[i]) <=> Plan!IsSkipped(ops[i])
             /\ \A g : Change(back[i], g) = Change(ops[i], g)
  <2> DEFINE op == ops[i]   other == [op EXCEPT !.order = -@]
  <2>1. IsOperation(op) /\ back[i] = other
    BY DEF IsPlan
  <2> HIDE DEF back
  <2>2. \A f \in DOMAIN op : f # "order" => other[f] = op[f]
    OBVIOUS
  <2>3. DOMAIN other = DOMAIN op /\ other.order = -op.order
    BY <2>1 DEF IsOperation
  <2> HIDE DEF op, other
  <2>4. other.type = op.type
    BY <2>1, <2>2 DEF IsOperation
  <2>5. op.type \in {"shift", "increase_plant_core", "reduce_animal_core"}
          => other.amount = op.amount
    BY <2>1, <2>2 DEF IsOperation
  <2>6. op.type = "shift" => other.from = op.from /\ other.to = op.to
    BY <2>1, <2>2 DEF IsOperation
  <2>7. op.type = "improve_split" => other.plant = op.plant /\ other.animal = op.animal
    BY <2>1, <2>2 DEF IsOperation
  <2>8. IsOperation(other)
    <3>1. -op.order \in Int
      BY <2>1 DEF IsOperation
    <3> QED BY <2>1, <2>3, <2>4, <2>5, <2>7, <3>1 DEF IsOperation
  <2>9. Plan!IsSkipped(other) <=> Plan!IsSkipped(op)
    BY <2>4, <2>5, <2>6, <2>7 DEF Plan!IsSkipped
  <2>10. \A g : Change(other, g) = Change(op, g)
    BY <2>4, <2>5, <2>6, <2>9 DEF Change
  <2> QED BY <2>1, <2>4, <2>8, <2>9, <2>10 DEF op
<1>3. IsPlan(back)
  <2> HIDE DEF back
  <2> QED BY <1>1, <1>2 DEF IsPlan
<1>4. /\ there \in State /\ again \in State /\ IsFiniteSet(U)
      /\ \A g \in Plan!Groups :
           /\ Weighs(Changes(ops, g), U)
           /\ there.mass[g] = mass[g] + Sum(Changes(ops, g), U)
           /\ again.mass[g] = mass[g] + Sum(Changes(back, g), U)
  <2> HIDE DEF back
  <2> QED BY <1>1, <1>3, AppliedAdds
<1>5. /\ there.warnings = 0 + Sum(Warned(ops), U)
      /\ again.warnings = 0 + Sum(Warned(back), U)
      /\ NoSplit => there.plantPct = Hundred \div 2 /\ again.plantPct = Hundred \div 2
  <2> HIDE DEF back
  <2>1. NoSplit => \A i \in DOMAIN back : back[i].type # "improve_split"
    BY <1>1, <1>2
  <2> QED BY <1>1, <1>3, <2>1, AppliedWarns
<1> HIDE DEF back, there, again
<1>6. \A g \in Plan!Groups : Sum(Changes(back, g), U) = Sum(Changes(ops, g), U)
  <2> SUFFICES ASSUME NEW g \in Plan!Groups
               PROVE  Sum(Changes(back, g), U) = Sum(Changes(ops, g), U)
    OBVIOUS
  <2> DEFINE v == Changes(back, g)   w == Changes(ops, g)
  <2>1. \A i \in U : v[i] = w[i]
    BY <1>1, <1>2 DEF Changes
  <2>2. Weighs(w, U)
    BY <1>4
  <2> HIDE DEF v, w
  <2>3. Sum(v, U) = Sum(w, U)
    BY <1>4, <2>1, <2>2, SumOfSame
  <2> QED BY <2>3 DEF v, w
<1>7. there.mass = again.mass
  <2>1. there.mass \in Masses /\ again.mass \in Masses
    BY <1>4 DEF State
  <2>2. \A g \in Plan!Groups : there.mass[g] = again.mass[g]
    BY <1>4, <1>6
  <2> QED BY <2>1, <2>2 DEF Masses
<1>8. there.warnings = again.warnings
  <2> DEFINE v == Warned(back)   w == Warned(ops)
  <2>1. \A i \in U : v[i] = w[i]
    BY <1>1, <1>2 DEF Warned
  <2>2. Weighs(w, U)
    BY DEF Weighs, Warned
  <2> HIDE DEF v, w
  <2>3. Sum(v, U) = Sum(w, U)
    BY <1>4, <2>1, <2>2, SumOfSame
  <2> QED BY <1>5, <2>3 DEF v, w
<1>9. Plan!Project(mass, ops).mass = Plan!Project(mass, back).mass
  <2>1. /\ Plan!Project(mass, ops).mass = Plan!Clamped(there.mass)
        /\ Plan!Project(mass, back).mass = Plan!Clamped(again.mass)
    BY DEF Plan!Project, there, again
  <2> QED BY <1>7, <2>1
<1>10. NoSplit => Plan!Project(mass, ops) = Plan!Project(mass, back)
  <2> SUFFICES ASSUME NoSplit PROVE Plan!Project(mass, ops) = Plan!Project(mass, back)
    OBVIOUS
  <2>1. there = again
    <3>1. there.plantPct = again.plantPct
      BY <1>5
    <3> QED BY <1>4, <1>7, <1>8, <3>1 DEF State
  <2>2. Plan!Applied(mass, ops) = Plan!Applied(mass, back)
    BY <2>1 DEF there, again
  <2> QED BY <2>2 DEF Plan!Project
<1> QED BY <1>9, <1>10 DEF Plan!OrderIsFree, back

-----------------------------------------------------------------------------
(* Counting by key *)

\* A table of counts by key counts everything once.
LEMMA CountsByKey ==
    ASSUME NEW U, IsFiniteSet(U), NEW K, IsFiniteSet(K), NEW key, \A x \in U : key[x] \in K,
           NEW f, \A s \in K : f[s] = Cardinality({x \in U : key[x] = s})
    PROVE  Sum([s \in K |-> f[s]], K) = Cardinality(U)
<1> DEFINE ones == [x \in U |-> 1]
           v == [s \in K |-> f[s]]
<1>1. \A x \in U : ones[x] = 1
  OBVIOUS
<1>2. \A s \in K : v[s] = f[s]
  OBVIOUS
<1> HIDE DEF ones, v
<1>3. Weighs(ones, U)
  BY <1>1 DEF Weighs
<1>4. Sum(ByKey(ones, U, key, K), K) = Sum(ones, U) /\ Weighs(ByKey(ones, U, key, K), K)
  BY <1>3, SumByKey
<1>5. \A s \in K : v[s] = ByKey(ones, U, key, K)[s]
  <2> SUFFICES ASSUME NEW s \in K PROVE v[s] = ByKey(ones, U, key, K)[s]
    OBVIOUS
  <2> DEFINE S == {x \in U : key[x] = s}
  <2>1. S \in SUBSET U /\ \A x \in S : ones[x] = 1
    BY <1>1
  <2>2. v[s] = Cardinality(S) /\ ByKey(ones, U, key, K)[s] = Sum(ones, S)
    BY <1>2 DEF ByKey
  <2> HIDE DEF S
  <2>3. IsFiniteSet(S)
    BY <2>1, FS_Subset
  <2>4. Sum(ones, S) = Cardinality(S)
    BY <2>1, <2>3, SumOfOnes
  <2> QED BY <2>2, <2>4
<1>6. Sum(v, K) = Sum(ByKey(ones, U, key, K), K)
  BY <1>4, <1>5, SumOfSame
<1>7. Sum(ones, U) = Cardinality(U)
  BY <1>1, SumOfOnes
<1> QED BY <1>4, <1>6, <1>7 DEF v

\* A function that takes no value twice has as many values as places.
LEMMA CountOfImage ==
    ASSUME NEW U, IsFiniteSet(U), NEW f, \A i, j \in U : f[i] = f[j] => i = j
    PROVE  /\ IsFiniteSet({f[i] : i \in U})
           /\ Cardinality({f[i] : i \in U}) = Cardinality(U)
<1> DEFINE g == [i \in U |-> f[i]]   T == {f[i] : i \in U}
<1>1. g \in Surjection(U, T) /\ g \in Injection(U, T)
  BY DEF Surjection, Injection, IsInjective
<1>2. IsFiniteSet(T)
  BY ImageIsFinite
<1> HIDE DEF g, T
<1>3. Cardinality(U) = Cardinality(T)
  BY <1>1, <1>2, FS_Injection
<1> QED BY <1>2, <1>3 DEF T

\* Counting is counting, in every module.
LEMMA OneCardinality ==
    \A S : /\ Engine!Cardinality(S) = Cardinality(S)
           /\ Wwf!Cardinality(S) = Cardinality(S)
  BY DEF Engine!Cardinality, Wwf!Cardinality, Cardinality

-----------------------------------------------------------------------------
(* The classification table *)

LEMMA NamesAreFinite ==
    IsFiniteSet(Deciders \cup {"unknown"}) /\ IsFiniteSet(GroupNames)
<1>1. Deciders \cup {"unknown"}
        = (({"deterministic"} \cup {"ai"}) \cup {"manual_review"}) \cup {"unknown"}
  BY DEF Deciders
<1>2. IsFiniteSet((({"deterministic"} \cup {"ai"}) \cup {"manual_review"}) \cup {"unknown"})
  <2>1. IsFiniteSet({"deterministic"} \cup {"ai"})
    BY FS_Singleton, FS_AddElement
  <2>2. IsFiniteSet(({"deterministic"} \cup {"ai"}) \cup {"manual_review"})
    BY <2>1, FS_AddElement
  <2> QED BY <2>2, FS_AddElement
<1>3. GroupNames = (((({"plant_based_core"} \cup {"plant_based_non_core"})
                        \cup {"composite_products"}) \cup {"animal_core"})
                        \cup {"out_of_scope"}) \cup {"unknown"}
  BY DEF GroupNames, Engine!MethodologyGroups, Engine!PlantGroups
<1>4. IsFiniteSet({"plant_based_core"} \cup {"plant_based_non_core"})
  BY FS_Singleton, FS_AddElement
<1>5. IsFiniteSet(({"plant_based_core"} \cup {"plant_based_non_core"})
                    \cup {"composite_products"})
  BY <1>4, FS_AddElement
<1>6. IsFiniteSet((({"plant_based_core"} \cup {"plant_based_non_core"})
                    \cup {"composite_products"}) \cup {"animal_core"})
  BY <1>5, FS_AddElement
<1>7. IsFiniteSet(((({"plant_based_core"} \cup {"plant_based_non_core"})
                        \cup {"composite_products"}) \cup {"animal_core"})
                        \cup {"out_of_scope"})
  BY <1>6, FS_AddElement
<1>8. IsFiniteSet((((({"plant_based_core"} \cup {"plant_based_non_core"})
                        \cup {"composite_products"}) \cup {"animal_core"})
                        \cup {"out_of_scope"}) \cup {"unknown"})
  BY <1>7, FS_AddElement
<1> QED BY <1>1, <1>2, <1>3, <1>8

\* list_classifications_route: whatever the filters, the counters by source and by
\* group cover what they leave, and without filters there is a row to be reviewed for
\* each item that the banner counts, of both methodologies.
THEOREM TablesAddUp ==
    \A catalogue, filter :
        ShownCatalogue(catalogue) /\ IsFilter(filter) => Engine!TableAddsUp(catalogue, filter)
<1> SUFFICES ASSUME NEW catalogue, NEW filter, ShownCatalogue(catalogue), IsFilter(filter)
             PROVE  Engine!TableAddsUp(catalogue, filter)
  OBVIOUS
<1> DEFINE keys == Engine!Filtered(catalogue, filter)
           table == Engine!Table(catalogue, filter)
           all == [filter EXCEPT !.source = Engine!Anything, !.group = Engine!Anything,
                                 !.least = Engine!NoValue, !.most = Engine!NoValue,
                                 !.review = Engine!Anything, !.view = "review",
                                 !.methodology = Engine!Anything]
           sources == Deciders \cup {"unknown"}
           by == [k \in keys |-> Engine!SourceShown(catalogue[k])]
           known == {k \in keys : catalogue[k].by # "none"}
           in == [k \in known |-> Engine!GroupShown(catalogue[k])]
<1>1. keys \in SUBSET DOMAIN catalogue
  BY DEF Engine!Filtered
<1>2. IsFiniteSet(keys) /\ IsFiniteSet(known) /\ known \in SUBSET keys
  <2>1. IsFiniteSet(keys)
    BY <1>1, FS_Subset DEF ShownCatalogue
  <2> HIDE DEF keys
  <2>2. known \in SUBSET keys
    OBVIOUS
  <2> QED BY <2>1, <2>2, FS_Subset
<1>3. /\ table.filtered = Cardinality(keys)
      /\ table.bySource = [s \in sources |->
            Cardinality({k \in keys : Engine!SourceShown(catalogue[k]) = s})]
      /\ table.byGroup = [g \in GroupNames |->
            Cardinality({k \in keys : Engine!GroupShown(catalogue[k]) = g})]
      /\ table.ptOpen = Cardinality({k \in DOMAIN catalogue :
                                catalogue[k].review \in Engine!OpenStatus})
      /\ table.wwfOpen = Cardinality({k \in DOMAIN catalogue :
                                catalogue[k].wwfReview \in Engine!OpenStatus})
  <2>1. sources = {"deterministic", "ai", "manual_review", "unknown"}
    BY DEF Deciders
  <2> HIDE DEF keys, sources
  <2> QED BY <2>1, OneCardinality DEF Engine!Table, GroupNames, keys
<1> HIDE DEF keys, table
<1>4. Engine!MapThenSumSet(LAMBDA s : table.bySource[s], DOMAIN table.bySource)
        = table.filtered
  <2> DEFINE f == table.bySource
  <2>1. DOMAIN f = sources /\ \A s \in sources : f[s] = Cardinality({k \in keys : by[k] = s})
    BY <1>3
  <2>2. \A k \in keys : by[k] \in sources
    <3>1. \A k \in keys : catalogue[k].by \in Deciders \cup {"none"}
      BY <1>1 DEF ShownCatalogue
    <3> QED BY <3>1 DEF Engine!SourceShown
  <2>3. IsFiniteSet(sources)
    BY NamesAreFinite
  <2> HIDE DEF f, sources, by
  <2>4. Engine!MapThenSumSet(LAMBDA s : f[s], DOMAIN f)
          = Sum([s \in DOMAIN f |-> f[s]], DOMAIN f)
    BY SumsOf
  <2>5. Sum([s \in sources |-> f[s]], sources) = Cardinality(keys)
    BY <1>2, <2>1, <2>2, <2>3, CountsByKey
  <2>6. Engine!MapThenSumSet(LAMBDA s : f[s], DOMAIN f) = Cardinality(keys)
    BY <2>1, <2>4, <2>5
  <2> QED BY <1>3, <2>6 DEF f
<1>5. /\ \A k \in keys : Engine!SourceShown(catalogue[k]) = "unknown"
                            <=> catalogue[k].by = "none"
      /\ \A g \in GroupNames : \A k \in keys :
            Engine!GroupShown(catalogue[k]) = g => catalogue[k].by # "none"
      /\ \A k \in known : in[k] \in GroupNames
  <2>1. \A k \in keys : /\ catalogue[k].by \in Deciders \cup {"none"}
                        /\ catalogue[k].by # "none" => catalogue[k].group \in GroupNames
    BY <1>1 DEF ShownCatalogue
  <2>2. "none" \notin GroupNames /\ "unknown" \notin Deciders
    BY DEF GroupNames, Engine!MethodologyGroups, Engine!PlantGroups, Deciders
  <2> QED BY <2>1, <2>2 DEF Engine!SourceShown, Engine!GroupShown
<1>6. Engine!MapThenSumSet(LAMBDA s : table.byGroup[s], DOMAIN table.byGroup)
        = Cardinality(known)
  <2> DEFINE f == table.byGroup
  <2>1. DOMAIN f = GroupNames
        /\ \A g \in GroupNames : f[g] = Cardinality({k \in known : in[k] = g})
    <3>1. \A g \in GroupNames : {k \in known : in[k] = g}
              = {k \in keys : Engine!GroupShown(catalogue[k]) = g}
      BY <1>5
    <3> QED BY <1>3, <3>1
  <2>2. IsFiniteSet(GroupNames) /\ \A k \in known : in[k] \in GroupNames
    BY <1>5, NamesAreFinite
  <2> HIDE DEF f, in, known
  <2>3. Engine!MapThenSumSet(LAMBDA s : f[s], DOMAIN f)
          = Sum([s \in DOMAIN f |-> f[s]], DOMAIN f)
    BY SumsOf
  <2>4. Sum([g \in GroupNames |-> f[g]], GroupNames) = Cardinality(known)
    BY <1>2, <2>1, <2>2, CountsByKey
  <2>5. Engine!MapThenSumSet(LAMBDA s : f[s], DOMAIN f) = Cardinality(known)
    BY <2>1, <2>3, <2>4
  <2> QED BY <2>5 DEF f
<1>7. Cardinality(known) = table.filtered - table.bySource["unknown"]
  <2> DEFINE none == {k \in keys : Engine!SourceShown(catalogue[k]) = "unknown"}
  <2>1. none = keys \ known /\ "unknown" \in sources
    BY <1>5
  <2>2. table.bySource["unknown"] = Cardinality(none)
    BY <1>3, <2>1
  <2> HIDE DEF none, known
  <2>3. /\ IsFiniteSet(none) /\ none \cup known = keys /\ none \cap known = {}
    BY <1>2, <2>1, FS_Subset
  <2>4. Cardinality(keys) = Cardinality(none) + Cardinality(known)
    BY <1>2, <2>3, CountOfBoth
  <2>5. Cardinality(none) \in Nat /\ Cardinality(known) \in Nat
    BY <1>2, <2>3, FS_CardinalityType
  <2> QED BY <1>3, <2>2, <2>4, <2>5
<1>8. Cardinality(Engine!Table(catalogue, all).rows) = table.ptOpen + table.wwfOpen
  <2> DEFINE K == DOMAIN catalogue
             pt == {k \in K : catalogue[k].review \in Engine!OpenStatus}
             wwf == {k \in K : catalogue[k].wwfReview \in Engine!OpenStatus}
             f == [k \in K |-> <<k, "protein_tracker">>]
             g == [k \in K |-> <<k, "wwf">>]
             rows == Engine!Table(catalogue, all).rows
  <2>1. /\ all.source = Engine!Anything /\ all.group = Engine!Anything
        /\ all.least = Engine!NoValue /\ all.most = Engine!NoValue
        /\ all.review = Engine!Anything /\ all.view = "review"
        /\ all.methodology = Engine!Anything
    BY DEF IsFilter
  <2> HIDE DEF all
  <2>2. Engine!Filtered(catalogue, all) = K
    BY <2>1 DEF Engine!Filtered, Engine!Passes
  <2>3. rows = Engine!ReviewRows(catalogue, K, Engine!Anything)
    BY <2>1, <2>2 DEF Engine!Table
  <2>4. rows = {f[k] : k \in pt} \cup {g[k] : k \in wwf}
    <3>1. rows = {row \in K \X {"protein_tracker", "wwf"} :
                    (IF row[2] = "wwf" THEN catalogue[row[1]].wwfReview
                     ELSE catalogue[row[1]].review) \in Engine!OpenStatus}
      BY <2>3 DEF Engine!ReviewRows
    <3> HIDE DEF rows
    <3> QED BY <3>1
  <2>5. /\ IsFiniteSet(pt) /\ IsFiniteSet(wwf)
        /\ \A i, j \in pt : f[i] = f[j] => i = j
        /\ \A i, j \in wwf : g[i] = g[j] => i = j
        /\ {f[k] : k \in pt} \cap {g[k] : k \in wwf} = {}
    <3>1. IsFiniteSet(pt) /\ IsFiniteSet(wwf)
      <4>1. pt \in SUBSET K /\ wwf \in SUBSET K /\ IsFiniteSet(K)
        BY DEF ShownCatalogue
      <4> QED BY <4>1, FS_Subset
    <3> QED BY <3>1
  <2>6. table.ptOpen = Cardinality(pt) /\ table.wwfOpen = Cardinality(wwf)
    BY <1>3
  <2> HIDE DEF pt, wwf, f, g, rows
  <2>7. /\ IsFiniteSet({f[k] : k \in pt})
        /\ Cardinality({f[k] : k \in pt}) = Cardinality(pt)
    BY <2>5, CountOfImage
  <2>8. /\ IsFiniteSet({g[k] : k \in wwf})
        /\ Cardinality({g[k] : k \in wwf}) = Cardinality(wwf)
    BY <2>5, CountOfImage
  <2>9. Cardinality(rows) = Cardinality(pt) + Cardinality(wwf)
    BY <2>4, <2>5, <2>7, <2>8, CountOfBoth
  <2> QED BY <2>6, <2>9 DEF rows
<1>9. Engine!Cardinality(Engine!Table(catalogue, all).rows) = table.ptOpen + table.wwfOpen
  <2> HIDE DEF all
  <2> QED BY <1>8, OneCardinality
<1> QED BY <1>4, <1>6, <1>7, <1>9 DEF Engine!TableAddsUp, table

-----------------------------------------------------------------------------
(* Coverage *)

\* A number divided by itself.
LEMMA Itself ==
    ASSUME NEW n \in Nat \ {0}
    PROVE  (n * 1000) \div n = 1000 /\ (n * 1000) % n = 0
<1> DEFINE q == (n * 1000) \div n   r == (n * 1000) % n
<1>1. q \in Nat /\ r \in Nat /\ n * 1000 = n * q + r /\ r < n
  BY Division
<1> HIDE DEF q, r
<1>2. n * (1000 - q) = r
  BY <1>1
<1> DEFINE k == 1000 - q
<1>3. k \in Int /\ n * k = r
  BY <1>1, <1>2
<1> HIDE DEF k
<1>4. CASE k < 0
  <2>1. n * k < 0
    BY <1>3, <1>4
  <2> QED BY <1>1, <1>3, <2>1
<1>5. CASE k > 0
  <2>1. n * k >= n
    BY <1>3, <1>5
  <2> QED BY <1>1, <1>3, <2>1
<1>6. k = 0 => q = 1000 /\ r = 0
  BY <1>1, <1>3 DEF k
<1> QED BY <1>3, <1>4, <1>5, <1>6 DEF q, r

LEMMA AllIsHundredPercent ==
    ASSUME NEW n \in Nat \ {0}
    PROVE  Engine!Percent(n, n) = 1000
<1>1. Engine!Percent(n, n) = Engine!HalfEven(n * 1000, n)
  BY DEF Engine!Percent
<1> QED BY <1>1, Itself DEF Engine!HalfEven

\* _compute_pt_coverage: a run is decorated as partial exactly when a product has no row,
\* what is called eligible is what the engine takes unless a product is unknown, and
\* both percentages are 100 when it is all.
THEOREM CoverageIsTrue ==
    ASSUME NEW catalogue, IsCatalogue(catalogue), IsFiniteSet(DOMAIN catalogue),
           \A k \in DOMAIN catalogue : catalogue[k].items \in Nat,
           Engine!Run(catalogue, TRUE).ok
    PROVE  Engine!CoverageIsHonest(catalogue, Engine!Run(catalogue, TRUE))
<1> DEFINE run == Engine!Run(catalogue, TRUE)
           rows == DOMAIN run.rows
           coverage == Engine!Coverage(catalogue, Engine!Cardinality(rows))
           all == DOMAIN catalogue
           eligible == {k \in all : Engine!Eligible(catalogue[k])}
           known == \A k \in all : catalogue[k].group # "unknown"
           f(k) == catalogue[k].items
           items == [k \in all |-> catalogue[k].items]
           sum == Sum(items, all)
<1>1. /\ coverage.partial <=> rows # all
      /\ known => coverage.eligible = Engine!Cardinality(rows) /\ eligible = rows
      /\ rows \subseteq all
  BY CoverageCounts
<1>2. ASSUME known, ~coverage.partial, NEW k \in all, catalogue[k].items > 0
      PROVE  coverage.productPct = 1000 /\ coverage.volumePct = 1000
  <2>1. rows = all /\ eligible = all
    BY <1>1, <1>2
  <2>2. Weighs(items, all) /\ \A x \in all : items[x] \in Nat
    BY DEF Weighs
  <2>3. Engine!MapThenSumSet(LAMBDA x : f(x), all) = sum
    BY SumsOf
  <2>4. sum \in Nat \ {0}
    <3>1. sum \in Nat
      BY <2>2, SumOfNat
    <3>2. sum = items[k] + Sum(items, all \ {k})
      BY <1>2, <2>2, SumWithout
    <3>3. Sum(items, all \ {k}) \in Nat
      <4>1. IsFiniteSet(all \ {k})
        BY FS_RemoveElement
      <4> QED BY <2>2, <4>1, SumOfNat
    <3> QED BY <1>2, <3>1, <3>2, <3>3
  <2>5. Engine!Cardinality(all) \in Nat \ {0}
    <3>1. Cardinality(all) \in Nat /\ (Cardinality(all) = 0 <=> all = {})
      BY FS_CardinalityType, FS_EmptySet
    <3> QED BY <1>2, <3>1, OneCardinality
  <2>6. /\ Engine!Percent(Engine!Cardinality(all), Engine!Cardinality(all)) = 1000
        /\ Engine!Percent(sum, sum) = 1000
    BY <2>4, <2>5, AllIsHundredPercent
  <2>7. /\ coverage.productPct
             = LET share == Engine!Percent(Engine!Cardinality(rows), Engine!Cardinality(all))
               IN  IF share > 1000 THEN 1000 ELSE share
        /\ coverage.volumePct
             = Engine!Percent(Engine!MapThenSumSet(LAMBDA x : f(x), eligible),
                              Engine!MapThenSumSet(LAMBDA x : f(x), all))
    <3> HIDE DEF rows
    <3> QED BY DEF Engine!Coverage
  <2> HIDE DEF rows, eligible, coverage, all, sum
  <2> QED BY <2>1, <2>3, <2>6, <2>7
<1> HIDE DEF rows, coverage, all
<1>3. ASSUME known, ~coverage.partial, \E k \in all : catalogue[k].items > 0
      PROVE  coverage.productPct = 1000 /\ coverage.volumePct = 1000
  BY <1>2, <1>3
<1> QED BY <1>1, <1>3 DEF Engine!CoverageIsHonest, rows, coverage, all

-----------------------------------------------------------------------------
(* The readiness numbers of WWF *)

SoldBy(catalogue, S) ==
    Wwf!MapThenSumSet(LAMBDA k : Wwf!Weight(catalogue[k].weight, catalogue[k]), S)

\* What is sold is the sum of the weights, for any of the products.
LEMMA SoldFits ==
    ASSUME Wwf!WWFConstantsAssumption, NEW catalogue, WWFCatalogue(catalogue)
    PROVE  /\ \A k \in DOMAIN catalogue : Sold(catalogue)[k] \in Nat
           /\ \A S \in SUBSET DOMAIN catalogue :
                SoldBy(catalogue, S) = Sum(Sold(catalogue), S)
           /\ \A k \in DOMAIN catalogue :
                catalogue[k].weight = 0 => Sold(catalogue)[k] = 0
<1> DEFINE K == DOMAIN catalogue
           a == Sold(catalogue)
<1>1. \A k \in K : a[k] = Wwf!Weight(catalogue[k].weight, catalogue[k])
                   /\ a[k] \in Nat /\ catalogue[k].items \in Nat
  <2> SUFFICES ASSUME NEW k \in K
               PROVE  a[k] = Wwf!Weight(catalogue[k].weight, catalogue[k]) /\ a[k] \in Nat
                      /\ catalogue[k].items \in Nat
    OBVIOUS
  <2>1. WWFProduct(catalogue[k]) /\ catalogue[k].weight \in Nat
        /\ catalogue[k].items \in Nat
    BY DEF WWFCatalogue, WWFProduct
  <2>2. a[k] = Wwf!Weight(catalogue[k].weight, catalogue[k])
    BY DEF Sold
  <2> QED BY <2>1, <2>2, WeightFits
<1>2. ASSUME NEW S \in SUBSET K PROVE SoldBy(catalogue, S) = Sum(a, S)
  <2> DEFINE v == [k \in S |-> Wwf!Weight(catalogue[k].weight, catalogue[k])]
  <2>1. SoldBy(catalogue, S) = Sum(v, S)
    <3>1. Wwf!MapThenSumSet(LAMBDA k : Wwf!Weight(catalogue[k].weight, catalogue[k]), S)
            = Sum(v, S)
      BY WwfSumsOf
    <3> QED BY <3>1 DEF SoldBy
  <2>2. \A k \in S : v[k] = a[k]
    BY <1>1
  <2>3. IsFiniteSet(S) /\ Weighs(a, S)
    BY <1>1, FS_Subset DEF WWFCatalogue, Weighs
  <2> HIDE DEF v, a
  <2>4. Sum(v, S) = Sum(a, S)
    BY <2>2, <2>3, SumOfSame
  <2> QED BY <2>1, <2>4
<1>3. ASSUME NEW k \in K, catalogue[k].weight = 0 PROVE a[k] = 0
  <2>1. a[k] = Wwf!HalfEven(0, Part)
    <3>1. catalogue[k].weight * catalogue[k].items = 0
      BY <1>1, <1>3
    <3> QED BY <1>1, <3>1 DEF Wwf!Weight
  <2>2. Part \in Nat \ {0}
    BY DEF Wwf!WWFConstantsAssumption
  <2>3. 0 \div Part = 0 /\ 0 % Part = 0
    BY <2>2
  <2> QED BY <2>1, <2>2, <2>3 DEF Wwf!HalfEven
<1> QED BY <1>1, <1>2, <1>3

\* A part weighs no more than the whole.
LEMMA SumOfFewer ==
    ASSUME NEW U, IsFiniteSet(U), NEW S \in SUBSET U, NEW w, \A x \in U : w[x] \in Nat
    PROVE  Sum(w, S) <= Sum(w, U) /\ Sum(w, S) \in Nat /\ Sum(w, U) \in Nat
<1> DEFINE R == U \ S
<1>1. IsFiniteSet(S) /\ IsFiniteSet(R) /\ S \cap R = {} /\ S \cup R = U
  BY FS_Subset
<1>2. Weighs(w, S) /\ Weighs(w, R) /\ (\A x \in S : w[x] \in Nat) /\ \A x \in R : w[x] \in Nat
  BY DEF Weighs
<1> HIDE DEF R
<1>3. Sum(w, S) \in Nat /\ Sum(w, R) \in Nat
  BY <1>1, <1>2, SumOfNat
<1>4. Sum(w, S \cup R) = Sum(w, S) + Sum(w, R)
  BY <1>1, <1>2, SumOfUnion
<1>5. Sum(w, U) = Sum(w, S) + Sum(w, R)
  BY <1>1, <1>4
<1> QED BY <1>3, <1>5

\* A share of what is within the total is within 100 percent, also when rounded.
LEMMA ShareIsWithin ==
    ASSUME Wwf!WWFConstantsAssumption, NEW n \in Nat, NEW total \in Nat \ {0}, n <= total
    PROVE  Wwf!HalfEven(n * ShareHundred, total) <= ShareHundred
<1> DEFINE h == Wwf!HalfEven(n * ShareHundred, total)
           all == ShareHundred
<1>1. all \in Nat /\ n * all \in Nat
  BY DEF Wwf!WWFConstantsAssumption
<1>2. h \in Nat /\ 2 * (total * h) <= 2 * (n * all) + total
  <2>1. h = Engine!HalfEven(n * ShareHundred, total)
    BY DEF Wwf!HalfEven, Engine!HalfEven
  <2> QED BY <1>1, <2>1, Rounded
<1> HIDE DEF h, all
<1>3. n * all <= total * all
  BY <1>1
<1>4. 2 * (total * h) <= 2 * (total * all) + total
  BY <1>1, <1>2, <1>3
<1>5. ASSUME h > all PROVE FALSE
  <2>1. total * h >= total * (all + 1)
    BY <1>1, <1>2, <1>5
  <2>2. total * (all + 1) = total * all + total
    BY <1>1
  <2>3. total * all \in Nat /\ total * h \in Nat
    BY <1>1, <1>2
  <2> QED BY <1>4, <2>1, <2>2, <2>3
<1> QED BY <1>1, <1>2, <1>5 DEF h, all

WeightOfGroup(P, g) == Wwf!MapThenSumSet(LAMBDA x : x.weight, InGroup(P, g))

\* Without ingredients no food group weighs more than what was sold.
LEMMA GroupIsWithin ==
    ASSUME Wwf!WWFConstantsAssumption, NEW catalogue, WWFCatalogue(catalogue),
           NEW ingredients, DOMAIN ingredients = {}, NEW g
    PROVE  LET group == WeightOfGroup(AllParts(catalogue, ingredients), g)
               total == SoldBy(catalogue, ScopeOf(catalogue))
           IN  group \in Nat /\ total \in Nat /\ group <= total
<1> DEFINE K == DOMAIN catalogue
           P == AllParts(catalogue, ingredients)
           w == Weights(P)
           U == InGroup(P, g)
           key == [x \in U |-> x.of[1]]
           c == ByKey(w, U, key, K)
           a == Sold(catalogue)
           scope == ScopeOf(catalogue)
           sold == [k \in K |-> IF k \in scope THEN a[k] ELSE 0]
<1>1. WWFIngredients(ingredients)
  BY DEF WWFIngredients
<1>2. /\ IsFiniteSet(P)
      /\ \A x \in P : x.weight \in Nat /\ x.of[1] \in K
      /\ \A k \in K : {x \in P : x.of[1] = k} = PartsOf(k, catalogue, ingredients)
  BY <1>1, AllPartsFit
<1>3. IsFiniteSet(K)
  BY DEF WWFCatalogue
<1>4. /\ \A k \in K : a[k] \in Nat
      /\ SoldBy(catalogue, scope) = Sum(a, scope)
      /\ scope \in SUBSET K
  <2>1. scope \in SUBSET K
    BY DEF ScopeOf
  <2> QED BY <2>1, SoldFits
<1>5. WeightOfGroup(P, g) = Sum(w, U)
  <2> DEFINE u == [x \in U |-> x.weight]
  <2>1. Wwf!MapThenSumSet(LAMBDA x : x.weight, U) = Sum(u, U)
    BY WwfSumsOf
  <2>2. \A x \in U : u[x] = w[x] /\ w[x] \in Nat
    BY <1>2 DEF Weights, InGroup
  <2>3. IsFiniteSet(U) /\ Weighs(w, U)
    <3>1. U \in SUBSET P
      BY DEF InGroup
    <3>2. Weighs(w, U)
      BY <2>2 DEF Weighs
    <3> HIDE DEF P, U, w
    <3> QED BY <1>2, <3>1, <3>2, FS_Subset
  <2> HIDE DEF u, w, U
  <2>4. Sum(u, U) = Sum(w, U)
    BY <2>2, <2>3, SumOfSame
  <2> QED BY <2>1, <2>4 DEF WeightOfGroup, U
<1>6. \A k \in K : c[k] <= sold[k]
  <2> SUFFICES ASSUME NEW k \in K PROVE c[k] <= sold[k]
    OBVIOUS
  <2> DEFINE parts == PartsOf(k, catalogue, ingredients)
             p == catalogue[k]
             u == [x \in parts |-> x.weight]
             S == {x \in U : key[x] = k}
  <2>1. /\ IsFiniteSet(parts)
        /\ \A x \in parts : x.weight \in Nat
        /\ Sum(u, parts)
             = (IF Wwf!InScope(p) /\ ~p.composite THEN Wwf!Weight(p.weight, p) ELSE 0)
                 + FromStep2(catalogue, ingredients)[k]
    BY <1>1, PartsFit
  <2>2. FromStep2(catalogue, ingredients)[k] = 0
    BY DEF FromStep2
  <2>3. S \in SUBSET parts /\ \A x \in parts : u[x] = w[x] /\ w[x] \in Nat
    BY <1>2 DEF InGroup, Weights
  <2>4. c[k] = Sum(w, S)
    BY DEF ByKey
  <2>5. Wwf!InScope(p) <=> k \in scope
    BY DEF ScopeOf
  <2>6. a[k] = Wwf!Weight(p.weight, p)
    BY DEF Sold
  <2>7. Weighs(w, parts)
    BY <2>3 DEF Weighs
  <2>8. sold[k] = IF k \in scope THEN a[k] ELSE 0
    OBVIOUS
  <2> HIDE DEF parts, p, u, w, c, a, scope, S, sold
  <2>9. Sum(u, parts) = Sum(w, parts)
    BY <2>1, <2>3, <2>7, SumOfSame
  <2>10. Sum(w, S) <= Sum(w, parts) /\ Sum(w, S) \in Nat /\ Sum(w, parts) \in Nat
    BY <2>1, <2>3, SumOfFewer
  <2>11. a[k] \in Nat
    BY <1>4
  <2> QED BY <2>1, <2>2, <2>4, <2>5, <2>6, <2>8, <2>9, <2>10, <2>11
<1>7. Weighs(w, U) /\ IsFiniteSet(U) /\ \A x \in U : key[x] \in K /\ w[x] \in Nat
  BY <1>2, FS_Subset DEF Weighs, Weights, InGroup
<1>8. \A k \in K : sold[k] = IF k \in scope THEN a[k] ELSE 0
  OBVIOUS
<1>9. Weighs(sold, K) /\ Weighs(a, scope) /\ IsFiniteSet(scope) /\ \A k \in scope : a[k] \in Nat
  BY <1>3, <1>4, FS_Subset DEF Weighs
<1> HIDE DEF K, P, w, U, key, a, scope, sold
<1>10. Sum(c, K) = Sum(w, U) /\ Weighs(c, K)
  BY <1>3, <1>7, SumByKey
<1> HIDE DEF c
<1>11. Sum(c, K) <= Sum(sold, K)
  BY <1>3, <1>6, <1>9, <1>10, SumOfLess
<1>12. Sum(sold, K) = Sum(a, scope)
  BY <1>3, <1>4, <1>8, <1>9, SumOfPart
<1>13. Sum(w, U) \in Nat /\ Sum(a, scope) \in Nat
  BY <1>7, <1>9, SumOfNat
<1>14. WeightOfGroup(P, g) \in Nat /\ SoldBy(catalogue, scope) \in Nat
       /\ WeightOfGroup(P, g) <= SoldBy(catalogue, scope)
  BY <1>4, <1>5, <1>10, <1>11, <1>12, <1>13
<1> QED BY <1>14 DEF P, scope

\* _wwf_calculation_preflight: the weight of a run is that of the products that are
\* counted as ready, none is missing when it was not refused, and when none is missing
\* and no ingredients are stored it is not refused.
THEOREM PreflightIsTrue ==
    ASSUME Wwf!WWFConstantsAssumption, NEW catalogue, WWFCatalogue(catalogue),
           NEW ingredients
    PROVE  Wwf!PreflightIsTheTotal(catalogue, ingredients, Wwf!Run(catalogue, ingredients))
<1> DEFINE run == Wwf!Run(catalogue, ingredients)
           shown == Wwf!Preflight(catalogue)
           K == DOMAIN catalogue
           a == Sold(catalogue)
           scope == ScopeOf(catalogue)
           ready == shown.ready
           classified == {k \in K : catalogue[k].group # "none"}
           P == AllParts(catalogue, ingredients)
           total == SoldBy(catalogue, scope)
<1>1. /\ shown.missing = Cardinality(K \ classified)
      /\ ready = {k \in classified \cap {k \in K : catalogue[k].weight > 0} :
                    Wwf!InScope(catalogue[k])}
  BY OneCardinality DEF Wwf!Preflight
<1>2. IsFiniteSet(K) /\ \A k \in K : WWFProduct(catalogue[k])
  BY DEF WWFCatalogue
<1>3. shown.missing = 0 <=> \A k \in K : catalogue[k].group # "none"
  <2>1. IsFiniteSet(K \ classified)
    BY <1>2, FS_Difference
  <2>2. Cardinality(K \ classified) = 0 <=> K \ classified = {}
    BY <2>1, FS_EmptySet
  <2> QED BY <1>1, <2>2
<1>4. ASSUME run.ok
      PROVE  /\ shown.missing = 0
             /\ run.total = Wwf!SumOver(ready, LAMBDA k :
                                Wwf!Weight(catalogue[k].weight, catalogue[k]))
  <2>1. shown.missing = 0
    <3>1. \A k \in K : catalogue[k].group # "none"
      BY <1>4 DEF Wwf!Run, Wwf!Failed
    <3> QED BY <1>3, <3>1
  <2>2. run.total = total
    BY <1>4 DEF Wwf!Run, Wwf!Failed, SoldBy, ScopeOf
  <2>3. /\ \A k \in K : a[k] \in Nat
        /\ \A S \in SUBSET K : SoldBy(catalogue, S) = Sum(a, S)
        /\ \A k \in K : catalogue[k].weight = 0 => a[k] = 0
    BY SoldFits
  <2>4. scope \in SUBSET K /\ ready \in SUBSET scope /\ ready \in SUBSET K
    BY <1>1 DEF ScopeOf
  <2>5. ASSUME NEW k \in scope PROVE a[k] = IF k \in ready THEN a[k] ELSE 0
    <3>1. catalogue[k].weight \in Nat /\ k \in K
      BY <1>2, <2>4 DEF WWFProduct
    <3>2. k \in classified
      BY <1>3, <2>1, <3>1
    <3>3. Wwf!InScope(catalogue[k])
      BY DEF ScopeOf
    <3>4. k \notin ready => catalogue[k].weight = 0
      BY <1>1, <3>1, <3>2, <3>3
    <3> QED BY <2>3, <3>1, <3>4
  <2>6. SoldBy(catalogue, ready)
          = Wwf!SumOver(ready, LAMBDA k : Wwf!Weight(catalogue[k].weight, catalogue[k]))
    BY DEF SoldBy, Wwf!SumOver
  <2>7. IsFiniteSet(scope) /\ Weighs(a, ready)
    BY <1>2, <2>3, <2>4, FS_Subset DEF Weighs
  <2> HIDE DEF run, shown, ready, a, scope
  <2>8. Sum(a, scope) = Sum(a, ready)
    BY <2>4, <2>5, <2>7, SumOfPart
  <2>9. total = SoldBy(catalogue, ready)
    BY <2>3, <2>4, <2>8
  <2> QED BY <2>1, <2>2, <2>6, <2>9
<1>5. ASSUME shown.missing = 0, DOMAIN ingredients = {}
      PROVE  run.ok
  <2> DEFINE share(g) == IF total > 0 THEN Wwf!HalfEven(WeightOfGroup(P, g) * ShareHundred, total)
                         ELSE 0
  <2>1. \A g : WeightOfGroup(P, g) \in Nat /\ total \in Nat /\ WeightOfGroup(P, g) <= total
    BY <1>5, GroupIsWithin
  <2>2. ShareHundred \in Nat
    BY DEF Wwf!WWFConstantsAssumption
  <2>3. ASSUME NEW g PROVE share(g) <= ShareHundred
    <3> HIDE DEF P, total
    <3>1. CASE total > 0
      BY <2>1, <3>1, ShareIsWithin
    <3>2. CASE ~(total > 0)
      BY <2>2, <3>2
    <3> QED BY <3>1, <3>2
  <2>4. \A g \in Wwf!FoodGroups : ~(share(g) > ShareHundred)
    <3> SUFFICES ASSUME NEW g \in Wwf!FoodGroups PROVE ~(share(g) > ShareHundred)
      OBVIOUS
    <3>1. share(g) <= ShareHundred /\ share(g) \in Int
      <4> HIDE DEF P, total
      <4>1. total > 0 => Wwf!HalfEven(WeightOfGroup(P, g) * ShareHundred, total)
                  = Engine!HalfEven(WeightOfGroup(P, g) * ShareHundred, total)
        BY DEF Wwf!HalfEven, Engine!HalfEven
      <4>2. total > 0 =>
              Engine!HalfEven(WeightOfGroup(P, g) * ShareHundred, total) \in Nat
        BY <2>1, <2>2, Rounded
      <4> QED BY <2>3, <4>1, <4>2
    <3> HIDE DEF share
    <3> QED BY <2>2, <3>1
  <2>5. ~ \E k \in K : catalogue[k].group = "none"
    BY <1>3, <1>5
  <2>6. run.ok <=> ~ (\/ \E k \in K : catalogue[k].group = "none"
                      \/ \E g \in Wwf!FoodGroups : share(g) > ShareHundred)
    BY DEF Wwf!Run, Wwf!Failed, Wwf!TotalOf, WeightOfGroup, InGroup, AllParts, PartsOf,
           SoldBy, ScopeOf
  <2> HIDE DEF share
  <2> QED BY <2>4, <2>5, <2>6
<1> HIDE DEF run, shown
<1> QED BY <1>4, <1>5 DEF Wwf!PreflightIsTheTotal, run, shown

-----------------------------------------------------------------------------
(* Comparing two runs *)

\* What lies half way between two numbers is rounded to the even one.
LEMMA TiesAreEven ==
    ASSUME NEW n \in Nat, NEW d \in Nat \ {0}, NEW h, h = Engine!HalfEven(n, d),
           2 * (d * h) = 2 * n + d \/ 2 * n = 2 * (d * h) + d
    PROVE  h % 2 = 0
<1> DEFINE q == n \div d   r == n % d
<1>1. q \in Nat /\ r \in Nat /\ n = d * q + r /\ r < d
  BY Division
<1>2. h = IF 2 * r > d \/ (2 * r = d /\ q % 2 = 1) THEN q + 1 ELSE q
  BY DEF Engine!HalfEven
<1> HIDE DEF q, r
<1>3. d * (q + 1) = d * q + d /\ d * q \in Nat
  BY <1>1
<1>4. CASE h = q + 1
  <2>1. 2 * r = d
    BY <1>1, <1>3, <1>4
  <2>2. q % 2 = 1
    BY <1>1, <1>2, <1>4, <2>1
  <2> QED BY <1>1, <1>4, <2>2
<1>5. CASE h = q
  <2>1. 2 * r = d
    BY <1>1, <1>3, <1>5
  <2>2. ~(q % 2 = 1)
    BY <1>1, <1>2, <1>5, <2>1
  <2> QED BY <1>1, <1>5, <2>2
<1> QED BY <1>2, <1>4, <1>5

\* Multiplied by the same number.
LEMMA ByTheSame ==
    ASSUME NEW a \in Int, NEW b \in Int, NEW c \in Nat, a <= b
    PROVE  c * a <= c * b
<1>1. c * (b - a) >= 0
  OBVIOUS
<1>2. c * (b - a) = c * b - c * a
  OBVIOUS
<1>3. c * a \in Int /\ c * b \in Int
  OBVIOUS
<1> QED BY <1>1, <1>2, <1>3

\* A smaller quotient is not rounded to more, whatever the divisors are.
LEMMA RoundingKeepsOrder ==
    ASSUME NEW n \in Nat, NEW d \in Nat \ {0}, NEW m \in Nat, NEW e \in Nat \ {0},
           n * e <= m * d
    PROVE  Engine!HalfEven(n, d) <= Engine!HalfEven(m, e)
<1> DEFINE h == Engine!HalfEven(n, d)
           g == Engine!HalfEven(m, e)
<1>1. h \in Nat /\ 2 * (d * h) <= 2 * n + d
  BY Rounded
<1>2. g \in Nat /\ 2 * m <= 2 * (e * g) + e
  BY Rounded
<1>3. /\ 2 * (d * h) = 2 * n + d => h % 2 = 0
      /\ 2 * m = 2 * (e * g) + e => g % 2 = 0
  BY TiesAreEven
<1> HIDE DEF h, g
<1> SUFFICES ASSUME h > g PROVE FALSE
  BY <1>1, <1>2 DEF h, g
<1> DEFINE up == 2 * n + d - 2 * (d * h)
           down == 2 * (e * g) + e - 2 * m
           over == m * d - n * e
           more == h - g - 1
           de == d * e
<1>4. up \in Nat /\ down \in Nat /\ over \in Nat /\ more \in Nat /\ de \in Nat \ {0}
  <2>1. d * h \in Nat /\ e * g \in Nat /\ m * d \in Nat /\ n * e \in Nat
    BY <1>1, <1>2
  <2>2. up \in Nat /\ down \in Nat /\ over \in Nat
    BY <1>1, <1>2, <2>1
  <2>3. more \in Nat
    BY <1>1, <1>2
  <2>4. de \in Nat /\ de > 0
    OBVIOUS
  <2> QED BY <2>2, <2>3, <2>4
<1>5. e * up + d * down + 2 * over + 2 * (de * more) = 0
  <2>1. e * up = 2 * (n * e) + de - 2 * (de * h)
    BY <1>1
  <2>2. d * down = 2 * (de * g) + de - 2 * (m * d)
    BY <1>2
  <2>3. de * more = de * h - de * g - de
    BY <1>1, <1>2
  <2>4. n * e \in Int /\ m * d \in Int /\ de * h \in Int /\ de * g \in Int /\ de \in Int
    BY <1>1, <1>2
  <2> HIDE DEF up, down, more, de
  <2> QED BY <2>1, <2>2, <2>3, <2>4
<1> HIDE DEF up, down, over, more, de
<1>6. up = 0 /\ down = 0 /\ more = 0
  <2>1. e * up \in Nat /\ d * down \in Nat /\ de * more \in Nat
    BY <1>4
  <2>2. e * up = 0 /\ d * down = 0 /\ de * more = 0
    BY <1>4, <1>5, <2>1
  <2> QED BY <1>4, <2>2
<1>7. 2 * (d * h) = 2 * n + d /\ 2 * m = 2 * (e * g) + e /\ h = g + 1
  <2>1. d * h \in Nat /\ e * g \in Nat
    BY <1>1, <1>2
  <2> QED BY <1>1, <1>2, <1>6, <2>1 DEF up, down, more
<1>8. h % 2 = 0 /\ g % 2 = 0
  BY <1>3, <1>7
<1> QED BY <1>1, <1>2, <1>7, <1>8

\* The headline of a run.
LEMMA HeadlineIs ==
    ASSUME Engine!PTConstantsAssumption, NEW catalogue, PTCatalogue(catalogue),
           NEW enriched, Engine!Run(catalogue, enriched).ok
    PROVE  LET run == Engine!Run(catalogue, enriched)
           IN  /\ run.plant \in Nat /\ run.animal \in Nat /\ run.total = run.plant + run.animal
               /\ run.plantShare = IF run.total > 0
                                   THEN Engine!HalfEven(run.plant * ShareHundred, run.total)
                                   ELSE NoValue
               /\ run.animalShare = IF run.total > 0
                                    THEN Engine!HalfEven(run.animal * ShareHundred, run.total)
                                    ELSE NoValue
               /\ run.total > 0 => /\ run.plantShare \in Nat /\ run.animalShare \in Nat
                                   /\ run.plantShare + run.animalShare = ShareHundred
<1> DEFINE run == Engine!Run(catalogue, enriched)
<1>1. run.plant \in Nat /\ run.animal \in Nat
  BY HeadlineOfRows
<1>2. /\ run.total = run.plant + run.animal
      /\ run.plantShare = Engine!ShareOf(run.plant, run.plant + run.animal)
      /\ run.animalShare = Engine!ShareOf(run.animal, run.plant + run.animal)
  BY DEF Engine!Run, Engine!Failed
<1> HIDE DEF run
<1>3. Engine!NoValue = NoValue
  BY OneEngine
<1>4. ShareHundred \in Nat
  BY DEF Engine!PTConstantsAssumption
<1>5. run.total > 0 => /\ run.plantShare \in Nat /\ run.animalShare \in Nat
                       /\ run.plantShare + run.animalShare = ShareHundred
  <2> SUFFICES ASSUME run.total > 0
               PROVE  /\ run.plantShare \in Nat /\ run.animalShare \in Nat
                      /\ run.plantShare + run.animalShare = ShareHundred
    OBVIOUS
  <2>1. run.plantShare + run.animalShare = ShareHundred
    BY <1>1, <1>2, SharesMake100
  <2>2. run.plant * ShareHundred \in Nat /\ run.animal * ShareHundred \in Nat
        /\ run.plant + run.animal \in Nat \ {0}
    BY <1>1, <1>2, <1>4
  <2>3. /\ Engine!HalfEven(run.plant * ShareHundred, run.plant + run.animal) \in Nat
        /\ Engine!HalfEven(run.animal * ShareHundred, run.plant + run.animal) \in Nat
    BY <2>2, Rounded
  <2> QED BY <1>2, <2>1, <2>2, <2>3 DEF Engine!ShareOf
<1>6. /\ run.plantShare = IF run.total > 0
                          THEN Engine!HalfEven(run.plant * ShareHundred, run.total)
                          ELSE NoValue
      /\ run.animalShare = IF run.total > 0
                           THEN Engine!HalfEven(run.animal * ShareHundred, run.total)
                           ELSE NoValue
  BY <1>2, <1>3 DEF Engine!ShareOf
<1> QED BY <1>1, <1>2, <1>5, <1>6 DEF run

\* A greater share is a greater share before it was rounded.
LEMMA GreaterShare ==
    ASSUME Engine!PTConstantsAssumption,
           NEW a \in Nat, NEW s \in Nat \ {0}, NEW b \in Nat, NEW t \in Nat \ {0},
           Engine!HalfEven(a * ShareHundred, s) < Engine!HalfEven(b * ShareHundred, t)
    PROVE  a * t < b * s
<1>1. ShareHundred \in Nat
  BY DEF Engine!PTConstantsAssumption
<1> SUFFICES ASSUME b * s <= a * t PROVE FALSE
  OBVIOUS
<1>2. a * ShareHundred \in Nat /\ b * ShareHundred \in Nat
  BY <1>1
<1>3. ShareHundred * (b * s) <= ShareHundred * (a * t)
  <2>1. b * s \in Int /\ a * t \in Int
    OBVIOUS
  <2> QED BY <1>1, <2>1, ByTheSame
<1>4. (b * ShareHundred) * s <= (a * ShareHundred) * t
  BY <1>1, <1>3
<1>5. Engine!HalfEven(b * ShareHundred, t) <= Engine!HalfEven(a * ShareHundred, s)
  BY <1>2, <1>4, RoundingKeepsOrder
<1>6. /\ Engine!HalfEven(b * ShareHundred, t) \in Nat
      /\ Engine!HalfEven(a * ShareHundred, s) \in Nat
  BY <1>2, Rounded
<1> QED BY <1>5, <1>6

\* compare_pt_runs: the direction of a comparison never contradicts the kilograms,
\* although it is taken from rounded shares; seen from the other side a comparison is
\* its opposite; what the plant share gains the animal share loses.
THEOREM ComparisonsAgree ==
    ASSUME Engine!PTConstantsAssumption,
           NEW before, PTCatalogue(before), NEW after, PTCatalogue(after), NEW enriched,
           Engine!Run(before, enriched).ok, Engine!Run(after, enriched).ok
    PROVE  Engine!ComparisonAgrees(Engine!Run(before, enriched), Engine!Run(after, enriched))
<1> DEFINE Is(run) ==
             /\ run.plant \in Nat /\ run.animal \in Nat /\ run.total = run.plant + run.animal
             /\ run.plantShare = IF run.total > 0
                                 THEN Engine!HalfEven(run.plant * ShareHundred, run.total)
                                 ELSE NoValue
             /\ run.animalShare = IF run.total > 0
                                  THEN Engine!HalfEven(run.animal * ShareHundred, run.total)
                                  ELSE NoValue
             /\ run.total > 0 => /\ run.plantShare \in Nat /\ run.animalShare \in Nat
                                 /\ run.plantShare + run.animalShare = ShareHundred
           base == Engine!Run(before, enriched)
           comp == Engine!Run(after, enriched)
           there == Engine!Comparison(base, comp)
           back == Engine!Comparison(comp, base)
           known == base.total > 0 /\ comp.total > 0
<1>1. Is(base) /\ Is(comp)
  BY HeadlineIs
<1>2. ShareHundred \in Nat
  BY DEF Engine!PTConstantsAssumption
<1> HIDE DEF base, comp
<1>3. /\ base.total \in Nat /\ comp.total \in Nat
      /\ base.plantShare # NoValue <=> base.total > 0
      /\ comp.plantShare # NoValue <=> comp.total > 0
  BY <1>1 DEF NoValue
<1>4. Engine!NoValue = NoValue
  BY OneEngine
<1>5. /\ there.plant = comp.plant - base.plant /\ back.plant = base.plant - comp.plant
      /\ there.animal = comp.animal - base.animal /\ there.total = comp.total - base.total
      /\ there.share = IF known THEN comp.plantShare - base.plantShare ELSE 0
      /\ back.share = IF known THEN base.plantShare - comp.plantShare ELSE 0
      /\ there.animalShare = IF known THEN comp.animalShare - base.animalShare ELSE 0
      /\ there.direction = Engine!DirectionOf(there.share)
  BY <1>3, <1>4 DEF Engine!Comparison
<1> HIDE DEF there, back
<1>6. there.share \in Int
  BY <1>1, <1>5
<1>7. there.direction = "improving" => there.share * 1000 > ShareHundred
  BY <1>5 DEF Engine!DirectionOf
<1>8. there.direction = "declining" => there.share * 1000 < -ShareHundred
  BY <1>5 DEF Engine!DirectionOf
<1>9. ASSUME there.direction = "improving"
      PROVE  comp.plant * base.total > base.plant * comp.total
  <2>1. there.share > 0
    BY <1>2, <1>6, <1>7, <1>9
  <2>2. known /\ base.plantShare < comp.plantShare
    BY <1>1, <1>5, <2>1
  <2>3. Engine!HalfEven(base.plant * ShareHundred, base.total)
          < Engine!HalfEven(comp.plant * ShareHundred, comp.total)
    BY <1>1, <2>2
  <2>4. base.total \in Nat \ {0} /\ comp.total \in Nat \ {0}
    BY <1>3, <2>2
  <2>5. base.plant * comp.total < comp.plant * base.total
    BY <1>1, <2>3, <2>4, GreaterShare
  <2> QED BY <1>1, <1>3, <2>5
<1>10. ASSUME there.direction = "declining"
       PROVE  comp.plant * base.total < base.plant * comp.total
  <2>1. there.share < 0
    BY <1>2, <1>6, <1>8, <1>10
  <2>2. known /\ comp.plantShare < base.plantShare
    BY <1>1, <1>5, <2>1
  <2>3. Engine!HalfEven(comp.plant * ShareHundred, comp.total)
          < Engine!HalfEven(base.plant * ShareHundred, base.total)
    BY <1>1, <2>2
  <2>4. base.total \in Nat \ {0} /\ comp.total \in Nat \ {0}
    BY <1>3, <2>2
  <2> QED BY <1>1, <2>3, <2>4, GreaterShare
<1>11. there.plant = -back.plant /\ there.share = -back.share
  BY <1>1, <1>5
<1>12. there.share = -there.animalShare
  <2>1. CASE known
    <3>1. /\ base.plantShare \in Nat /\ base.animalShare \in Nat
          /\ base.plantShare + base.animalShare = ShareHundred
          /\ comp.plantShare \in Nat /\ comp.animalShare \in Nat
          /\ comp.plantShare + comp.animalShare = ShareHundred
      BY <1>1, <2>1
    <3>2. /\ there.share = comp.plantShare - base.plantShare
          /\ there.animalShare = comp.animalShare - base.animalShare
      BY <1>5, <2>1
    <3> HIDE DEF Is, known
    <3> QED BY <1>2, <3>1, <3>2
  <2>2. CASE ~known
    BY <1>5, <2>2
  <2> QED BY <2>1, <2>2
<1>13. there.total = there.plant + there.animal
  BY <1>1, <1>5
<1> QED BY <1>9, <1>10, <1>11, <1>12, <1>13 DEF Engine!ComparisonAgrees, there, back, base, comp

\* A food group of a run weighs what its parts weigh.
LEMMA GroupWeighs ==
    ASSUME Wwf!WWFConstantsAssumption, NEW catalogue, WWFCatalogue(catalogue),
           NEW ingredients, WWFIngredients(ingredients), Wwf!Run(catalogue, ingredients).ok
    PROVE  LET run == Wwf!Run(catalogue, ingredients)
               P == AllParts(catalogue, ingredients)
           IN  /\ DOMAIN run.groups = Wwf!FoodGroups
               /\ IsFiniteSet(P) /\ \A x \in P : Weights(P)[x] = x.weight /\ x.weight \in Nat
               /\ \A g \in Wwf!FoodGroups :
                    run.groups[g] = Sum(Weights(P), InGroup(P, g)) /\ run.groups[g] \in Nat
<1> DEFINE run == Wwf!Run(catalogue, ingredients)
           P == AllParts(catalogue, ingredients)
           w == Weights(P)
<1>1. run.groups = [g \in Wwf!FoodGroups |-> WeightOfGroup(P, g)]
  BY DEF Wwf!Run, Wwf!Failed, Wwf!TotalOf, AllParts, PartsOf, WeightOfGroup, InGroup
<1>2. IsFiniteSet(P) /\ \A x \in P : x.weight \in Nat
  BY AllPartsFit
<1> HIDE DEF run, P
<1>3. \A x \in P : w[x] = x.weight /\ w[x] \in Nat
  BY <1>2 DEF Weights
<1>4. ASSUME NEW g PROVE WeightOfGroup(P, g) = Sum(w, InGroup(P, g))
                         /\ WeightOfGroup(P, g) \in Nat
  <2> DEFINE U == InGroup(P, g)
             u == [x \in U |-> x.weight]
  <2>1. Wwf!MapThenSumSet(LAMBDA x : x.weight, U) = Sum(u, U)
    BY WwfSumsOf
  <2>2. U \in SUBSET P
    BY DEF InGroup
  <2>3. \A x \in U : u[x] = w[x] /\ w[x] \in Nat
    BY <1>3, <2>2
  <2> HIDE DEF u, w, U
  <2>4. IsFiniteSet(U) /\ Weighs(w, U)
    BY <1>2, <2>2, <2>3, FS_Subset DEF Weighs
  <2>5. Sum(u, U) = Sum(w, U)
    BY <2>3, <2>4, SumOfSame
  <2>6. Sum(w, U) \in Nat
    BY <2>3, <2>4, SumOfNat
  <2> QED BY <2>1, <2>5, <2>6 DEF WeightOfGroup, U
<1> QED BY <1>1, <1>2, <1>3, <1>4 DEF run, P

\* Without dairy and fat the whole diet is the food groups.
LEMMA DietIsTheGroups ==
    ASSUME Wwf!WWFConstantsAssumption, NEW catalogue, WWFCatalogue(catalogue),
           NEW ingredients, WWFIngredients(ingredients), Wwf!Run(catalogue, ingredients).ok,
           Wwf!Run(catalogue, ingredients).groups["FG2"] = 0,
           Wwf!Run(catalogue, ingredients).groups["FG3"] = 0
    PROVE  LET run == Wwf!Run(catalogue, ingredients)
           IN  run.plant + run.animal = SumOfGroups(run, Wwf!FoodGroups)
<1> DEFINE run == Wwf!Run(catalogue, ingredients)
           P == AllParts(catalogue, ingredients)
           w == Weights(P)
           others == {x \in P : x.group \in Wwf!FoodGroups \ {"FG2"}}
           none == {x \in P : x.group = "FG3" /\ x.subgroup = "none"}
           e == [x \in P |-> Wwf!DairyEquivalent(x.group, x.subgroup, x.weight)]
           dairy == Wwf!MapThenSumSet(
                        LAMBDA x : Wwf!DairyEquivalent(x.group, x.subgroup, x.weight), P)
           fat == Wwf!MapThenSumSet(LAMBDA x : x.weight, none)
<1>1. /\ IsFiniteSet(P) /\ \A x \in P : w[x] = x.weight /\ x.weight \in Nat
      /\ "FG2" \in Wwf!FoodGroups /\ "FG3" \in Wwf!FoodGroups
      /\ Sum(w, InGroup(P, "FG2")) = 0 /\ Sum(w, InGroup(P, "FG3")) = 0
  <2>1. "FG2" \in Wwf!FoodGroups /\ "FG3" \in Wwf!FoodGroups
    BY DEF Wwf!FoodGroups
  <2> QED BY <2>1, GroupWeighs
<1>2. \A x \in P : x.group \in Wwf!FoodGroups
  BY AllPartsFit
<1>3. /\ SumOfGroups(run, Wwf!FoodGroups) = Sum(w, P)
      /\ SumOfGroups(run, Wwf!FoodGroups \ {"FG2"}) = Sum(w, others)
  <2>1. {x \in P : x.group \in Wwf!FoodGroups} = P
    BY <1>2
  <2>2. Wwf!FoodGroups \in SUBSET Wwf!FoodGroups
        /\ Wwf!FoodGroups \ {"FG2"} \in SUBSET Wwf!FoodGroups
    OBVIOUS
  <2>3. SumOfGroups(run, Wwf!FoodGroups) = Sum(w, {x \in P : x.group \in Wwf!FoodGroups})
    BY <2>2, WwfGroupsAre
  <2>4. SumOfGroups(run, Wwf!FoodGroups \ {"FG2"}) = Sum(w, others)
    BY <2>2, WwfGroupsAre
  <2> QED BY <2>1, <2>3, <2>4
<1>4. run.plant + run.animal
        = SumOfGroups(run, Wwf!FoodGroups \ {"FG2"}) + run.dairy - fat
  BY DietOfRun DEF Wwf!DietReconciles, Wwf!TotalOf, AllParts, PartsOf, SumOfGroups
<1>5. run.dairy = dairy
  <2>1. {x \in P : TRUE} = P
    OBVIOUS
  <2>2. run.dairy = Wwf!MapThenSumSet(
                        LAMBDA x : Wwf!DairyEquivalent(x.group, x.subgroup, x.weight),
                        {x \in P : TRUE})
    BY DEF Wwf!Run, Wwf!Failed, Wwf!TotalOf, AllParts, PartsOf
  <2> QED BY <2>1, <2>2
<1> HIDE DEF run, P
<1>6. \A S \in SUBSET P : /\ IsFiniteSet(S) /\ Weighs(w, S) /\ Sum(w, S) \in Nat
                           /\ \A T \in SUBSET S : Sum(w, T) <= Sum(w, S)
  <2> SUFFICES ASSUME NEW S \in SUBSET P
               PROVE  /\ IsFiniteSet(S) /\ Weighs(w, S) /\ Sum(w, S) \in Nat
                      /\ \A T \in SUBSET S : Sum(w, T) <= Sum(w, S)
    OBVIOUS
  <2>1. IsFiniteSet(S) /\ \A x \in S : w[x] \in Nat
    BY <1>1, FS_Subset
  <2> HIDE DEF w
  <2> QED BY <2>1, SumOfNat, SumOfFewer DEF Weighs
<1>7. \A x \in InGroup(P, "FG2") : x.weight = 0
  <2> SUFFICES ASSUME NEW x \in InGroup(P, "FG2") PROVE x.weight = 0
    OBVIOUS
  <2>1. {x} \in SUBSET InGroup(P, "FG2") /\ InGroup(P, "FG2") \in SUBSET P /\ {x} \in SUBSET P
        /\ x \in P
    BY DEF InGroup
  <2>2. IsFiniteSet({x}) /\ Weighs(w, {x}) /\ {x} \ {x} = {}
    BY <1>6, <2>1
  <2>3. Sum(w, {x}) <= 0 /\ Sum(w, {x}) \in Nat
    BY <1>1, <1>6, <2>1
  <2> HIDE DEF w
  <2>4. Sum(w, {x}) = w[x] + Sum(w, {x} \ {x})
    BY <2>2, SumWithout
  <2>5. Sum(w, {x}) = w[x] + 0
    BY <2>2, <2>4, SumOfNone
  <2> QED BY <1>1, <2>1, <2>3, <2>5
<1>8. dairy = 0
  <2>1. \A x \in P : e[x] = 0
    <3> SUFFICES ASSUME NEW x \in P PROVE e[x] = 0
      OBVIOUS
    <3>1. CASE x.group = "FG2"
      <4>1. x.weight = 0
        BY <1>7, <3>1 DEF InGroup
      <4>2. Wwf!Factor(x.subgroup) \in Nat
        BY DEF Wwf!Factor, Wwf!WWFConstantsAssumption
      <4> QED BY <3>1, <4>1, <4>2 DEF Wwf!DairyEquivalent
    <3>2. CASE x.group # "FG2"
      BY <3>2 DEF Wwf!DairyEquivalent
    <3> QED BY <3>1, <3>2
  <2>2. dairy = Sum(e, P)
    BY WwfSumsOf
  <2> HIDE DEF e
  <2>3. \A x \in P : e[x] = IF x \in {} THEN w[x] ELSE 0
    BY <2>1
  <2>4. {} \in SUBSET P /\ Weighs(w, {})
    BY DEF Weighs
  <2> HIDE DEF w
  <2>5. Sum(e, P) = Sum(w, {})
    BY <1>1, <2>3, <2>4, SumOfPart
  <2> QED BY <2>2, <2>5, SumOfNone
<1>9. fat = 0
  <2> DEFINE u == [x \in none |-> x.weight]
  <2>1. fat = Sum(u, none)
    BY WwfSumsOf
  <2>2. none \in SUBSET P /\ none \in SUBSET InGroup(P, "FG3") /\ InGroup(P, "FG3") \in SUBSET P
    BY DEF InGroup
  <2>3. \A x \in none : u[x] = w[x]
    BY <1>1
  <2> HIDE DEF u, none, w, fat
  <2>4. Sum(u, none) = Sum(w, none)
    BY <1>6, <2>2, <2>3, SumOfSame
  <2>5. Sum(w, none) <= 0 /\ Sum(w, none) \in Nat
    BY <1>1, <1>6, <2>2
  <2> QED BY <2>1, <2>4, <2>5
<1>10. Sum(w, P) = Sum(w, others)
  <2> DEFINE two == InGroup(P, "FG2")
  <2>1. /\ others \in SUBSET P /\ two \in SUBSET P /\ others \cap two = {}
        /\ others \cup two = P
    BY <1>2 DEF InGroup
  <2> HIDE DEF others, two, w
  <2>2. /\ IsFiniteSet(others) /\ IsFiniteSet(two) /\ Weighs(w, others) /\ Weighs(w, two)
        /\ Sum(w, others) \in Nat
    BY <1>6, <2>1
  <2>3. Sum(w, others \cup two) = Sum(w, others) + Sum(w, two)
    BY <2>1, <2>2, SumOfUnion
  <2>4. Sum(w, two) = 0
    BY <1>1 DEF two
  <2> QED BY <2>1, <2>2, <2>3, <2>4
<1>11. Sum(w, others) \in Nat
  BY <1>6
<1> QED BY <1>3, <1>4, <1>5, <1>8, <1>9, <1>10, <1>11 DEF run

\* The masses of a run are numbers.
LEMMA WwfMassesFit ==
    ASSUME Wwf!WWFConstantsAssumption, NEW catalogue, WWFCatalogue(catalogue),
           NEW ingredients, WWFIngredients(ingredients), Wwf!Run(catalogue, ingredients).ok
    PROVE  LET run == Wwf!Run(catalogue, ingredients)
           IN  run.total \in Nat /\ run.plant \in Nat /\ run.animal \in Nat
<1> DEFINE run == Wwf!Run(catalogue, ingredients)
           P == AllParts(catalogue, ingredients)
           diet(S) == Wwf!MapThenSumSet(LAMBDA x : Wwf!DietWeight(x), S)
<1>1. /\ run.plant = diet({x \in P : ~Wwf!IsAnimal(x.group, x.subgroup)})
      /\ run.animal = diet({x \in P : Wwf!IsAnimal(x.group, x.subgroup)})
      /\ run.total = SoldBy(catalogue, ScopeOf(catalogue))
  BY DEF Wwf!Run, Wwf!Failed, Wwf!TotalOf, AllParts, PartsOf, SoldBy, ScopeOf
<1>2. run.total \in Nat
  <2>1. ScopeOf(catalogue) \in SUBSET DOMAIN catalogue /\ IsFiniteSet(DOMAIN catalogue)
    BY DEF ScopeOf, WWFCatalogue
  <2>2. /\ \A k \in DOMAIN catalogue : Sold(catalogue)[k] \in Nat
        /\ SoldBy(catalogue, ScopeOf(catalogue)) = Sum(Sold(catalogue), ScopeOf(catalogue))
    BY <2>1, SoldFits
  <2>3. IsFiniteSet(ScopeOf(catalogue))
        /\ \A k \in ScopeOf(catalogue) : Sold(catalogue)[k] \in Nat
    BY <2>1, <2>2, FS_Subset
  <2>4. Sum(Sold(catalogue), ScopeOf(catalogue)) \in Nat
    BY <2>3, SumOfNat
  <2> QED BY <1>1, <2>2, <2>4
<1>3. IsFiniteSet(P) /\ \A x \in P : x.group \in Wwf!FoodGroups /\ x.weight \in Nat
  BY AllPartsFit
<1> HIDE DEF run, P
<1>4. \A x \in P : Wwf!DietWeight(x) \in Nat
  BY <1>3, DietOfPart
<1>5. ASSUME NEW S \in SUBSET P PROVE diet(S) \in Nat
  <2> DEFINE u == [x \in S |-> Wwf!DietWeight(x)]
  <2>1. diet(S) = Sum(u, S)
    BY WwfSumsOf
  <2>2. \A x \in S : u[x] \in Nat
    BY <1>4
  <2>3. IsFiniteSet(S)
    BY <1>3, FS_Subset
  <2> HIDE DEF u
  <2> QED BY <2>1, <2>2, <2>3, SumOfNat
<1> HIDE DEF diet
<1>6. /\ {x \in P : ~Wwf!IsAnimal(x.group, x.subgroup)} \in SUBSET P
      /\ {x \in P : Wwf!IsAnimal(x.group, x.subgroup)} \in SUBSET P
  OBVIOUS
<1>7. run.plant \in Nat /\ run.animal \in Nat
  BY <1>1, <1>5, <1>6
<1> QED BY <1>2, <1>7 DEF run

\* compare_wwf_runs: seen from the other side a comparison is its opposite, and the plant
\* and animal weights change by what the food groups change by, as long as there is
\* neither dairy nor fat, which the whole diet counts otherwise.
THEOREM ComparisonsMirror ==
    ASSUME Wwf!WWFConstantsAssumption,
           NEW before, WWFCatalogue(before), NEW then, WWFIngredients(then),
           NEW after, WWFCatalogue(after), NEW now, WWFIngredients(now),
           Wwf!Run(before, then).ok, Wwf!Run(after, now).ok
    PROVE  Wwf!ComparisonMirrors(Wwf!Run(before, then), Wwf!Run(after, now))
<1> DEFINE base == Wwf!Run(before, then)
           comp == Wwf!Run(after, now)
           there == Wwf!Comparison(base, comp)
           back == Wwf!Comparison(comp, base)
           FG == Wwf!FoodGroups
           opposite == [improving |-> "declining", declining |-> "improving",
                        stable |-> "stable"]
<1>1. /\ base.total \in Nat /\ base.plant \in Nat /\ base.animal \in Nat
      /\ comp.total \in Nat /\ comp.plant \in Nat /\ comp.animal \in Nat
  BY WwfMassesFit
<1>2. /\ \A g \in FG : base.groups[g] \in Nat /\ comp.groups[g] \in Nat
      /\ IsFiniteSet(FG)
  BY GroupWeighs, FoodGroupsAreFinite
<1>3. /\ base.groups["FG2"] = 0 /\ base.groups["FG3"] = 0
            => base.plant + base.animal = SumOfGroups(base, FG)
      /\ comp.groups["FG2"] = 0 /\ comp.groups["FG3"] = 0
            => comp.plant + comp.animal = SumOfGroups(comp, FG)
  BY DietIsTheGroups
<1> HIDE DEF base, comp
<1>4. /\ there.plant = comp.plant - base.plant /\ back.plant = base.plant - comp.plant
      /\ there.animal = comp.animal - base.animal /\ back.animal = base.animal - comp.animal
      /\ there.direction = Wwf!Direction(base, comp)
      /\ back.direction = Wwf!Direction(comp, base)
      /\ \A g \in FG : there.groups[g].weight = comp.groups[g] - base.groups[g]
  BY DEF Wwf!Comparison
<1> HIDE DEF there, back
<1>5. back.direction = opposite[there.direction]
  <2> DEFINE a == comp.plant * base.total
             b == base.plant * comp.total
             t == base.total * comp.total
             gain == a - b
             loss == b - a
  <2>1. a \in Nat /\ b \in Nat /\ t \in Nat /\ comp.total * base.total = t
    BY <1>1
  <2>2. there.direction = IF t = 0 THEN "stable"
                          ELSE IF gain * 1000 > t THEN "improving"
                          ELSE IF gain * 1000 < -t THEN "declining" ELSE "stable"
    BY <1>4 DEF Wwf!Direction
  <2>3. back.direction = IF t = 0 THEN "stable"
                         ELSE IF loss * 1000 > t THEN "improving"
                         ELSE IF loss * 1000 < -t THEN "declining" ELSE "stable"
    BY <1>4, <2>1 DEF Wwf!Direction
  <2> HIDE DEF a, b, t
  <2>4. loss * 1000 > t <=> gain * 1000 < -t
    BY <2>1
  <2>5. loss * 1000 < -t <=> gain * 1000 > t
    BY <2>1
  <2>6. t # 0 => ~(gain * 1000 > t /\ gain * 1000 < -t)
    BY <2>1
  <2> HIDE DEF gain, loss
  <2>7. /\ there.direction \in {"improving", "declining", "stable"}
        /\ there.direction = "improving" => back.direction = "declining"
        /\ there.direction = "declining" => back.direction = "improving"
        /\ there.direction = "stable" => back.direction = "stable"
    BY <2>2, <2>3, <2>4, <2>5, <2>6
  <2> QED BY <2>7
<1>6. there.plant = -back.plant /\ there.animal = -back.animal
  BY <1>1, <1>4
<1>7. ASSUME \A run \in {base, comp} : run.groups["FG2"] = 0 /\ run.groups["FG3"] = 0
      PROVE  there.plant + there.animal
                = Wwf!SumOver(FG, LAMBDA g : there.groups[g].weight)
  <2> DEFINE u == [g \in FG |-> base.groups[g]]
             v == [g \in FG |-> comp.groups[g]]
             d == [g \in FG |-> there.groups[g].weight]
  <2>1. /\ SumOfGroups(base, FG) = Sum(u, FG) /\ SumOfGroups(comp, FG) = Sum(v, FG)
        /\ Wwf!MapThenSumSet(LAMBDA g : there.groups[g].weight, FG) = Sum(d, FG)
    BY WwfSumsOf DEF SumOfGroups
  <2>2. \A g \in FG : v[g] = u[g] + d[g] /\ u[g] \in Int /\ d[g] \in Int /\ v[g] \in Int
    BY <1>2, <1>4
  <2> HIDE DEF u, v, d, FG
  <2>3. Weighs(u, FG) /\ Weighs(d, FG)
    BY <2>2 DEF Weighs
  <2>4. Sum(v, FG) = Sum(u, FG) + Sum(d, FG)
    BY <1>2, <2>2, <2>3, SumOfBoth
  <2>5. Sum(u, FG) \in Int /\ Sum(d, FG) \in Int
    BY <1>2, <2>3, SumIsInt
  <2>6. base.plant + base.animal = Sum(u, FG) /\ comp.plant + comp.animal = Sum(v, FG)
    BY <1>3, <1>7, <2>1
  <2>7. there.plant + there.animal = Sum(d, FG)
    BY <1>1, <1>4, <2>4, <2>5, <2>6
  <2> QED BY <2>1, <2>7 DEF Wwf!SumOver
<1> QED BY <1>5, <1>6, <1>7 DEF Wwf!ComparisonMirrors, there, back, base, comp, FG

-----------------------------------------------------------------------------
(* The export of a WWF run *)

\* The lines of an export, added up over any of the products.
WeightOfLines(lines, S) == Wwf!MapThenSumSet(LAMBDA k : lines[k].row.weight, S)

LEMMA LinesWeigh ==
    ASSUME Wwf!WWFConstantsAssumption, NEW catalogue, WWFCatalogue(catalogue),
           NEW now, NEW again, NEW S \in SUBSET DOMAIN catalogue
    PROVE  WeightOfLines(Wwf!ExportLines(Wwf!Rows(catalogue), now, again), S)
             = Sum(Sold(catalogue), S)
<1> DEFINE lines == Wwf!ExportLines(Wwf!Rows(catalogue), now, again)
           a == Sold(catalogue)
           v == [k \in S |-> lines[k].row.weight]
<1>1. WeightOfLines(lines, S) = Sum(v, S)
  <2>1. Wwf!MapThenSumSet(LAMBDA k : lines[k].row.weight, S) = Sum(v, S)
    BY WwfSumsOf
  <2> QED BY <2>1 DEF WeightOfLines
<1>2. \A k \in S : v[k] = a[k]
  BY DEF Wwf!ExportLines, Wwf!Rows, Sold
<1>3. IsFiniteSet(S) /\ Weighs(a, S)
  BY SoldFits, FS_Subset DEF WWFCatalogue, Weighs
<1> HIDE DEF v, a, lines
<1>4. Sum(v, S) = Sum(a, S)
  BY <1>2, <1>3, SumOfSame
<1> QED BY <1>1, <1>4 DEF lines, a

\* The export of a run (ExportAgrees): whoever adds up its lines gets the total, the
\* four buckets and the share of composites of the headline beside them, whatever
\* happened since to products, classifications and ingredients.
LEMMA ExportsAddUp ==
    ASSUME Wwf!WWFConstantsAssumption, NEW catalogue, WWFCatalogue(catalogue),
           OnlyCompositesAreFiled(catalogue), NEW ingredients, NEW now, NEW again,
           Wwf!Run(catalogue, ingredients).ok
    PROVE  Wwf!ExportAgrees(
               Wwf!Exported(Wwf!Run(catalogue, ingredients), Wwf!Rows(catalogue), now, again))
<1> DEFINE run == Wwf!Run(catalogue, ingredients)
           export == Wwf!Exported(run, Wwf!Rows(catalogue), now, again)
           lines == export.lines
           scope == {k \in DOMAIN lines : Wwf!InScope(lines[k].row)}
           inBucket(b) == {k \in scope : lines[k].row.bucket = b}
           filed == UNION {inBucket(b) : b \in Wwf!Buckets}
           a == Sold(catalogue)
<1>1. /\ lines = Wwf!ExportLines(Wwf!Rows(catalogue), now, again)
      /\ export.total = run.total /\ export.buckets = run.buckets
      /\ export.composites # <<>> => export.composites = <<100 * run.composites, run.total>>
  BY DEF Wwf!Exported
<1>2. DOMAIN lines = DOMAIN catalogue
      /\ \A k \in DOMAIN catalogue : /\ lines[k].row.group = catalogue[k].group
                                     /\ lines[k].row.bucket = catalogue[k].bucket
  <2> HIDE DEF export
  <2> QED BY <1>1 DEF Wwf!ExportLines, Wwf!Rows
<1>3. scope = ScopeOf(catalogue)
  BY <1>2 DEF ScopeOf, Wwf!InScope
<1>4. \A b \in Wwf!Buckets :
        inBucket(b) = {k \in CompositesOf(catalogue) : catalogue[k].bucket = b}
  <2> HIDE DEF lines
  <2> QED BY <1>2, <1>3 DEF CompositesOf, ScopeOf, OnlyCompositesAreFiled
<1>5. filed = CompositesOf(catalogue)
  <2>1. \A k \in CompositesOf(catalogue) : catalogue[k].bucket \in Wwf!Buckets
    BY DEF CompositesOf, ScopeOf, WWFCatalogue, WWFProduct
  <2> HIDE DEF lines
  <2> QED BY <1>4, <2>1
<1>6. /\ run.total = Sum(a, ScopeOf(catalogue))
      /\ run.composites = Sum(a, CompositesOf(catalogue))
      /\ \A b \in Wwf!Buckets :
           run.buckets[b] = Sum(a, {k \in CompositesOf(catalogue) : catalogue[k].bucket = b})
  BY WwfSumsAre
<1>7. \A S \in SUBSET DOMAIN catalogue : WeightOfLines(lines, S) = Sum(a, S)
  BY <1>1, LinesWeigh
<1>8. ScopeOf(catalogue) \subseteq DOMAIN catalogue
      /\ CompositesOf(catalogue) \subseteq DOMAIN catalogue
  BY DEF ScopeOf, CompositesOf
<1> HIDE DEF run, lines, a
<1>9. WeightOfLines(lines, scope) = run.total
  BY <1>3, <1>6, <1>7, <1>8
<1>10. \A b \in Wwf!Buckets : WeightOfLines(lines, inBucket(b)) = run.buckets[b]
  BY <1>4, <1>6, <1>7, <1>8
<1>11. WeightOfLines(lines, filed) = run.composites
  BY <1>5, <1>6, <1>7, <1>8
<1>12. export.composites # <<>> =>
         export.composites[1] * WeightOfLines(lines, scope)
           = 100 * WeightOfLines(lines, filed) * export.composites[2]
  <2> HAVE export.composites # <<>>
  <2>1. export.composites[1] = 100 * run.composites /\ export.composites[2] = run.total
    BY <1>1
  <2> HIDE DEF export, scope, filed
  <2> QED BY <2>1, <1>9, <1>11
<1> HIDE DEF export
<1>13. Wwf!ExportAgrees(export)
  BY <1>1, <1>9, <1>10, <1>12
  DEF Wwf!ExportAgrees, Wwf!SumOver, WeightOfLines, lines, scope, inBucket, filed
<1> QED BY <1>13 DEF export, run

-----------------------------------------------------------------------------
(* What the reports make of the rows of a Protein Tracker run *)

FullOf(run) == [k \in DOMAIN run.rows |-> run.rows[k].full]
PlantOf(run) == [k \in DOMAIN run.rows |-> run.rows[k].plant]
AnimalOf(run) == [k \in DOMAIN run.rows |-> run.rows[k].animal]

\* The masses that a run takes from its rows.
LEMMA MassesOfRows ==
    ASSUME NEW run, IsFiniteSet(DOMAIN run.rows),
           \A k \in DOMAIN run.rows :
                /\ run.rows[k].full \in Nat /\ run.rows[k].plant \in Nat
                /\ run.rows[k].animal \in Nat /\ run.rows[k].split \in BOOLEAN
    PROVE  LET rows == run.rows
               half == Engine!HalfEven(Sum(FullOf(run), UnsplitRows(rows)), 2)
           IN  /\ \A group : Engine!GroupProtein(rows, group)
                                = Sum(FullOf(run), RowsIn(rows, group))
               /\ Engine!PlantProtein(rows) =
                    Sum(FullOf(run), RowsIn(rows, "plant_based_core"))
                      + Sum(FullOf(run), RowsIn(rows, "plant_based_non_core"))
                      + Sum(PlantOf(run), SplitRows(rows)) + half
               /\ Engine!AnimalProtein(rows) =
                    Sum(FullOf(run), RowsIn(rows, "animal_core"))
                      + Sum(AnimalOf(run), SplitRows(rows)) + half
<1> DEFINE rows == run.rows
           full == FullOf(run)
           plant == PlantOf(run)
           animal == AnimalOf(run)
<1>1. \A k \in DOMAIN rows :
                /\ rows[k].full \in Nat /\ full[k] = rows[k].full
                /\ rows[k].plant \in Nat /\ plant[k] = rows[k].plant
                /\ rows[k].animal \in Nat /\ animal[k] = rows[k].animal
  BY DEF FullOf, PlantOf, AnimalOf
<1>2. IsFiniteSet(DOMAIN rows) /\ \A k \in DOMAIN rows : rows[k].split \in BOOLEAN
  OBVIOUS
<1> HIDE DEF rows, full, plant, animal
<1> QED BY <1>1, <1>2, MassesAreSums DEF rows, full, plant, animal

\* The rows of a run, and its masses as sums over them.
LEMMA RunWeighs ==
    ASSUME Engine!PTConstantsAssumption, NEW catalogue, PTCatalogue(catalogue),
           NEW enriched, Engine!Run(catalogue, enriched).ok
    PROVE  LET run == Engine!Run(catalogue, enriched)
               rows == run.rows
               half == Engine!HalfEven(Sum(FullOf(run), UnsplitRows(rows)), 2)
           IN  /\ IsFiniteSet(DOMAIN rows) /\ DOMAIN rows \subseteq DOMAIN catalogue
               /\ \A k \in DOMAIN rows :
                    /\ rows[k].group = catalogue[k].group
                    /\ rows[k].volume = Engine!Volume(catalogue[k])
                    /\ rows[k].full \in Nat /\ rows[k].plant \in Nat /\ rows[k].animal \in Nat
                    /\ rows[k].split \in BOOLEAN
                    /\ rows[k].split => rows[k].group = "composite_products"
               /\ DOMAIN run.groups = Engine!MethodologyGroups
               /\ \A g \in Engine!MethodologyGroups :
                    run.groups[g] = Sum(FullOf(run), RowsIn(rows, g))
               /\ run.plant = Sum(FullOf(run), RowsIn(rows, "plant_based_core"))
                                + Sum(FullOf(run), RowsIn(rows, "plant_based_non_core"))
                                + Sum(PlantOf(run), SplitRows(rows)) + half
               /\ run.animal = Sum(FullOf(run), RowsIn(rows, "animal_core"))
                                 + Sum(AnimalOf(run), SplitRows(rows)) + half
               /\ run.splitRows = Cardinality(SplitRows(rows))
<1> DEFINE run == Engine!Run(catalogue, enriched)
           rows == run.rows
           full == FullOf(run)
           plant == PlantOf(run)
           animal == AnimalOf(run)
<1>1. /\ rows = Engine!Rows(catalogue, enriched)
      /\ run.plant = Engine!PlantProtein(rows) /\ run.animal = Engine!AnimalProtein(rows)
      /\ run.groups = [g \in Engine!MethodologyGroups |-> Engine!GroupProtein(rows, g)]
      /\ run.splitRows = Engine!CountOf(rows, LAMBDA row : row.split)
  BY DEF Engine!Run, Engine!Failed
<1>0. rows = run.rows
  OBVIOUS
<1> HIDE DEF run, rows
<1>2. DOMAIN rows \subseteq DOMAIN catalogue
      /\ \A k \in DOMAIN rows : /\ rows[k].group = catalogue[k].group
                                 /\ rows[k].volume = Engine!Volume(catalogue[k])
  BY <1>1 DEF Engine!Rows, Engine!Included, Engine!Row
<1>3. IsFiniteSet(DOMAIN rows)
  BY <1>2, FS_Subset DEF PTCatalogue
<1>4. \A k \in DOMAIN rows :
        /\ rows[k].full \in Nat /\ rows[k].plant \in Nat /\ rows[k].animal \in Nat
        /\ rows[k].split \in BOOLEAN
        /\ rows[k].split => rows[k].group = "composite_products"
  BY <1>1, RowFits
<1>5. \A k \in DOMAIN run.rows :
        /\ run.rows[k].full \in Nat /\ run.rows[k].plant \in Nat
        /\ run.rows[k].animal \in Nat /\ run.rows[k].split \in BOOLEAN
  BY <1>0, <1>4
<1>6. IsFiniteSet(DOMAIN run.rows)
  BY <1>0, <1>3
<1>7. /\ \A group : Engine!GroupProtein(rows, group) = Sum(full, RowsIn(rows, group))
      /\ Engine!PlantProtein(rows) =
              Sum(full, RowsIn(rows, "plant_based_core"))
                  + Sum(full, RowsIn(rows, "plant_based_non_core"))
                  + Sum(plant, SplitRows(rows))
                  + Engine!HalfEven(Sum(full, UnsplitRows(rows)), 2)
      /\ Engine!AnimalProtein(rows) =
              Sum(full, RowsIn(rows, "animal_core")) + Sum(animal, SplitRows(rows))
                  + Engine!HalfEven(Sum(full, UnsplitRows(rows)), 2)
  BY <1>0, <1>5, <1>6, MassesOfRows
<1> HIDE DEF full, plant, animal
<1>8. run.splitRows = Cardinality(SplitRows(rows))
  <2>1. IsFiniteSet(SplitRows(rows))
    BY <1>3, FS_Subset DEF SplitRows
  <2>2. Engine!MapThenSumSet(LAMBDA p : 1, SplitRows(rows)) = Cardinality(SplitRows(rows))
    BY <2>1, CountsAre
  <2> QED BY <1>1, <2>2 DEF Engine!CountOf, Engine!SumOf, SplitRows
<1> QED BY <1>1, <1>2, <1>3, <1>4, <1>7, <1>8 DEF run, rows, full, plant, animal

\* The report admits every composite that was not measured (CaveatsCover).
LEMMA CaveatsAreComplete ==
    ASSUME Engine!PTConstantsAssumption, NEW catalogue, PTCatalogue(catalogue),
           NEW enriched, NEW now, NEW errors, Engine!Run(catalogue, enriched).ok
    PROVE  LET run == Engine!Run(catalogue, enriched)
           IN  Engine!CaveatsCover(run, Engine!CoverageSection(run, now, enriched, errors))
<1> DEFINE run == Engine!Run(catalogue, enriched)
           rows == run.rows
           C == RowsIn(rows, "composite_products")
           S == SplitRows(rows)
           U == UnsplitRows(rows)
<1>1. /\ IsFiniteSet(DOMAIN rows) /\ run.splitRows = Cardinality(S)
      /\ \A k \in DOMAIN rows : /\ rows[k].split \in BOOLEAN
                                 /\ rows[k].split => rows[k].group = "composite_products"
  BY RunWeighs
<1>2. IsFiniteSet(S) /\ IsFiniteSet(U) /\ IsFiniteSet(C)
  BY <1>1, FS_Subset DEF RowsIn, SplitRows, UnsplitRows
<1>3. C = S \cup U /\ S \cap U = {}
  BY <1>1 DEF RowsIn, SplitRows, UnsplitRows
<1>4. /\ Engine!CountOf(rows, LAMBDA row : row.group = "composite_products") = Cardinality(C)
      /\ Engine!CountOf(rows, LAMBDA row : row.group = "composite_products" /\ ~row.split)
           = Cardinality(U)
  <2>1. Engine!MapThenSumSet(LAMBDA p : 1, C) = Cardinality(C)
    BY <1>2, CountsAre
  <2>2. Engine!MapThenSumSet(LAMBDA p : 1, U) = Cardinality(U)
    BY <1>2, CountsAre
  <2> HIDE DEF rows
  <2> QED BY <2>1, <2>2 DEF Engine!CountOf, Engine!SumOf, RowsIn, UnsplitRows
<1> HIDE DEF run, C, S, U
<1>5. Cardinality(C) = Cardinality(S) + Cardinality(U)
      /\ Cardinality(S) \in Nat /\ Cardinality(U) \in Nat
  BY <1>2, <1>3, CountOfBoth, FS_CardinalityType
<1>6. Engine!CompositeCaveat(run).half = Cardinality(U)
  BY <1>1, <1>4, <1>5 DEF Engine!CompositeCaveat, rows
<1>7. Engine!CoverageSection(run, now, enriched, errors).composites
        = Engine!CompositeCaveat(run)
  BY DEF Engine!CoverageSection
<1>8. Engine!CaveatsCover(run, Engine!CoverageSection(run, now, enriched, errors))
  BY <1>4, <1>6, <1>7 DEF Engine!CaveatsCover, rows
<1> QED BY <1>8 DEF run

\* Who adds up the lines of an export gets its headline (ExportAgrees).
LEMMA TrackerExportAddsUp ==
    ASSUME Engine!PTConstantsAssumption, NEW catalogue, PTCatalogue(catalogue),
           NEW enriched, NEW now, SameFile(catalogue, now),
           Engine!Run(catalogue, enriched).ok
    PROVE  Engine!ExportAgrees(Engine!Run(catalogue, enriched), now)
<1> DEFINE run == Engine!Run(catalogue, enriched)
           rows == run.rows
           full == FullOf(run)
           lines == Engine!Exported(run, now, "csv").lines
           groups == Engine!Exported(run, now, "md").headline.groups
<1>1. lines = Engine!ExportLines(run, now) /\ groups = run.groups
  BY DEF Engine!Exported, Engine!Headline
<1>2. /\ IsFiniteSet(DOMAIN rows) /\ DOMAIN rows \subseteq DOMAIN catalogue
      /\ \A k \in DOMAIN rows : /\ rows[k].volume = Engine!Volume(catalogue[k])
                                 /\ rows[k].full \in Nat
      /\ \A g \in Engine!MethodologyGroups : run.groups[g] = Sum(full, RowsIn(rows, g))
  BY RunWeighs
<1> HIDE DEF run
<1>3. DOMAIN lines = DOMAIN rows
      /\ \A k \in DOMAIN rows :
           /\ lines[k].group = rows[k].group /\ lines[k].volume = rows[k].volume
           /\ lines[k].protein = Engine!RowProtein(rows[k])
           /\ lines[k].known = (k \in DOMAIN now)
           /\ k \in DOMAIN now => lines[k].items = now[k].items
                                   /\ lines[k].weight = now[k].weight
  <2> HIDE DEF lines
  <2> QED BY <1>1 DEF Engine!ExportLines
<1> HIDE DEF lines, groups
<1>4. ASSUME NEW g \in Engine!MethodologyGroups
      PROVE  Engine!MapThenSumSet(LAMBDA k : lines[k].protein,
                                  {k \in DOMAIN lines : lines[k].group = g}) = groups[g]
  <2> DEFINE S == {k \in DOMAIN lines : lines[k].group = g}
             v == [k \in S |-> lines[k].protein]
  <2>1. Engine!MapThenSumSet(LAMBDA k : lines[k].protein, S) = Sum(v, S)
    BY SumsOf
  <2>2. S = RowsIn(rows, g)
    BY <1>3 DEF RowsIn
  <2>3. \A k \in S : v[k] = full[k]
    BY <1>3, <1>4 DEF Engine!RowProtein, FullOf
  <2>4. IsFiniteSet(S) /\ Weighs(full, S)
    <3>1. \A k \in S : k \in DOMAIN rows /\ full[k] = rows[k].full
      BY <1>3 DEF FullOf
    <3>2. IsFiniteSet(S)
      BY <1>2, <3>1, FS_Subset
    <3> QED BY <1>2, <3>1, <3>2 DEF Weighs
  <2> HIDE DEF S, v, full
  <2>5. Sum(v, S) = Sum(full, S)
    BY <2>3, <2>4, SumOfSame
  <2> QED BY <1>1, <1>2, <2>1, <2>2, <2>5 DEF S
<1>5. ASSUME NEW k \in DOMAIN lines, lines[k].known
      PROVE  lines[k].volume = Engine!HalfEven(lines[k].items * lines[k].weight, Part)
  <2>1. k \in DOMAIN rows /\ k \in DOMAIN now /\ k \in DOMAIN catalogue
    BY <1>2, <1>3, <1>5
  <2>2. lines[k].items = catalogue[k].items /\ lines[k].weight = catalogue[k].weight
    BY <1>3, <2>1 DEF SameFile
  <2> QED BY <1>2, <1>3, <2>1, <2>2 DEF Engine!Volume
<1>6. Engine!ExportAgrees(run, now)
  BY <1>4, <1>5 DEF Engine!ExportAgrees, Engine!SumOver, lines, groups
<1> QED BY <1>6 DEF run

-----------------------------------------------------------------------------
(* The workbook *)

\* What is counted in halves: twice the weight of three parts, once that of a fourth.
LEMMA SumOfHalves ==
    ASSUME NEW U, IsFiniteSet(U), NEW A \in SUBSET U, NEW B \in SUBSET U, NEW C \in SUBSET U,
           NEW D \in SUBSET U, NEW f, Weighs(f, U), NEW p, Weighs(p, U), NEW w,
           \A x \in U : w[x] = 2 * ((IF x \in A THEN f[x] ELSE 0)
                                      + (IF x \in B THEN f[x] ELSE 0)
                                      + (IF x \in C THEN p[x] ELSE 0))
                                 + (IF x \in D THEN f[x] ELSE 0)
    PROVE  Sum(w, U) = 2 * (Sum(f, A) + Sum(f, B) + Sum(p, C)) + Sum(f, D)
<1> DEFINE a == [x \in U |-> IF x \in A THEN f[x] ELSE 0]
           b == [x \in U |-> IF x \in B THEN f[x] ELSE 0]
           c == [x \in U |-> IF x \in C THEN p[x] ELSE 0]
           d == [x \in U |-> IF x \in D THEN f[x] ELSE 0]
           ab == [x \in U |-> a[x] + b[x]]
           abc == [x \in U |-> ab[x] + c[x]]
           twice == [x \in U |-> 2 * abc[x]]
<1>1. /\ \A x \in U : a[x] = IF x \in A THEN f[x] ELSE 0
      /\ \A x \in U : b[x] = IF x \in B THEN f[x] ELSE 0
      /\ \A x \in U : c[x] = IF x \in C THEN p[x] ELSE 0
      /\ \A x \in U : d[x] = IF x \in D THEN f[x] ELSE 0
  OBVIOUS
<1>2. /\ \A x \in U : ab[x] = a[x] + b[x]
      /\ \A x \in U : abc[x] = ab[x] + c[x]
      /\ \A x \in U : twice[x] = 2 * abc[x]
  OBVIOUS
<1>3. \A x \in U : w[x] = twice[x] + d[x]
  OBVIOUS
<1>4. Weighs(f, A) /\ Weighs(f, B) /\ Weighs(p, C) /\ Weighs(f, D)
  BY DEF Weighs
<1> HIDE DEF a, b, c, d, ab, abc, twice
<1>5. Weighs(a, U) /\ Weighs(b, U) /\ Weighs(c, U) /\ Weighs(d, U)
  BY <1>1 DEF Weighs
<1>6. Weighs(ab, U) /\ Weighs(abc, U) /\ Weighs(twice, U)
  BY <1>2, <1>5 DEF Weighs
<1>7. Sum(a, U) = Sum(f, A)
  BY <1>1, <1>4, SumOfPart
<1>8. Sum(b, U) = Sum(f, B)
  BY <1>1, <1>4, SumOfPart
<1>9. Sum(c, U) = Sum(p, C)
  BY <1>1, <1>4, SumOfPart
<1>10. Sum(d, U) = Sum(f, D)
  BY <1>1, <1>4, SumOfPart
<1>11. Sum(ab, U) = Sum(a, U) + Sum(b, U)
  BY <1>2, <1>5, SumOfBoth
<1>12. Sum(abc, U) = Sum(ab, U) + Sum(c, U)
  BY <1>2, <1>5, <1>6, SumOfBoth
<1>13. Sum(twice, U) = 2 * Sum(abc, U)
  BY <1>2, <1>6, SumOfTimes
<1>14. Sum(w, U) = Sum(twice, U) + Sum(d, U)
  BY <1>3, <1>5, <1>6, SumOfBoth
<1> QED BY <1>7, <1>8, <1>9, <1>10, <1>11, <1>12, <1>13, <1>14

\* Half of the pool, rounded, is off by half a unit at most.
LEMMA HalvesOfThePool ==
    ASSUME NEW n \in Nat
    PROVE  LET h == Engine!HalfEven(n, 2)
           IN  h \in Nat /\ 2 * h - n <= 1 /\ n - 2 * h <= 1
<1> DEFINE h == Engine!HalfEven(n, 2)
<1>1. h \in Nat /\ 2 * (2 * h) <= 2 * n + 2 /\ 2 * n <= 2 * (2 * h) + 2
  BY Rounded
<1> HIDE DEF h
<1>2. 2 * h - n <= 1 /\ n - 2 * h <= 1
  BY <1>1
<1> QED BY <1>1, <1>2 DEF h

SoundRow(row) ==
    /\ row.full \in Nat /\ row.plant \in Nat /\ row.animal \in Nat
    /\ row.split \in BOOLEAN
    /\ row.split => row.group = "composite_products"

\* What a row counts as plant and as animal, in halves.
LEMMA AmountsOfRow ==
    ASSUME NEW row, SoundRow(row)
    PROVE  /\ Engine!Amounts(row).plant =
                2 * ((IF row.group = "plant_based_core" THEN row.full ELSE 0)
                       + (IF row.group = "plant_based_non_core" THEN row.full ELSE 0)
                       + (IF row.split THEN row.plant ELSE 0))
                  + (IF row.group = "composite_products" /\ ~row.split THEN row.full ELSE 0)
           /\ Engine!Amounts(row).animal =
                2 * ((IF row.group = "animal_core" THEN row.full ELSE 0)
                       + (IF row.split THEN row.animal ELSE 0))
                  + (IF row.group = "composite_products" /\ ~row.split THEN row.full ELSE 0)
<1>1. /\ row.full \in Nat /\ row.plant \in Nat /\ row.animal \in Nat
      /\ row.split \in BOOLEAN
      /\ row.split => row.group = "composite_products"
  BY DEF SoundRow
<1>2. CASE row.split
  <2>1. Engine!Amounts(row) = [plant |-> 2 * row.plant, animal |-> 2 * row.animal]
    BY <1>2 DEF Engine!Amounts, Engine!Halve
  <2>2. row.group = "composite_products"
    BY <1>1, <1>2
  <2>3. /\ (IF row.split THEN row.plant ELSE 0) = row.plant
        /\ (IF row.split THEN row.animal ELSE 0) = row.animal
        /\ (IF row.group = "composite_products" /\ ~row.split THEN row.full ELSE 0) = 0
    BY <1>2
  <2> QED BY <1>1, <2>1, <2>2, <2>3
<1>3. CASE ~row.split
  <2>1. /\ (IF row.split THEN row.plant ELSE 0) = 0
        /\ (IF row.split THEN row.animal ELSE 0) = 0
        /\ (IF row.group = "composite_products" /\ ~row.split THEN row.full ELSE 0)
             = (IF row.group = "composite_products" THEN row.full ELSE 0)
    BY <1>3
  <2>2. Engine!Amounts(row) =
          IF row.group \in Engine!PlantGroups THEN [plant |-> 2 * row.full, animal |-> 0]
          ELSE IF row.group = "animal_core" THEN [plant |-> 0, animal |-> 2 * row.full]
          ELSE IF row.group = "composite_products"
               THEN [plant |-> row.full, animal |-> row.full]
          ELSE [plant |-> 0, animal |-> 0]
    BY <1>3 DEF Engine!Amounts, Engine!Halve, Engine!PlantGroups
  <2> QED BY <1>1, <2>1, <2>2 DEF Engine!PlantGroups
<1> QED BY <1>2, <1>3

PlantAmounts(run) == [k \in DOMAIN run.rows |-> Engine!Amounts(run.rows[k]).plant]
AnimalAmounts(run) == [k \in DOMAIN run.rows |-> Engine!Amounts(run.rows[k]).animal]

\* And all rows together.
LEMMA AmountsAreSums ==
    ASSUME NEW run, IsFiniteSet(DOMAIN run.rows),
           \A k \in DOMAIN run.rows : SoundRow(run.rows[k])
    PROVE  LET rows == run.rows
               pool == Sum(FullOf(run), UnsplitRows(rows))
           IN  /\ Sum(PlantAmounts(run), DOMAIN rows) =
                    2 * (Sum(FullOf(run), RowsIn(rows, "plant_based_core"))
                           + Sum(FullOf(run), RowsIn(rows, "plant_based_non_core"))
                           + Sum(PlantOf(run), SplitRows(rows))) + pool
               /\ Sum(AnimalAmounts(run), DOMAIN rows) =
                    2 * (Sum(FullOf(run), RowsIn(rows, "animal_core")) + 0
                           + Sum(AnimalOf(run), SplitRows(rows))) + pool
               /\ \A S \in SUBSET DOMAIN rows :
                    /\ Sum(FullOf(run), S) \in Nat /\ Sum(PlantOf(run), S) \in Nat
                    /\ Sum(AnimalOf(run), S) \in Nat
<1> DEFINE rows == run.rows
           R == DOMAIN rows
           full == FullOf(run)
           plant == PlantOf(run)
           animal == AnimalOf(run)
           Core == RowsIn(rows, "plant_based_core")
           NonCore == RowsIn(rows, "plant_based_non_core")
           Animal == RowsIn(rows, "animal_core")
           Split == SplitRows(rows)
           Unsplit == UnsplitRows(rows)
           v == PlantAmounts(run)
           w == AnimalAmounts(run)
<1>1. /\ IsFiniteSet(R)
      /\ \A k \in R : SoundRow(rows[k])
  OBVIOUS
<1>2. \A k \in R : /\ full[k] = rows[k].full /\ plant[k] = rows[k].plant
                    /\ animal[k] = rows[k].animal
                    /\ v[k] = Engine!Amounts(rows[k]).plant
                    /\ w[k] = Engine!Amounts(rows[k]).animal
  BY DEF FullOf, PlantOf, AnimalOf, PlantAmounts, AnimalAmounts
<1>3. /\ Core \in SUBSET R /\ NonCore \in SUBSET R /\ Animal \in SUBSET R
      /\ Split \in SUBSET R /\ Unsplit \in SUBSET R
  BY Zenon DEF RowsIn, SplitRows, UnsplitRows
<1>0. ASSUME NEW k \in R
      PROVE  /\ k \in Core <=> rows[k].group = "plant_based_core"
             /\ k \in NonCore <=> rows[k].group = "plant_based_non_core"
             /\ k \in Animal <=> rows[k].group = "animal_core"
             /\ k \in Split <=> rows[k].split
             /\ k \in Unsplit <=> rows[k].group = "composite_products" /\ ~rows[k].split
  BY Zenon DEF RowsIn, SplitRows, UnsplitRows
<1> HIDE DEF rows, R, full, plant, animal, Core, NonCore, Animal, Split, Unsplit, v, w
<1>4. ASSUME NEW k \in R
      PROVE  /\ v[k] = 2 * ((IF k \in Core THEN full[k] ELSE 0)
                                   + (IF k \in NonCore THEN full[k] ELSE 0)
                                   + (IF k \in Split THEN plant[k] ELSE 0))
                              + (IF k \in Unsplit THEN full[k] ELSE 0)
             /\ w[k] = 2 * ((IF k \in Animal THEN full[k] ELSE 0)
                                   + (IF k \in {} THEN full[k] ELSE 0)
                                   + (IF k \in Split THEN animal[k] ELSE 0))
                              + (IF k \in Unsplit THEN full[k] ELSE 0)
  <2> DEFINE row == rows[k]
  <2>1. SoundRow(row)
    BY <1>1
  <2>2. row.full \in Nat /\ row.plant \in Nat /\ row.animal \in Nat
    BY <2>1 DEF SoundRow
  <2>3. /\ v[k] =
                2 * ((IF row.group = "plant_based_core" THEN row.full ELSE 0)
                       + (IF row.group = "plant_based_non_core" THEN row.full ELSE 0)
                       + (IF row.split THEN row.plant ELSE 0))
                  + (IF row.group = "composite_products" /\ ~row.split THEN row.full ELSE 0)
        /\ w[k] =
                2 * ((IF row.group = "animal_core" THEN row.full ELSE 0)
                       + (IF row.split THEN row.animal ELSE 0))
                  + (IF row.group = "composite_products" /\ ~row.split THEN row.full ELSE 0)
    BY <1>2, <2>1, AmountsOfRow
  <2>4. /\ (IF k \in Split THEN plant[k] ELSE 0) = (IF row.split THEN row.plant ELSE 0)
        /\ (IF k \in Split THEN animal[k] ELSE 0) = (IF row.split THEN row.animal ELSE 0)
        /\ (IF k \in Unsplit THEN full[k] ELSE 0)
             = (IF row.group = "composite_products" /\ ~row.split THEN row.full ELSE 0)
    BY <1>0, <1>2, Zenon
  <2>5. /\ (IF k \in Core THEN full[k] ELSE 0)
             = (IF row.group = "plant_based_core" THEN row.full ELSE 0)
        /\ (IF k \in NonCore THEN full[k] ELSE 0)
             = (IF row.group = "plant_based_non_core" THEN row.full ELSE 0)
        /\ (IF k \in Animal THEN full[k] ELSE 0)
             = (IF row.group = "animal_core" THEN row.full ELSE 0)
    BY <1>0, <1>2, Zenon
  <2>6. (IF k \in {} THEN full[k] ELSE 0) = 0
    OBVIOUS
  <2> QED BY <2>2, <2>3, <2>4, <2>5, <2>6
<1>5. \A k \in R : full[k] \in Nat /\ plant[k] \in Nat /\ animal[k] \in Nat
  BY <1>1, <1>2 DEF SoundRow
<1>6. Weighs(full, R) /\ Weighs(plant, R) /\ Weighs(animal, R)
  BY <1>5 DEF Weighs
<1>7. Sum(v, R) = 2 * (Sum(full, Core) + Sum(full, NonCore) + Sum(plant, Split))
                     + Sum(full, Unsplit)
  BY <1>1, <1>3, <1>4, <1>6, SumOfHalves
<1>8. Sum(w, R) = 2 * (Sum(full, Animal) + Sum(full, {}) + Sum(animal, Split))
                     + Sum(full, Unsplit)
  <2>1. {} \in SUBSET R
    OBVIOUS
  <2> QED BY <1>1, <1>3, <1>4, <1>6, <2>1, SumOfHalves
<1>9. ASSUME NEW S \in SUBSET R
      PROVE  Sum(full, S) \in Nat /\ Sum(plant, S) \in Nat /\ Sum(animal, S) \in Nat
  <2>1. IsFiniteSet(S)
    BY <1>1, FS_Subset
  <2>2. \A k \in S : full[k] \in Nat /\ plant[k] \in Nat /\ animal[k] \in Nat
    BY <1>5
  <2> QED BY <2>1, <2>2, SumOfNat
<1>10. Sum(full, {}) = 0
  BY SumOfNone
<1> QED BY <1>7, <1>8, <1>9, <1>10
        DEF rows, R, full, plant, animal, Core, NonCore, Animal, Split, Unsplit, v, w

\* The sums of the protein sheet are the headline, up to the one rounding of the pool.
LEMMA SheetIsTheHeadline ==
    ASSUME Engine!PTConstantsAssumption, NEW catalogue, PTCatalogue(catalogue),
           NEW enriched, NEW now, Engine!Run(catalogue, enriched).ok,
           DOMAIN Engine!Run(catalogue, enriched).rows \subseteq DOMAIN now
    PROVE  LET run == Engine!Run(catalogue, enriched)
               sheet == Engine!ProteinSheet(run, now)
           IN  /\ Engine!Distance(sheet.plant, Engine!Halve * run.plant) <= 1
               /\ Engine!Distance(sheet.animal, Engine!Halve * run.animal) <= 1
<1> DEFINE run == Engine!Run(catalogue, enriched)
           rows == run.rows
           sheet == Engine!ProteinSheet(run, now)
           core == Sum(FullOf(run), RowsIn(rows, "plant_based_core"))
           nonCore == Sum(FullOf(run), RowsIn(rows, "plant_based_non_core"))
           meat == Sum(FullOf(run), RowsIn(rows, "animal_core"))
           plant == Sum(PlantOf(run), SplitRows(rows))
           animal == Sum(AnimalOf(run), SplitRows(rows))
           pool == Sum(FullOf(run), UnsplitRows(rows))
           half == Engine!HalfEven(pool, 2)
<1>1. /\ IsFiniteSet(DOMAIN run.rows) /\ \A k \in DOMAIN run.rows : SoundRow(run.rows[k])
      /\ run.plant = core + nonCore + plant + half /\ run.animal = meat + animal + half
  BY RunWeighs DEF SoundRow
<1>2. DOMAIN now \cap DOMAIN run.rows = DOMAIN run.rows
  OBVIOUS
<1> HIDE DEF run
<1>3. /\ Sum(PlantAmounts(run), DOMAIN rows) = 2 * (core + nonCore + plant) + pool
      /\ Sum(AnimalAmounts(run), DOMAIN rows) = 2 * (meat + 0 + animal) + pool
      /\ core \in Nat /\ nonCore \in Nat /\ meat \in Nat /\ plant \in Nat
      /\ animal \in Nat /\ pool \in Nat
  <2>1. /\ \A g : RowsIn(rows, g) \in SUBSET DOMAIN run.rows
        /\ SplitRows(rows) \in SUBSET DOMAIN run.rows
        /\ UnsplitRows(rows) \in SUBSET DOMAIN run.rows
    BY DEF RowsIn, SplitRows, UnsplitRows
  <2> QED BY <1>1, <2>1, AmountsAreSums
<1>4. /\ sheet.plant = Sum(PlantAmounts(run), DOMAIN rows)
      /\ sheet.animal = Sum(AnimalAmounts(run), DOMAIN rows)
  <2>1. Engine!MapThenSumSet(LAMBDA k : Engine!Amounts(run.rows[k]).plant, DOMAIN run.rows)
          = Sum([k \in DOMAIN run.rows |-> Engine!Amounts(run.rows[k]).plant], DOMAIN run.rows)
    BY SumsOf
  <2>2. Engine!MapThenSumSet(LAMBDA k : Engine!Amounts(run.rows[k]).animal, DOMAIN run.rows)
          = Sum([k \in DOMAIN run.rows |-> Engine!Amounts(run.rows[k]).animal], DOMAIN run.rows)
    BY SumsOf
  <2>3. /\ sheet.plant = Engine!MapThenSumSet(LAMBDA k : Engine!Amounts(run.rows[k]).plant,
                                             DOMAIN now \cap DOMAIN run.rows)
        /\ sheet.animal = Engine!MapThenSumSet(LAMBDA k : Engine!Amounts(run.rows[k]).animal,
                                             DOMAIN now \cap DOMAIN run.rows)
    BY DEF Engine!ProteinSheet, Engine!SumOver
  <2> QED BY <1>2, <2>1, <2>2, <2>3 DEF PlantAmounts, AnimalAmounts
<1>5. half \in Nat /\ 2 * half - pool <= 1 /\ pool - 2 * half <= 1
  <2> HIDE DEF pool
  <2> QED BY <1>3, HalvesOfThePool
<1> HIDE DEF half, core, nonCore, meat, plant, animal, pool, sheet
<1>6. Engine!Distance(sheet.plant, 2 * run.plant) <= 1
  BY <1>1, <1>3, <1>4, <1>5 DEF Engine!Distance
<1>7. Engine!Distance(sheet.animal, 2 * run.animal) <= 1
  BY <1>1, <1>3, <1>4, <1>5 DEF Engine!Distance
<1> QED BY <1>6, <1>7 DEF run, sheet, Engine!Halve

\* The bars of the protein sheet: those of the run when nothing was reclassified, and never
\* more than the run has.
LEMMA BarsFit ==
    ASSUME Engine!PTConstantsAssumption, NEW catalogue, PTCatalogue(catalogue),
           NEW enriched, NEW now, Engine!Run(catalogue, enriched).ok
    PROVE  LET run == Engine!Run(catalogue, enriched)
               bars == Engine!ProteinSheet(run, now).bars
           IN  /\ (\A k \in DOMAIN run.rows :
                        k \in DOMAIN now /\ Engine!GroupShown(now[k]) = catalogue[k].group)
                     => \A g \in Engine!MethodologyGroups : bars[g] = run.groups[g]
               /\ Engine!MapThenSumSet(LAMBDA g : bars[g], DOMAIN bars)
                    <= Engine!MapThenSumSet(LAMBDA g : run.groups[g], DOMAIN run.groups)
<1> DEFINE run == Engine!Run(catalogue, enriched)
           rows == run.rows
           R == DOMAIN rows
           full == FullOf(run)
           G == Engine!MethodologyGroups
           K == GroupNames
           M == DOMAIN now \cap R
           bars == Engine!ProteinSheet(run, now).bars
           groups == run.groups
           protein == [k \in R |-> Engine!RowProtein(rows[k])]
           bar == [k \in M |-> IF Engine!GroupShown(now[k]) = "none" THEN "unknown"
                               ELSE Engine!GroupShown(now[k])]
           U == {k \in M : bar[k] \in K}
           V == {k \in R : rows[k].group \in G}
           key == [k \in V |-> rows[k].group]
           v == [g \in K |-> bars[g]]
           w == [g \in G |-> groups[g]]
<1>1. /\ IsFiniteSet(R) /\ DOMAIN groups = G
      /\ \A k \in R : rows[k].group = catalogue[k].group /\ rows[k].full \in Nat
      /\ \A g \in G : groups[g] = Sum(full, RowsIn(rows, g))
  BY RunWeighs
<1>2. \A k \in R : full[k] = rows[k].full /\ protein[k] = Engine!RowProtein(rows[k])
  BY DEF FullOf
<1> HIDE DEF run
<1>3. G \subseteq K /\ IsFiniteSet(K) /\ IsFiniteSet(G) /\ "none" \notin G /\ "unknown" \notin G
  BY NamesAreFinite, FS_Subset DEF GroupNames, Engine!MethodologyGroups, Engine!PlantGroups
<1>4. /\ DOMAIN bars = K
      /\ \A g \in K : bars[g] =
            Engine!MapThenSumSet(LAMBDA k : Engine!RowProtein(run.rows[k]),
                                 {k \in M : bar[k] = g})
  BY DEF Engine!ProteinSheet, Engine!SumOver, GroupNames
<1>5. \A k \in R : protein[k] = (IF k \in V THEN full[k] ELSE 0) /\ protein[k] \in Nat
  <2> SUFFICES ASSUME NEW k \in R
               PROVE  protein[k] = (IF k \in V THEN full[k] ELSE 0) /\ protein[k] \in Nat
    OBVIOUS
  <2>1. k \in V <=> rows[k].group \in G
    OBVIOUS
  <2>2. protein[k] = (IF rows[k].group \in G THEN rows[k].full ELSE 0)
    BY <1>2 DEF Engine!RowProtein
  <2>3. full[k] = rows[k].full /\ rows[k].full \in Nat
    BY <1>1, <1>2
  <2> HIDE DEF V, protein, full, rows, G
  <2> QED BY <2>1, <2>2, <2>3
<1>6. ASSUME NEW g \in K PROVE bars[g] = Sum(protein, {k \in M : bar[k] = g})
  <2> DEFINE S == {k \in M : bar[k] = g}
             p == [k \in S |-> Engine!RowProtein(run.rows[k])]
  <2>1. Engine!MapThenSumSet(LAMBDA k : Engine!RowProtein(run.rows[k]), S) = Sum(p, S)
    BY SumsOf
  <2>2. \A k \in S : p[k] = protein[k]
    OBVIOUS
  <2>3. S \subseteq R
    OBVIOUS
  <2> HIDE DEF p, protein, S, R, bar, M
  <2>4. IsFiniteSet(S)
    BY <1>1, <2>3, FS_Subset
  <2>6. Weighs(protein, S)
    BY <1>5, <2>3 DEF Weighs
  <2>5. Sum(p, S) = Sum(protein, S)
    BY <2>2, <2>4, <2>6, SumOfSame
  <2> QED BY <1>4, <2>1, <2>5 DEF S, R, M
<1>7. ASSUME \A k \in R : k \in DOMAIN now /\ Engine!GroupShown(now[k]) = catalogue[k].group,
             NEW g \in G
      PROVE  bars[g] = groups[g]
  <2>1. M = R
    BY <1>7
  <2>2. \A k \in R : bar[k] = g <=> rows[k].group = g
    BY <1>1, <1>3, <1>7, <2>1
  <2>3. {k \in M : bar[k] = g} = RowsIn(rows, g)
    BY <2>1, <2>2 DEF RowsIn
  <2> DEFINE S == RowsIn(rows, g)
  <2>4. \A k \in S : protein[k] = full[k]
    BY <1>7, <1>5 DEF RowsIn
  <2>5. S \subseteq R
    BY DEF RowsIn
  <2> HIDE DEF protein, full, S
  <2>6. IsFiniteSet(S) /\ Weighs(full, S)
    BY <1>1, <1>2, <2>5, FS_Subset DEF Weighs
  <2>7. Sum(protein, S) = Sum(full, S)
    BY <2>4, <2>6, SumOfSame
  <2> QED BY <1>1, <1>3, <1>6, <2>3, <2>7 DEF S
<1>8. Engine!MapThenSumSet(LAMBDA g : bars[g], K) = Sum(v, K)
  BY SumsOf
<1>9. Engine!MapThenSumSet(LAMBDA g : run.groups[g], G) = Sum(w, G)
  BY SumsOf
<1>10. /\ \A k \in U : bar[k] \in K
       /\ \A g \in K : {k \in M : bar[k] = g} = {k \in U : bar[k] = g}
       /\ U \subseteq R /\ V \in SUBSET R
  OBVIOUS
<1>11. /\ \A k \in V : key[k] \in G
       /\ \A g \in G : RowsIn(rows, g) = {k \in V : key[k] = g}
  BY DEF RowsIn
<1>12. (\A g \in K : v[g] = bars[g]) /\ \A g \in G : w[g] = groups[g]
  OBVIOUS
<1> HIDE DEF v, w, U, V, protein, full, key, bar, M, K, G, groups, bars
<1>13. IsFiniteSet(U) /\ IsFiniteSet(V) /\ Weighs(protein, U) /\ Weighs(full, V)
  <2>1. IsFiniteSet(U) /\ IsFiniteSet(V)
    BY <1>1, <1>10, FS_Subset
  <2> QED BY <1>1, <1>2, <1>5, <1>10, <2>1 DEF Weighs
<1>14. Sum(v, K) = Sum(protein, U)
  <2>1. Sum(ByKey(protein, U, bar, K), K) = Sum(protein, U)
        /\ Weighs(ByKey(protein, U, bar, K), K)
    BY <1>3, <1>10, <1>13, SumByKey
  <2>2. \A g \in K : v[g] = ByKey(protein, U, bar, K)[g]
    BY <1>6, <1>10, <1>12 DEF ByKey
  <2> QED BY <1>3, <2>1, <2>2, SumOfSame
<1>15. Sum(w, G) = Sum(full, V)
  <2>1. Sum(ByKey(full, V, key, G), G) = Sum(full, V) /\ Weighs(ByKey(full, V, key, G), G)
    BY <1>3, <1>11, <1>13, SumByKey
  <2>2. \A g \in G : w[g] = ByKey(full, V, key, G)[g]
    BY <1>1, <1>11, <1>12 DEF ByKey
  <2> QED BY <1>3, <2>1, <2>2, SumOfSame
<1>16. Sum(protein, R) = Sum(full, V)
  <2> HIDE DEF R
  <2> QED BY <1>1, <1>5, <1>10, <1>13, SumOfPart
<1>17. Sum(protein, U) <= Sum(protein, R)
  <2> HIDE DEF R
  <2>1. U \in SUBSET R /\ \A k \in R : protein[k] \in Nat
    BY <1>5, <1>10
  <2> QED BY <1>1, <2>1, SumOfFewer
<1>18. Engine!MapThenSumSet(LAMBDA g : bars[g], DOMAIN bars)
         <= Engine!MapThenSumSet(LAMBDA g : run.groups[g], DOMAIN run.groups)
  BY <1>1, <1>4, <1>8, <1>9, <1>14, <1>15, <1>16, <1>17 DEF groups
<1> QED BY <1>7, <1>18 DEF run, R, G, bars, groups

\* The pie of the analysis sheet has what its table counts.
LEMMA PieIsTheTable ==
    ASSUME NEW now, IsFiniteSet(DOMAIN now)
    PROVE  LET sheet == Engine!AnalysisSheet(now)
           IN  Engine!MapThenSumSet(LAMBDA g : sheet.pie[g], DOMAIN sheet.pie)
                 = Engine!MapThenSumSet(LAMBDA g : sheet.counts[g], DOMAIN sheet.counts)
<1> DEFINE sheet == Engine!AnalysisSheet(now)
           K == GroupNames
           P == {"plant", "animal", "composite", "other"}
           shown == [k \in DOMAIN now |-> Engine!GroupShown(now[k])]
           U == {k \in DOMAIN now : shown[k] \in K}
           slice == [k \in U |-> IF shown[k] \in Engine!PlantGroups THEN "plant"
                                 ELSE IF shown[k] = "animal_core" THEN "animal"
                                 ELSE IF shown[k] = "composite_products" THEN "composite"
                                 ELSE "other"]
           counts == sheet.counts
           pie == sheet.pie
           In(S) == Cardinality({k \in DOMAIN now : shown[k] \in S})
<1>1. /\ DOMAIN counts = K /\ \A g \in K : counts[g] = In({g})
      /\ DOMAIN pie = P
      /\ pie["plant"] = In(Engine!PlantGroups) /\ pie["animal"] = In({"animal_core"})
      /\ pie["composite"] = In({"composite_products"})
      /\ pie["other"] = In({"out_of_scope", "unknown"})
  <2>1. \A S : Engine!CountOver(DOMAIN now, LAMBDA k : Engine!GroupShown(now[k]) \in S) = In(S)
    <3> SUFFICES ASSUME NEW S
                 PROVE  Engine!CountOver(DOMAIN now,
                            LAMBDA k : Engine!GroupShown(now[k]) \in S) = In(S)
      OBVIOUS
    <3>1. {k \in DOMAIN now : Engine!GroupShown(now[k]) \in S}
            = {k \in DOMAIN now : shown[k] \in S}
      OBVIOUS
    <3> HIDE DEF shown
    <3> QED BY <3>1, OneCardinality DEF Engine!CountOver
  <2>2. /\ counts = [g \in K |-> Engine!CountOver(DOMAIN now,
                                    LAMBDA k : Engine!GroupShown(now[k]) \in {g})]
        /\ pie = [plant |-> Engine!CountOver(DOMAIN now,
                        LAMBDA k : Engine!GroupShown(now[k]) \in Engine!PlantGroups),
                  animal |-> Engine!CountOver(DOMAIN now,
                        LAMBDA k : Engine!GroupShown(now[k]) \in {"animal_core"}),
                  composite |-> Engine!CountOver(DOMAIN now,
                        LAMBDA k : Engine!GroupShown(now[k]) \in {"composite_products"}),
                  other |-> Engine!CountOver(DOMAIN now,
                        LAMBDA k : Engine!GroupShown(now[k]) \in {"out_of_scope", "unknown"})]
    BY DEF Engine!AnalysisSheet, GroupNames
  <2> HIDE DEF In, counts, pie, shown, K
  <2> QED BY <2>1, <2>2
<1>2. U \subseteq DOMAIN now
  OBVIOUS
<1>3. IsFiniteSet(U) /\ IsFiniteSet(K) /\ IsFiniteSet(P)
  <2>1. IsFiniteSet({"plant"} \cup {"animal"})
    BY FS_Singleton, FS_AddElement
  <2>2. IsFiniteSet(({"plant"} \cup {"animal"}) \cup {"composite"})
    BY <2>1, FS_AddElement
  <2>3. IsFiniteSet((({"plant"} \cup {"animal"}) \cup {"composite"}) \cup {"other"})
    BY <2>2, FS_AddElement
  <2>4. P = (({"plant"} \cup {"animal"}) \cup {"composite"}) \cup {"other"}
    OBVIOUS
  <2> QED BY <1>2, <2>3, <2>4, NamesAreFinite, FS_Subset
<1>4. /\ \A g \in K : {k \in DOMAIN now : shown[k] \in {g}} = {k \in U : shown[k] = g}
      /\ \A k \in U : shown[k] \in K /\ slice[k] \in P
  OBVIOUS
<1>5. /\ {k \in DOMAIN now : shown[k] \in Engine!PlantGroups} = {k \in U : slice[k] = "plant"}
      /\ {k \in DOMAIN now : shown[k] \in {"animal_core"}} = {k \in U : slice[k] = "animal"}
      /\ {k \in DOMAIN now : shown[k] \in {"composite_products"}}
           = {k \in U : slice[k] = "composite"}
      /\ {k \in DOMAIN now : shown[k] \in {"out_of_scope", "unknown"}}
           = {k \in U : slice[k] = "other"}
  <2> HIDE DEF shown
  <2> QED BY DEF GroupNames, Engine!MethodologyGroups, Engine!PlantGroups
<1> HIDE DEF U, K, shown, slice
<1>6. Sum([g \in K |-> counts[g]], K) = Cardinality(U)
  <2> HIDE DEF counts
  <2>1. \A g \in K : counts[g] = Cardinality({k \in U : shown[k] = g})
    BY <1>1, <1>4
  <2>2. \A k \in U : shown[k] \in K
    BY <1>4
  <2> QED BY <1>3, <2>1, <2>2, CountsByKey
<1>7. Sum([g \in P |-> pie[g]], P) = Cardinality(U)
  <2> HIDE DEF pie
  <2>1. \A g \in P : pie[g] = Cardinality({k \in U : slice[k] = g})
    <3>1. /\ pie["plant"] = Cardinality({k \in U : slice[k] = "plant"})
          /\ pie["animal"] = Cardinality({k \in U : slice[k] = "animal"})
          /\ pie["composite"] = Cardinality({k \in U : slice[k] = "composite"})
          /\ pie["other"] = Cardinality({k \in U : slice[k] = "other"})
      BY <1>1, <1>5
    <3> QED BY <3>1
  <2>2. \A k \in U : slice[k] \in P
    BY <1>4
  <2> HIDE DEF P
  <2> QED BY <1>3, <2>1, <2>2, CountsByKey
<1>8. Engine!MapThenSumSet(LAMBDA g : sheet.counts[g], K) = Sum([g \in K |-> sheet.counts[g]], K)
  BY SumsOf
<1>9. Engine!MapThenSumSet(LAMBDA g : sheet.pie[g], P) = Sum([g \in P |-> sheet.pie[g]], P)
  BY SumsOf
<1> QED BY <1>1, <1>6, <1>7, <1>8, <1>9

\* The workbook tells the kilograms of the run (WorkbookAgrees).
LEMMA WorkbookAddsUp ==
    ASSUME Engine!PTConstantsAssumption, NEW catalogue, PTCatalogue(catalogue),
           NEW enriched, NEW now, IsFiniteSet(DOMAIN now), Engine!Run(catalogue, enriched).ok
    PROVE  Engine!WorkbookAgrees(catalogue, Engine!Run(catalogue, enriched), now)
<1> DEFINE run == Engine!Run(catalogue, enriched)
           book == Engine!Workbook(run, now)
<1>1. book.analysis = Engine!AnalysisSheet(now) /\ book.protein = Engine!ProteinSheet(run, now)
  BY DEF Engine!Workbook
<1>2. DOMAIN run.rows \subseteq DOMAIN now =>
             /\ Engine!Distance(book.protein.plant, Engine!Halve * run.plant) <= 1
             /\ Engine!Distance(book.protein.animal, Engine!Halve * run.animal) <= 1
  BY <1>1, SheetIsTheHeadline
<1>3. /\ (\A k \in DOMAIN run.rows :
                k \in DOMAIN now /\ Engine!GroupShown(now[k]) = catalogue[k].group)
           => \A g \in Engine!MethodologyGroups :
                Engine!ProteinSheet(run, now).bars[g] = run.groups[g]
      /\ Engine!MapThenSumSet(LAMBDA g : Engine!ProteinSheet(run, now).bars[g],
                              DOMAIN Engine!ProteinSheet(run, now).bars)
            <= Engine!MapThenSumSet(LAMBDA g : run.groups[g], DOMAIN run.groups)
  BY BarsFit
<1>4. Engine!MapThenSumSet(LAMBDA g : Engine!AnalysisSheet(now).pie[g],
                           DOMAIN Engine!AnalysisSheet(now).pie)
        = Engine!MapThenSumSet(LAMBDA g : Engine!AnalysisSheet(now).counts[g],
                               DOMAIN Engine!AnalysisSheet(now).counts)
  BY PieIsTheTable
<1> HIDE DEF run
<1>5. Engine!WorkbookAgrees(catalogue, run, now)
  BY <1>1, <1>2, <1>3, <1>4 DEF Engine!WorkbookAgrees, Engine!SumOver, Engine!Workbook
<1> QED BY <1>5 DEF run

-----------------------------------------------------------------------------
(* The lists of contributors *)

\* What comes before an element: what weighs more, and of equals what is listed earlier.
Ahead(w, S, k) == {j \in S : w[j] > w[k] \/ (w[j] = w[k] /\ j < k)}
Rank(w, S, k) == Cardinality(Ahead(w, S, k))

\* Whoever comes before has a smaller rank.
LEMMA RanksFollow ==
    ASSUME NEW S \in SUBSET Int, IsFiniteSet(S), NEW w, Weighs(w, S),
           NEW a \in S, NEW b \in S, w[a] > w[b] \/ (w[a] = w[b] /\ a < b)
    PROVE  Rank(w, S, a) < Rank(w, S, b)
<1> DEFINE A == Ahead(w, S, a)
           B == Ahead(w, S, b)
<1>0. \A x \in S : x \in Int /\ w[x] \in Int
  BY DEF Weighs
<1>1. A \subseteq B /\ a \in B /\ a \notin A /\ B \subseteq S
  <2>1. \A j \in S : /\ j \in A <=> w[j] > w[a] \/ (w[j] = w[a] /\ j < a)
                     /\ j \in B <=> w[j] > w[b] \/ (w[j] = w[b] /\ j < b)
    BY DEF Ahead
  <2>2. A \subseteq S /\ B \subseteq S
    BY DEF Ahead
  <2> HIDE DEF A, B
  <2>3. ASSUME NEW j \in A PROVE j \in B
    <3>1. j \in S /\ (w[j] > w[a] \/ (w[j] = w[a] /\ j < a))
      BY <2>1, <2>2, <2>3
    <3>2. w[j] > w[b] \/ (w[j] = w[b] /\ j < b)
      BY <1>0, <3>1
    <3> QED BY <2>1, <3>1, <3>2
  <2>4. a \in B /\ a \notin A
    BY <1>0, <2>1
  <2> QED BY <2>2, <2>3, <2>4
<1>2. IsFiniteSet(B)
  BY <1>1, FS_Subset
<1> HIDE DEF A, B
<1>3. IsFiniteSet(A) /\ Cardinality(A) <= Cardinality(B) /\ (Cardinality(A) = Cardinality(B) => A = B)
  BY <1>1, <1>2, FS_Subset
<1>4. Cardinality(A) \in Nat /\ Cardinality(B) \in Nat
  BY <1>2, <1>3, FS_CardinalityType
<1>5. Cardinality(A) < Cardinality(B)
  BY <1>1, <1>3, <1>4
<1> QED BY <1>5 DEF Rank, A, B

\* No two have the same rank.
LEMMA RanksDiffer ==
    ASSUME NEW S \in SUBSET Int, IsFiniteSet(S), NEW w, Weighs(w, S),
           NEW a \in S, NEW b \in S, Rank(w, S, a) = Rank(w, S, b)
    PROVE  a = b
<1>1. \A x \in S : Rank(w, S, x) \in Nat
  BY FS_Subset, FS_CardinalityType DEF Ahead, Rank
<1>2. a \in Int /\ b \in Int /\ w[a] \in Int /\ w[b] \in Int
  BY DEF Weighs
<1>3. CASE w[a] > w[b] \/ (w[a] = w[b] /\ a < b)
  <2>1. Rank(w, S, a) < Rank(w, S, b)
    BY <1>3, RanksFollow
  <2> QED BY <1>1, <2>1
<1>4. CASE w[b] > w[a] \/ (w[b] = w[a] /\ b < a)
  <2>1. Rank(w, S, b) < Rank(w, S, a)
    BY <1>4, RanksFollow
  <2> QED BY <1>1, <2>1
<1> QED BY <1>2, <1>3, <1>4

\* Every rank is taken.
LEMMA RanksAreTaken ==
    ASSUME NEW S \in SUBSET Int, IsFiniteSet(S), NEW w, Weighs(w, S)
    PROVE  \A i \in 1 .. Cardinality(S) : \E k \in S : Rank(w, S, k) = i - 1
<1> DEFINE n == Cardinality(S)
           T == 0 .. n - 1
           f == [k \in S |-> Rank(w, S, k)]
<1>1. n \in Nat
  BY FS_CardinalityType
<1>2. ASSUME NEW k \in S PROVE Rank(w, S, k) \in T
  <2>1. Ahead(w, S, k) \subseteq S \ {k}
    <3>1. w[k] \in Int /\ k \in Int
      BY DEF Weighs
    <3> QED BY <3>1 DEF Ahead
  <2>2. IsFiniteSet(S \ {k}) /\ Cardinality(S \ {k}) = n - 1
    BY FS_RemoveElement
  <2>3. IsFiniteSet(Ahead(w, S, k)) /\ Cardinality(Ahead(w, S, k)) <= n - 1
    BY <2>1, <2>2, FS_Subset
  <2>4. Cardinality(Ahead(w, S, k)) \in Nat
    BY <2>3, FS_CardinalityType
  <2> QED BY <1>1, <2>3, <2>4 DEF Rank
<1>3. f \in Injection(S, T)
  <2>1. f \in [S -> T]
    BY <1>2
  <2>2. \A a, b \in S : f[a] = f[b] => a = b
    <3> SUFFICES ASSUME NEW a \in S, NEW b \in S, f[a] = f[b] PROVE a = b
      OBVIOUS
    <3>1. Rank(w, S, a) = Rank(w, S, b)
      OBVIOUS
    <3> QED BY <3>1, RanksDiffer
  <2> HIDE DEF f, T
  <2> QED BY <2>1, <2>2 DEF Injection, IsInjective
<1>4. IsFiniteSet(T) /\ Cardinality(T) = n
  <2>1. IsFiniteSet(T) /\ Cardinality(T) = IF 0 > n - 1 THEN 0 ELSE (n - 1) - 0 + 1
    BY <1>1, FS_Interval
  <2> QED BY <1>1, <2>1
<1> HIDE DEF f
<1>5. f \in Surjection(S, T)
  <2> HIDE DEF T, n
  <2> QED BY <1>3, <1>4, FS_Injection DEF n
<1>6. ASSUME NEW i \in 1 .. n PROVE \E k \in S : f[k] = i - 1
  <2>1. i - 1 \in T
    BY <1>1
  <2> HIDE DEF T
  <2> QED BY <1>5, <2>1 DEF Surjection
<1> QED BY <1>6 DEF f

\* A list of the first n ranks, and a set of n elements none of which weighs less than one
\* that is left out.
FirstRanks(w, S, n, list) ==
    /\ n \in 0 .. Cardinality(S)
    /\ \A i \in 1 .. n : list[i] \in S /\ Rank(w, S, list[i]) = i - 1
Heaviest(w, S, n, named) ==
    /\ named \subseteq S /\ Cardinality(named) = n
    /\ \A k \in named, r \in S \ named : w[k] >= w[r]
    /\ n = Cardinality(S) => named = S

LEMMA ListIsTheTop ==
    ASSUME NEW S \in SUBSET Int, IsFiniteSet(S), NEW w, Weighs(w, S),
           NEW n, NEW list, FirstRanks(w, S, n, list)
    PROVE  Heaviest(w, S, n, {list[i] : i \in 1 .. n})
<1> DEFINE named == {list[i] : i \in 1 .. n}
<1>0. /\ n \in 0 .. Cardinality(S)
      /\ \A i \in 1 .. n : list[i] \in S /\ Rank(w, S, list[i]) = i - 1
  BY DEF FirstRanks
<1>1. Cardinality(S) \in Nat /\ n \in Nat
  BY <1>0, FS_CardinalityType
<1>2. named \subseteq S
  BY <1>0
<1>3. Cardinality(named) = n
  <2> DEFINE I == 1 .. n
  <2>1. IsFiniteSet(I) /\ Cardinality(I) = IF 1 > n THEN 0 ELSE n - 1 + 1
    BY <1>1, FS_Interval
  <2>2. Cardinality(I) = n
    BY <1>1, <2>1
  <2>3. \A i, j \in I : list[i] = list[j] => i = j
    BY <1>0, <1>1
  <2> HIDE DEF I
  <2>4. Cardinality({list[i] : i \in I}) = Cardinality(I)
    BY <2>1, <2>3, CountOfImage
  <2> QED BY <2>2, <2>4 DEF I
<1>4. \A x \in S : Rank(w, S, x) \in Nat
  BY FS_Subset, FS_CardinalityType DEF Ahead, Rank
<1>5. ASSUME NEW r \in S, r \notin named PROVE Rank(w, S, r) >= n
  <2> SUFFICES ASSUME Rank(w, S, r) < n PROVE FALSE
    BY <1>1, <1>4
  <2> DEFINE i == Rank(w, S, r) + 1
  <2>1. i \in 1 .. n /\ i - 1 = Rank(w, S, r)
    BY <1>1, <1>4
  <2> HIDE DEF i
  <2>2. list[i] \in S /\ Rank(w, S, list[i]) = Rank(w, S, r)
    BY <1>0, <2>1
  <2>3. list[i] = r
    BY <2>2, RanksDiffer
  <2> QED BY <1>5, <2>1, <2>3
<1>6. ASSUME NEW k \in named, NEW r \in S \ named PROVE w[k] >= w[r]
  <2>1. w[k] \in Int /\ w[r] \in Int /\ k \in S
    BY <1>2 DEF Weighs
  <2> SUFFICES ASSUME w[r] > w[k] PROVE FALSE
    BY <2>1
  <2>2. Rank(w, S, r) < Rank(w, S, k)
    BY <2>1, RanksFollow
  <2>3. Rank(w, S, k) < n
    BY <1>0, <1>1
  <2> QED BY <1>1, <1>4, <1>5, <2>1, <2>2, <2>3
<1>7. n = Cardinality(S) => named = S
  BY <1>2, <1>3, FS_Subset
<1> QED BY <1>2, <1>3, <1>6, <1>7 DEF Heaviest

\* The smaller of two numbers.
LEMMA LesserOfTwo ==
    ASSUME NEW a \in Nat, NEW b \in Nat
    PROVE  /\ Engine!Min({a, b}) = IF a <= b THEN a ELSE b
           /\ Wwf!Min({a, b}) = IF a <= b THEN a ELSE b
<1> DEFINE m == IF a <= b THEN a ELSE b
<1>1. m \in {a, b} /\ \A x \in {a, b} : m <= x
  OBVIOUS
<1>2. \A x \in {a, b} : (\A y \in {a, b} : x <= y) => x = m
  OBVIOUS
<1>3. Engine!Min({a, b}) = m
  <2>1. Engine!Min({a, b}) = CHOOSE x \in {a, b} : \A y \in {a, b} : x <= y
    BY DEF Engine!Min
  <2> HIDE DEF m
  <2> QED BY <1>1, <1>2, <2>1
<1>4. Wwf!Min({a, b}) = m
  <2>1. Wwf!Min({a, b}) = CHOOSE x \in {a, b} : \A y \in {a, b} : x <= y
    BY DEF Wwf!Min
  <2> HIDE DEF m
  <2> QED BY <1>1, <1>2, <2>1
<1> QED BY <1>3, <1>4

LEMMA LenOfList ==
    ASSUME NEW n \in Nat, NEW S, NEW list \in [1 .. n -> S]
    PROVE  Len(list) = n
<1>1. list \in Seq(S)
  BY SeqDef
<1>2. Len(list) \in Nat /\ DOMAIN list = 1 .. Len(list)
  BY <1>1, LenProperties
<1>3. 1 .. n = 1 .. Len(list)
  BY <1>2
<1> QED BY <1>2, <1>3

\* The lists of a Protein Tracker run.
LEMMA TrackerListsRank ==
    ASSUME NEW run, NEW side \in {"plant", "animal"}, Top \in Nat,
           IsFiniteSet(DOMAIN run.rows), DOMAIN run.rows \subseteq Int,
           \A k \in DOMAIN run.rows : SoundRow(run.rows[k])
    PROVE  LET keys == Engine!Contributing(run.rows, side)
               w == [k \in keys |-> Engine!Amounts(run.rows[k])[side]]
               n == Engine!Min({Top, Engine!Cardinality(keys)})
               list == Engine!Contributors(run.rows, side)
           IN  /\ keys \subseteq DOMAIN run.rows /\ IsFiniteSet(keys) /\ Weighs(w, keys)
               /\ \A k \in DOMAIN run.rows : Engine!Amounts(run.rows[k])[side] \in Nat
               /\ n = IF Top <= Cardinality(keys) THEN Top ELSE Cardinality(keys)
               /\ n \in 0 .. Cardinality(keys)
               /\ list \in [1 .. n -> keys]
               /\ \A i \in 1 .. n : Rank(w, keys, list[i]) = i - 1
<1> DEFINE rows == run.rows
           R == DOMAIN rows
           keys == Engine!Contributing(rows, side)
           amount == [k \in R |-> Engine!Amounts(rows[k])[side]]
           w == [k \in keys |-> Engine!Amounts(rows[k])[side]]
           n == Engine!Min({Top, Engine!Cardinality(keys)})
           list == Engine!Contributors(rows, side)
<1>1. ASSUME NEW k \in R PROVE Engine!Amounts(rows[k])[side] \in Nat
  <2> DEFINE row == rows[k]
  <2>1. SoundRow(row)
    OBVIOUS
  <2>2. row.full \in Nat /\ row.plant \in Nat /\ row.animal \in Nat
    BY <2>1 DEF SoundRow
  <2>3. /\ Engine!Amounts(row).plant =
                2 * ((IF row.group = "plant_based_core" THEN row.full ELSE 0)
                       + (IF row.group = "plant_based_non_core" THEN row.full ELSE 0)
                       + (IF row.split THEN row.plant ELSE 0))
                  + (IF row.group = "composite_products" /\ ~row.split THEN row.full ELSE 0)
        /\ Engine!Amounts(row).animal =
                2 * ((IF row.group = "animal_core" THEN row.full ELSE 0)
                       + (IF row.split THEN row.animal ELSE 0))
                  + (IF row.group = "composite_products" /\ ~row.split THEN row.full ELSE 0)
    BY <2>1, AmountsOfRow
  <2> DEFINE a == IF row.group = "plant_based_core" THEN row.full ELSE 0
             b == IF row.group = "plant_based_non_core" THEN row.full ELSE 0
             c == IF row.group = "animal_core" THEN row.full ELSE 0
             d == IF row.split THEN row.plant ELSE 0
             e == IF row.split THEN row.animal ELSE 0
             h == IF row.group = "composite_products" /\ ~row.split THEN row.full ELSE 0
  <2>5. a \in Nat /\ b \in Nat /\ c \in Nat
    BY <2>2
  <2>6. d \in Nat /\ e \in Nat /\ h \in Nat
    <3>1. 0 \in Nat
      OBVIOUS
    <3> QED BY <2>2, <3>1, Zenon
  <2>7. Engine!Amounts(row).plant = 2 * (a + b + d) + h
        /\ Engine!Amounts(row).animal = 2 * (c + e) + h
    BY <2>3
  <2> HIDE DEF row, a, b, c, d, e, h
  <2>8. Engine!Amounts(row).plant \in Nat /\ Engine!Amounts(row).animal \in Nat
    BY <2>5, <2>6, <2>7
  <2>4. Engine!Amounts(row)["plant"] \in Nat /\ Engine!Amounts(row)["animal"] \in Nat
    BY <2>8
  <2> QED BY <2>4 DEF row
<1>2. keys \in SUBSET R
  BY DEF Engine!Contributing
<1>3. IsFiniteSet(keys) /\ keys \in SUBSET Int /\ Cardinality(keys) \in Nat
  BY <1>2, FS_Subset, FS_CardinalityType
<1>4. \A k \in keys : w[k] = Engine!Amounts(rows[k])[side] /\ w[k] \in Nat
  BY <1>1, <1>2
<1>5. Weighs(w, keys)
  BY <1>4 DEF Weighs
<1>6. n = IF Top <= Cardinality(keys) THEN Top ELSE Cardinality(keys)
  BY <1>3, LesserOfTwo, OneCardinality
<1>7. n \in 0 .. Cardinality(keys) /\ n \in Nat
  <2> HIDE DEF n, keys
  <2> QED BY <1>3, <1>6
<1>8. list = [i \in 1 .. n |->
        CHOOSE k \in keys : Engine!Cardinality({j \in keys :
            \/ Engine!Amounts(rows[j])[side] > Engine!Amounts(rows[k])[side]
            \/ Engine!Amounts(rows[j])[side] = Engine!Amounts(rows[k])[side] /\ j < k}) = i - 1]
  BY DEF Engine!Contributors
<1>9. ASSUME NEW k \in keys
      PROVE  Engine!Cardinality({j \in keys :
                \/ Engine!Amounts(rows[j])[side] > Engine!Amounts(rows[k])[side]
                \/ Engine!Amounts(rows[j])[side] = Engine!Amounts(rows[k])[side] /\ j < k})
               = Rank(w, keys, k)
  <2>1. {j \in keys :
                \/ Engine!Amounts(rows[j])[side] > Engine!Amounts(rows[k])[side]
                \/ Engine!Amounts(rows[j])[side] = Engine!Amounts(rows[k])[side] /\ j < k}
          = Ahead(w, keys, k)
    <3> HIDE DEF w, keys
    <3> QED BY <1>4 DEF Ahead
  <2> QED BY <2>1, OneCardinality DEF Rank
<1> HIDE DEF w, keys, n, list
<1>10. ASSUME NEW i \in 1 .. n
       PROVE  list[i] \in keys /\ Rank(w, keys, list[i]) = i - 1
  <2> DEFINE P(k) == Engine!Cardinality({j \in keys :
            \/ Engine!Amounts(rows[j])[side] > Engine!Amounts(rows[k])[side]
            \/ Engine!Amounts(rows[j])[side] = Engine!Amounts(rows[k])[side] /\ j < k}) = i - 1
  <2>1. list[i] = CHOOSE k \in keys : P(k)
    BY <1>8
  <2>2. i \in 1 .. Cardinality(keys)
    BY <1>3, <1>7
  <2>3. \E k \in keys : Rank(w, keys, k) = i - 1
    BY <1>3, <1>5, <2>2, RanksAreTaken
  <2>4. \A k \in keys : P(k) <=> Rank(w, keys, k) = i - 1
    BY <1>9
  <2> HIDE DEF P
  <2>5. list[i] \in keys /\ P(list[i])
    BY <2>1, <2>3, <2>4
  <2> QED BY <2>4, <2>5
<1>11. list \in [1 .. n -> keys]
  <2> DEFINE F(i) == CHOOSE k \in keys : Engine!Cardinality({j \in keys :
            \/ Engine!Amounts(rows[j])[side] > Engine!Amounts(rows[k])[side]
            \/ Engine!Amounts(rows[j])[side] = Engine!Amounts(rows[k])[side] /\ j < k}) = i - 1
  <2>0. list = [i \in 1 .. n |-> F(i)]
    BY <1>8
  <2> HIDE DEF F
  <2>1. DOMAIN list = 1 .. n /\ list = [i \in 1 .. n |-> list[i]]
    BY <2>0
  <2> QED BY <1>10, <2>1
<1> QED BY <1>1, <1>2, <1>3, <1>5, <1>6, <1>7, <1>10, <1>11 DEF list, n, w, keys

\* ListsAreTheTop, for a run over products that are ordered.
LEMMA TrackerListsAreTheTop ==
    ASSUME Engine!PTConstantsAssumption, Top \in Nat, NEW catalogue, PTCatalogue(catalogue),
           DOMAIN catalogue \subseteq Int, NEW enriched, Engine!Run(catalogue, enriched).ok
    PROVE  Engine!ListsAreTheTop(Engine!Run(catalogue, enriched))
<1> DEFINE run == Engine!Run(catalogue, enriched)
<1>1. /\ IsFiniteSet(DOMAIN run.rows) /\ DOMAIN run.rows \subseteq Int
      /\ \A k \in DOMAIN run.rows : SoundRow(run.rows[k])
  BY RunWeighs DEF SoundRow
<1> HIDE DEF run
<1>2. ASSUME NEW side \in {"plant", "animal"}
      PROVE  LET list == Engine!Contributors(run.rows, side)
                 named == {list[i] : i \in DOMAIN list}
                 rest == {k \in DOMAIN run.rows : Engine!RowProtein(run.rows[k]) > 0} \ named
             IN  /\ Len(list) = Engine!Cardinality(named)
                 /\ \A k \in named, r \in rest :
                      Engine!Amounts(run.rows[k])[side] >= Engine!Amounts(run.rows[r])[side]
                 /\ Len(list) < Top =>
                      \A r \in rest : Engine!Amounts(run.rows[r])[side] = 0
  <2> DEFINE R == DOMAIN run.rows
             amount(k) == Engine!Amounts(run.rows[k])[side]
             keys == Engine!Contributing(run.rows, side)
             w == [k \in keys |-> Engine!Amounts(run.rows[k])[side]]
             n == Engine!Min({Top, Engine!Cardinality(keys)})
             list == Engine!Contributors(run.rows, side)
             named == {list[i] : i \in 1 .. n}
             rest == {k \in R : Engine!RowProtein(run.rows[k]) > 0} \ named
  <2>1. /\ keys \subseteq R /\ IsFiniteSet(keys) /\ Weighs(w, keys)
        /\ \A k \in R : amount(k) \in Nat
        /\ n = IF Top <= Cardinality(keys) THEN Top ELSE Cardinality(keys)
        /\ n \in 0 .. Cardinality(keys)
        /\ list \in [1 .. n -> keys]
        /\ \A i \in 1 .. n : Rank(w, keys, list[i]) = i - 1
    BY <1>1, <1>2, TrackerListsRank
  <2>2. keys = {k \in R : Engine!RowProtein(run.rows[k]) > 0 /\ amount(k) > 0}
    BY DEF Engine!Contributing
  <2>3. \A k \in keys : w[k] = amount(k)
    OBVIOUS
  <2>4. keys \in SUBSET Int
    BY <1>1, <2>1
  <2>5. DOMAIN list = 1 .. n /\ \A i \in 1 .. n : list[i] \in keys
    BY <2>1
  <2>6. n \in Nat /\ Cardinality(keys) \in Nat
    BY <2>1, FS_CardinalityType
  <2>13. named = {list[i] : i \in 1 .. n}
    OBVIOUS
  <2> HIDE DEF keys, w, n, list, amount, named
  <2>7. Len(list) = n
    BY <2>1, <2>6, LenOfList
  <2>8. /\ named \subseteq keys /\ Cardinality(named) = n
        /\ \A k \in named, r \in keys \ named : w[k] >= w[r]
        /\ n = Cardinality(keys) => named = keys
    <3>1. FirstRanks(w, keys, n, list)
      BY <2>1, <2>5 DEF FirstRanks
    <3>2. IsFiniteSet(keys)
      BY <2>1
    <3>3. Weighs(w, keys)
      BY <2>1
    <3>4. Heaviest(w, keys, n, {list[i] : i \in 1 .. n})
      BY ONLY <2>4, <3>1, <3>2, <3>3, ListIsTheTop
    <3> QED BY ONLY <2>13, <3>4 DEF Heaviest
  <2>9. \A r \in rest : r \in keys \ named \/ amount(r) = 0
    <3> SUFFICES ASSUME NEW r \in rest, r \notin keys PROVE amount(r) = 0
      OBVIOUS
    <3>1. amount(r) \in Nat /\ ~(amount(r) > 0)
      BY <2>1, <2>2
    <3> QED BY <3>1
  <2>10. ASSUME NEW k \in named, NEW r \in rest PROVE amount(k) >= amount(r)
    <3>1. amount(k) \in Nat /\ amount(r) \in Nat /\ k \in keys /\ w[k] = amount(k)
      BY <2>1, <2>3, <2>8
    <3>2. CASE r \in keys \ named
      <4>1. w[k] >= w[r] /\ w[r] = amount(r)
        BY <2>3, <2>8, <3>2
      <4> QED BY <3>1, <4>1
    <3>3. CASE amount(r) = 0
      BY <3>1, <3>3
    <3> QED BY <2>9, <3>2, <3>3
  <2>11. ASSUME n < Top, NEW r \in rest PROVE amount(r) = 0
    <3>1. n = Cardinality(keys)
      BY <2>1, <2>11
    <3> QED BY <2>8, <2>9, <3>1
  <2>12. Engine!Cardinality(named) = n
    BY <2>8, OneCardinality
  <2> QED BY <2>5, <2>7, <2>10, <2>11, <2>12 DEF named, amount, list
<1>3. Engine!ListsAreTheTop(run)
  BY <1>2 DEF Engine!ListsAreTheTop
<1> QED BY <1>3 DEF run

-----------------------------------------------------------------------------
(* The lists of a WWF run *)

\* The products a list of a side is chosen from.
Weighty(rows, side) ==
    {k \in DOMAIN rows : /\ rows[k].group \in Wwf!FoodGroups /\ rows[k].weight > 0
                         /\ Wwf!Polarity(rows[k]) = side}

LEMMA WWFListsRank ==
    ASSUME NEW rows, NEW side, Top \in Nat,
           IsFiniteSet(DOMAIN rows), DOMAIN rows \subseteq Int,
           \A k \in DOMAIN rows : rows[k].weight \in Nat
    PROVE  \E n :
             /\ Wwf!Range(Wwf!Contributors(rows, side))
                  = {Wwf!Contributors(rows, side)[i] : i \in 1 .. n}
             /\ FirstRanks([k \in Weighty(rows, side) |-> rows[k].weight],
                           Weighty(rows, side), n, Wwf!Contributors(rows, side))
<1> DEFINE keys == Weighty(rows, side)
           w == [k \in keys |-> rows[k].weight]
           n == Wwf!Min({Top, Wwf!Cardinality(keys)})
           list == Wwf!Contributors(rows, side)
           before(j, k) == \/ rows[j].weight > rows[k].weight
                           \/ rows[j].weight = rows[k].weight /\ j < k
<1>1. IsFiniteSet(keys) /\ keys \in SUBSET Int /\ Cardinality(keys) \in Nat
  <2>1. keys \in SUBSET DOMAIN rows
    BY DEF Weighty
  <2> HIDE DEF keys
  <2> QED BY <2>1, FS_Subset, FS_CardinalityType
<1>2. \A k \in keys : w[k] = rows[k].weight /\ w[k] \in Nat
  BY DEF Weighty
<1>3. Weighs(w, keys)
  BY <1>2 DEF Weighs
<1>4. n = IF Top <= Cardinality(keys) THEN Top ELSE Cardinality(keys)
  BY <1>1, LesserOfTwo, OneCardinality
<1>5. n \in 0 .. Cardinality(keys)
  <2> HIDE DEF n, keys
  <2> QED BY <1>1, <1>4
<1>6. list = [i \in 1 .. n |->
                CHOOSE k \in keys : Wwf!Cardinality({j \in keys : before(j, k)}) = i - 1]
  BY DEF Wwf!Contributors, Weighty
<1>7. ASSUME NEW k \in keys
      PROVE  Wwf!Cardinality({j \in keys : before(j, k)}) = Rank(w, keys, k)
  <2>1. {j \in keys : before(j, k)} = Ahead(w, keys, k)
    <3> HIDE DEF w, keys
    <3> QED BY <1>2 DEF Ahead
  <2> QED BY <2>1, OneCardinality DEF Rank
<1> HIDE DEF w, keys, n, list, before
<1>8. ASSUME NEW i \in 1 .. n
      PROVE  list[i] \in keys /\ Rank(w, keys, list[i]) = i - 1
  <2> DEFINE P(k) == Wwf!Cardinality({j \in keys : before(j, k)}) = i - 1
  <2>1. list[i] = CHOOSE k \in keys : P(k)
    BY <1>6
  <2>2. i \in 1 .. Cardinality(keys)
    BY <1>1, <1>5
  <2>3. \E k \in keys : Rank(w, keys, k) = i - 1
    BY <1>1, <1>3, <2>2, RanksAreTaken
  <2>4. \A k \in keys : P(k) <=> Rank(w, keys, k) = i - 1
    BY <1>7
  <2> HIDE DEF P
  <2>5. list[i] \in keys /\ P(list[i])
    BY <2>1, <2>3, <2>4
  <2> QED BY <2>4, <2>5
<1>9. FirstRanks(w, keys, n, list)
  BY <1>5, <1>8 DEF FirstRanks
<1>10. Wwf!Range(list) = {list[i] : i \in 1 .. n}
  <2>1. DOMAIN list = 1 .. n
    BY <1>6
  <2> QED BY <2>1 DEF Wwf!Range
<1> QED BY <1>9, <1>10 DEF list, w, keys

\* No whole product that counts as animal is on the side of the praised.
LEMMA PraisedArePlants ==
    ASSUME NEW row, ~row.composite, Wwf!Polarity(row) = "positive"
    PROVE  ~Wwf!IsAnimal(row.group, row.subgroup)
<1>1. CASE row.group = "FG1"
  <2>1. row.subgroup \notin Wwf!AnimalSubgroups
    BY <1>1 DEF Wwf!Polarity
  <2> QED BY <1>1, <2>1 DEF Wwf!IsAnimal
<1>2. CASE row.group \in {"FG4", "FG5"}
  BY <1>2 DEF Wwf!IsAnimal
<1>3. CASE row.group \notin {"FG1", "FG4", "FG5"}
  BY <1>3 DEF Wwf!Polarity
<1> QED BY <1>1, <1>2, <1>3

\* ListsFit, for a run over products that are ordered.
LEMMA WWFListsFit ==
    ASSUME Wwf!WWFConstantsAssumption, Top \in Nat, NEW catalogue, WWFCatalogue(catalogue),
           DOMAIN catalogue \subseteq Int
    PROVE  Wwf!ListsFit(Wwf!Rows(catalogue))
<1> DEFINE rows == Wwf!Rows(catalogue)
           R == DOMAIN rows
           named(side) == Wwf!Range(Wwf!Contributors(rows, side))
<1>1. R = DOMAIN catalogue /\ \A k \in R : rows[k].weight \in Nat
  <2>1. ASSUME NEW k \in DOMAIN catalogue
        PROVE  Wwf!Weight(catalogue[k].weight, catalogue[k]) \in Nat
    BY WeightFits DEF WWFCatalogue, WWFProduct
  <2> QED BY <2>1 DEF Wwf!Rows
<1>2. IsFiniteSet(R) /\ R \subseteq Int
  BY <1>1 DEF WWFCatalogue
<1> HIDE DEF rows
<1>3. ASSUME NEW side
      PROVE  /\ named(side) \subseteq Weighty(rows, side)
             /\ \A k \in named(side), r \in Weighty(rows, side) \ named(side) :
                    rows[k].weight >= rows[r].weight
  <2> DEFINE keys == Weighty(rows, side)
             w == [k \in keys |-> rows[k].weight]
             list == Wwf!Contributors(rows, side)
  <2>1. PICK n : named(side) = {list[i] : i \in 1 .. n} /\ FirstRanks(w, keys, n, list)
    BY <1>1, <1>2, WWFListsRank
  <2>2. keys \in SUBSET R
    BY DEF Weighty
  <2>3. \A k \in keys : w[k] = rows[k].weight
    OBVIOUS
  <2>4. \A k \in keys : w[k] \in Nat
    BY <1>1, <2>2, <2>3
  <2> HIDE DEF keys, w, list
  <2>5. keys \in SUBSET Int
    BY <1>2, <2>2
  <2>6. IsFiniteSet(keys)
    BY <1>2, <2>2, FS_Subset
  <2>7. Weighs(w, keys)
    BY <2>4 DEF Weighs
  <2>8. FirstRanks(w, keys, n, list)
    BY <2>1
  <2>9. Heaviest(w, keys, n, {list[i] : i \in 1 .. n})
    BY ONLY <2>5, <2>6, <2>7, <2>8, ListIsTheTop
  <2>10. Heaviest(w, keys, n, named(side))
    BY <2>1, <2>9
  <2> HIDE DEF named
  <2>11. named(side) \subseteq keys
         /\ \A k \in named(side), r \in keys \ named(side) : w[k] >= w[r]
    BY <2>10 DEF Heaviest
  <2>12. \A k \in named(side), r \in keys \ named(side) : rows[k].weight >= rows[r].weight
    BY <2>3, <2>11
  <2> QED BY <2>11, <2>12 DEF keys
<1> HIDE DEF named
<1>4. ASSUME NEW k \in named("positive"), ~rows[k].composite
      PROVE  ~Wwf!IsAnimal(rows[k].group, rows[k].subgroup)
  <2>1. Wwf!Polarity(rows[k]) = "positive"
    BY <1>3 DEF Weighty
  <2> QED BY <1>4, <2>1, PraisedArePlants
<1>5. named("positive") \cap named("watchout") = {}
  <2>1. \A k \in named("positive") : Wwf!Polarity(rows[k]) = "positive"
    BY <1>3 DEF Weighty
  <2>2. \A k \in named("watchout") : Wwf!Polarity(rows[k]) = "watchout"
    BY <1>3 DEF Weighty
  <2> QED BY <2>1, <2>2
<1>6. ASSUME NEW side \in {"positive", "watchout"}, NEW k \in named(side), NEW r \in R,
             Wwf!Polarity(rows[r]) = side, rows[r].group \in Wwf!FoodGroups,
             rows[r].weight > rows[k].weight
      PROVE  r \in named(side)
  <2>1. k \in R
    BY <1>3 DEF Weighty
  <2>2. rows[k].weight \in Nat /\ rows[r].weight \in Nat
    BY <1>1, <2>1
  <2>3. rows[r].weight > 0
    BY <1>6, <2>2
  <2>4. r \in Weighty(rows, side)
    BY <1>6, <2>3 DEF Weighty
  <2> QED BY <1>3, <1>6, <2>2, <2>4
<1> QED BY <1>4, <1>5, <1>6 DEF Wwf!ListsFit, named, rows

-----------------------------------------------------------------------------
(* The counts of the coverage section *)

\* The operators of the two engines are the same.
OneHalfUp(n, d) == (2 * n + d) \div (2 * d)
OneAtLeast(n, d, percent) == d > 0 /\ OneHalfUp(n * 10000, d) >= percent * 100
MuchDoubt(c) ==
    \/ c.errors > 0
    \/ OneAtLeast(c.unknown, c.total, 10)
    \/ c.pending > 0 /\ OneAtLeast(c.pending, c.total, 5)
SomeDoubt(c) ==
    \/ OneAtLeast(c.sources["ai"], c.total, 30)
    \/ OneAtLeast(c.missingProtein, c.total, 10)
    \/ OneAtLeast(c.missingWeight, c.total, 10)
    \/ c.pending > 0
Level(c) == IF MuchDoubt(c) THEN "high" ELSE IF SomeDoubt(c) THEN "medium" ELSE "low"

LEMMA OneUncertainty ==
    \A c : Engine!Uncertainty(c) = Level(c) /\ Wwf!Uncertainty(c) = Level(c)
<1>1. \A n, d, p : /\ Engine!AtLeast(n, d, p) = OneAtLeast(n, d, p)
                   /\ Wwf!AtLeast(n, d, p) = OneAtLeast(n, d, p)
  BY DEF Engine!AtLeast, Wwf!AtLeast, OneAtLeast, Engine!HalfUp, Wwf!HalfUp, OneHalfUp
<1> QED
  BY <1>1 DEF Engine!Uncertainty, Wwf!Uncertainty, Level, MuchDoubt, SomeDoubt

\* One more of the same total does not fall below the threshold.
LEMMA MoreIsAtLeast ==
    ASSUME NEW n \in Nat, NEW d \in Nat, NEW p \in Nat, OneAtLeast(n, d, p)
    PROVE  OneAtLeast(n + 1, d, p)
<1> DEFINE a == 2 * (n * 10000) + d
           b == 2 * ((n + 1) * 10000) + d
           q == a \div (2 * d)
           r == b \div (2 * d)
           e == 2 * d
<1>1. d > 0 /\ q >= p * 100
  BY DEF OneAtLeast, OneHalfUp
<1>2. a \in Nat /\ b \in Nat /\ a <= b /\ e \in Nat \ {0}
  BY <1>1
<1> HIDE DEF a, b, e
<1>3. /\ a \div e \in Nat /\ a % e \in Nat /\ a = e * (a \div e) + (a % e) /\ a % e < e
      /\ b \div e \in Nat /\ b % e \in Nat /\ b = e * (b \div e) + (b % e) /\ b % e < e
  BY <1>2, Division
<1>4. a \div e <= b \div e
  <2> DEFINE x == a \div e
             y == b \div e
  <2> SUFFICES ASSUME y < x PROVE FALSE
    BY <1>3
  <2>1. x \in Nat /\ y \in Nat /\ y + 1 <= x
    BY <1>3
  <2> HIDE DEF x, y
  <2>2. e * (y + 1) <= e * x
    BY <1>2, <2>1, TimesKeepsOrder
  <2>3. e * (y + 1) = e * y + e /\ e * x \in Nat /\ e * y \in Nat
    BY <1>2, <2>1
  <2>4. a >= e * x /\ b < e * y + e
    BY <1>2, <1>3, <2>3 DEF x, y
  <2> QED BY <1>2, <2>2, <2>3, <2>4
<1>5. r >= p * 100
  BY <1>1, <1>3, <1>4 DEF e
<1> QED BY <1>1, <1>5 DEF OneAtLeast, OneHalfUp, b

\* Less than a tenth after rounding is at most a tenth.
LEMMA LessThanATenth ==
    ASSUME NEW n \in Nat, NEW d \in Nat, d > 0, ~OneAtLeast(n, d, 10)
    PROVE  10 * n <= d
<1> DEFINE a == 2 * (n * 10000) + d
           e == 2 * d
<1>1. a \div e < 1000 /\ a \in Nat /\ e \in Nat \ {0}
  <2>1. a \in Nat /\ e \in Nat \ {0}
    OBVIOUS
  <2>2. a \div e \in Nat
    BY <2>1, Division
  <2>3. ~(a \div e >= 10 * 100)
    BY DEF OneAtLeast, OneHalfUp
  <2> HIDE DEF a, e
  <2> QED BY <2>1, <2>2, <2>3
<1> HIDE DEF a, e
<1>2. a \div e \in Nat /\ a = e * (a \div e) + (a % e) /\ a % e < e /\ a % e \in Nat
  BY <1>1, Division
<1>3. a < e * 1000
  <2> DEFINE q == a \div e
  <2>1. q \in Nat /\ q + 1 <= 1000
    BY <1>1, <1>2
  <2>2. a = e * q + (a % e)
    BY <1>2
  <2> HIDE DEF q
  <2>3. e * (q + 1) <= e * 1000
    BY <1>1, <2>1, TimesKeepsOrder
  <2>4. e * (q + 1) = e * q + e /\ e * q \in Nat /\ e * 1000 \in Nat
    BY <1>1, <2>1
  <2> QED BY <1>1, <1>2, <2>2, <2>3, <2>4
<1> QED BY <1>3 DEF a, e

\* The counts a section can have, and how they fit together.
SectionNumbers ==
    [total : Nat, unknown : Nat, outOfScope : Nat, classified : Int, sources : [Deciders -> Nat],
     sent : Nat, pending : Nat, reviewed : Nat, missingProtein : Nat, missingWeight : Nat,
     errors : Nat]
Fitting(c) ==
    /\ c \in SectionNumbers /\ c.unknown <= c.total /\ c.sent = c.pending + c.reviewed
    /\ c.classified + c.unknown + c.outOfScope = c.total

\* More doubt never makes a report surer.
LEMMA LevelIsHonest ==
    ASSUME NEW c \in SectionNumbers, c.unknown <= c.total,
           NEW d \in {[c EXCEPT !.pending = @ + 1], [c EXCEPT !.unknown = @ + 1]}
    PROVE  /\ MuchDoubt(c) => MuchDoubt(d)
           /\ SomeDoubt(c) => SomeDoubt(d)
           /\ Level(c) = "low" => c.errors = 0 /\ c.pending = 0 /\ 10 * c.unknown <= c.total
<1>1. /\ c.errors \in Nat /\ c.unknown \in Nat /\ c.pending \in Nat /\ c.total \in Nat
  BY DEF SectionNumbers
<1>2. /\ d.errors = c.errors /\ d.total = c.total /\ d.sources = c.sources
      /\ d.missingProtein = c.missingProtein /\ d.missingWeight = c.missingWeight
      /\ d.unknown = c.unknown \/ d.unknown = c.unknown + 1
      /\ d.pending = c.pending \/ d.pending = c.pending + 1
  BY DEF SectionNumbers
<1>3. OneAtLeast(c.unknown, c.total, 10) => OneAtLeast(d.unknown, d.total, 10)
  BY <1>1, <1>2, MoreIsAtLeast
<1>4. OneAtLeast(c.pending, c.total, 5) => OneAtLeast(d.pending, d.total, 5)
  BY <1>1, <1>2, MoreIsAtLeast
<1>5. c.pending > 0 => d.pending > 0
  BY <1>1, <1>2
<1>6. MuchDoubt(c) => MuchDoubt(d)
  BY <1>2, <1>3, <1>4, <1>5 DEF MuchDoubt
<1>7. SomeDoubt(c) => SomeDoubt(d)
  BY <1>2, <1>5 DEF SomeDoubt
<1>8. ASSUME Level(c) = "low"
      PROVE  c.errors = 0 /\ c.pending = 0 /\ 10 * c.unknown <= c.total
  <2>1. ~MuchDoubt(c) /\ ~SomeDoubt(c)
    BY <1>8 DEF Level
  <2>2. c.errors = 0 /\ c.pending = 0
    BY <1>1, <2>1 DEF MuchDoubt, SomeDoubt
  <2>3. ~OneAtLeast(c.unknown, c.total, 10)
    BY <2>1 DEF MuchDoubt
  <2>4. CASE c.total = 0
    BY <1>1, <2>2, <2>4
  <2>5. CASE c.total > 0
    BY <1>1, <2>2, <2>3, <2>5, LessThanATenth
  <2> QED BY <1>1, <2>2, <2>4, <2>5
<1> QED BY <1>6, <1>7, <1>8

LEMMA HonestCounts ==
    ASSUME NEW c, Fitting(c)
    PROVE  Engine!UncertaintyIsHonest(c) /\ Wwf!UncertaintyIsHonest(c)
<1> DEFINE rank == [low |-> 0, medium |-> 1, high |-> 2]
           D == {[c EXCEPT !.pending = @ + 1], [c EXCEPT !.unknown = @ + 1]}
<1>0. /\ c \in SectionNumbers /\ c.unknown <= c.total /\ c.sent = c.pending + c.reviewed
      /\ c.classified + c.unknown + c.outOfScope = c.total
  BY DEF Fitting
<1>1. Level(c) = "low" => c.errors = 0 /\ c.pending = 0 /\ 10 * c.unknown <= c.total
  BY <1>0, LevelIsHonest
<1>2. ASSUME NEW d \in D PROVE rank[Level(d)] >= rank[Level(c)]
  <2>1. (MuchDoubt(c) => MuchDoubt(d)) /\ (SomeDoubt(c) => SomeDoubt(d))
    BY <1>0, LevelIsHonest
  <2>2. \/ Level(c) = "low"
        \/ Level(c) = "medium" /\ Level(d) \in {"medium", "high"}
        \/ Level(c) = "high" /\ Level(d) = "high"
    BY <2>1 DEF Level
  <2>3. Level(d) \in {"low", "medium", "high"}
    BY DEF Level
  <2> QED BY <2>2, <2>3
<1> HIDE DEF rank, D
<1>3. \A d \in D : /\ rank[Engine!Uncertainty(d)] >= rank[Engine!Uncertainty(c)]
                   /\ rank[Wwf!Uncertainty(d)] >= rank[Wwf!Uncertainty(c)]
  BY <1>2, OneUncertainty
<1>4. Engine!Uncertainty(c) = Level(c) /\ Wwf!Uncertainty(c) = Level(c)
  BY OneUncertainty
<1>5. Engine!UncertaintyIsHonest(c)
  BY <1>0, <1>1, <1>3, <1>4 DEF Engine!UncertaintyIsHonest, rank, D
<1>6. Wwf!UncertaintyIsHonest(c)
  BY <1>0, <1>1, <1>3, <1>4 DEF Wwf!UncertaintyIsHonest, rank, D
<1> QED BY <1>5, <1>6

\* The counts of a section, by the cardinality of its sets.
Having(now, keys, s) == {k \in keys : now[k].by = s}
Reviewed(now, statuses) == {k \in DOMAIN now : now[k].review \in statuses}
InRows(rows, g) == {k \in DOMAIN rows : rows[k].group = g}
CountsOf(rows, now, unvalued, errors) ==
    LET live == DOMAIN rows \cap DOMAIN now
    IN  [total |-> Cardinality(DOMAIN rows),
         unknown |-> Cardinality(InRows(rows, "unknown")),
         outOfScope |-> Cardinality(InRows(rows, "out_of_scope")),
         classified |-> Cardinality(DOMAIN rows) - Cardinality(InRows(rows, "unknown"))
                          - Cardinality(InRows(rows, "out_of_scope")),
         sources |-> [s \in Deciders |-> Cardinality(Having(now, live, s))],
         sent |-> Cardinality(Reviewed(now, ReviewStatus)),
         pending |-> Cardinality(Reviewed(now, {"in_queue", "reviewing"})),
         reviewed |-> Cardinality(Reviewed(now, {"accepted", "changed", "deferred"})),
         missingProtein |-> Cardinality(live \cap unvalued),
         missingWeight |-> Cardinality({k \in live : now[k].weight = 0}),
         errors |-> errors]

LEMMA OneSectionCounts ==
    ASSUME NEW rows, NEW now, StoredNow(now), NEW unvalued, NEW errors
    PROVE  /\ Engine!SectionCounts(rows, now, unvalued, errors)
                = CountsOf(rows, now, unvalued, errors)
           /\ Wwf!SectionCounts(rows, now, unvalued, errors)
                = CountsOf(rows, now, unvalued, errors)
<1> DEFINE items == {k \in DOMAIN now : now[k].review # "none"}
           pending == {k \in items : now[k].review \in {"in_queue", "reviewing"}}
           live == DOMAIN rows \cap DOMAIN now
<1>1. items = Reviewed(now, ReviewStatus)
  BY DEF Reviewed, ReviewStatus, StoredNow
<1>2. pending = Reviewed(now, {"in_queue", "reviewing"})
  BY DEF Reviewed
<1>3. items \ pending = Reviewed(now, {"accepted", "changed", "deferred"})
  BY DEF Reviewed, ReviewStatus, StoredNow
<1>4. \A g : InRows(rows, g) = {k \in DOMAIN rows : rows[k].group = g}
  BY DEF InRows
<1>5. \A s : Having(now, live, s) = {k \in live : now[k].by = s}
  BY DEF Having
<1> DEFINE F == [total |-> Cardinality(DOMAIN rows),
         unknown |-> Cardinality({k \in DOMAIN rows : rows[k].group = "unknown"}),
         outOfScope |-> Cardinality({k \in DOMAIN rows : rows[k].group = "out_of_scope"}),
         classified |-> Cardinality(DOMAIN rows)
                          - Cardinality({k \in DOMAIN rows : rows[k].group = "unknown"})
                          - Cardinality({k \in DOMAIN rows : rows[k].group = "out_of_scope"}),
         sources |-> [s \in Deciders |-> Cardinality({k \in live : now[k].by = s})],
         sent |-> Cardinality(items), pending |-> Cardinality(pending),
         reviewed |-> Cardinality(items \ pending),
         missingProtein |-> Cardinality(live \cap unvalued),
         missingWeight |-> Cardinality({k \in live : now[k].weight = 0}),
         errors |-> errors]
<1>6. Engine!SectionCounts(rows, now, unvalued, errors) = F
  BY OneCardinality DEF Engine!SectionCounts, Engine!CountOver, Engine!OpenStatus, Deciders
<1>7. Wwf!SectionCounts(rows, now, unvalued, errors) = F
  BY OneCardinality DEF Wwf!SectionCounts, Wwf!CountOver, Wwf!OpenStatus, Deciders
<1>8. F = CountsOf(rows, now, unvalued, errors)
  <2> HIDE DEF items, pending
  <2> QED BY <1>1, <1>2, <1>3, <1>4, <1>5 DEF CountsOf
<1> HIDE DEF F
<1> QED BY <1>6, <1>7, <1>8

\* The counts fit together.
LEMMA SectionCountsFit ==
    ASSUME NEW rows, IsFiniteSet(DOMAIN rows), NEW now, StoredNow(now), NEW unvalued,
           NEW errors \in Nat
    PROVE  Fitting(CountsOf(rows, now, unvalued, errors))
<1> DEFINE c == CountsOf(rows, now, unvalued, errors)
           live == DOMAIN rows \cap DOMAIN now
<1>1. /\ Cardinality(DOMAIN rows) \in Nat
      /\ \A g : /\ Cardinality(InRows(rows, g)) \in Nat
                /\ Cardinality(InRows(rows, g)) <= Cardinality(DOMAIN rows)
  <2>1. \A g : InRows(rows, g) \in SUBSET DOMAIN rows
    BY DEF InRows
  <2> QED BY <2>1, FS_Subset, FS_CardinalityType
<1>2. IsFiniteSet(live) /\ \A S \in SUBSET live : Cardinality(S) \in Nat
  BY FS_Subset, FS_CardinalityType
<1>3. \A s : IsFiniteSet(Reviewed(now, s)) /\ Cardinality(Reviewed(now, s)) \in Nat
  <2>1. \A s : Reviewed(now, s) \in SUBSET DOMAIN now
    BY DEF Reviewed
  <2> QED BY <2>1, FS_Subset, FS_CardinalityType DEF StoredNow
<1>4. Cardinality(Reviewed(now, ReviewStatus))
        = Cardinality(Reviewed(now, {"in_queue", "reviewing"}))
            + Cardinality(Reviewed(now, {"accepted", "changed", "deferred"}))
  <2> DEFINE A == Reviewed(now, {"in_queue", "reviewing"})
             B == Reviewed(now, {"accepted", "changed", "deferred"})
             U == Reviewed(now, ReviewStatus)
  <2>1. A \cup B = U /\ A \cap B = {}
    BY DEF Reviewed, ReviewStatus
  <2>2. IsFiniteSet(A) /\ IsFiniteSet(B)
    BY <1>3
  <2> HIDE DEF A, B, U
  <2>3. Cardinality(U) = Cardinality(A) + Cardinality(B)
    BY <2>1, <2>2, CountOfBoth
  <2> QED BY <2>3 DEF A, B, U
<1>5. [s \in Deciders |-> Cardinality(Having(now, live, s))] \in [Deciders -> Nat]
  <2>1. \A s : Having(now, live, s) \in SUBSET live
    BY DEF Having
  <2> HIDE DEF live
  <2> QED BY <1>2, <2>1
<1>6. /\ Cardinality(live \cap unvalued) \in Nat
      /\ Cardinality({k \in live : now[k].weight = 0}) \in Nat
  <2>1. live \cap unvalued \in SUBSET live /\ {k \in live : now[k].weight = 0} \in SUBSET live
    OBVIOUS
  <2> HIDE DEF live
  <2> QED BY <1>2, <2>1
<1>7. c \in SectionNumbers
  <2> DEFINE total == Cardinality(DOMAIN rows)
             unknown == Cardinality(InRows(rows, "unknown"))
             out == Cardinality(InRows(rows, "out_of_scope"))
             sources == [s \in Deciders |-> Cardinality(Having(now, live, s))]
             sent == Cardinality(Reviewed(now, ReviewStatus))
             pending == Cardinality(Reviewed(now, {"in_queue", "reviewing"}))
             reviewed == Cardinality(Reviewed(now, {"accepted", "changed", "deferred"}))
             protein == Cardinality(live \cap unvalued)
             weight == Cardinality({k \in live : now[k].weight = 0})
  <2>1. total \in Nat /\ unknown \in Nat /\ out \in Nat
    BY <1>1
  <2>2. sent \in Nat /\ pending \in Nat /\ reviewed \in Nat
    BY <1>3
  <2>3. protein \in Nat /\ weight \in Nat
    BY <1>6
  <2>4. sources \in [Deciders -> Nat]
    BY <1>5
  <2>5. c = [total |-> total, unknown |-> unknown, outOfScope |-> out,
             classified |-> total - unknown - out, sources |-> sources, sent |-> sent,
             pending |-> pending, reviewed |-> reviewed, missingProtein |-> protein,
             missingWeight |-> weight, errors |-> errors]
    BY DEF CountsOf
  <2> HIDE DEF c, total, unknown, out, sources, sent, pending, reviewed, protein, weight
  <2>6. total - unknown - out \in Int
    BY <2>1
  <2> QED BY <2>1, <2>2, <2>3, <2>4, <2>5, <2>6 DEF SectionNumbers
<1>8. c.unknown <= c.total /\ c.sent = c.pending + c.reviewed
  BY <1>1, <1>4 DEF CountsOf
<1>9. c.classified + c.unknown + c.outOfScope = c.total
  BY <1>1 DEF CountsOf
<1> HIDE DEF c
<1>10. Fitting(c)
  BY <1>7, <1>8, <1>9 DEF Fitting
<1> QED BY <1>10 DEF c

\* The document counts for itself.
ByOf(now, k) == IF k \in DOMAIN now THEN now[k].by ELSE "none"
SourcesOf(rows, now) ==
    [s \in Deciders \cup {"none"} |-> Cardinality({k \in DOMAIN rows : ByOf(now, k) = s})]
SummaryOf(now) ==
    [accepted |-> Cardinality(Reviewed(now, {"accepted"})),
     changed |-> Cardinality(Reviewed(now, {"changed"})),
     deferred |-> Cardinality(Reviewed(now, {"deferred"})),
     pending |-> Cardinality(Reviewed(now, {"in_queue"}))
                   + Cardinality(Reviewed(now, {"reviewing"}))]

LEMMA OneDocument ==
    ASSUME NEW rows, NEW now
    PROVE  /\ Engine!Sources(rows, now) = SourcesOf(rows, now)
           /\ Wwf!Sources(rows, now) = SourcesOf(rows, now)
           /\ Engine!ReviewSummary(now) = SummaryOf(now)
           /\ Wwf!ReviewSummary(now) = SummaryOf(now)
<1> DEFINE F == [s \in {"deterministic", "ai", "manual_review", "none"} |-> Cardinality(
                    {k \in DOMAIN rows :
                        (IF k \in DOMAIN now THEN now[k].by ELSE "none") = s})]
           in(status) == Cardinality({k \in DOMAIN now : now[k].review = status})
           G == [accepted |-> in("accepted"), changed |-> in("changed"),
                 deferred |-> in("deferred"), pending |-> in("in_queue") + in("reviewing")]
<1>1. Engine!Sources(rows, now) = F
  BY OneCardinality DEF Engine!Sources, Engine!CountOver
<1>2. Wwf!Sources(rows, now) = F
  BY OneCardinality DEF Wwf!Sources, Wwf!CountOver
<1>3. F = SourcesOf(rows, now)
  <2>1. {"deterministic", "ai", "manual_review", "none"} = Deciders \cup {"none"}
    BY DEF Deciders
  <2> QED BY <2>1 DEF SourcesOf, ByOf
<1>4. Engine!ReviewSummary(now) = G
  BY OneCardinality DEF Engine!ReviewSummary, Engine!CountOver
<1>5. Wwf!ReviewSummary(now) = G
  BY OneCardinality DEF Wwf!ReviewSummary, Wwf!CountOver
<1>6. G = SummaryOf(now)
  <2>1. \A status : {k \in DOMAIN now : now[k].review = status} = Reviewed(now, {status})
    BY DEF Reviewed
  <2> QED BY <2>1 DEF SummaryOf
<1> QED BY <1>1, <1>2, <1>3, <1>4, <1>5, <1>6

LEMMA SourcesAreFinite == IsFiniteSet(Deciders \cup {"none"})
<1>1. Deciders \cup {"none"}
        = (({"deterministic"} \cup {"ai"}) \cup {"manual_review"}) \cup {"none"}
  BY DEF Deciders
<1>2. IsFiniteSet({"deterministic"} \cup {"ai"})
  BY FS_Singleton, FS_AddElement
<1>3. IsFiniteSet(({"deterministic"} \cup {"ai"}) \cup {"manual_review"})
  BY <1>2, FS_AddElement
<1> QED BY <1>1, <1>3, FS_AddElement

\* Who decided is counted alike, and the rows are counted once.
LEMMA SourcesAgree ==
    ASSUME NEW rows, IsFiniteSet(DOMAIN rows), NEW now, StoredNow(now)
    PROVE  /\ \A s \in Deciders :
                SourcesOf(rows, now)[s]
                  = Cardinality(Having(now, DOMAIN rows \cap DOMAIN now, s))
           /\ DOMAIN SourcesOf(rows, now) = Deciders \cup {"none"}
           /\ Sum([s \in Deciders \cup {"none"} |-> SourcesOf(rows, now)[s]],
                  Deciders \cup {"none"})
                = Cardinality(DOMAIN rows)
<1> DEFINE K == Deciders \cup {"none"}
           U == DOMAIN rows
           key == [k \in U |-> ByOf(now, k)]
           f == SourcesOf(rows, now)
<1>1. \A x \in U : key[x] \in K
  BY DEF ByOf, StoredNow
<1>2. DOMAIN f = K /\ \A s \in K : f[s] = Cardinality({x \in U : key[x] = s})
  BY DEF SourcesOf
<1>3. IsFiniteSet(K) /\ IsFiniteSet(U)
  BY SourcesAreFinite
<1>4. ASSUME NEW s \in Deciders
      PROVE  {x \in U : key[x] = s} = Having(now, DOMAIN rows \cap DOMAIN now, s)
  <2>1. s # "none"
    BY DEF Deciders
  <2> QED BY <2>1 DEF Having, ByOf
<1> HIDE DEF key, f
<1>5. \A s \in Deciders : f[s] = Cardinality(Having(now, DOMAIN rows \cap DOMAIN now, s))
  BY <1>2, <1>4
<1> HIDE DEF K, U
<1>6. Sum([s \in K |-> f[s]], K) = Cardinality(U)
  BY <1>1, <1>2, <1>3, CountsByKey
<1> QED BY <1>2, <1>5, <1>6 DEF K, U, f

\* What became of the review items is counted alike.
LEMMA SummaryAgrees ==
    ASSUME NEW now, StoredNow(now)
    PROVE  /\ Cardinality(Reviewed(now, {"in_queue"})) + Cardinality(Reviewed(now, {"reviewing"}))
                = Cardinality(Reviewed(now, {"in_queue", "reviewing"}))
           /\ Cardinality(Reviewed(now, {"accepted"})) + Cardinality(Reviewed(now, {"changed"}))
                + Cardinality(Reviewed(now, {"deferred"}))
                = Cardinality(Reviewed(now, {"accepted", "changed", "deferred"}))
<1>1. \A s : IsFiniteSet(Reviewed(now, s)) /\ Cardinality(Reviewed(now, s)) \in Nat
  <2>1. \A s : Reviewed(now, s) \in SUBSET DOMAIN now
    BY DEF Reviewed
  <2> QED BY <2>1, FS_Subset, FS_CardinalityType DEF StoredNow
<1>2. ASSUME NEW s, NEW t, s \cap t = {}
      PROVE  Cardinality(Reviewed(now, s \cup t))
               = Cardinality(Reviewed(now, s)) + Cardinality(Reviewed(now, t))
  <2> DEFINE A == Reviewed(now, s)
             B == Reviewed(now, t)
             U == Reviewed(now, s \cup t)
  <2>1. A \cup B = U /\ A \cap B = {}
    BY <1>2 DEF Reviewed
  <2>2. IsFiniteSet(A) /\ IsFiniteSet(B)
    BY <1>1
  <2> HIDE DEF A, B, U
  <2>3. Cardinality(A \cup B) = Cardinality(A) + Cardinality(B)
    BY <2>1, <2>2, CountOfBoth
  <2> QED BY <2>1, <2>3 DEF A, B, U
<1>3. Cardinality(Reviewed(now, {"in_queue"} \cup {"reviewing"}))
        = Cardinality(Reviewed(now, {"in_queue"})) + Cardinality(Reviewed(now, {"reviewing"}))
  <2>1. {"in_queue"} \cap {"reviewing"} = {}
    OBVIOUS
  <2> QED BY <1>2, <2>1
<1>4. Cardinality(Reviewed(now, {"accepted"} \cup {"changed"}))
        = Cardinality(Reviewed(now, {"accepted"})) + Cardinality(Reviewed(now, {"changed"}))
  <2>1. {"accepted"} \cap {"changed"} = {}
    OBVIOUS
  <2> QED BY <1>2, <2>1
<1>5. Cardinality(Reviewed(now, ({"accepted"} \cup {"changed"}) \cup {"deferred"}))
        = Cardinality(Reviewed(now, {"accepted"} \cup {"changed"}))
            + Cardinality(Reviewed(now, {"deferred"}))
  <2>1. ({"accepted"} \cup {"changed"}) \cap {"deferred"} = {}
    OBVIOUS
  <2> QED BY <1>2, <2>1
<1>6. /\ {"in_queue"} \cup {"reviewing"} = {"in_queue", "reviewing"}
      /\ ({"accepted"} \cup {"changed"}) \cup {"deferred"} = {"accepted", "changed", "deferred"}
  OBVIOUS
<1> QED BY <1>3, <1>4, <1>5, <1>6

\* DocumentAgrees, for what a section counts.
LEMMA DocumentsAgree ==
    ASSUME NEW rows, IsFiniteSet(DOMAIN rows), NEW now, StoredNow(now), NEW unvalued,
           NEW errors, NEW document, document.sources = SourcesOf(rows, now),
           document.review = SummaryOf(now)
    PROVE  /\ Engine!DocumentAgrees(document, CountsOf(rows, now, unvalued, errors))
           /\ Wwf!DocumentAgrees(document, CountsOf(rows, now, unvalued, errors))
<1> DEFINE c == CountsOf(rows, now, unvalued, errors)
           f == document.sources
<1>1. /\ c.total = Cardinality(DOMAIN rows)
      /\ c.sources = [s \in Deciders |->
                        Cardinality(Having(now, DOMAIN rows \cap DOMAIN now, s))]
      /\ c.pending = Cardinality(Reviewed(now, {"in_queue", "reviewing"}))
      /\ c.reviewed = Cardinality(Reviewed(now, {"accepted", "changed", "deferred"}))
  BY DEF CountsOf
<1>2. /\ document.review.accepted = Cardinality(Reviewed(now, {"accepted"}))
      /\ document.review.changed = Cardinality(Reviewed(now, {"changed"}))
      /\ document.review.deferred = Cardinality(Reviewed(now, {"deferred"}))
      /\ document.review.pending = Cardinality(Reviewed(now, {"in_queue"}))
                                     + Cardinality(Reviewed(now, {"reviewing"}))
  BY DEF SummaryOf
<1>3. /\ document.review.pending = c.pending
      /\ document.review.accepted + document.review.changed + document.review.deferred
           = c.reviewed
  BY <1>1, <1>2, SummaryAgrees
<1>4. \A s \in DOMAIN c.sources : f[s] = c.sources[s]
  <2> HIDE DEF c
  <2>1. DOMAIN c.sources = Deciders
        /\ \A s \in Deciders : c.sources[s]
                                 = Cardinality(Having(now, DOMAIN rows \cap DOMAIN now, s))
    BY <1>1
  <2>2. \A s \in Deciders :
            SourcesOf(rows, now)[s] = Cardinality(Having(now, DOMAIN rows \cap DOMAIN now, s))
    BY SourcesAgree
  <2>3. f = SourcesOf(rows, now)
    OBVIOUS
  <2> HIDE DEF f
  <2> QED BY <2>1, <2>2, <2>3
<1>5. DOMAIN f = Deciders \cup {"none"}
      /\ Sum([s \in Deciders \cup {"none"} |-> f[s]], Deciders \cup {"none"}) = c.total
  BY <1>1, SourcesAgree
<1> HIDE DEF c, f
<1>6. Sum([s \in DOMAIN f |-> f[s]], DOMAIN f) = c.total
  BY <1>5
<1>7. Engine!MapThenSumSet(LAMBDA s : f[s], DOMAIN f)
        = Sum([s \in DOMAIN f |-> f[s]], DOMAIN f)
  BY SumsOf
<1>8. Wwf!MapThenSumSet(LAMBDA s : f[s], DOMAIN f)
        = Sum([s \in DOMAIN f |-> f[s]], DOMAIN f)
  BY WwfSumsOf
<1>9. Engine!SumOver(DOMAIN f, LAMBDA s : f[s]) = c.total
  BY <1>6, <1>7 DEF Engine!SumOver
<1>10. Wwf!SumOver(DOMAIN f, LAMBDA s : f[s]) = c.total
  BY <1>6, <1>8 DEF Wwf!SumOver
<1>11. Engine!DocumentAgrees(document, c)
  BY <1>3, <1>4, <1>9 DEF Engine!DocumentAgrees, f
<1>12. Wwf!DocumentAgrees(document, c)
  BY <1>3, <1>4, <1>10 DEF Wwf!DocumentAgrees, f
<1> QED BY <1>11, <1>12 DEF c

-----------------------------------------------------------------------------
(* Recommendations *)

Actions ==
    {"increase_plant_core_share", "improve_composite_breakdown", "enrich_missing_nutrition",
     "collect_step2_ingredient_data", "promote_legume_products", "improve_data_quality",
     "review_high_impact_unknowns", "create_category_target"}
Priorities == {"critical", "high", "medium", "low"}
Recommendation == [action : Actions, priority : Priorities]
Listed(recs) == {recs[i] : i \in DOMAIN recs}
OneWhen(condition, action, priority) ==
    IF condition THEN <<[action |-> action, priority |-> priority]>> ELSE <<>>
FirstOf(recs) ==
    {recs[i] : i \in {i \in DOMAIN recs : \A j \in 1 .. i - 1 : recs[j].action # recs[i].action}}

\* A rule makes one recommendation or none.
OneOrNone(recs, action, priority) ==
    recs = <<[action |-> action, priority |-> priority]>> \/ recs = <<>>

LEMMA WhenListed ==
    ASSUME NEW action \in Actions, NEW priority \in Priorities, NEW recs,
           OneOrNone(recs, action, priority)
    PROVE  /\ recs \in Seq(Recommendation)
           /\ \A r \in Listed(recs) : r.action = action
           /\ recs # <<>> => \E r \in Listed(recs) : r.action = action
           /\ recs = <<>> => Listed(recs) = {}
<1> DEFINE one == [action |-> action, priority |-> priority]
<1>1. one \in Recommendation /\ one.action = action
  BY DEF Recommendation
<1> HIDE DEF one
<1>2. CASE recs = <<one>>
  <2>1. recs \in Seq(Recommendation) /\ DOMAIN recs = {1} /\ recs[1] = one /\ recs # <<>>
    BY <1>1, <1>2
  <2>2. Listed(recs) = {one}
    BY <2>1 DEF Listed
  <2> QED BY <1>1, <2>1, <2>2
<1>3. CASE recs = <<>>
  <2>1. recs \in Seq(Recommendation) /\ DOMAIN recs = {}
    BY <1>3
  <2> QED BY <1>3, <2>1 DEF Listed
<1> QED BY <1>2, <1>3 DEF OneOrNone, one

\* Rules one after the other.
LEMMA ConcatListed ==
    ASSUME NEW s \in Seq(Recommendation), NEW t \in Seq(Recommendation)
    PROVE  /\ s \o t \in Seq(Recommendation)
           /\ Listed(s \o t) = Listed(s) \cup Listed(t)
<1> DEFINE c == s \o t
<1>1. /\ c \in Seq(Recommendation) /\ Len(c) = Len(s) + Len(t)
      /\ \A i \in 1 .. Len(s) + Len(t) : c[i] = IF i <= Len(s) THEN s[i] ELSE t[i - Len(s)]
  BY ConcatProperties
<1>2. /\ Len(s) \in Nat /\ Len(t) \in Nat
      /\ DOMAIN s = 1 .. Len(s) /\ DOMAIN t = 1 .. Len(t) /\ DOMAIN c = 1 .. Len(c)
  BY <1>1, LenProperties
<1> HIDE DEF c
<1>3. ASSUME NEW i \in DOMAIN c PROVE c[i] \in Listed(s) \cup Listed(t)
  <2>1. CASE i <= Len(s)
    BY <1>1, <1>2, <2>1 DEF Listed
  <2>2. CASE i > Len(s)
    <3>1. i - Len(s) \in DOMAIN t /\ c[i] = t[i - Len(s)]
      BY <1>1, <1>2, <2>2
    <3> QED BY <3>1 DEF Listed
  <2> QED BY <1>1, <1>2, <2>1, <2>2
<1>4. ASSUME NEW i \in DOMAIN s PROVE s[i] \in Listed(c)
  <2>1. i \in DOMAIN c /\ c[i] = s[i]
    BY <1>1, <1>2
  <2> QED BY <2>1 DEF Listed
<1>5. ASSUME NEW i \in DOMAIN t PROVE t[i] \in Listed(c)
  <2> DEFINE j == Len(s) + i
  <2>1. j \in DOMAIN c /\ ~(j <= Len(s)) /\ j - Len(s) = i
    BY <1>1, <1>2
  <2> HIDE DEF j
  <2>2. c[j] = t[i]
    BY <1>1, <1>2, <2>1
  <2> QED BY <2>1, <2>2 DEF Listed
<1>6. Listed(c) = Listed(s) \cup Listed(t)
  BY <1>3, <1>4, <1>5 DEF Listed
<1> QED BY <1>1, <1>6 DEF c

\* Of what is listed every action is recommended, and recommended once.
LEMMA FirstFits ==
    ASSUME NEW recs \in Seq(Recommendation)
    PROVE  /\ FirstOf(recs) \subseteq Listed(recs)
           /\ \A a, b \in FirstOf(recs) : a.action = b.action => a = b
           /\ \A r \in Listed(recs) : \E a \in FirstOf(recs) : a.action = r.action
<1>1. Len(recs) \in Nat /\ DOMAIN recs = 1 .. Len(recs)
  BY LenProperties
<1>2. FirstOf(recs) \subseteq Listed(recs)
  BY DEF FirstOf, Listed
<1>3. ASSUME NEW a \in FirstOf(recs), NEW b \in FirstOf(recs), a.action = b.action
      PROVE  a = b
  <2>1. PICK i \in DOMAIN recs :
           a = recs[i] /\ \A j \in 1 .. i - 1 : recs[j].action # recs[i].action
    BY DEF FirstOf
  <2>2. PICK k \in DOMAIN recs :
           b = recs[k] /\ \A j \in 1 .. k - 1 : recs[j].action # recs[k].action
    BY DEF FirstOf
  <2>3. ~(i < k) /\ ~(k < i)
    BY <1>1, <1>3, <2>1, <2>2
  <2>4. i = k
    BY <1>1, <2>3
  <2> QED BY <2>1, <2>2, <2>4
<1>4. ASSUME NEW r \in Listed(recs)
      PROVE  \E a \in FirstOf(recs) : a.action = r.action
  <2> DEFINE S == {i \in DOMAIN recs : recs[i].action = r.action}
  <2>1. S \in SUBSET Nat /\ S # {}
    BY <1>1 DEF Listed
  <2> HIDE DEF S
  <2>2. PICK i \in S : \A j \in S : i <= j
    BY <2>1, LeastExists
  <2>3. i \in DOMAIN recs /\ recs[i].action = r.action
    BY DEF S
  <2>4. \A j \in 1 .. i - 1 : j \in DOMAIN recs /\ j \notin S
    BY <1>1, <2>1, <2>2, <2>3
  <2>5. \A j \in 1 .. i - 1 : recs[j].action # recs[i].action
    BY <2>3, <2>4 DEF S
  <2>6. recs[i] \in FirstOf(recs)
    BY <2>3, <2>5 DEF FirstOf
  <2> QED BY <2>3, <2>6
<1> QED BY <1>2, <1>3, <1>4

\* The rules both methodologies end with.
OneCountRules(c) ==
    OneWhen(c.total > 0 /\ c.unknown * 100 >= 5 * c.total,
            "review_high_impact_unknowns", "high")
    \o OneWhen(c.total > 0 /\ c.sources["ai"] * 100 >= 30 * c.total,
               "improve_data_quality", "medium")
OneQualityRules(level) ==
    OneWhen(level = "high", "improve_data_quality", "critical")
    \o OneWhen(level = "high", "create_category_target", "low")
LastRules(c, level) == OneCountRules(c) \o OneQualityRules(level)

LEMMA OneAdvice ==
    /\ \A c, a, p : Engine!When(c, a, p) = OneWhen(c, a, p) /\ Wwf!When(c, a, p) = OneWhen(c, a, p)
    /\ \A c : Engine!CountRules(c) = OneCountRules(c) /\ Wwf!CountRules(c) = OneCountRules(c)
    /\ \A level : /\ Engine!QualityRules(level) = OneQualityRules(level)
                  /\ Wwf!QualityRules(level) = OneQualityRules(level)
    /\ \A recs : Engine!FirstOfEach(recs) = FirstOf(recs) /\ Wwf!FirstOfEach(recs) = FirstOf(recs)
<1>1. \A c, a, p : Engine!When(c, a, p) = OneWhen(c, a, p) /\ Wwf!When(c, a, p) = OneWhen(c, a, p)
  BY DEF Engine!When, Wwf!When, OneWhen
<1>2. \A c : Engine!CountRules(c) = OneCountRules(c) /\ Wwf!CountRules(c) = OneCountRules(c)
  BY <1>1 DEF Engine!CountRules, Wwf!CountRules, OneCountRules
<1>3. \A level : /\ Engine!QualityRules(level) = OneQualityRules(level)
                 /\ Wwf!QualityRules(level) = OneQualityRules(level)
  BY <1>1 DEF Engine!QualityRules, Wwf!QualityRules, OneQualityRules
<1>4. \A recs : /\ Engine!FirstOfEach(recs) = FirstOf(recs)
                /\ Wwf!FirstOfEach(recs) = FirstOf(recs)
  BY DEF Engine!FirstOfEach, Wwf!FirstOfEach, FirstOf
<1> QED BY <1>1, <1>2, <1>3, <1>4

\* What they say: high uncertainty asks for better data, and nothing asks for Step 2.
LEMMA LastRulesFit ==
    ASSUME NEW c, NEW level
    PROVE  /\ OneCountRules(c) \in Seq(Recommendation)
           /\ OneQualityRules(level) \in Seq(Recommendation)
           /\ \A r \in Listed(OneCountRules(c)) \cup Listed(OneQualityRules(level)) :
                r.action # "collect_step2_ingredient_data"
           /\ level = "high" => \E r \in Listed(OneQualityRules(level)) :
                                    r.action = "improve_data_quality"
<1> DEFINE many == OneWhen(c.total > 0 /\ c.unknown * 100 >= 5 * c.total,
                           "review_high_impact_unknowns", "high")
           model == OneWhen(c.total > 0 /\ c.sources["ai"] * 100 >= 30 * c.total,
                            "improve_data_quality", "medium")
           data == OneWhen(level = "high", "improve_data_quality", "critical")
           target == OneWhen(level = "high", "create_category_target", "low")
<1>1. many \in Seq(Recommendation) /\ \A r \in Listed(many) : r.action = "review_high_impact_unknowns"
  <2>1. OneOrNone(many, "review_high_impact_unknowns", "high")
    BY DEF OneWhen, OneOrNone
  <2> HIDE DEF many
  <2> QED BY <2>1, WhenListed DEF Actions, Priorities
<1>2. model \in Seq(Recommendation) /\ \A r \in Listed(model) : r.action = "improve_data_quality"
  <2>1. OneOrNone(model, "improve_data_quality", "medium")
    BY DEF OneWhen, OneOrNone
  <2> HIDE DEF model
  <2> QED BY <2>1, WhenListed DEF Actions, Priorities
<1>3. /\ data \in Seq(Recommendation) /\ \A r \in Listed(data) : r.action = "improve_data_quality"
      /\ level = "high" => \E r \in Listed(data) : r.action = "improve_data_quality"
  <2>1. OneOrNone(data, "improve_data_quality", "critical")
    BY DEF OneWhen, OneOrNone
  <2>2. level = "high" => data # <<>>
    BY DEF OneWhen
  <2> HIDE DEF data
  <2> QED BY <2>1, <2>2, WhenListed DEF Actions, Priorities
<1>4. target \in Seq(Recommendation) /\ \A r \in Listed(target) : r.action = "create_category_target"
  <2>1. OneOrNone(target, "create_category_target", "low")
    BY DEF OneWhen, OneOrNone
  <2> HIDE DEF target
  <2> QED BY <2>1, WhenListed DEF Actions, Priorities
<1>5. OneCountRules(c) = many \o model /\ OneQualityRules(level) = data \o target
  BY DEF OneCountRules, OneQualityRules
<1> HIDE DEF many, model, data, target
<1>6. /\ many \o model \in Seq(Recommendation)
      /\ Listed(many \o model) = Listed(many) \cup Listed(model)
  BY <1>1, <1>2, ConcatListed
<1>7. /\ data \o target \in Seq(Recommendation)
      /\ Listed(data \o target) = Listed(data) \cup Listed(target)
  BY <1>3, <1>4, ConcatListed
<1>8. \A r \in Listed(OneCountRules(c)) \cup Listed(OneQualityRules(level)) :
        r.action # "collect_step2_ingredient_data"
  BY <1>1, <1>2, <1>3, <1>4, <1>5, <1>6, <1>7
<1> QED BY <1>3, <1>5, <1>6, <1>7, <1>8

\* AdviceFollows, for any rules before the last ones.
LEMMA AdviceWithRules ==
    ASSUME NEW before \in Seq(Recommendation), NEW c, NEW level,
           NEW advice, advice = FirstOf((before \o OneCountRules(c)) \o OneQualityRules(level))
    PROVE  /\ \A a, b \in advice : a.action = b.action => a = b
           /\ level = "high" => \E a \in advice : a.action = "improve_data_quality"
           /\ (\E a \in advice : a.action = "collect_step2_ingredient_data")
                <=> \E r \in Listed(before) : r.action = "collect_step2_ingredient_data"
<1> DEFINE x == OneCountRules(c)
           y == OneQualityRules(level)
           recs == (before \o x) \o y
<1>1. /\ x \in Seq(Recommendation) /\ y \in Seq(Recommendation)
      /\ \A r \in Listed(x) \cup Listed(y) : r.action # "collect_step2_ingredient_data"
      /\ level = "high" => \E r \in Listed(y) : r.action = "improve_data_quality"
  BY LastRulesFit
<1> HIDE DEF x, y
<1>2. before \o x \in Seq(Recommendation) /\ Listed(before \o x) = Listed(before) \cup Listed(x)
  BY <1>1, ConcatListed
<1>3. recs \in Seq(Recommendation) /\ Listed(recs) = Listed(before \o x) \cup Listed(y)
  BY <1>1, <1>2, ConcatListed
<1>4. advice = FirstOf(recs)
  BY DEF x, y
<1> HIDE DEF recs
<1>5. /\ advice \subseteq Listed(recs)
      /\ \A a, b \in advice : a.action = b.action => a = b
      /\ \A r \in Listed(recs) : \E a \in advice : a.action = r.action
  BY <1>3, <1>4, FirstFits
<1>6. level = "high" => \E a \in advice : a.action = "improve_data_quality"
  BY <1>1, <1>3, <1>5
<1>7. (\E a \in advice : a.action = "collect_step2_ingredient_data")
        <=> \E r \in Listed(before) : r.action = "collect_step2_ingredient_data"
  BY <1>1, <1>2, <1>3, <1>5
<1> QED BY <1>5, <1>6, <1>7

\* AdviceFollows for the Protein Tracker.
LEMMA TrackerAdviceFollows ==
    ASSUME NEW run, NEW section
    PROVE  Engine!AdviceFollows(Engine!Advice(run, section), section.level)
<1> DEFINE p == run.plantShare # Engine!NoValue /\ run.plantShare * 100 < 40 * ShareHundred
           q == run.total > 0 /\ run.groups["composite_products"] * 100 >= 30 * run.total
           r == section.counts.missingProtein > 0
           s == OneWhen(p, "increase_plant_core_share", "high")
           t == OneWhen(q, "improve_composite_breakdown", "medium")
           u == OneWhen(r, "enrich_missing_nutrition", "medium")
           advice == Engine!Advice(run, section)
<1>1. advice = FirstOf((((s \o t) \o u) \o OneCountRules(section.counts))
                          \o OneQualityRules(section.level))
  BY OneAdvice DEF Engine!Advice
<1>2. /\ OneOrNone(s, "increase_plant_core_share", "high")
      /\ OneOrNone(t, "improve_composite_breakdown", "medium")
      /\ OneOrNone(u, "enrich_missing_nutrition", "medium")
  BY DEF OneWhen, OneOrNone
<1> HIDE DEF s, t, u, advice
<1>3. s \in Seq(Recommendation) /\ t \in Seq(Recommendation) /\ u \in Seq(Recommendation)
  BY <1>2, WhenListed DEF Actions, Priorities
<1>4. s \o t \in Seq(Recommendation)
  BY <1>3, ConcatListed
<1>5. (s \o t) \o u \in Seq(Recommendation)
  BY <1>3, <1>4, ConcatListed
<1>6. /\ \A a, b \in advice : a.action = b.action => a = b
      /\ section.level = "high" => \E a \in advice : a.action = "improve_data_quality"
  <2> DEFINE before == (s \o t) \o u
             c == section.counts
             level == section.level
  <2>1. advice = FirstOf((before \o OneCountRules(c)) \o OneQualityRules(level))
    BY <1>1
  <2>2. before \in Seq(Recommendation)
    BY <1>5
  <2> HIDE DEF before, c
  <2> QED BY ONLY <2>1, <2>2, AdviceWithRules
<1> QED BY <1>6 DEF Engine!AdviceFollows, advice

\* AdviceFollows for WWF, and when Step 2 is asked for.
LEMMA WWFAdviceFollows ==
    ASSUME NEW run, NEW section
    PROVE  /\ Wwf!AdviceFollows(Wwf!Advice(run, section), section.level)
           /\ (\E a \in Wwf!Advice(run, section) : a.action = "collect_step2_ingredient_data")
                <=> section.step2.own > section.step2.applied
<1> DEFINE p == section.step2.own > section.step2.applied
           q == section.step2.branded > 0
           r == run.shares["FG1"] * 100 > Wwf!PhdFG1 * ShareHundred
           s == OneWhen(p, "collect_step2_ingredient_data", "high")
           t == OneWhen(q, "improve_data_quality", "low")
           u == OneWhen(r, "promote_legume_products", "medium")
           advice == Wwf!Advice(run, section)
<1>1. advice = FirstOf((((s \o t) \o u) \o OneCountRules(section.counts))
                          \o OneQualityRules(section.level))
  BY OneAdvice DEF Wwf!Advice
<1>2. /\ OneOrNone(s, "collect_step2_ingredient_data", "high") /\ (p <=> s # <<>>)
      /\ OneOrNone(t, "improve_data_quality", "low")
      /\ OneOrNone(u, "promote_legume_products", "medium")
  BY DEF OneWhen, OneOrNone
<1> HIDE DEF s, t, u, advice
<1>3. /\ s \in Seq(Recommendation)
      /\ (\E x \in Listed(s) : x.action = "collect_step2_ingredient_data") <=> p
  <2>1. /\ s \in Seq(Recommendation)
        /\ \A x \in Listed(s) : x.action = "collect_step2_ingredient_data"
        /\ s # <<>> => \E x \in Listed(s) : x.action = "collect_step2_ingredient_data"
        /\ s = <<>> => Listed(s) = {}
    BY <1>2, WhenListed DEF Actions, Priorities
  <2>2. p <=> s # <<>>
    BY <1>2
  <2> QED BY <2>1, <2>2
<1>4. /\ t \in Seq(Recommendation) /\ u \in Seq(Recommendation)
      /\ \A x \in Listed(t) : x.action = "improve_data_quality"
      /\ \A x \in Listed(u) : x.action = "promote_legume_products"
  BY <1>2, WhenListed DEF Actions, Priorities
<1>5. s \o t \in Seq(Recommendation) /\ Listed(s \o t) = Listed(s) \cup Listed(t)
  BY <1>3, <1>4, ConcatListed
<1>6. /\ (s \o t) \o u \in Seq(Recommendation)
      /\ Listed((s \o t) \o u) = Listed(s \o t) \cup Listed(u)
  BY <1>4, <1>5, ConcatListed
<1>7. /\ \A a, b \in advice : a.action = b.action => a = b
      /\ section.level = "high" => \E a \in advice : a.action = "improve_data_quality"
      /\ (\E a \in advice : a.action = "collect_step2_ingredient_data")
           <=> \E x \in Listed((s \o t) \o u) : x.action = "collect_step2_ingredient_data"
  <2> DEFINE before == (s \o t) \o u
             c == section.counts
             level == section.level
  <2>1. advice = FirstOf((before \o OneCountRules(c)) \o OneQualityRules(level))
    BY <1>1
  <2>2. before \in Seq(Recommendation)
    BY <1>6
  <2> HIDE DEF before, c
  <2>3. /\ \A a, b \in advice : a.action = b.action => a = b
        /\ level = "high" => \E a \in advice : a.action = "improve_data_quality"
        /\ (\E a \in advice : a.action = "collect_step2_ingredient_data")
             <=> \E x \in Listed(before) : x.action = "collect_step2_ingredient_data"
    BY ONLY <2>1, <2>2, AdviceWithRules
  <2> QED BY <2>3 DEF before
<1>8. (\E x \in Listed((s \o t) \o u) : x.action = "collect_step2_ingredient_data") <=> p
  BY <1>3, <1>4, <1>5, <1>6
<1>9. Wwf!AdviceFollows(advice, section.level)
  BY <1>7 DEF Wwf!AdviceFollows
<1> QED BY <1>7, <1>8, <1>9 DEF advice, p

-----------------------------------------------------------------------------
(* The sheet, and what is said about Step 2 *)

LEMMA SheetIsFinite == IsFiniteSet(SheetGroups)
<1>1. SheetGroups = ((((((((({"FG1"} \cup {"FG2"}) \cup {"FG3"}) \cup {"FG4"}) \cup {"FG5"})
                        \cup {"FG6"}) \cup {"FG7"}) \cup {"composite"}) \cup {"out_of_scope"})
                        \cup {"unknown"})
  BY DEF SheetGroups, Wwf!FoodGroups
<1>2. IsFiniteSet({"FG1"} \cup {"FG2"})
  BY FS_Singleton, FS_AddElement
<1>3. IsFiniteSet(({"FG1"} \cup {"FG2"}) \cup {"FG3"})
  BY <1>2, FS_AddElement
<1>4. IsFiniteSet((({"FG1"} \cup {"FG2"}) \cup {"FG3"}) \cup {"FG4"})
  BY <1>3, FS_AddElement
<1>5. IsFiniteSet(((({"FG1"} \cup {"FG2"}) \cup {"FG3"}) \cup {"FG4"}) \cup {"FG5"})
  BY <1>4, FS_AddElement
<1> DEFINE S == ((({"FG1"} \cup {"FG2"}) \cup {"FG3"}) \cup {"FG4"}) \cup {"FG5"}
<1>6. SheetGroups = ((((S \cup {"FG6"}) \cup {"FG7"}) \cup {"composite"}) \cup {"out_of_scope"})
                        \cup {"unknown"}
  BY <1>1
<1>7. IsFiniteSet(S)
  BY <1>5
<1> HIDE DEF S
<1>8. IsFiniteSet(S \cup {"FG6"})
  BY <1>7, FS_AddElement
<1>9. IsFiniteSet((S \cup {"FG6"}) \cup {"FG7"})
  BY <1>8, FS_AddElement
<1>10. IsFiniteSet(((S \cup {"FG6"}) \cup {"FG7"}) \cup {"composite"})
  BY <1>9, FS_AddElement
<1>11. IsFiniteSet((((S \cup {"FG6"}) \cup {"FG7"}) \cup {"composite"}) \cup {"out_of_scope"})
  BY <1>10, FS_AddElement
<1> QED BY <1>6, <1>11, FS_AddElement

\* The sheet counts every classified product once (SheetAddsUp).
LEMMA SheetCountsOnce ==
    ASSUME NEW now, IsFiniteSet(DOMAIN now), FiledNow(now)
    PROVE  Wwf!SheetAddsUp(now)
<1> DEFINE U == {k \in DOMAIN now : now[k].by # "none"}
           key == [k \in U |-> Wwf!SheetOf(now[k])]
           f == Wwf!Sheet(now)
           K == SheetGroups
<1>1. IsFiniteSet(U) /\ IsFiniteSet(K)
  <2>1. U \in SUBSET DOMAIN now
    OBVIOUS
  <2> HIDE DEF U
  <2> QED BY <2>1, FS_Subset, SheetIsFinite
<1>2. \A x \in U : key[x] \in K
  BY DEF FiledNow
<1>3. \A s \in K : {x \in U : key[x] = s}
                      = {k \in DOMAIN now : now[k].by # "none" /\ Wwf!SheetOf(now[k]) = s}
  OBVIOUS
<1>4. f = [s \in K |-> Cardinality({k \in DOMAIN now :
                            now[k].by # "none" /\ Wwf!SheetOf(now[k]) = s})]
  BY OneCardinality DEF Wwf!Sheet, Wwf!CountOver, SheetGroups
<1> HIDE DEF f, key, U, K
<1>5. \A s \in K : f[s] = Cardinality({x \in U : key[x] = s})
  BY <1>3, <1>4
<1>6. Sum([s \in K |-> f[s]], K) = Cardinality(U)
  BY <1>1, <1>2, <1>5, CountsByKey
<1>7. Wwf!MapThenSumSet(LAMBDA g : f[g], K) = Sum([g \in K |-> f[g]], K)
  BY WwfSumsOf
<1>8. Wwf!MapThenSumSet(LAMBDA g : f[g], K) = Cardinality(U)
  BY <1>6, <1>7
<1> QED
  BY <1>8, OneCardinality
  DEF Wwf!SheetAddsUp, Wwf!SumOver, Wwf!CountOver, f, U, K, SheetGroups

\* The report says how many own-brand composites have no ingredients, and asks for them
\* (Step2IsDisclosed).
LEMMA DisclosesStep2 ==
    ASSUME NEW rows, IsFiniteSet(DOMAIN rows), NEW now, NEW ingredients, NEW run, NEW errors
    PROVE  Wwf!Step2IsDisclosed(rows, now, ingredients,
                Wwf!CoverageSection(run, rows, now, ingredients, errors),
                Wwf!Advice(run, Wwf!CoverageSection(run, rows, now, ingredients, errors)))
<1> DEFINE section == Wwf!CoverageSection(run, rows, now, ingredients, errors)
           advice == Wwf!Advice(run, section)
           D == DOMAIN ingredients
           own == {k \in DOMAIN rows \cap DOMAIN now :
                        now[k].by # "none" /\ now[k].composite /\ now[k].ownBrand}
<1>1. /\ section.step2.applied = Cardinality(D)
      /\ section.step2.own = Cardinality(own)
      /\ section.step2.step1Only = Wwf!Max({0, Cardinality(own) - Cardinality(D)})
  <2>1. {k \in {k \in DOMAIN rows \cap DOMAIN now : now[k].by # "none" /\ now[k].composite} :
            now[k].ownBrand} = own
    OBVIOUS
  <2> HIDE DEF own
  <2> QED BY <2>1, OneCardinality DEF Wwf!CoverageSection, Wwf!Step2Caveats
<1>2. (\E a \in advice : a.action = "collect_step2_ingredient_data")
        <=> section.step2.own > section.step2.applied
  BY WWFAdviceFollows
<1>3. IsFiniteSet(own) /\ own \in SUBSET DOMAIN rows
  <2>1. own \in SUBSET DOMAIN rows
    OBVIOUS
  <2> HIDE DEF own
  <2> QED BY <2>1, FS_Subset
<1> HIDE DEF section, advice, own, D
<1>4. ASSUME D \subseteq own
      PROVE  /\ section.step2.step1Only = Wwf!Cardinality(own \ D)
             /\ own \ D # {} <=> \E a \in advice : a.action = "collect_step2_ingredient_data"
  <2>1. IsFiniteSet(D) /\ own \cap D = D
    BY <1>3, <1>4, FS_Subset
  <2>2. IsFiniteSet(own \ D) /\ Cardinality(own \ D) = Cardinality(own) - Cardinality(own \cap D)
    BY <1>3, FS_Difference
  <2>3. Cardinality(own) \in Nat /\ Cardinality(D) \in Nat /\ Cardinality(own \ D) \in Nat
    BY <1>3, <2>1, <2>2, FS_CardinalityType
  <2> DEFINE n == Cardinality(own \ D)
  <2>4. n = Cardinality(own) - Cardinality(D) /\ n \in Nat
    BY <2>1, <2>2, <2>3
  <2>5. own \ D = {} <=> n = 0
    BY <2>2, FS_EmptySet
  <2> HIDE DEF n
  <2>6. Wwf!Max({0, n}) = n
    <3>1. n \in {0, n} /\ \A x \in {0, n} : n >= x
      BY <2>4
    <3>2. \A x \in {0, n} : (\A y \in {0, n} : x >= y) => x = n
      BY <2>4
    <3>3. Wwf!Max({0, n}) = CHOOSE x \in {0, n} : \A y \in {0, n} : x >= y
      BY DEF Wwf!Max
    <3> QED BY <3>1, <3>2, <3>3
  <2>7. section.step2.step1Only = n
    BY <1>1, <2>4, <2>6
  <2>8. section.step2.own > section.step2.applied <=> n # 0
    BY <1>1, <2>3, <2>4
  <2>9. own \ D # {} <=> \E a \in advice : a.action = "collect_step2_ingredient_data"
    BY <1>2, <2>5, <2>8
  <2> QED BY <2>7, <2>9, OneCardinality DEF n
<1> QED BY <1>4 DEF Wwf!Step2IsDisclosed, own, D, section, advice

-----------------------------------------------------------------------------
(* The reports *)

\* Everything told about a Protein Tracker run (PTReportsReconcile but for the comparison,
\* which is ComparisonsAgree): the workbook, the lists, the level of uncertainty, the
\* advice, the document, the caveats and the export follow from the run and from what is
\* stored when they are written, whatever was classified, reviewed, enriched or deleted
\* in between.
THEOREM TrackerReportsAgree ==
    ASSUME Engine!PTConstantsAssumption, Top \in Nat,
           NEW catalogue, PTCatalogue(catalogue), DOMAIN catalogue \subseteq Int, NEW enriched,
           NEW now, StoredNow(now), SameFile(catalogue, now), NEW errors \in Nat,
           Engine!Run(catalogue, enriched).ok
    PROVE  LET run == Engine!Run(catalogue, enriched)
               section == Engine!CoverageSection(run, now, enriched, errors)
           IN  /\ Engine!WorkbookAgrees(catalogue, run, now)
               /\ Engine!ListsAreTheTop(run)
               /\ Engine!UncertaintyIsHonest(section.counts)
               /\ Engine!AdviceFollows(Engine!Advice(run, section), section.level)
               /\ Engine!DocumentAgrees(Engine!Section(run, now), section.counts)
               /\ Engine!CaveatsCover(run, section)
               /\ Engine!ExportAgrees(run, now)
<1> DEFINE run == Engine!Run(catalogue, enriched)
           section == Engine!CoverageSection(run, now, enriched, errors)
           document == Engine!Section(run, now)
           unvalued == {k \in DOMAIN now : now[k].pct = Engine!NoValue}
<1>1. Engine!WorkbookAgrees(catalogue, run, now)
  BY WorkbookAddsUp DEF StoredNow
<1>2. Engine!ListsAreTheTop(run)
  BY TrackerListsAreTheTop
<1>3. Engine!CaveatsCover(run, section)
  BY CaveatsAreComplete
<1>4. Engine!ExportAgrees(run, now)
  BY TrackerExportAddsUp
<1>5. IsFiniteSet(DOMAIN run.rows)
  BY RunWeighs
<1>6. section.counts = CountsOf(run.rows, now, unvalued, errors)
  <2>1. section.counts = Engine!SectionCounts(run.rows, now, unvalued, errors)
    BY DEF Engine!CoverageSection
  <2> HIDE DEF unvalued
  <2> QED BY <2>1, OneSectionCounts
<1>7. /\ document.sources = SourcesOf(run.rows, now)
      /\ document.review = SummaryOf(now)
  BY OneDocument DEF Engine!Section
<1> HIDE DEF run, section, document, unvalued
<1>8. Engine!UncertaintyIsHonest(section.counts)
  BY <1>5, <1>6, SectionCountsFit, HonestCounts
<1>9. Engine!AdviceFollows(Engine!Advice(run, section), section.level)
  BY TrackerAdviceFollows
<1>10. Engine!DocumentAgrees(document, section.counts)
  BY <1>5, <1>6, <1>7, DocumentsAgree
<1> QED BY <1>1, <1>2, <1>3, <1>4, <1>8, <1>9, <1>10 DEF run, section, document

\* Everything told about a WWF run (WWFReportsReconcile but for the comparison, which is
\* ComparisonsMirror), whatever was classified, reviewed or deleted in between, and
\* whatever ingredients were stored (again) since the run.
THEOREM WWFReportsAgree ==
    ASSUME Wwf!WWFConstantsAssumption, Top \in Nat,
           NEW catalogue, WWFCatalogue(catalogue), DOMAIN catalogue \subseteq Int,
           OnlyCompositesAreFiled(catalogue), NEW ingredients, NEW again,
           NEW now, StoredNow(now), FiledNow(now), NEW errors \in Nat,
           Wwf!Run(catalogue, ingredients).ok
    PROVE  LET run == Wwf!Run(catalogue, ingredients)
               rows == Wwf!Rows(catalogue)
               section == Wwf!CoverageSection(run, rows, now, again, errors)
               advice == Wwf!Advice(run, section)
           IN  /\ Wwf!SheetAddsUp(now) /\ Wwf!ListsFit(rows)
               /\ Wwf!UncertaintyIsHonest(section.counts)
               /\ Wwf!AdviceFollows(advice, section.level)
               /\ Wwf!DocumentAgrees(Wwf!Section(run, rows, now), section.counts)
               /\ Wwf!ExportAgrees(Wwf!Exported(run, rows, now, again))
               /\ Wwf!Step2IsDisclosed(rows, now, again, section, advice)
<1> DEFINE run == Wwf!Run(catalogue, ingredients)
           rows == Wwf!Rows(catalogue)
           section == Wwf!CoverageSection(run, rows, now, again, errors)
           advice == Wwf!Advice(run, section)
           document == Wwf!Section(run, rows, now)
<1>1. Wwf!SheetAddsUp(now)
  BY SheetCountsOnce DEF StoredNow
<1>2. Wwf!ListsFit(rows)
  BY WWFListsFit
<1>3. Wwf!ExportAgrees(Wwf!Exported(run, rows, now, again))
  BY ExportsAddUp
<1>4. IsFiniteSet(DOMAIN rows)
  <2>1. DOMAIN rows = DOMAIN catalogue
    BY DEF Wwf!Rows
  <2> QED BY <2>1 DEF WWFCatalogue
<1>5. section.counts = CountsOf(rows, now, {}, errors)
  <2>1. section.counts = Wwf!SectionCounts(rows, now, {}, errors)
    BY DEF Wwf!CoverageSection
  <2> QED BY <2>1, OneSectionCounts
<1>6. /\ document.sources = SourcesOf(rows, now)
      /\ document.review = SummaryOf(now)
  BY OneDocument DEF Wwf!Section
<1> HIDE DEF run, rows, document
<1>7. Wwf!Step2IsDisclosed(rows, now, again, section, advice)
  BY <1>4, DisclosesStep2
<1> HIDE DEF section
<1>8. Wwf!UncertaintyIsHonest(section.counts)
  BY <1>4, <1>5, SectionCountsFit, HonestCounts
<1>9. Wwf!AdviceFollows(advice, section.level)
  BY WWFAdviceFollows
<1>10. Wwf!DocumentAgrees(document, section.counts)
  BY <1>4, <1>5, <1>6, DocumentsAgree
<1> QED BY <1>1, <1>2, <1>3, <1>7, <1>8, <1>9, <1>10 DEF run, rows, section, document

-----------------------------------------------------------------------------
(* Whatever is computed *)

\* A result is that of its input.
Computing == input \in Input /\ (result = NoResult \/ result = Computed(input))

LEMMA InitComputing == EngineInit => Computing
BY DEF EngineInit, Computing

LEMMA NextComputing ==
    ASSUME Computing, [ComputeResult]_<<input, result>> PROVE Computing'
<1>1. CASE ComputeResult
  BY <1>1 DEF ComputeResult, Computing
<1>2. CASE UNCHANGED <<input, result>>
  BY <1>2 DEF Computing
<1> QED BY <1>1, <1>2

\* What an input of each kind is, and what comes out.
LEMMA WhatIsComputed ==
    ASSUME CalculationsAssumption, Computing, NEW engine, HasRun(engine)
    PROVE  /\ engine = "protein_tracker" =>
                /\ PTCatalogue(input.catalogue)
                /\ result = Engine!Run(input.catalogue, input.enriched)
           /\ engine = "wwf" =>
                /\ WWFCatalogue(input.catalogue) /\ WWFIngredients(input.ingredients)
                /\ result = Wwf!Run(input.catalogue, input.ingredients)
           /\ engine = "projection" => input.mass \in Masses /\ IsPlan(input.operations)
           /\ engine = "report" =>
                /\ PTCatalogue(input.catalogue) /\ DOMAIN input.catalogue \subseteq Int
                /\ IsCatalogue(input.catalogue) /\ ShownCatalogue(input.catalogue)
                /\ PTCatalogue(input.now) /\ StoredNow(input.now)
                /\ SameFile(input.catalogue, input.now)
                /\ input.enriched \in BOOLEAN /\ input.errors \in Nat
                /\ result.run = Engine!Run(input.catalogue, input.enriched)
                /\ result.next = Engine!Run(input.now, input.enriched)
           /\ engine = "wwf report" =>
                /\ WWFCatalogue(input.catalogue) /\ DOMAIN input.catalogue \subseteq Int
                /\ OnlyCompositesAreFiled(input.catalogue) /\ WWFIngredients(input.ingredients)
                /\ WWFCatalogue(input.now) /\ StoredNow(input.now) /\ FiledNow(input.now)
                /\ WWFIngredients(input.again) /\ input.errors \in Nat
                /\ result.run = Wwf!Run(input.catalogue, input.ingredients)
                /\ result.next = Wwf!Run(input.now, input.again)
<1>1. IsInput(input) /\ result = Computed(input) /\ input.engine = engine
  BY DEF CalculationsAssumption, Computing, HasRun
<1>2. CASE engine = "protein_tracker"
  BY <1>1, <1>2 DEF IsInput, Computed
<1>3. CASE engine = "wwf"
  BY <1>1, <1>3 DEF IsInput, Computed
<1>4. CASE engine = "projection"
  BY <1>1, <1>4 DEF IsInput
<1>5. CASE engine = "report"
  BY <1>1, <1>5 DEF IsInput, Computed
<1>6. CASE engine = "wwf report"
  BY <1>1, <1>6 DEF IsInput, Computed
<1> QED BY <1>2, <1>3, <1>4, <1>5, <1>6

\* Whatever catalogues, ingredients and settings are computed, both engines keep the
\* books of a run (TrackerBooksBalance, WWFBooksBalance).
THEOREM BooksAreKept ==
    ASSUME CalculationsAssumption PROVE EngineSpec => []EnginesReconcile
<1>1. ASSUME Computing PROVE EnginesReconcile
  <2>1. ASSUME HasRun("protein_tracker"), result.ok
        PROVE  /\ Engine!SharesSumTo100(result)
               /\ Engine!HeadlineReconciles(result)
               /\ Engine!RowsAccounted(result, input.catalogue, input.enriched)
    BY <1>1, <2>1, WhatIsComputed, TrackerBooksBalance DEF CalculationsAssumption
  <2>2. ASSUME HasRun("wwf"), result.ok
        PROVE  /\ Wwf!GroupsReconcile(result, input.catalogue, input.ingredients)
               /\ Wwf!BucketsReconcile(result)
               /\ Wwf!DietReconciles(result, input.catalogue, input.ingredients)
    BY <1>1, <2>2, WhatIsComputed, WWFBooksBalance DEF CalculationsAssumption
  <2> QED BY <2>1, <2>2 DEF EnginesReconcile, PTReconciles, WWFReconciles
<1> QED BY InitComputing, NextComputing, <1>1, PTL DEF EngineSpec

\* Whatever scenarios are projected, no protein is made or lost, and their operations
\* may come in any order (ScenariosBalance, OrderDoesNotMatter).
THEOREM ProjectionsBalance ==
    ASSUME CalculationsAssumption PROVE EngineSpec => []ProjectionBalances
<1>1. ASSUME Computing PROVE ProjectionBalances
  <2>1. Hundred \in Nat /\ ShareHundred \in Nat
    BY DEF CalculationsAssumption, Engine!PTConstantsAssumption
  <2>2. ASSUME HasRun("projection")
        PROVE  input.mass \in Masses /\ IsPlan(input.operations)
    BY <1>1, <2>2, WhatIsComputed
  <2> QED BY <2>1, <2>2, ScenariosBalance, OrderDoesNotMatter DEF ProjectionBalances
<1> QED BY InitComputing, NextComputing, <1>1, PTL DEF EngineSpec

\* Whatever the catalogue is, what the wizard shows before a run is what the run does
\* (TablesAddUp, ShownValueIsUsed, ReadyIsCalculated, CoverageIsTrue, PreflightIsTrue).
THEOREM ScreensTellTheRun ==
    ASSUME CalculationsAssumption PROVE EngineSpec => []ScreensAgree
<1>1. ASSUME Computing PROVE ScreensAgree
  <2>1. ASSUME HasRun("report"), NEW f \in Filter
        PROVE  Engine!TableAddsUp(input.catalogue, f)
    <3>1. ShownCatalogue(input.catalogue)
      BY <1>1, <2>1, WhatIsComputed
    <3>2. IsFilter(f)
      BY DEF CalculationsAssumption
    <3> QED BY <3>1, <3>2, TablesAddUp
  <2>2. ASSUME HasRun("report") PROVE Engine!ShownIsUsed(input.catalogue)
    <3>1. IsCatalogue(input.catalogue)
      BY <1>1, <2>2, WhatIsComputed
    <3> QED BY <3>1, ShownValueIsUsed
  <2>3. ASSUME HasRun("report"), result.run.ok, input.enriched
        PROVE  /\ Engine!ReadyMeansIncluded(input.catalogue, result.run)
               /\ Engine!CoverageIsHonest(input.catalogue, result.run)
    <3>1. /\ PTCatalogue(input.catalogue) /\ IsCatalogue(input.catalogue)
          /\ input.enriched \in BOOLEAN
          /\ result.run = Engine!Run(input.catalogue, input.enriched)
      BY <1>1, <2>3, WhatIsComputed
    <3>2. input.enriched = TRUE
      BY <2>3, <3>1
    <3>3. result.run = Engine!Run(input.catalogue, TRUE)
      BY <3>1, <3>2
    <3>4. /\ IsFiniteSet(DOMAIN input.catalogue)
          /\ \A k \in DOMAIN input.catalogue : input.catalogue[k].items \in Nat
      BY <3>1 DEF PTCatalogue, PTProduct
    <3>5. Engine!Run(input.catalogue, TRUE).ok
      BY <2>3, <3>3
    <3> QED BY <3>1, <3>3, <3>4, <3>5, ReadyIsCalculated, CoverageIsTrue
  <2>4. ASSUME HasRun("wwf report")
        PROVE  Wwf!PreflightIsTheTotal(input.catalogue, input.ingredients, result.run)
    <3>1. /\ WWFCatalogue(input.catalogue)
          /\ result.run = Wwf!Run(input.catalogue, input.ingredients)
      BY <1>1, <2>4, WhatIsComputed
    <3>2. Wwf!WWFConstantsAssumption
      BY DEF CalculationsAssumption
    <3> QED BY <3>1, <3>2, PreflightIsTrue
  <2> QED BY <2>1, <2>2, <2>3, <2>4 DEF ScreensAgree
<1> QED BY InitComputing, NextComputing, <1>1, PTL DEF EngineSpec

\* Whatever was classified, reviewed, enriched, deleted or stored since a run, everything
\* that is told about it follows from it (TrackerReportsAgree, WWFReportsAgree,
\* ComparisonsAgree, ComparisonsMirror).
THEOREM ReportsTellTheRun ==
    ASSUME CalculationsAssumption PROVE EngineSpec => []ReportsReconcile
<1>1. ASSUME Computing PROVE PTReportsReconcile
  <2> SUFFICES ASSUME HasRun("report"), result.run.ok PROVE PTReportsReconcile
    BY DEF PTReportsReconcile
  <2>1. /\ PTCatalogue(input.catalogue) /\ DOMAIN input.catalogue \subseteq Int
        /\ PTCatalogue(input.now) /\ StoredNow(input.now)
        /\ SameFile(input.catalogue, input.now) /\ input.errors \in Nat
        /\ result.run = Engine!Run(input.catalogue, input.enriched)
        /\ result.next = Engine!Run(input.now, input.enriched)
    BY <1>1, WhatIsComputed
  <2>2. Engine!PTConstantsAssumption /\ Top \in Nat
    BY DEF CalculationsAssumption
  <2>3. Engine!Run(input.catalogue, input.enriched).ok
    BY <2>1
  <2>4. result.next.ok => Engine!ComparisonAgrees(result.run, result.next)
    BY <2>1, <2>2, <2>3, ComparisonsAgree
  <2> QED BY <2>1, <2>2, <2>3, <2>4, TrackerReportsAgree DEF PTReportsReconcile
<1>2. ASSUME Computing PROVE WWFReportsReconcile
  <2> SUFFICES ASSUME HasRun("wwf report"), result.run.ok PROVE WWFReportsReconcile
    BY DEF WWFReportsReconcile
  <2>1. /\ WWFCatalogue(input.catalogue) /\ DOMAIN input.catalogue \subseteq Int
        /\ OnlyCompositesAreFiled(input.catalogue) /\ WWFIngredients(input.ingredients)
        /\ WWFCatalogue(input.now) /\ StoredNow(input.now) /\ FiledNow(input.now)
        /\ WWFIngredients(input.again) /\ input.errors \in Nat
        /\ result.run = Wwf!Run(input.catalogue, input.ingredients)
        /\ result.next = Wwf!Run(input.now, input.again)
    BY <1>2, WhatIsComputed
  <2>2. Wwf!WWFConstantsAssumption /\ Top \in Nat
    BY DEF CalculationsAssumption
  <2>3. Wwf!Run(input.catalogue, input.ingredients).ok
    BY <2>1
  <2>4. result.next.ok => Wwf!ComparisonMirrors(result.run, result.next)
    BY <2>1, <2>2, <2>3, ComparisonsMirror
  <2> QED BY <2>1, <2>2, <2>3, <2>4, WWFReportsAgree DEF WWFReportsReconcile
<1>3. ASSUME Computing PROVE ReportsReconcile
  BY <1>1, <1>2, <1>3 DEF ReportsReconcile
<1> QED BY InitComputing, NextComputing, <1>3, PTL DEF EngineSpec
=============================================================================

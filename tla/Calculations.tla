----------------------------- MODULE Calculations -----------------------------
(***************************************************************************)
(* The calculation as a whole: one project (the extended module), its Step *)
(* 2 uploads, and the engines with everything told about their runs, as    *)
(* functions of an input: they share no table that changes while a run is  *)
(* computed.  Here it is said what the inputs are, and what must hold.     *)
(***************************************************************************)
EXTENDS CalculationRun

CONSTANTS
    Part, Hundred, ShareHundred, Tolerance, Cheese, Top,    \* the units of the engines
    Input,          \* what is computed
    Filter,         \* what the classification table is filtered by
    Key, Catalogue, File, MaxUploads    \* the products and files of Step 2

VARIABLES
    input, result,                      \* what is computed, and what came out
    stored, upload, uploads, accepted   \* Step 2

Engine == INSTANCE PTReport
Wwf == INSTANCE WWFReport
Plan == INSTANCE Projection
StepTwo == INSTANCE Step2Ingredients WITH Product <- Key

-----------------------------------------------------------------------------
(* Inputs, as the domain types have them *)

Amount == Nat \cup {NoValue}

\* A product of a Protein Tracker catalogue: quantities and percentages are never
\* negative, and a value may be missing.
PTProduct(p) ==
    /\ p.items \in Nat /\ p.weight \in Nat
    /\ p.pct \in Amount /\ p.plant \in Amount /\ p.animal \in Amount
    /\ p.records \in Seq(EnrichmentRecord)
    /\ \A i \in DOMAIN p.records : p.records[i].value \in Amount

PTCatalogue(catalogue) ==
    IsFiniteSet(DOMAIN catalogue) /\ \A k \in DOMAIN catalogue : PTProduct(catalogue[k])

\* A product of a WWF catalogue, and its ingredients: a composite in scope is filed
\* under one of the four buckets.
WWFProduct(p) ==
    /\ p.items \in Nat /\ p.weight \in Nat
    /\ p.composite \in BOOLEAN /\ p.ownBrand \in BOOLEAN
    /\ Wwf!InScope(p) /\ p.composite => p.bucket \in Wwf!Buckets

WWFCatalogue(catalogue) ==
    IsFiniteSet(DOMAIN catalogue) /\ \A k \in DOMAIN catalogue : WWFProduct(catalogue[k])

WWFIngredients(ingredients) ==
    \A k \in DOMAIN ingredients :
        /\ IsFiniteSet(DOMAIN ingredients[k])
        /\ \A i \in DOMAIN ingredients[k] :
              ingredients[k][i].weight \in Nat
              /\ ingredients[k][i].food_group \in Wwf!FoodGroups

\* composite_step1_bucket must be null when wwf_is_composite is false (domain/wwf.py).
OnlyCompositesAreFiled(catalogue) ==
    \A k \in DOMAIN catalogue : catalogue[k].bucket \in Wwf!Buckets => catalogue[k].composite

\* Who decided on a product and what became of its review item.
Deciders == {"deterministic", "ai", "manual_review"}
ReviewStatus == {"in_queue", "reviewing", "accepted", "changed", "deferred"}
GroupNames == Engine!MethodologyGroups \cup {"out_of_scope", "unknown"}

\* Each product has a list of records, and a source for its classification if and only
\* if it has one.
IsCatalogue(catalogue) ==
    \A k \in DOMAIN catalogue :
        /\ catalogue[k].records \in Seq(EnrichmentRecord)
        /\ catalogue[k].by = "none" <=> catalogue[k].group = "none"

ShownCatalogue(catalogue) ==
    /\ IsFiniteSet(DOMAIN catalogue)
    /\ \A k \in DOMAIN catalogue :
          /\ catalogue[k].by \in Deciders \cup {"none"}
          /\ catalogue[k].by # "none" => catalogue[k].group \in GroupNames

StoredNow(now) ==
    /\ IsFiniteSet(DOMAIN now)
    /\ \A k \in DOMAIN now : /\ now[k].by \in Deciders \cup {"none"}
                             /\ now[k].review \in ReviewStatus \cup {"none"}

\* What the file says about a product stays as it is, while products are decided,
\* enriched or deleted.
SameFile(catalogue, now) ==
    \A k \in DOMAIN catalogue \cap DOMAIN now :
        now[k].items = catalogue[k].items /\ now[k].weight = catalogue[k].weight

\* A classified product that is not filed under a bucket has a group of the list.
SheetGroups == Wwf!FoodGroups \cup {"composite", "out_of_scope", "unknown"}
FiledNow(now) ==
    \A k \in DOMAIN now : now[k].by # "none" => Wwf!SheetOf(now[k]) \in SheetGroups

IsFilter(filter) ==
    {"source", "group", "least", "most", "review", "view", "methodology"}
        \subseteq DOMAIN filter

\* An operation of a scenario: what its kind needs is there, and is a number where it
\* has to be one.
Masses == [Plan!Groups -> Int]
IsOperation(op) ==
    /\ {"type", "order"} \subseteq DOMAIN op /\ op.order \in Int
    /\ op.type \in {"shift", "increase_plant_core", "reduce_animal_core"}
          => "amount" \in DOMAIN op /\ op.amount \in Int
    /\ op.type = "shift" => {"from", "to"} \subseteq DOMAIN op
    /\ op.type = "improve_split"
          => {"plant", "animal"} \subseteq DOMAIN op /\ op.plant \in Int /\ op.animal \in Int

IsPlan(ops) ==
    /\ IsFiniteSet(DOMAIN ops) /\ DOMAIN ops = 1 .. Cardinality(DOMAIN ops)
    /\ \A i \in DOMAIN ops : IsOperation(ops[i])

\* A run as it is computed, and (for a report) what the tables say later.
IsInput(in) ==
    \/ /\ in.engine = "protein_tracker"
       /\ PTCatalogue(in.catalogue)
    \/ /\ in.engine = "wwf"
       /\ WWFCatalogue(in.catalogue) /\ WWFIngredients(in.ingredients)
    \/ /\ in.engine = "projection"
       /\ in.mass \in Masses /\ IsPlan(in.operations)
    \/ /\ in.engine = "report"
       /\ PTCatalogue(in.catalogue) /\ DOMAIN in.catalogue \subseteq Int
       /\ IsCatalogue(in.catalogue) /\ ShownCatalogue(in.catalogue)
       /\ PTCatalogue(in.now) /\ StoredNow(in.now) /\ SameFile(in.catalogue, in.now)
       /\ in.enriched \in BOOLEAN /\ in.errors \in Nat
    \/ /\ in.engine = "wwf report"
       /\ WWFCatalogue(in.catalogue) /\ DOMAIN in.catalogue \subseteq Int
       /\ OnlyCompositesAreFiled(in.catalogue) /\ WWFIngredients(in.ingredients)
       /\ WWFCatalogue(in.now) /\ StoredNow(in.now) /\ FiledNow(in.now)
       /\ WWFIngredients(in.again) /\ in.errors \in Nat

\* What the constants are: the module that gives them values assumes it.
CalculationsAssumption ==
    /\ ConstantsAssumption
    /\ Engine!PTConstantsAssumption /\ Wwf!WWFConstantsAssumption /\ Top \in Nat
    /\ \A in \in Input : IsInput(in)
    /\ \A filter \in Filter : IsFilter(filter)

-----------------------------------------------------------------------------
(* Computing one of the inputs *)

Computed(in) ==
    CASE in.engine = "protein_tracker" -> Engine!Run(in.catalogue, in.enriched)
      [] in.engine = "wwf" -> Wwf!Run(in.catalogue, in.ingredients)
      [] in.engine = "projection" -> Plan!Project(in.mass, in.operations)
      [] in.engine = "report" -> [run |-> Engine!Run(in.catalogue, in.enriched),
                                  next |-> Engine!Run(in.now, in.enriched)]
      [] in.engine = "wwf report" -> [run |-> Wwf!Run(in.catalogue, in.ingredients),
                                      next |-> Wwf!Run(in.now, in.again)]

NoResult == [none |-> TRUE]

EngineInit == input \in Input /\ result = NoResult

ComputeResult ==
    /\ result = NoResult
    /\ result' = Computed(input)
    /\ UNCHANGED input

EngineSpec == EngineInit /\ [][ComputeResult]_<<input, result>>

-----------------------------------------------------------------------------
(* Properties *)

HasRun(engine) == result # NoResult /\ input.engine = engine

\* The headline of a Protein Tracker run follows from its rows (ProteinTracker).
PTReconciles ==
    HasRun("protein_tracker") /\ result.ok =>
        /\ Engine!SharesSumTo100(result)
        /\ Engine!HeadlineReconciles(result)
        /\ Engine!RowsAccounted(result, input.catalogue, input.enriched)

\* The weights of a WWF run add up, step by step (WWFEngine).
WWFReconciles ==
    HasRun("wwf") /\ result.ok =>
        /\ Wwf!GroupsReconcile(result, input.catalogue, input.ingredients)
        /\ Wwf!BucketsReconcile(result)
        /\ Wwf!DietReconciles(result, input.catalogue, input.ingredients)

\* Both engines keep the books of a run.
EnginesReconcile == PTReconciles /\ WWFReconciles

\* A projection keeps the books (Projection).
ProjectionBalances ==
    HasRun("projection") =>
        /\ Plan!Balances(input.mass, input.operations)
        /\ Plan!OrderIsFree(input.mass, input.operations)

\* What the wizard shows before a run is what the run does (PTScreens, WWFReport).
ScreensAgree ==
    /\ HasRun("report") /\ input.now = input.catalogue =>
        /\ \A f \in Filter : Engine!TableAddsUp(input.catalogue, f)
        /\ Engine!ShownIsUsed(input.catalogue)
        /\ result.run.ok /\ input.enriched =>
             /\ Engine!ReadyMeansIncluded(input.catalogue, result.run)
             /\ Engine!CoverageIsHonest(input.catalogue, result.run)
    /\ HasRun("wwf report") =>
        Wwf!PreflightIsTheTotal(input.catalogue, input.ingredients, result.run)

PTReportsReconcile ==
    HasRun("report") /\ result.run.ok =>
        LET section == Engine!CoverageSection(result.run, input.now, input.enriched,
                                              input.errors)
        IN  /\ Engine!WorkbookAgrees(input.catalogue, result.run, input.now)
            /\ Engine!ListsAreTheTop(result.run)
            /\ Engine!UncertaintyIsHonest(section.counts)
            /\ Engine!AdviceFollows(Engine!Advice(result.run, section), section.level)
            /\ Engine!DocumentAgrees(Engine!Section(result.run, input.now), section.counts)
            /\ Engine!CaveatsCover(result.run, section)
            /\ Engine!ExportAgrees(result.run, input.now)
            /\ result.next.ok => Engine!ComparisonAgrees(result.run, result.next)

WWFReportsReconcile ==
    HasRun("wwf report") /\ result.run.ok =>
        LET rows == Wwf!Rows(input.catalogue)
            section == Wwf!CoverageSection(result.run, rows, input.now, input.again,
                                           input.errors)
            advice == Wwf!Advice(result.run, section)
        IN  /\ Wwf!SheetAddsUp(input.now) /\ Wwf!ListsFit(rows)
            /\ Wwf!UncertaintyIsHonest(section.counts)
            /\ Wwf!AdviceFollows(advice, section.level)
            /\ Wwf!DocumentAgrees(Wwf!Section(result.run, rows, input.now), section.counts)
            /\ Wwf!ExportAgrees(Wwf!Exported(result.run, rows, input.now, input.again))
            /\ Wwf!Step2IsDisclosed(rows, input.now, input.again, section, advice)
            /\ result.next.ok => Wwf!ComparisonMirrors(result.run, result.next)

\* What is told about a run follows from it (PTReport, WWFReport).
ReportsReconcile == PTReportsReconcile /\ WWFReportsReconcile

\* What is stored is what was uploaded (Step2Ingredients).
Step2IsStored == StepTwo!Step2IsStored
=============================================================================

---------------------------- MODULE MCCalculation ----------------------------
(***************************************************************************)
(* The calculation on small instances: the engines, Step 2 uploads, and    *)
(* projects on their way to a run.  They are checked side by side: a       *)
(* behaviour is about one of them, and MCInit chooses which.  An engine    *)
(* takes its input in MCInit and computes in one step.                     *)
(***************************************************************************)
EXTENDS Calculations

VARIABLE focus

Step2Postgres == INSTANCE Step2Ingredients WITH
                    Product <- Key, Store <- "postgres", MaxUploads <- 2

-----------------------------------------------------------------------------
(* Inputs of the engines *)

PTRecords ==
    {<<>>, NoMatch,
     NevoEntry(4, 1, "composite_products"),
     Total("category_average", 2) \o Total("ciqual", 5),
     Total("ciqual", 5) \o ManualNutrition(7, 3, 5)}

PTProducts ==
    {[items |-> i, weight |-> w, pct |-> v[1], plant |-> v[2], animal |-> v[3],
      group |-> g, records |-> r] :
        i \in {1, 3}, w \in {1, 5},
        v \in {<<3, 2, 1>>, <<7, 3, 3>>, <<3, NoValue, NoValue>>},
        g \in {"plant_based_core", "animal_core", "composite_products"}, r \in {<<>>}}
    \cup
    {[items |-> 3, weight |-> 5, pct |-> NoValue, plant |-> NoValue,
      animal |-> NoValue, group |-> g, records |-> r] :
        g \in {"composite_products", "animal_core", "unknown"}, r \in PTRecords}

PTInput ==
    {[engine |-> "protein_tracker", catalogue |-> <<a, b>>, enriched |-> e] :
        a, b \in PTProducts, e \in BOOLEAN}

\* Products as the screens and the reports see them.
Seen(items, values, group, found, by, certainty, review) ==
    [items |-> items, weight |-> 5, pct |-> values[1], plant |-> values[2],
     animal |-> values[3], group |-> group, records |-> found, by |-> by,
     certainty |-> certainty, matched |-> certainty, review |-> review,
     wwf |-> by # "ai", wwfReview |-> IF by = "ai" THEN "in_queue" ELSE "none"]
Unvalued == <<NoValue, NoValue, NoValue>>
Only(pct) == <<pct, NoValue, NoValue>>
Plain == Seen(3, Only(3), "plant_based_core", <<>>, "deterministic", 100, "none")

ReportProduct ==
    {Plain,
     Seen(3, Only(4), "animal_core", <<>>, "ai", 60, "in_queue"),
     Seen(1, <<3, 2, 1>>, "composite_products", <<>>, "manual_review", 100, "accepted"),
     Seen(1, Only(7), "composite_products", <<>>, "ai", 90, "none"),
     Seen(0, Only(7), "plant_based_non_core", <<>>, "deterministic", 100, "none"),
     Seen(3, Only(3), "unknown", <<>>, "ai", 0, "reviewing"),
     Seen(3, Only(3), "out_of_scope", <<>>, "deterministic", 100, "none"),
     Seen(3, Unvalued, "animal_core", NoMatch, "ai", 75, "none"),
     Seen(3, Unvalued, "unknown", <<>>, "ai", 0, "in_queue"),
     Seen(3, Unvalued, "composite_products", NevoEntry(4, 1, "composite_products"),
          "ai", 40, "none"),
     Seen(1, Unvalued, "animal_core",
          Total("category_average", 2) \o Total("ciqual", 5), "ai", 10, "none"),
     Seen(3, Unvalued, "none", ManualNutrition(7, 3, 5), "none", 0, "none")}

\* Since the run a product was decided anew, enriched or deleted; what the file said
\* about it stays.
Later(a, b) ==
    {<<a, b>>, (2 :> b), (1 :> a),
     <<[a EXCEPT !.group = "composite_products", !.by = "manual_review",
                 !.certainty = 100, !.review = "accepted"], b>>,
     <<a, [b EXCEPT !.group = "animal_core", !.by = "ai", !.certainty = 60,
                    !.review = "in_queue", !.records = NoMatch]>>}

Report(catalogue, now, enriched, errors) ==
    [engine |-> "report", catalogue |-> catalogue, now |-> now,
     enriched |-> enriched, errors |-> errors]

\* In a long catalogue one product is less than five percent.
ReportInput ==
    UNION {{Report(<<a, b>>, n, e, x) : n \in Later(a, b), e \in BOOLEAN, x \in {0, 1}} :
            a, b \in ReportProduct}
    \cup {Report(long, long, TRUE, 0) :
            long \in {[i \in 1 .. 24 |-> IF i = 3 THEN a ELSE Plain] : a \in ReportProduct}}

MCFilter ==
    [source : {Engine!Anything, "ai", "unknown"}, group : {Engine!Anything, "composite_products"},
     least : {NoValue, 60}, most : {NoValue, 75}, review : {Engine!Anything, "in_queue"},
     view : {"review", "products"}, methodology : {Engine!Anything, "wwf", "protein_tracker"}]

WWFProducts ==
    {[items |-> 2, weight |-> w, group |-> g[1], subgroup |-> g[2],
      composite |-> FALSE, ownBrand |-> TRUE, bucket |-> "none"] :
        w \in {3}, g \in {<<"FG1", "poultry">>, <<"FG2", "cheese">>,
                          <<"FG2", "dairy_alternative_plant">>,
                          <<"FG3", "animal_based_fat">>, <<"FG4", "none">>,
                          <<"FG7", "plant_based_snack">>, <<"out_of_scope", "none">>,
                          <<"unknown", "none">>, <<"none", "none">>}}
    \cup
    {[items |-> 1, weight |-> 5, group |-> g, subgroup |-> "none",
      composite |-> TRUE, ownBrand |-> o, bucket |-> b] :
        g \in {"FG5", "unknown"}, o \in BOOLEAN, b \in {"meat_based", "vegan"}}

Ingredients ==
    {<<[food_group |-> "FG2", subgroup |-> "cheese", weight |-> 2],
       [food_group |-> "FG3", subgroup |-> "none", weight |-> 1]>>,
     <<[food_group |-> "FG1", subgroup |-> "legumes", weight |-> 3],
       [food_group |-> "FG1", subgroup |-> "legumes", weight |-> 3]>>}

WWFInput ==
    {[engine |-> "wwf", catalogue |-> <<a, b>>, ingredients |-> i] :
        a, b \in WWFProducts,
        i \in {<<>>} \cup {<<x>> : x \in Ingredients} \cup {<<x, x>> : x \in Ingredients}}

\* WWF products as the reports see them, and what happened to them since the run.
WWFSeen(p) ==
    p @@ [by |-> IF p.group = "none" THEN "none" ELSE IF p.ownBrand THEN "deterministic"
                 ELSE "ai",
          review |-> IF p.group = "unknown" THEN "in_queue"
                     ELSE IF p.ownBrand THEN "none" ELSE "accepted"]
WWFLater(a, b) ==
    {<<a, b>>, (2 :> b),
     <<[a EXCEPT !.group = "FG4", !.subgroup = "none", !.composite = FALSE,
                 !.bucket = "none", !.by = "manual_review", !.review = "accepted"], b>>}
WWFReportInput ==
    UNION {{[engine |-> "wwf report", catalogue |-> <<a, b>>, now |-> n,
             ingredients |-> i, again |-> j, errors |-> 0] :
                n \in WWFLater(a, b), i, j \in {<<>>} \cup {<<x>> : x \in Ingredients}} :
           a, b \in {WWFSeen(p) : p \in WWFProducts}}

Operation ==
    {[type |-> "shift", from |-> f, to |-> t, amount |-> a, order |-> 0] :
        f \in {"animal_core", "composite_products"},
        t \in {"plant_based_core", "composite_products", "elsewhere"}, a \in {-1, 2}}
    \cup {[type |-> y, amount |-> a, order |-> 0] :
            y \in {"increase_plant_core", "reduce_animal_core"}, a \in {1, 3}}
    \cup {[type |-> "improve_split", plant |-> v, animal |-> 1, order |-> 0] :
            v \in {1, 9}}

InOrder(ops) == [i \in DOMAIN ops |-> [ops[i] EXCEPT !.order = i]]

ProjectionInput ==
    {[engine |-> "projection",
      mass |-> [g \in Plan!Groups |-> IF g = "animal_core" THEN m[1]
                                   ELSE IF g = "composite_products" THEN m[2] ELSE m[3]],
      operations |-> InOrder(ops)] :
        m \in {<<0, 0, 0>>, <<1, 3, 0>>, <<3, 1, 1>>},
        ops \in {<<>>} \cup {<<a>> : a \in Operation} \cup {<<a, b>> : a, b \in Operation}
                \cup {<<a, b, c>> : a, b, c \in {o \in Operation : o.type # "shift"
                                                    \/ o.amount > 0}}}

MCInput == PTInput \cup WWFInput \cup ProjectionInput \cup ReportInput \cup WWFReportInput

-----------------------------------------------------------------------------
(* Step 2 *)

Entry(weight, brand, composite) ==
    [weight |-> weight, ownBrand |-> brand, classified |-> TRUE, composite |-> composite]
Raw(group, subgroup, weight) ==
    [food_group |-> group, subgroup |-> subgroup, weight |-> weight]

StepCatalogue ==
    [k \in Key |-> CASE k = "lasagne" -> Entry(5, TRUE, TRUE)
                     [] k = "quiche" -> Entry(5, TRUE, TRUE)
                     [] k = "branded" -> Entry(5, FALSE, TRUE)
                     [] k = "apple" -> Entry(1, TRUE, FALSE)
                     [] OTHER -> Entry(1, TRUE, TRUE)]
StepEntries ==
    {<<Raw("FG2", "cheese", 1), Raw("FG4", "green", 2)>>,
     <<Raw("FG3", "none", 1)>>, <<Raw("FG1", "none", 1)>>, <<Raw("FG4", "none", 0)>>}
StepFiles ==
    UNION {[keys -> StepEntries] :
            keys \in {ks \in SUBSET (Key \cup {"ghost"}) : Cardinality(ks) \in 1 .. 2}}

-----------------------------------------------------------------------------
(* One of them *)

ASSUME InstanceIsMeant == CalculationsAssumption

engineVars == <<input, result>>
step2Vars == <<stored, upload, uploads, accepted>>
projectVars == <<project, requests>>
allVars == <<focus, engineVars, step2Vars, projectVars>>

MCInit ==
    /\ focus \in {"engine", "step2", "step2 on postgres", "pt", "both", "wwf"}
    /\ IF focus = "engine" THEN EngineInit ELSE input = NoResult /\ result = NoResult
    /\ StepTwo!Init
    /\ Init
    /\ enabled = CASE focus = "wwf" -> {"wwf"}
                   [] focus = "both" -> {PT, "wwf"}
                   [] OTHER -> {PT}

ComputeInput ==
    /\ focus = "engine"
    /\ ComputeResult
    /\ UNCHANGED <<focus, step2Vars, projectVars>>

UploadStep2 ==
    /\ \/ focus = "step2" /\ StepTwo!Next
       \/ focus = "step2 on postgres" /\ Step2Postgres!Next
    /\ UNCHANGED <<focus, engineVars, projectVars>>

\* With both methodologies there is one product, the one without a label; only where
\* no more than one run is created a product gets two records.
Calculate ==
    /\ focus \in {"pt", "both", "wwf"}
    /\ Next
    /\ focus = "both" => products' \subseteq {"bare"}
    /\ IF focus = "pt" THEN created' <= 1
       ELSE \A p \in Product : Len(records'[p]) <= 1
    /\ UNCHANGED <<focus, engineVars, step2Vars>>

MCNext == ComputeInput \/ UploadStep2 \/ Calculate

MCSpec == MCInit /\ [][MCNext]_allVars
=============================================================================

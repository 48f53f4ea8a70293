---------------------------- MODULE CalculationRun ----------------------------
(***************************************************************************)
(* One project on its way to a calculation: products come in, are          *)
(* classified, reviewed and enriched, while a run passes the gate of the   *)
(* workflow, reads the catalogue and is stored (create_run in              *)
(* api/routes.py and run_calculation in api/orchestrator.py).              *)
(***************************************************************************)
EXTENDS Enrichment, TLC

CONSTANTS
    Product,
    Labelled,       \* the products whose file gave a protein value
    Group,          \* groups the classifier answers with
    Pct,            \* protein values of references and of people
    Worker,         \* requests that create a run
    Store,          \* "memory" or "postgres"
    MaxRecords,     \* bound: a product with so many records gets no more
    MaxRuns         \* bound: runs created

W == INSTANCE Workflow

\* What the constants are: the module that gives them values assumes it.
ConstantsAssumption ==
    /\ Labelled \subseteq Product
    /\ "none" \notin Group
    /\ Pct \subseteq Nat
    /\ Store \in {"memory", "postgres"}
    /\ MaxRecords \in Nat /\ MaxRuns \in Nat

VARIABLES
    enabled,    \* the methodologies of the project, chosen when it is created
    uploaded,   \* a file was uploaded
    products,   \* the products ingested so far
    cls,        \* for each methodology and product its group, or "none"
    open,       \* for each methodology the products with an open review item
    records,    \* for each product its enrichment records, oldest first
    runs,       \* the runs stored
    created,    \* how many runs were created
    pc, req     \* the request of a worker

project == <<enabled, uploaded, products, cls, open, records>>
vars == <<project, runs, created, pc, req>>

PT == "protein_tracker"
Methodologies == {PT, "wwf"}
Enabled(m) == m \in enabled

\* Mutant: any record counts.
HasAnyRecord(p) == p \in Labelled \/ records[p] # <<>>
\* A product that the workflow takes for ready: the file gave a value, or some
\* record carries one.
HasValue(p) ==
    p \in Labelled \/ \E i \in DOMAIN records[p] :
        /\ records[p][i].nutrient = "protein_pct"
        /\ records[p][i].status = "enriched" /\ records[p][i].value # NoValue

Count(in(_)) == Cardinality({p \in products : in(p)})

\* _gather_counts: five bulk reads, taken as one.
Counts ==
    [pt |-> Enabled(PT), wwf |-> Enabled("wwf"),
     uploads |-> IF uploaded THEN 1 ELSE 0, products |-> Cardinality(products),
     ptProducts |-> IF Enabled(PT) THEN Cardinality(products) ELSE 0,
     ptClassified |-> IF Enabled(PT) THEN Count(LAMBDA p : cls[PT][p] # "none") ELSE 0,
     ptInReview |-> IF Enabled(PT)
                    THEN Count(LAMBDA p : cls[PT][p] # "none" /\ p \in open[PT]) ELSE 0,
     ptEligible |-> IF Enabled(PT)
                    THEN Count(LAMBDA p : /\ cls[PT][p] # "none"
                                          /\ p \notin open[PT] /\ HasValue(p)) ELSE 0,
     missing |-> IF Enabled(PT) THEN Count(LAMBDA p : ~HasValue(p)) ELSE 0,
     wwfProducts |-> IF Enabled("wwf") THEN Cardinality(products) ELSE 0,
     wwfClassified |-> IF Enabled("wwf")
                       THEN Count(LAMBDA p : cls["wwf"][p] # "none") ELSE 0,
     wwfUnknown |-> IF Enabled("wwf")
                    THEN Count(LAMBDA p : cls["wwf"][p] = "unknown") ELSE 0,
     attempted |-> \E p \in products : records[p] # <<>>,
     runs |-> Cardinality(runs)]

\* The value the engine takes for a product.
ValueOf(p, enriched) ==
    IF p \in Labelled THEN [Nothing EXCEPT !.source = "retailer"]
    ELSE IF enriched THEN Selected(records[p]) ELSE Nothing

NoRequest ==
    [methodology |-> PT, partial |-> FALSE, enriched |-> TRUE, asked |-> {},
     list |-> {}, classified |-> {}, id |-> 0]

Init ==
    /\ enabled \in (SUBSET Methodologies) \ {{}}
    /\ uploaded = FALSE
    /\ products = {}
    /\ cls = [m \in Methodologies |-> [p \in Product |-> "none"]]
    /\ open = [m \in Methodologies |-> {}]
    /\ records = [p \in Product |-> <<>>]
    /\ runs = {}
    /\ created = 0
    /\ pc = [w \in Worker |-> "idle"]
    /\ req = [w \in Worker |-> NoRequest]

requests == <<runs, created, pc, req>>

-----------------------------------------------------------------------------
(* The project meanwhile *)

Upload ==
    /\ ~uploaded
    /\ uploaded' = TRUE
    /\ UNCHANGED <<enabled, products, cls, open, records, requests>>

(***************************************************************************)
(* A chunk of an ingestion job adds products.                              *)
(***************************************************************************)
AddProduct(p) ==
    /\ uploaded /\ p \notin products
    /\ products' = products \cup {p}
    /\ UNCHANGED <<enabled, uploaded, cls, open, records, requests>>

(***************************************************************************)
(* A classification job takes a product that has no group, or in Protein   *)
(* Tracker an unknown one; its answer is queued for review if it is unknown*)
(* or in doubt.                                                            *)
(***************************************************************************)
Classify(p) ==
    /\ p \in products
    /\ \E m \in enabled, g \in Group :
        /\ cls[m][p] = "none" \/ (m = PT /\ cls[m][p] = "unknown")
        /\ cls' = [cls EXCEPT ![m][p] = g]
        /\ \/ open' = [open EXCEPT ![m] = @ \cup {p}]
           \/ g # "unknown" /\ UNCHANGED open
    /\ UNCHANGED <<enabled, uploaded, products, records, requests>>

(***************************************************************************)
(* A reviewer accepts or changes the group of a product, queued or not.    *)
(***************************************************************************)
Decide(p) ==
    /\ p \in products
    /\ \E m \in enabled, g \in Group :
        /\ cls[m][p] # "none"
        /\ cls' = [cls EXCEPT ![m][p] = g]
        /\ open' = [open EXCEPT ![m] = @ \ {p}]
    /\ UNCHANGED <<enabled, uploaded, products, records, requests>>

\* What an endpoint appends for a product.
AddRecords(p, new) ==
    /\ new # <<>>
    /\ Len(records[p]) < MaxRecords
    /\ records' = [records EXCEPT ![p] = @ \o new]
    /\ UNCHANGED <<enabled, uploaded, products, cls, open, requests>>

(***************************************************************************)
(* apply-references, one product of its loop: only where the file gave no  *)
(* value.                                                                  *)
(***************************************************************************)
ApplyReferences(p) ==
    /\ Enabled(PT) /\ p \in products \ Labelled
    /\ \E new \in References(cls[PT][p], Pct) : AddRecords(p, new)

(***************************************************************************)
(* The validation table: a value and its split, even over a label's.       *)
(***************************************************************************)
SubmitManualNutrition(p) ==
    /\ Enabled(PT) /\ p \in products
    /\ \E v \in Pct : AddRecords(p, ManualNutrition(v, v, 0))

(***************************************************************************)
(* A manual value, or the average of the group: 409 if the file gave one.  *)
(***************************************************************************)
CreateManualEnrichment(p) ==
    /\ Enabled(PT) /\ p \in products \ Labelled
    /\ \E v \in Pct : AddRecords(p, Total("manual_altera", v))

ApplyCategoryAverage(p) ==
    /\ Enabled(PT) /\ p \in products \ Labelled
    /\ cls[PT][p] # "none"
    /\ \E v \in Pct : AddRecords(p, CategoryAverage(cls[PT][p], v))

-----------------------------------------------------------------------------
(* A run *)

Goto(w, label, request) ==
    /\ pc' = [pc EXCEPT ![w] = label]
    /\ req' = [req EXCEPT ![w] = request]

(***************************************************************************)
(* create_run: a Protein Tracker run must pass the gate, a WWF run has     *)
(* none; a methodology that is not enabled is refused.                     *)
(***************************************************************************)
CreateRun(w) ==
    /\ pc[w] = "idle"
    /\ created < MaxRuns
    /\ \E m \in enabled, partial, enriched \in BOOLEAN :
        /\ m = PT => W!RunReady(Counts, partial)
        /\ m # PT => ~partial /\ enriched
        /\ Goto(w, "list", [NoRequest EXCEPT !.methodology = m, !.partial = partial,
                            !.enriched = enriched, !.asked = products,
                            !.id = created + 1])
    /\ created' = created + 1
    /\ UNCHANGED <<project, runs>>

(***************************************************************************)
(* run_calculation lists the products ...                                  *)
(***************************************************************************)
ListProducts(w) ==
    /\ pc[w] = "list"
    /\ Goto(w, "classified", [req[w] EXCEPT !.list = products])
    /\ UNCHANGED <<project, runs, created>>

(***************************************************************************)
(* ... reads their classifications ...                                     *)
(***************************************************************************)
ReadClassifications(w) ==
    /\ pc[w] = "classified"
    /\ Goto(w, "compute", [req[w] EXCEPT !.classified =
            {p \in req[w].list : cls[req[w].methodology][p] # "none"}])
    /\ UNCHANGED <<project, runs, created>>

\* Mutant: what is still in review is left out.
RowsOfSettled(r) ==
    {p \in r.list \ open[r.methodology] :
        r.methodology # PT \/ p \in Labelled \/ ValueOf(p, r.enriched) # Nothing}
\* The rows of a run: every product of a WWF run, those with a value in a
\* Protein Tracker run.
RowsOf(r) ==
    IF r.methodology # PT THEN r.list
    ELSE {p \in r.list : p \in Labelled \/ ValueOf(p, r.enriched) # Nothing}

(***************************************************************************)
(* ... is refused if one has none (ValueError, 400) ...                    *)
(***************************************************************************)
Refuse(w) ==
    /\ pc[w] = "compute"
    /\ req[w].classified # req[w].list
    /\ Goto(w, "idle", NoRequest)
    /\ UNCHANGED <<project, runs, created>>

(***************************************************************************)
(* ... or reads the enrichment records, computes and stores the run.       *)
(***************************************************************************)
Compute(w) ==
    /\ pc[w] = "compute"
    /\ req[w].classified = req[w].list
    /\ LET r == req[w]
           run == [id |-> r.id, methodology |-> r.methodology, partial |-> r.partial,
                   enriched |-> r.enriched, asked |-> r.asked, rows |-> RowsOf(r)]
       IN  /\ runs' = runs \cup {run}
           /\ IF run.rows = {} THEN Goto(w, "drop", r) ELSE Goto(w, "idle", NoRequest)
    /\ UNCHANGED <<project, created>>

\* delete_run, which only the in-memory store has.
Without(id) == IF Store = "memory" THEN {run \in runs : run.id # id} ELSE runs

(***************************************************************************)
(* A run without a row is deleted again, and the request answered with 400.*)
(***************************************************************************)
DropEmpty(w) ==
    /\ pc[w] = "drop"
    /\ runs' = Without(req[w].id)
    /\ Goto(w, "idle", NoRequest)
    /\ UNCHANGED <<project, created>>

Next ==
    \/ Upload
    \/ \E p \in Product :
        \/ AddProduct(p) \/ Classify(p) \/ Decide(p)
        \/ ApplyReferences(p) \/ SubmitManualNutrition(p)
        \/ CreateManualEnrichment(p) \/ ApplyCategoryAverage(p)
    \/ \E w \in Worker :
        \/ CreateRun(w) \/ ListProducts(w) \/ ReadClassifications(w)
        \/ Refuse(w) \/ Compute(w) \/ DropEmpty(w)

Spec == Init /\ [][Next]_vars

-----------------------------------------------------------------------------
(* Properties *)

Run ==
    [id : Nat, methodology : Methodologies, partial : BOOLEAN, enriched : BOOLEAN,
     asked : SUBSET Product, rows : SUBSET Product]

TypeOK ==
    /\ enabled \subseteq Methodologies /\ enabled # {}
    /\ uploaded \in BOOLEAN
    /\ products \subseteq Product
    /\ cls \in [Methodologies -> [Product -> Group \cup {"none"}]]
    /\ open \in [Methodologies -> SUBSET Product]
    /\ \A p \in Product : \A i \in DOMAIN records[p] : records[p][i] \in EnrichmentRecord
    /\ runs \subseteq Run
    /\ created \in 0 .. MaxRuns
    /\ pc \in [Worker -> {"idle", "list", "classified", "compute", "drop"}]

\* The gate and the engine agree: if the workflow calls the calculation ready,
\* a run has a row for every product, and there is one ("the workflow aggregator
\* counted enriched products as eligible but the calc engine ignored their
\* enrichment records, producing 0 rows").
GateMatchesEngine ==
    Enabled(PT) /\ W!RunReady(Counts, FALSE) =>
        /\ products # {}
        /\ \A p \in products : /\ cls[PT][p] # "none"
                               /\ p \in Labelled \/ ValueOf(p, TRUE) # Nothing

\* ... and stays right while the run is made: a run that did not ask for a
\* partial result covers every product the gate was asked about, whatever was
\* ingested, classified, decided or enriched meanwhile.
StrictRunsAreFull ==
    \A run \in runs :
        run.methodology # PT \/ (~run.partial /\ run.enriched) => run.asked \subseteq run.rows

\* In every state of a project the wizard leads to a step that is open.
WizardLeadsOn == W!LeadsOn(Counts)

\* "Existing enrichment records for the same product+nutrient are superseded by
\* the new one": the calculation uses the last manual value.
LatestManualCounts ==
    \A p \in products \ Labelled :
        LET manual == {i \in Usable(records[p], "protein_pct") :
                        records[p][i].source = "manual_altera"}
        IN  manual # {} => ValueOf(p, TRUE).pct = records[p][Max(manual)].value
=============================================================================

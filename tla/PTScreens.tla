------------------------------ MODULE PTScreens ------------------------------
(***************************************************************************)
(* What the wizard shows of a Protein Tracker project before and after a   *)
(* calculation: the classification table, the nutrition table, the         *)
(* readiness numbers and the coverage of a run (api/routes.py).  Each is   *)
(* computed from the stored products by code of its own; the engine        *)
(* (ProteinTracker) is what they speak about.                              *)
(*                                                                         *)
(* To what the engine reads a product adds: by, the source of its          *)
(* classification ("none" without one); certainty, the confidence of that  *)
(* classification; matched, the confidence of the record that is shown;    *)
(* review and wwfReview, the status of its review items; wwf, whether WWF  *)
(* has classified it.                                                      *)
(***************************************************************************)
EXTENDS ProteinTracker, Reporting

Percent(n, d) == IF d = 0 THEN 0 ELSE HalfEven(n * 1000, d)

-----------------------------------------------------------------------------
(* The classification table *)

Anything == "any"

SourceShown(p) == IF p.by = "none" THEN "unknown" ELSE p.by
GroupShown(p) == IF p.by = "none" THEN "none" ELSE p.group

\* The filters are about the Protein Tracker side and hold together.
Passes(p, filter) ==
    /\ filter.source \in {Anything, SourceShown(p)}
    /\ filter.group = Anything \/ (p.by # "none" /\ p.group = filter.group)
    /\ filter.least = NoValue \/ (p.by # "none" /\ p.certainty >= filter.least)
    /\ filter.most = NoValue \/ (p.by # "none" /\ p.certainty <= filter.most)
    /\ filter.review \in {Anything, p.review}

Filtered(catalogue, filter) == {k \in DOMAIN catalogue : Passes(catalogue[k], filter)}

\* view = "review": a row for each open item, so a product may have two.
ReviewRows(catalogue, keys, methodology) ==
    LET status(k, m) == IF m = "wwf" THEN catalogue[k].wwfReview ELSE catalogue[k].review
    IN  {row \in keys \X {"protein_tracker", "wwf"} :
            methodology \in {Anything, row[2]} /\ status(row[1], row[2]) \in OpenStatus}

\* view = "products": a row for each product the methodology has classified.
ProductRows(catalogue, keys, methodology) ==
    {<<k, Anything>> : k \in {k \in keys :
        CASE methodology = "protein_tracker" -> catalogue[k].by # "none"
          [] methodology = "wwf" -> catalogue[k].wwf
          [] OTHER -> TRUE}}

\* list_classifications_route, its pages apart.
Table(catalogue, filter) ==
    LET keys == Filtered(catalogue, filter)
        open(status(_)) == Cardinality({k \in DOMAIN catalogue :
                                            status(catalogue[k]) \in OpenStatus})
    IN  [rows |-> IF filter.view = "review"
                  THEN ReviewRows(catalogue, keys, filter.methodology)
                  ELSE ProductRows(catalogue, keys, filter.methodology),
         filtered |-> Cardinality(keys),
         bySource |-> [s \in {"deterministic", "ai", "manual_review", "unknown"} |->
                        Cardinality({k \in keys : SourceShown(catalogue[k]) = s})],
         byGroup |-> [g \in MethodologyGroups \cup {"out_of_scope", "unknown"} |->
                        Cardinality({k \in keys : GroupShown(catalogue[k]) = g})],
         ptOpen |-> open(LAMBDA p : p.review),
         wwfOpen |-> open(LAMBDA p : p.wwfReview)]

-----------------------------------------------------------------------------
(* The nutrition table *)

\* Within a source the newest record is shown; the averages of a category have
\* no rank of their own, and come after CIQUAL.
ShownRecord(records, nutrient) ==
    LET usable == Usable(records, nutrient)
    IN  IF usable = {} THEN 0
        ELSE CHOOSE i \in usable : \A j \in usable :
                LET a == Priority[records[i].source]
                    b == Priority[records[j].source]
                IN  a < b \/ (a = b /\ i >= j)

\* A confidence of zero counts as none, and that as the best.
Tier(confidence) ==
    IF confidence \in {NoValue, 0} \/ confidence >= 85 THEN "ready"
    ELSE IF confidence >= 70 THEN "ready_medium_confidence"
    ELSE IF confidence >= 50 THEN "needs_review_low_confidence"
    ELSE IF confidence >= 30 THEN "suggested_very_low_confidence"
    ELSE "needs_review"

ShownSource(source) ==
    CASE source = "manual_altera" -> "manual"
      [] source = "nevo" -> "nevo"
      [] OTHER -> "ciqual"

\* _nutrition_row_fields: the retailer's value first, then a record's.
NutritionRow(p) ==
    LET total == ShownRecord(p.records, "protein_pct")
        part(nutrient) == LET i == ShownRecord(p.records, nutrient)
                          IN  IF i = 0 THEN NoValue ELSE p.records[i].value
        plant == part("plant_protein_pct")
        animal == part("animal_protein_pct")
        row(status, source, pct, a, b) ==
            [status |-> status, source |-> source, pct |-> pct, plant |-> a, animal |-> b]
    IN  IF p.pct # NoValue THEN row("ready", "retailer_csv", p.pct, p.plant, p.animal)
        ELSE IF total = 0 THEN row("missing", "missing", NoValue, NoValue, NoValue)
        ELSE LET best == p.records[total]
             IN  IF plant # NoValue /\ animal # NoValue
                 THEN row(Tier(p.matched), ShownSource(best.source),
                          best.value, plant, animal)
                 ELSE row("needs_review", ShownSource(best.source),
                          best.value, NoValue, NoValue)

\* list_nutrition_validations_route, its pages apart.
NutritionTable(catalogue, status, source) ==
    LET row == [k \in DOMAIN catalogue |-> NutritionRow(catalogue[k])]
        keys == {k \in DOMAIN row : /\ status \in {Anything, row[k].status}
                                    /\ source \in {Anything, row[k].source}}
    IN  [rows |-> [k \in keys |-> row[k]],
         byStatus |-> [s \in {row[k].status : k \in keys} |->
                        Cardinality({k \in keys : row[k].status = s})],
         bySource |-> [s \in {row[k].source : k \in keys} |->
                        Cardinality({k \in keys : row[k].source = s})]]

-----------------------------------------------------------------------------
(* Readiness *)

HasVolume(p) == p.items > 0
HasWeight(p) == p.weight > 0

\* Mutant: any record of a total counts, also a failed one.
HasProteinAnyRecord(p) ==
    p.pct # NoValue \/ \E i \in DOMAIN p.records : p.records[i].nutrient = "protein_pct"
HasProtein(p) == p.pct # NoValue \/ Selected(p.records).pct # NoValue

HasSplit(p) ==
    \/ p.plant # NoValue /\ p.animal # NoValue
    \/ /\ p.pct = NoValue
       /\ Selected(p.records).plant # NoValue /\ Selected(p.records).animal # NoValue

IsReady(p) ==
    p.by # "none" /\ HasVolume(p) /\ HasWeight(p) /\ HasProtein(p) /\ p.group # "unknown"

\* calculation_preflight_route: what a product without a classification lacks
\* besides is not counted.
Preflight(catalogue) ==
    LET count(has(_)) == Cardinality({k \in DOMAIN catalogue : has(catalogue[k])})
        classified(p) == p.by # "none"
    IN  [total |-> Cardinality(DOMAIN catalogue),
         classified |-> count(classified),
         volume |-> count(HasVolume), weight |-> count(HasWeight),
         protein |-> count(LAMBDA p : classified(p) /\ HasProtein(p)),
         split |-> count(LAMBDA p : classified(p) /\ HasSplit(p)),
         ready |-> count(IsReady),
         missingNutrition |-> count(LAMBDA p : classified(p) /\ ~HasProtein(p)),
         missingAmount |-> count(LAMBDA p : /\ classified(p)
                                            /\ ~(HasVolume(p) /\ HasWeight(p))),
         unclassified |-> count(LAMBDA p : ~classified(p)),
         outOfScope |-> count(LAMBDA p : /\ classified(p)
                                         /\ p.group \in {"out_of_scope", "unknown"}),
         attempted |-> \E k \in DOMAIN catalogue :
                        classified(catalogue[k]) /\ catalogue[k].records # <<>>]

-----------------------------------------------------------------------------
(* The coverage that decorates a new run *)

Eligible(p) ==
    /\ p.by # "none" /\ p.group # "unknown"
    /\ p.pct # NoValue \/ Usable(p.records, "protein_pct") # {}

\* _compute_pt_coverage: the products are counted by the rows of the run, the
\* volume by eligibility.
Coverage(catalogue, rowsCount) ==
    LET total == Cardinality(DOMAIN catalogue)
        eligible == {k \in DOMAIN catalogue : Eligible(catalogue[k])}
        volume(keys) == MapThenSumSet(LAMBDA k : catalogue[k].items, keys)
        excluded == IF total > rowsCount THEN total - rowsCount ELSE 0
    IN  [total |-> total, eligible |-> Cardinality(eligible), included |-> rowsCount,
         excluded |-> excluded, partial |-> excluded > 0,
         productPct |-> LET share == Percent(rowsCount, total)
                        IN  IF share > 1000 THEN 1000 ELSE share,
         volumePct |-> Percent(volume(eligible), volume(DOMAIN catalogue))]

-----------------------------------------------------------------------------
(* Properties *)

\* The counters of the classification table cover what the filters leave, and
\* without filters the rows to be reviewed are the two totals of the banner.
TableAddsUp(catalogue, filter) ==
    LET table == Table(catalogue, filter)
        sum(f) == MapThenSumSet(LAMBDA s : f[s], DOMAIN f)
        all == [filter EXCEPT !.source = Anything, !.group = Anything, !.least = NoValue,
                              !.most = NoValue, !.review = Anything, !.view = "review",
                              !.methodology = Anything]
    IN  /\ sum(table.bySource) = table.filtered
        /\ sum(table.byGroup) = table.filtered - table.bySource["unknown"]
        /\ Cardinality(Table(catalogue, all).rows) = table.ptOpen + table.wwfOpen

\* What the nutrition table shows as the value is the value a run uses, as long
\* as no source has two values for a product.
ShownIsUsed(catalogue) ==
    \A k \in DOMAIN catalogue :
        LET p == catalogue[k]
            sources == {p.records[i].source : i \in Usable(p.records, "protein_pct")}
        IN  Cardinality(sources) = Cardinality(Usable(p.records, "protein_pct"))
              => NutritionRow(p).pct = Nutrition(p, TRUE).pct

\* A product that is ready gets a row in the next run; one that gets a row
\* without being ready has no volume, or nobody knows what it is.
ReadyMeansIncluded(catalogue, run) ==
    \A k \in DOMAIN catalogue :
        LET p == catalogue[k]
        IN  IF IsReady(p) THEN k \in DOMAIN run.rows
            ELSE k \in DOMAIN run.rows =>
                    ~HasVolume(p) \/ ~HasWeight(p) \/ p.group = "unknown"

\* A run is called partial when a product has no row, and both percentages are
\* 100 when every product is known and has one.
CoverageIsHonest(catalogue, run) ==
    LET coverage == Coverage(catalogue, Cardinality(DOMAIN run.rows))
        known == \A k \in DOMAIN catalogue : catalogue[k].group # "unknown"
    IN  /\ coverage.partial <=> DOMAIN run.rows # DOMAIN catalogue
        /\ known => coverage.eligible = Cardinality(DOMAIN run.rows)
        /\ known /\ ~coverage.partial /\ (\E k \in DOMAIN catalogue : catalogue[k].items > 0)
              => coverage.productPct = 1000 /\ coverage.volumePct = 1000
=============================================================================

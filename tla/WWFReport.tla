------------------------------- MODULE WWFReport -------------------------------
(***************************************************************************)
(* What is told about a WWF run: the readiness numbers before it, and the  *)
(* workbook, the lists of contributors, the coverage section, the          *)
(* recommendations, the export and the comparison after it.                *)
(*                                                                         *)
(* As in PTReport, the run keeps its rows while the products and their     *)
(* classifications ("now") and the Step 2 ingredients are read when a      *)
(* report is built.  To what the engine reads a product adds by, the       *)
(* source of its classification, and review, the status of its item.       *)
(***************************************************************************)
EXTENDS WWFEngine, Reporting

CONSTANT Top    \* how many products a list of contributors names

PhdFG1 == 16    \* percent of FG1 in the Planetary Health Diet

\* A row for every product, in scope or not.
Rows(catalogue) ==
    [k \in DOMAIN catalogue |->
        [group |-> catalogue[k].group, subgroup |-> catalogue[k].subgroup,
         composite |-> catalogue[k].composite, bucket |-> catalogue[k].bucket,
         weight |-> Weight(catalogue[k].weight, catalogue[k])]]

-----------------------------------------------------------------------------
(* Before the run *)

\* _wwf_calculation_preflight.
Preflight(catalogue) ==
    LET keys == DOMAIN catalogue
        classified == {k \in keys : catalogue[k].group # "none"}
        weighed == {k \in keys : catalogue[k].weight > 0}
    IN  [total |-> Cardinality(keys), classified |-> Cardinality(classified),
         missing |-> Cardinality(keys \ classified), weighed |-> Cardinality(weighed),
         unweighed |-> Cardinality(classified \ weighed),
         ready |-> {k \in classified \cap weighed : InScope(catalogue[k])}]

-----------------------------------------------------------------------------
(* The workbook and the contributors *)

\* _wwf_analysis_sheet: a composite is not counted in the food group it carries.
SheetOf(p) == IF p.bucket # "none" THEN "composite" ELSE p.group
Sheet(now) ==
    [g \in FoodGroups \cup {"composite", "out_of_scope", "unknown"} |->
        CountOver(DOMAIN now, LAMBDA k : now[k].by # "none" /\ SheetOf(now[k]) = g)]

\* _wwf_polarity: what counts in favour of a product range and what against it.
Polarity(row) ==
    IF row.composite /\ row.bucket # "none"
    THEN IF row.bucket \in {"vegan", "vegetarian"} THEN "positive" ELSE "watchout"
    ELSE CASE row.group = "FG1" /\ row.subgroup # "none" ->
                IF row.subgroup \in AnimalSubgroups THEN "watchout" ELSE "positive"
           [] row.group \in {"FG4", "FG5"} -> "positive"
           [] row.group = "FG7" -> "watchout"
           [] OTHER -> "neither"

\* wwf_contributors: the heaviest first; of equals, the one that comes first in the run.
Contributors(rows, side) ==
    LET keys == {k \in DOMAIN rows : /\ rows[k].group \in FoodGroups /\ rows[k].weight > 0
                                     /\ Polarity(rows[k]) = side}
        before(a, b) == \/ rows[a].weight > rows[b].weight
                        \/ rows[a].weight = rows[b].weight /\ a < b
    IN  [i \in 1 .. Min({Top, Cardinality(keys)}) |->
            CHOOSE k \in keys : Cardinality({j \in keys : before(j, k)}) = i - 1]

-----------------------------------------------------------------------------
(* The coverage section and the recommendations *)

\* _wwf_step2_caveats: composites are those of the rows that are composites now,
\* Step 2 is counted in everything that is stored for the project.
Step2Caveats(rows, now, ingredients) ==
    LET composites == {k \in DOMAIN rows \cap DOMAIN now :
                            now[k].by # "none" /\ now[k].composite}
        own == {k \in composites : now[k].ownBrand}
        applied == Cardinality(DOMAIN ingredients)
    IN  [applied |-> applied, own |-> Cardinality(own),
         step1Only |-> Max({0, Cardinality(own) - applied}),
         branded |-> Cardinality(composites \ own),
         fats |-> SumOver(DOMAIN ingredients, LAMBDA k :
                    Cardinality({i \in DOMAIN ingredients[k] :
                        /\ ingredients[k][i].food_group = "FG3"
                        /\ ingredients[k][i].subgroup = "none"}))]

CoverageSection(run, rows, now, ingredients, errors) ==
    LET c == SectionCounts(rows, now, {}, errors)
    IN  [counts |-> c, level |-> Uncertainty(c), note |-> ReviewNote(c),
         dairy |-> run.groups["FG2"] > 0, composites |-> run.composites > 0,
         step2 |-> Step2Caveats(rows, now, ingredients)]

\* _generate_wwf, and what follows for both methodologies.
Advice(run, section) ==
    FirstOfEach(
        When(section.step2.own > section.step2.applied, "collect_step2_ingredient_data",
             "high")
        \o When(section.step2.branded > 0, "improve_data_quality", "low")
        \o When(run.shares["FG1"] * 100 > PhdFG1 * ShareHundred,
                "promote_legume_products", "medium")
        \o CountRules(section.counts) \o QualityRules(section.level))

\* _wwf_section of the report document.
Section(run, rows, now) ==
    [total |-> run.total, groups |-> run.groups, shares |-> run.shares,
     composites |-> run.buckets, diet |-> <<run.plant, run.animal>>,
     sources |-> Sources(rows, now), review |-> ReviewSummary(now),
     top |-> [side \in {"positive", "watchout"} |-> Contributors(rows, side)]]

-----------------------------------------------------------------------------
(* The export and the comparison *)

\* A line for each row, with what is stored now about its product; the ingredients
\* are those of now as well, while the headline has those of the run.
ExportLines(rows, now, ingredients) ==
    [k \in DOMAIN rows |->
        [row |-> rows[k], known |-> k \in DOMAIN now,
         ingredients |-> IF k \in DOMAIN ingredients THEN ingredients[k] ELSE <<>>,
         source |-> IF k \in DOMAIN now THEN now[k].by ELSE "none"]]

\* render_wwf_json: the lines beside the headline of the run.
Exported(run, rows, now, ingredients) ==
    [lines |-> ExportLines(rows, now, ingredients), total |-> run.total,
     buckets |-> run.buckets, groups |-> run.groups, diet |-> <<run.plant, run.animal>>,
     \* The composites' share of the total, an unrounded quotient in percent.
     composites |-> IF run.total > 0 THEN <<100 * run.composites, run.total>> ELSE <<>>]

\* _direction_wwf: the plant share of the whole diet, a thousandth apart.
Direction(base, comp) ==
    LET gain == comp.plant * base.total - base.plant * comp.total
        threshold == base.total * comp.total
    IN  IF threshold = 0 THEN "stable"
        ELSE IF gain * 1000 > threshold THEN "improving"
        ELSE IF gain * 1000 < -threshold THEN "declining" ELSE "stable"

\* compare_wwf_runs.
Comparison(base, comp) ==
    [total |-> comp.total - base.total, plant |-> comp.plant - base.plant,
     animal |-> comp.animal - base.animal, direction |-> Direction(base, comp),
     groups |-> [g \in FoodGroups |->
                    [weight |-> comp.groups[g] - base.groups[g],
                     share |-> comp.shares[g] - base.shares[g]]]]

-----------------------------------------------------------------------------
(* Properties *)

\* The weight of the run is that of the products shown as ready, and when no product
\* is shown as missing and nothing was uploaded for Step 2, the run is not refused.
PreflightIsTheTotal(catalogue, ingredients, run) ==
    LET shown == Preflight(catalogue)
    IN  /\ run.ok => /\ shown.missing = 0
                     /\ run.total = SumOver(shown.ready, LAMBDA k :
                                        Weight(catalogue[k].weight, catalogue[k]))
        /\ shown.missing = 0 /\ DOMAIN ingredients = {} => run.ok

\* The sheet counts every classified product once.
SheetAddsUp(now) ==
    SumOver(FoodGroups \cup {"composite", "out_of_scope", "unknown"},
            LAMBDA g : Sheet(now)[g])
      = CountOver(DOMAIN now, LAMBDA k : now[k].by # "none")

\* No whole product whose weight the engine counts as animal is praised, no product
\* is on both lists, and none is left out for a lighter one.
ListsFit(rows) ==
    LET named(side) == Range(Contributors(rows, side))
    IN  /\ \A k \in named("positive") :
             ~rows[k].composite => ~IsAnimal(rows[k].group, rows[k].subgroup)
        /\ named("positive") \cap named("watchout") = {}
        /\ \A side \in {"positive", "watchout"} : \A k \in named(side), r \in DOMAIN rows :
             (/\ Polarity(rows[r]) = side /\ rows[r].group \in FoodGroups
              /\ rows[r].weight > rows[k].weight) => r \in named(side)

\* The report says how many own-brand composites have no ingredients and asks for
\* them, as long as whatever is stored belongs to such composites.
Step2IsDisclosed(rows, now, ingredients, section, advice) ==
    LET own == {k \in DOMAIN rows \cap DOMAIN now :
                    now[k].by # "none" /\ now[k].composite /\ now[k].ownBrand}
        without == own \ DOMAIN ingredients
    IN  DOMAIN ingredients \subseteq own =>
            /\ section.step2.step1Only = Cardinality(without)
            /\ without # {} <=> \E a \in advice :
                                    a.action = "collect_step2_ingredient_data"

\* Who adds up the lines of an export gets the total and the buckets of its headline,
\* and the share of composites is that of the lines.
ExportAgrees(export) ==
    LET lines == export.lines
        weight(keys) == SumOver(keys, LAMBDA k : lines[k].row.weight)
        scope == {k \in DOMAIN lines : InScope(lines[k].row)}
        inBucket(b) == {k \in scope : lines[k].row.bucket = b}
    IN  /\ weight(scope) = export.total
        /\ \A b \in Buckets : weight(inBucket(b)) = export.buckets[b]
        /\ export.composites # <<>> =>
             export.composites[1] * weight(scope)
               = 100 * weight(UNION {inBucket(b) : b \in Buckets}) * export.composites[2]

\* Seen from the other side a comparison is its opposite, and the plant and animal
\* weights change by what the food groups change by, cheese and fat apart.
ComparisonMirrors(base, comp) ==
    LET there == Comparison(base, comp)
        back == Comparison(comp, base)
        opposite == [improving |-> "declining", declining |-> "improving",
                     stable |-> "stable"]
    IN  /\ back.direction = opposite[there.direction]
        /\ there.plant = -back.plant /\ there.animal = -back.animal
        /\ (\A run \in {base, comp} : run.groups["FG2"] = 0 /\ run.groups["FG3"] = 0)
             => there.plant + there.animal
                  = SumOver(FoodGroups, LAMBDA g : there.groups[g].weight)
=============================================================================

------------------------------- MODULE PTReport -------------------------------
(***************************************************************************)
(* What is told about a Protein Tracker run: the workbook, the lists of    *)
(* contributors, the coverage section, the recommendations and the         *)
(* comparison of two runs (exports/, recommendations/, comparisons/).      *)
(*                                                                         *)
(* A run keeps its rows and its headline.  Reports join them with what the *)
(* store holds now, which may be another catalogue: products were decided, *)
(* enriched or deleted since.  Both are parameters here.                   *)
(***************************************************************************)
EXTENDS PTScreens

CONSTANT Top    \* how many products a list of contributors names

Halve == 2      \* amounts are counted in halves, as half of a composite is plant

\* Mutant: a row outside the four groups keeps its protein.
RowProteinOfAll(row) == row.full
\* The protein of a row: none outside the four groups.
RowProtein(row) == IF row.group \in MethodologyGroups THEN row.full ELSE 0

\* What is plant and what is animal in a row, decided again by the workbook and by
\* the lists: the row's own split, its group, or half and half.
Amounts(row) ==
    IF row.split THEN [plant |-> Halve * row.plant, animal |-> Halve * row.animal]
    ELSE CASE row.group \in PlantGroups -> [plant |-> Halve * row.full, animal |-> 0]
           [] row.group = "animal_core" -> [plant |-> 0, animal |-> Halve * row.full]
           [] row.group = "composite_products" -> [plant |-> row.full, animal |-> row.full]
           [] OTHER -> [plant |-> 0, animal |-> 0]

-----------------------------------------------------------------------------
(* The workbook *)

\* _pt_analysis_sheet: the products of now under the groups of now.
AnalysisSheet(now) ==
    LET count(groups) == CountOver(DOMAIN now, LAMBDA k : GroupShown(now[k]) \in groups)
    IN  [counts |-> [g \in MethodologyGroups \cup {"out_of_scope", "unknown"} |-> count({g})],
         pie |-> [plant |-> count(PlantGroups), animal |-> count({"animal_core"}),
                  composite |-> count({"composite_products"}),
                  other |-> count({"out_of_scope", "unknown"})]]

\* _protein_analysis_sheet: the kilograms of the run under the groups of now; a
\* product that lost its classification is drawn as unknown.
ProteinSheet(run, now) ==
    LET measured == DOMAIN now \cap DOMAIN run.rows
        bar(k) == IF GroupShown(now[k]) = "none" THEN "unknown" ELSE GroupShown(now[k])
        amount(k) == Amounts(run.rows[k])
    IN  [bars |-> [g \in MethodologyGroups \cup {"out_of_scope", "unknown"} |->
                    SumOver({k \in measured : bar(k) = g},
                            LAMBDA k : RowProtein(run.rows[k]))],
         plant |-> SumOver(measured, LAMBDA k : amount(k).plant),
         animal |-> SumOver(measured, LAMBDA k : amount(k).animal)]

\* The route joins what is there now with the amounts of the latest run.
Workbook(run, now) ==
    [lines |-> DOMAIN now, analysis |-> AnalysisSheet(now), protein |-> ProteinSheet(run, now)]

-----------------------------------------------------------------------------
(* The products that contribute most *)

Contributing(rows, side) ==
    {k \in DOMAIN rows : RowProtein(rows[k]) > 0 /\ Amounts(rows[k])[side] > 0}

\* The largest first; of equals, the one that comes first in the run.
Contributors(rows, side) ==
    LET keys == Contributing(rows, side)
        before(a, b) == LET x == Amounts(rows[a])[side]
                            y == Amounts(rows[b])[side]
                        IN  x > y \/ (x = y /\ a < b)
    IN  [i \in 1 .. Min({Top, Cardinality(keys)}) |->
            CHOOSE k \in keys : Cardinality({j \in keys : before(j, k)}) = i - 1]

-----------------------------------------------------------------------------
(* The coverage section *)

\* What the report admits about composites: how many rows used a split of their
\* own, and how many the default.
CompositeCaveat(run) ==
    LET composites == CountOf(run.rows, LAMBDA row : row.group = "composite_products")
    IN  IF composites = 0 THEN [split |-> 0, half |-> 0]
        ELSE [split |-> run.splitRows, half |-> composites - run.splitRows]

\* And about enrichment: what the run used, or what is stored and it did not use.
EnrichmentCaveat(run, now, enriched) ==
    LET total(p, s) == {i \in Usable(p.records, "protein_pct") : p.records[i].source = s}
    IN  IF enriched
        THEN [used |-> [s \in Source |-> run.bySource[s]], missing |-> run.missing]
        ELSE [stored |-> [s \in Source |->
                SumOver(DOMAIN now, LAMBDA k : Cardinality(total(now[k], s)))]]

\* The section with what it admits.
CoverageSection(run, now, enriched, errors) ==
    LET c == SectionCounts(run.rows, now, {k \in DOMAIN now : now[k].pct = NoValue}, errors)
    IN  [counts |-> c, level |-> Uncertainty(c), note |-> ReviewNote(c),
         composites |-> CompositeCaveat(run),
         enrichment |-> EnrichmentCaveat(run, now, enriched)]

\* _generate_pt, and what follows for both methodologies.
Advice(run, section) ==
    FirstOfEach(
        When(run.plantShare # NoValue /\ run.plantShare * 100 < 40 * ShareHundred,
             "increase_plant_core_share", "high")
        \o When(/\ run.total > 0
                /\ run.groups["composite_products"] * 100 >= 30 * run.total,
                "improve_composite_breakdown", "medium")
        \o When(section.counts.missingProtein > 0, "enrich_missing_nutrition", "medium")
        \o CountRules(section.counts) \o QualityRules(section.level))

-----------------------------------------------------------------------------
(* The report document *)

\* _pt_section: the headline of the run, the lists, and a sentence about composites
\* that names those with a split of their own.
Section(run, now) ==
    [shares |-> <<run.plantShare, run.animalShare>>, total |-> run.total,
     groups |-> run.groups, sources |-> Sources(run.rows, now),
     review |-> ReviewSummary(now), ownSplit |-> run.splitRows,
     top |-> [side \in {"plant", "animal"} |-> Contributors(run.rows, side)]]

-----------------------------------------------------------------------------
(* The export of a run *)

\* The rows of the run, each with what is stored now about its product
\* (render_export); a product that is gone leaves the fields empty.
ExportLines(run, now) ==
    [k \in DOMAIN run.rows |->
        [group |-> run.rows[k].group, volume |-> run.rows[k].volume,
         protein |-> RowProtein(run.rows[k]), split |-> run.rows[k].split,
         known |-> k \in DOMAIN now,
         items |-> IF k \in DOMAIN now THEN now[k].items ELSE NoValue,
         weight |-> IF k \in DOMAIN now THEN now[k].weight ELSE NoValue,
         source |-> IF k \in DOMAIN now THEN now[k].by ELSE "none"]]

\* render_pt_markdown: the headline, without shares when the run has none.
Headline(run) ==
    [groups |-> run.groups,
     shares |-> IF run.plantShare = NoValue THEN <<>> ELSE <<run.plantShare, run.animalShare>>]

\* The three formats: CSV and JSON have the lines, JSON and Markdown the headline.
Exported(run, now, format) ==
    [lines |-> IF format = "md" THEN <<>> ELSE ExportLines(run, now),
     headline |-> IF format = "csv" THEN <<>> ELSE Headline(run)]

-----------------------------------------------------------------------------
(* The comparison of two runs *)

DirectionOf(delta) ==
    IF delta * 1000 > ShareHundred THEN "improving"
    ELSE IF delta * 1000 < -ShareHundred THEN "declining" ELSE "stable"

\* compare_pt_runs: a share that one of the runs lacks leaves no difference.
Comparison(base, comp) ==
    LET known == base.plantShare # NoValue /\ comp.plantShare # NoValue
    IN  [plant |-> comp.plant - base.plant, animal |-> comp.animal - base.animal,
         total |-> comp.total - base.total, hasShare |-> known,
         share |-> IF known THEN comp.plantShare - base.plantShare ELSE 0,
         animalShare |-> IF known THEN comp.animalShare - base.animalShare ELSE 0,
         direction |-> DirectionOf(IF known THEN comp.plantShare - base.plantShare ELSE 0),
         groups |-> [g \in MethodologyGroups |-> comp.groups[g] - base.groups[g]]]

-----------------------------------------------------------------------------
(* Properties *)

\* The workbook tells the kilograms of the run.  Its bars are the groups of the run
\* when nothing was reclassified, its sums are the headline up to the one rounding of
\* the composite pool when no product is gone, and whatever happened since, it has
\* no kilograms that the run does not have.
WorkbookAgrees(catalogue, run, now) ==
    LET book == Workbook(run, now)
        sum(f) == SumOver(DOMAIN f, LAMBDA g : f[g])
        same == \A k \in DOMAIN run.rows :
                    k \in DOMAIN now /\ GroupShown(now[k]) = catalogue[k].group
    IN  /\ same => \A g \in MethodologyGroups : book.protein.bars[g] = run.groups[g]
        /\ DOMAIN run.rows \subseteq DOMAIN now =>
             /\ Distance(book.protein.plant, Halve * run.plant) <= 1
             /\ Distance(book.protein.animal, Halve * run.animal) <= 1
        /\ sum(book.protein.bars) <= sum(run.groups)
        /\ sum(book.analysis.pie) = sum(book.analysis.counts)

\* The lists together name every product that has protein, as long as they are long
\* enough, and no product is named that has less than one that is not.
ListsAreTheTop(run) ==
    \A side \in {"plant", "animal"} :
        LET list == Contributors(run.rows, side)
            named == {list[i] : i \in DOMAIN list}
            rest == {k \in DOMAIN run.rows : RowProtein(run.rows[k]) > 0} \ named
        IN  /\ Len(list) = Cardinality(named)
            /\ \A k \in named, r \in rest :
                  Amounts(run.rows[k])[side] >= Amounts(run.rows[r])[side]
            /\ Len(list) < Top => \A r \in rest : Amounts(run.rows[r])[side] = 0

\* Who adds up the lines of an export gets its headline, and the volume of a line is
\* what the line itself says was bought, as long as the product is there.
ExportAgrees(run, now) ==
    LET lines == Exported(run, now, "csv").lines
    IN  /\ \A g \in MethodologyGroups :
             SumOver({k \in DOMAIN lines : lines[k].group = g},
                     LAMBDA k : lines[k].protein) = Exported(run, now, "md").headline.groups[g]
        /\ \A k \in DOMAIN lines :
             lines[k].known => lines[k].volume = HalfEven(lines[k].items * lines[k].weight, Part)

\* The report admits every composite that was not measured.
CaveatsCover(run, section) ==
    section.composites.half
      = CountOf(run.rows, LAMBDA row : row.group = "composite_products" /\ ~row.split)

\* The comparison is about the same kilograms as the two headlines: its direction
\* never contradicts them, and seen from the other side it is its opposite.
ComparisonAgrees(base, comp) ==
    LET there == Comparison(base, comp)
        back == Comparison(comp, base)
    IN  /\ there.direction = "improving" =>
             comp.plant * base.total > base.plant * comp.total
        /\ there.direction = "declining" =>
             comp.plant * base.total < base.plant * comp.total
        /\ there.plant = -back.plant /\ there.share = -back.share
        /\ there.share = -there.animalShare
        /\ there.total = there.plant + there.animal
=============================================================================

------------------------------ MODULE Enrichment ------------------------------
(***************************************************************************)
(* Nutrition enrichment: the records that stand for a missing protein      *)
(* value, what each endpoint appends to a product's list of them, and      *)
(* which of them the calculation uses (enrichment/selection.py).           *)
(***************************************************************************)
EXTENDS Integers, Sequences, FiniteSetsExt

NoValue == -1

Nutrient == {"protein_pct", "plant_protein_pct", "animal_protein_pct"}
Source == {"manual_altera", "nevo", "ciqual", "category_average"}
Status == {"enriched", "failed", "needs_manual_review"}

\* The lower number is preferred.
Priority ==
    [manual_altera |-> 0, nevo |-> 1, ciqual |-> 2, category_average |-> 3]

EnrichmentRecord ==
    [nutrient : Nutrient, source : Source, status : Status, value : Int]

Record(nutrient, source, status, value) ==
    [nutrient |-> nutrient, source |-> source, status |-> status, value |-> value]

-----------------------------------------------------------------------------
(* Selection *)

\* The records that carry a value for a nutrient.
Usable(records, nutrient) ==
    {i \in DOMAIN records :
        /\ records[i].nutrient = nutrient
        /\ records[i].status = "enriched"
        /\ records[i].value # NoValue}

\* The sort by priority is stable: the first record of the best source.
Best(records) ==
    CHOOSE i \in Usable(records, "protein_pct") :
        \A j \in Usable(records, "protein_pct") :
            LET a == Priority[records[i].source]
                b == Priority[records[j].source]
            IN  a < b \/ (a = b /\ i <= j)

\* The first record of the same source, for one half of the split.
Sibling(records, nutrient, source) ==
    LET same == {i \in Usable(records, nutrient) : records[i].source = source}
    IN  IF same = {} THEN NoValue ELSE records[Min(same)].value

Nothing == [pct |-> NoValue, plant |-> NoValue, animal |-> NoValue, source |-> "none"]

\* select_protein_enrichment.
Selected(records) ==
    IF Usable(records, "protein_pct") = {} THEN Nothing
    ELSE LET best == records[Best(records)]
         IN  [pct |-> best.value,
              plant |-> Sibling(records, "plant_protein_pct", best.source),
              animal |-> Sibling(records, "animal_protein_pct", best.source),
              source |-> best.source]

-----------------------------------------------------------------------------
(* What the endpoints append to the list of one product. *)

Both(source, plant, animal) ==
    <<Record("plant_protein_pct", source, "enriched", plant),
      Record("animal_protein_pct", source, "enriched", animal)>>

Total(source, pct) == <<Record("protein_pct", source, "enriched", pct)>>

\* The nutrition validation table: a total and its split, in one request.
ManualNutrition(pct, plant, animal) ==
    Total("manual_altera", pct) \o Both("manual_altera", plant, animal)

\* The split of a NEVO entry that publishes none is assumed from the group.
AssumedSplit(pct, group) ==
    CASE group \in {"plant_based_core", "plant_based_non_core"} -> Both("nevo", pct, 0)
      [] group = "animal_core" -> Both("nevo", 0, pct)
      [] OTHER -> <<>>

\* _apply_nevo_entry: an entry with its published split, or without.
NevoEntry(pct, plant, group) ==
    Total("nevo", pct) \o
        IF plant # NoValue THEN Both("nevo", plant, pct - plant)
        ELSE AssumedSplit(pct, group)

NoMatch == <<Record("protein_pct", "nevo", "failed", NoValue)>>

\* What an entry of either table appends, the one the name matches or the one
\* the AI picks.
Matched(group, pcts) ==
    {NevoEntry(v, plant, group) : v \in pcts, plant \in {NoValue, 0}}
        \cup {Total("ciqual", v) : v \in pcts}

\* The AI matches an entry, leaves a proposal to be reviewed, or names no row.
Picked(group, pcts) ==
    Matched(group, pcts) \cup {<<>>}
        \cup {<<Record("protein_pct", s, "needs_manual_review", NoValue)>> :
                s \in {"nevo", "ciqual"}}

\* The answers of apply-references for one product: a match by name, what the AI
\* picks, or no match, which is also one the family guard rejects.
References(group, pcts) == Matched(group, pcts) \cup Picked(group, pcts) \cup {NoMatch}

\* Only the four groups of the methodology have an average.
CategoryAverage(group, pct) ==
    IF group \in {"plant_based_core", "plant_based_non_core",
                  "composite_products", "animal_core"}
    THEN Total("category_average", pct) ELSE <<>>
=============================================================================

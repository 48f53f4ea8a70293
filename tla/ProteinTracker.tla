---------------------------- MODULE ProteinTracker ----------------------------
(***************************************************************************)
(* The Protein Tracker calculation (calculation/protein_tracker.py) as a   *)
(* function of a catalogue.  Weights and masses are counted in their last  *)
(* decimal place; Part, Hundred and ShareHundred are how many of those     *)
(* make one item, 100 percent of a protein value and 100 percent of a      *)
(* share.                                                                  *)
(***************************************************************************)
EXTENDS Rounding, Enrichment

CONSTANTS
    Part,           \* one item, in units of items_purchased
    Hundred,        \* 100 percent, in units of protein_pct
    ShareHundred,   \* 100 percent, in units of a share
    Tolerance       \* DEFAULT_SPLIT_TOLERANCE, in units of protein_pct

\* What the constants are: the module that gives them values assumes it.
PTConstantsAssumption ==
    /\ Part \in Nat \ {0} /\ Hundred \in Nat \ {0} /\ Tolerance \in Nat
    /\ ShareHundred \in Nat \ {0} /\ ShareHundred % 2 = 0

PlantGroups == {"plant_based_core", "plant_based_non_core"}
MethodologyGroups == PlantGroups \cup {"composite_products", "animal_core"}

\* The protein value of a product and its split: the retailer's where there is
\* one, and only if asked an enrichment's.
Nutrition(p, enriched) ==
    LET found == IF p.pct # NoValue
                 THEN [Nothing EXCEPT !.pct = p.pct, !.source = "retailer"]
                 ELSE IF enriched THEN Selected(p.records) ELSE Nothing
    IN  IF p.plant = NoValue /\ p.animal = NoValue THEN found
        ELSE [found EXCEPT !.plant = p.plant, !.animal = p.animal]

\* A split is used for a composite, if it adds up to the value.
UsesSplit(p, n) ==
    /\ p.group = "composite_products"
    /\ n.plant # NoValue /\ n.animal # NoValue
    /\ Distance(n.plant + n.animal, n.pct) <= Tolerance

Volume(p) == HalfEven(p.items * p.weight, Part)
Share(volume, pct) == HalfEven(volume * pct, Hundred)

\* The row of a product that has a value.
Row(p, n) ==
    LET split == UsesSplit(p, n)
        part(pct) == IF split THEN Share(Volume(p), pct) ELSE 0
    IN  [group |-> p.group, volume |-> Volume(p), split |-> split,
         full |-> Share(Volume(p), n.pct), source |-> n.source,
         plant |-> part(n.plant), animal |-> part(n.animal)]

\* The products that get a row.
Included(catalogue, enriched) ==
    {p \in DOMAIN catalogue : Nutrition(catalogue[p], enriched).pct # NoValue}

Rows(catalogue, enriched) ==
    [p \in Included(catalogue, enriched) |->
        Row(catalogue[p], Nutrition(catalogue[p], enriched))]

SumOf(rows, in(_), value(_)) ==
    MapThenSumSet(LAMBDA p : value(rows[p]), {p \in DOMAIN rows : in(rows[p])})
CountOf(rows, in(_)) == SumOf(rows, in, LAMBDA row : 1)

\* The mass of a group, split rows among them.
GroupProtein(rows, group) ==
    SumOf(rows, LAMBDA row : row.group = group, LAMBDA row : row.full)

\* The composite rows without a split of their own: half of each is plant.
Pool(rows) ==
    SumOf(rows, LAMBDA row : row.group = "composite_products" /\ ~row.split,
          LAMBDA row : row.full)

PlantProtein(rows) ==
    GroupProtein(rows, "plant_based_core") + GroupProtein(rows, "plant_based_non_core")
        + SumOf(rows, LAMBDA row : row.split, LAMBDA row : row.plant)
        + HalfEven(Pool(rows), 2)
AnimalProtein(rows) ==
    GroupProtein(rows, "animal_core")
        + SumOf(rows, LAMBDA row : row.split, LAMBDA row : row.animal)
        + HalfEven(Pool(rows), 2)

\* Mutant: the percentages of a report are rounded half up.
ShareOfHalfUp(part, total) ==
    IF total > 0 THEN HalfUp(part * ShareHundred, total) ELSE NoValue
ShareOf(part, total) ==
    IF total > 0 THEN HalfEven(part * ShareHundred, total) ELSE NoValue

\* A run, or its refusal: every product needs a classification.
Failed == [ok |-> FALSE]
Run(catalogue, enriched) ==
    IF \E p \in DOMAIN catalogue : catalogue[p].group = "none" THEN Failed
    ELSE LET rows == Rows(catalogue, enriched)
             plant == PlantProtein(rows)
             animal == AnimalProtein(rows)
         IN  [ok |-> TRUE, rows |-> rows,
              plant |-> plant, animal |-> animal, total |-> plant + animal,
              plantShare |-> ShareOf(plant, plant + animal),
              animalShare |-> ShareOf(animal, plant + animal),
              groups |-> [g \in MethodologyGroups |-> GroupProtein(rows, g)],
              splitRows |-> CountOf(rows, LAMBDA row : row.split),
              outOfScope |-> CountOf(rows, LAMBDA row : row.group = "out_of_scope"),
              unknown |-> CountOf(rows, LAMBDA row : row.group = "unknown"),
              bySource |-> [s \in Source \cup {"retailer"} |->
                              CountOf(rows, LAMBDA row : row.source = s)],
              missing |-> IF enriched THEN Cardinality(DOMAIN catalogue \ DOMAIN rows)
                          ELSE 0]

-----------------------------------------------------------------------------
(* Properties of a run *)

\* The two shares make 100 percent to the last place, or are both absent.
SharesSumTo100(run) ==
    IF run.total = 0 THEN run.plantShare = NoValue /\ run.animalShare = NoValue
    ELSE run.plantShare + run.animalShare = ShareHundred

\* The headline is the sum of the groups, up to what rounding and the tolerance
\* of a split explain: each split row is rounded three times.
HeadlineReconciles(run) ==
    LET groups == MapThenSumSet(LAMBDA g : run.groups[g], MethodologyGroups)
        slack(row) == 3 * Hundred + 2 * row.volume * Tolerance
    IN  2 * Hundred * Distance(run.total, groups)
          <= 2 * Hundred + SumOf(run.rows, LAMBDA row : row.split, slack)

\* Every row has one source, and no product vanishes without being counted.
RowsAccounted(run, catalogue, enriched) ==
    /\ MapThenSumSet(LAMBDA s : run.bySource[s], DOMAIN run.bySource)
         = Cardinality(DOMAIN run.rows)
    /\ enriched => Cardinality(DOMAIN run.rows) + run.missing
                     = Cardinality(DOMAIN catalogue)
=============================================================================

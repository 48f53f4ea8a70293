------------------------------- MODULE WWFEngine -------------------------------
(***************************************************************************)
(* The WWF calculation (calculation/wwf.py) as a function of a catalogue   *)
(* and of the Step 2 ingredients stored for it.                            *)
(***************************************************************************)
EXTENDS Rounding, Sequences, FiniteSetsExt

CONSTANTS
    Part,           \* one item, in units of items_sold
    ShareHundred,   \* 100 percent, in units of a share
    Cheese          \* the dairy-equivalent factor of cheese, 10

\* What the constants are: the module that gives them values assumes it.
WWFConstantsAssumption ==
    Part \in Nat \ {0} /\ ShareHundred \in Nat \ {0} /\ Cheese \in Nat \ {0}

NoShare == -1

FoodGroups == {"FG1", "FG2", "FG3", "FG4", "FG5", "FG6", "FG7"}
Buckets == {"meat_based", "seafood_based", "vegetarian", "vegan"}

\* is_animal, and the plant side of FG2, FG3 and FG7.  FG4, FG5 and FG6 are
\* plants whatever their subgroup.
AnimalSubgroups ==
    {"red_meat", "poultry", "processed_meats_alternatives", "seafood", "eggs"}
PlantSubgroups ==
    {"dairy_alternative_plant", "plant_based_fat", "plant_based_snack"}

Factor(subgroup) == IF subgroup = "cheese" THEN Cheese ELSE 1

Weight(perItem, p) == HalfEven(perItem * p.items, Part)

\* What one weight adds: to its food group, and as dairy equivalent.
DairyEquivalent(group, subgroup, weight) ==
    IF group = "FG2" THEN weight * Factor(subgroup) ELSE 0

IsAnimal(group, subgroup) ==
    CASE group = "FG1" -> subgroup \in AnimalSubgroups
      [] group \in {"FG2", "FG3", "FG7"} -> subgroup \notin PlantSubgroups
      [] OTHER -> FALSE

\* The whole-diet weight counts cheese at its equivalent; a fat of unknown
\* origin in a composite is on neither side.
DietWeight(part) ==
    IF part.group = "FG2" /\ IsAnimal("FG2", part.subgroup)
    THEN DairyEquivalent("FG2", part.subgroup, part.weight)
    ELSE IF part.group = "FG3" /\ part.subgroup = "none" THEN 0
    ELSE part.weight

InScope(p) == p.group \in FoodGroups

\* The weights a product adds to food groups: a whole product its own, an
\* own-brand composite those of its ingredients, a branded one nothing.
Parts(key, p, ingredients) ==
    IF ~InScope(p) THEN {}
    ELSE IF ~p.composite
    THEN {[of |-> <<key, 0>>, group |-> p.group, subgroup |-> p.subgroup,
           weight |-> Weight(p.weight, p)]}
    ELSE IF p.ownBrand /\ key \in DOMAIN ingredients
    THEN {[of |-> <<key, i>>, group |-> ingredients[key][i].food_group,
           subgroup |-> ingredients[key][i].subgroup,
           weight |-> Weight(ingredients[key][i].weight, p)] :
             i \in DOMAIN ingredients[key]}
    ELSE {}

TotalOf(parts, in(_), value(_)) ==
    MapThenSumSet(value, {part \in parts : in(part)})

\* A run, or its refusal: every product needs a classification, and no share
\* may leave 0 .. 100 (the validator of WWFFoodGroupAggregate).
Failed == [ok |-> FALSE]
Run(catalogue, ingredients) ==
    LET keys == DOMAIN catalogue
        scope == {k \in keys : InScope(catalogue[k])}
        composites == {k \in scope : catalogue[k].composite}
        weightOf(ks) == MapThenSumSet(
                            LAMBDA k : Weight(catalogue[k].weight, catalogue[k]), ks)
        parts == UNION {Parts(k, catalogue[k], ingredients) : k \in keys}
        groups == [g \in FoodGroups |->
                    TotalOf(parts, LAMBDA x : x.group = g, LAMBDA x : x.weight)]
        total == weightOf(scope)
        shares == [g \in FoodGroups |->
                    IF total > 0 THEN HalfEven(groups[g] * ShareHundred, total) ELSE 0]
    IN  IF \/ \E k \in keys : catalogue[k].group = "none"
           \/ \E g \in FoodGroups : shares[g] > ShareHundred
        THEN Failed
        ELSE [ok |-> TRUE, total |-> total, groups |-> groups, shares |-> shares,
              composites |-> weightOf(composites),
              buckets |-> [b \in Buckets |->
                            weightOf({k \in composites : catalogue[k].bucket = b})],
              dairy |-> TotalOf(parts, LAMBDA x : TRUE, LAMBDA x :
                            DairyEquivalent(x.group, x.subgroup, x.weight)),
              plant |-> TotalOf(parts, LAMBDA x : ~IsAnimal(x.group, x.subgroup),
                                LAMBDA x : DietWeight(x)),
              animal |-> TotalOf(parts, LAMBDA x : IsAnimal(x.group, x.subgroup),
                                 LAMBDA x : DietWeight(x)),
              outOfScope |-> Cardinality({k \in keys : catalogue[k].group = "out_of_scope"}),
              unknown |-> Cardinality({k \in keys : catalogue[k].group = "unknown"})]

-----------------------------------------------------------------------------
(* Properties of a run *)

\* The weight that food groups share is the weight sold, less the composites,
\* plus the ingredients stored for the own-brand ones.
GroupsReconcile(run, catalogue, ingredients) ==
    LET step2(k) == IF k \in DOMAIN ingredients /\ catalogue[k].ownBrand
                       /\ catalogue[k].composite /\ InScope(catalogue[k])
                    THEN MapThenSumSet(
                            LAMBDA i : Weight(ingredients[k][i].weight, catalogue[k]),
                            DOMAIN ingredients[k])
                    ELSE 0
    IN  MapThenSumSet(LAMBDA g : run.groups[g], FoodGroups)
          = run.total - run.composites + MapThenSumSet(step2, DOMAIN catalogue)

\* The four buckets are all composites, branded ones among them.
BucketsReconcile(run) ==
    MapThenSumSet(LAMBDA b : run.buckets[b], Buckets) = run.composites

\* Plant and animal weight together are the food groups with cheese at its
\* equivalent and without the fat whose origin nobody gave.
DietReconciles(run, catalogue, ingredients) ==
    LET parts == UNION {Parts(k, catalogue[k], ingredients) : k \in DOMAIN catalogue}
        fat == TotalOf(parts, LAMBDA x : x.group = "FG3" /\ x.subgroup = "none",
                       LAMBDA x : x.weight)
    IN  run.plant + run.animal
          = MapThenSumSet(LAMBDA g : run.groups[g], FoodGroups \ {"FG2"}) + run.dairy - fat
=============================================================================

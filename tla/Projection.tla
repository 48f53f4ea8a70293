------------------------------ MODULE Projection ------------------------------
(***************************************************************************)
(* The projection of a Protein Tracker scenario                            *)
(* (scenarios/pt_projection.py): operations applied in order to the group  *)
(* masses of a base run.  Masses are in kg units, percentages in units of  *)
(* Hundred, shares in units of ShareHundred.                               *)
(***************************************************************************)
EXTENDS Rounding, Sequences, FiniteSetsExt, SequencesExt

CONSTANTS Hundred, ShareHundred

NoShare == -1

Groups == {"plant_based_core", "plant_based_non_core", "composite_products", "animal_core"}

\* An operation that the engine skips with a warning.
IsSkipped(op) ==
    \/ op.type \notin {"shift", "increase_plant_core", "reduce_animal_core", "improve_split"}
    \/ /\ op.type = "shift"
       /\ op.from \notin Groups \/ op.to \notin Groups \/ op.amount < 0
    \/ op.type \in {"increase_plant_core", "reduce_animal_core"} /\ op.amount < 0
    \/ /\ op.type = "improve_split"
       /\ op.plant < 0 \/ op.animal < 0 \/ op.plant + op.animal # Hundred

Plus(state, group, amount) == [state EXCEPT !.mass[group] = @ + amount]

\* Mutant: a mass is clamped as soon as it falls below zero.
ApplyClamping(state, op) ==
    IF IsSkipped(op) THEN [state EXCEPT !.warnings = @ + 1]
    ELSE
    CASE op.type = "shift" ->
            IF state.mass[op.from] < op.amount
            THEN [state EXCEPT !.mass[op.from] = 0, !.mass[op.to] = @ + op.amount]
            ELSE Plus(Plus(state, op.from, -op.amount), op.to, op.amount)
      [] op.type = "increase_plant_core" -> Plus(state, "plant_based_core", op.amount)
      [] op.type = "reduce_animal_core" ->
            Plus(state, "animal_core",
                 -(IF state.mass["animal_core"] < op.amount
                   THEN state.mass["animal_core"] ELSE op.amount))
      [] op.type = "improve_split" -> [state EXCEPT !.plantPct = op.plant]
\* One operation; nothing is clamped before the last one.
Apply(state, op) ==
    IF IsSkipped(op) THEN [state EXCEPT !.warnings = @ + 1]
    ELSE
    CASE op.type = "shift" ->
            IF op.from = op.to THEN state
            ELSE Plus(Plus(state, op.from, -op.amount), op.to, op.amount)
      [] op.type = "increase_plant_core" -> Plus(state, "plant_based_core", op.amount)
      [] op.type = "reduce_animal_core" -> Plus(state, "animal_core", -op.amount)
      [] op.type = "improve_split" -> [state EXCEPT !.plantPct = op.plant]

Base(mass) == [mass |-> mass, plantPct |-> Hundred \div 2, warnings |-> 0]

\* The operations in ascending order; the sort is stable.
Before(ops, i, j) ==
    ops[i].order < ops[j].order \/ (ops[i].order = ops[j].order /\ i < j)
Place(ops, i) == 1 + Cardinality({j \in DOMAIN ops : Before(ops, j, i)})
Sorted(ops) == [n \in DOMAIN ops |-> ops[CHOOSE i \in DOMAIN ops : Place(ops, i) = n]]

Applied(mass, ops) == FoldLeft(Apply, Base(mass), Sorted(ops))

Clamped(mass) == [g \in Groups |-> IF mass[g] < 0 THEN 0 ELSE mass[g]]

ShareOf(part, total) ==
    IF total > 0 THEN HalfUp(part * ShareHundred, total) ELSE NoShare

\* project_pt_scenario.  The halves of a composite are exact in the code: they
\* are kept here multiplied by Hundred.
Project(mass, ops) ==
    LET after == Applied(mass, ops)
        final == Clamped(after.mass)
        plant == (final["plant_based_core"] + final["plant_based_non_core"]) * Hundred
                   + final["composite_products"] * after.plantPct
        animal == final["animal_core"] * Hundred
                   + final["composite_products"] * (Hundred - after.plantPct)
    IN  [mass |-> final, plant |-> plant, animal |-> animal,
         plantShare |-> ShareOf(plant, plant + animal),
         animalShare |-> ShareOf(animal, plant + animal),
         clamped |-> {g \in Groups : after.mass[g] < 0},
         warnings |-> after.warnings + Cardinality({g \in Groups : after.mass[g] < 0})]

-----------------------------------------------------------------------------
(* Properties of a projection *)

TotalMass(mass) == MapThenSumSet(LAMBDA g : mass[g], Groups)

\* What the operations that are not skipped add to the whole and take from it.
Net(ops) ==
    MapThenSumSet(LAMBDA i :
        IF IsSkipped(ops[i]) THEN 0
        ELSE
        CASE ops[i].type = "increase_plant_core" -> ops[i].amount
          [] ops[i].type = "reduce_animal_core" -> -ops[i].amount
          [] OTHER -> 0, DOMAIN ops)

\* A projection neither makes protein nor loses it: its total is the base's and
\* what was added and taken, plus what clamping gave back to an overdrawn group
\* ("Plant and animal headline figures are re-derived after clamping so they
\* remain self-consistent").  If no group is overdrawn the books balance.
Balances(mass, ops) ==
    LET result == Project(mass, ops)
        after == Applied(mass, ops)
        given == MapThenSumSet(LAMBDA g : -after.mass[g], result.clamped)
    IN  /\ result.plant + result.animal = Hundred * TotalMass(result.mass)
        /\ TotalMass(result.mass) = TotalMass(mass) + Net(ops) + given
        /\ \A g \in Groups : result.mass[g] >= 0
        /\ result.plantShare # NoShare =>
            result.plantShare + result.animalShare \in {ShareHundred, ShareHundred + 1}

\* Operations may come in any order: the masses are the same, and so is the whole
\* result unless a split is set, where the last one counts.
OrderIsFree(mass, ops) ==
    LET back == [i \in DOMAIN ops |-> [ops[i] EXCEPT !.order = -@]]
    IN  /\ Project(mass, ops).mass = Project(mass, back).mass
        /\ (\A i \in DOMAIN ops : ops[i].type # "improve_split")
             => Project(mass, ops) = Project(mass, back)
=============================================================================

------------------------------ MODULE PTGuards ------------------------------
(***************************************************************************)
(* Protein Tracker guards (ai/pt_guards.py): what the classifier knows     *)
(* about a product from its name alone.  Guard corrects the category a     *)
(* model answered; Fallback gives one when the model answered "unknown".   *)
(***************************************************************************)
EXTENDS DecisionList

Group == {"core", "non_core", "composite", "animal", "out_of_scope", "unknown"}

\* _GUARD_CONFIDENCE_CEILING, in hundredths: what a correction is worth.
Ceiling == 69
Capped(confidence) == IF confidence > Ceiling THEN Ceiling ELSE confidence

-----------------------------------------------------------------------------
(* The vocabularies *)

NotPlantCore == {"sirop", "nectar", "courgette", "ketchup", "soupe", "miel",
    "compote", "jus de tomate", "sauce tomate", "salade verte",
    "puree de fruit", "sauce salade"}
PlantCore == {"lentilles", "steak vegetal", "boisson amande",
    "nuggets vegetaux", "burger vegetal", "lait amande"}
BeverageOutOfScope == {"the"}
BeverageNonCore == {"smoothie", "jus de fruit", "nectar", "jus de tomate"}
BakeryComposite == {"biscuit", "pain au chocolat", "biscuit aperitif",
    "chocolat au lait"}
Animal == {"merguez", "dinde", "lardon", "poulet", "boeuf bourguignon"}
SelfEvidentAnimal == {"choucroute", "carbonara", "cassoulet",
    "boeuf bourguignon"}
PreparedDish == {"curry", "soupe", "nuggets vegetaux", "salade",
    "cassoulet", "salade verte", "burger vegetal", "boeuf bourguignon",
    "sauce salade"}
NonFood == {"lessive", "dentifrice"}
PetAccessory == {"litiere"}
Petfood == {"croquettes chien"}
PlantMilk == {"boisson soja", "boisson amande", "boisson riz",
    "lait avoine", "lait amande", "lait vegetal", "lait riz"}
Sweetener == {"sucre", "miel"}
Sorbet == {"sorbet"}
SweetSpread == {"compote", "pate de fruit", "puree de fruit"}
SavorySnack == {"crackers", "biscuit aperitif"}
DairyEggAnimal == {"emmental", "lardon", "fromage", "carbonara", "poulet",
    "chocolat au lait", "lait avoine", "lait amande", "lait vegetal",
    "lait riz"}
PlantCondiment == {"moutarde", "ketchup", "sauce tomate", "sauce salade"}
CulinaryIngredient == {"farine", "bouillon vegetal", "bouillon legumes"}
AnimalSimple == {"sardines", "dinde", "fromage", "poulet",
    "chocolat au lait", "lait avoine", "boeuf bourguignon", "lait amande",
    "lait vegetal", "lait riz"}
GenericPlantFood == {"banane", "pain au chocolat", "jus de fruit",
    "bouillon legumes", "courgette", "boisson riz", "salade",
    "pate de fruit", "jus de tomate", "sauce tomate", "salade verte",
    "puree de fruit", "sauce salade", "lait riz"}
ExplicitlyVegan == {"bouillon vegetal", "steak vegetal", "burger vegetal",
    "lait vegetal", "vegan"}

IsPetProduct(name) == Has(name, Petfood) \/ Has(name, PetAccessory)
HasMeat(name) == Has(name, Animal) \/ Has(name, SelfEvidentAnimal)
MeatlessFood(name) ==
    ~HasMeat(name) /\ ~Has(name, DairyEggAnimal) /\ ~IsPetProduct(name)

\* Pet food is in scope: what it is made of decides.
PetfoodGroup(name) ==
    IF Has(name, PlantCore) THEN "core"
    ELSE IF Has(name, AnimalSimple) THEN "animal" ELSE "composite"

SavorySnackGroup(name) ==
    IF Has(name, DairyEggAnimal) THEN "composite" ELSE "non_core"

-----------------------------------------------------------------------------
(* Corrections of an answer g.  No correction is the result "none". *)

\* Guards 1 to 3: plant core, beverages, bakery.
PlantAndBeverageGuards(name, g) == <<
    Rule(g = "core" /\ Has(name, NotPlantCore) /\ ~Has(name, PlantCore),
         "non_core"),
    Rule(Has(name, BeverageOutOfScope) /\ g # "out_of_scope"
            /\ ~Has(name, BeverageNonCore),
         "out_of_scope"),
    Rule(Has(name, BeverageNonCore) /\ g \in {"unknown", "out_of_scope"},
         "non_core"),
    Rule(g \in {"non_core", "core", "animal"} /\ Has(name, BakeryComposite),
         "composite") >>

\* Guards 4, 4b and 4c: prepared dishes, and dishes without any animal.
CompositeGuards(name, g) == <<
    Rule(g = "animal"
            /\ \/ Has(name, Animal) /\ Has(name, PreparedDish)
               \/ Has(name, SelfEvidentAnimal),
         "composite"),
    Rule(g = "composite" /\ MeatlessFood(name) /\ Has(name, PlantCore), "core"),
    Rule(g = "composite" /\ MeatlessFood(name) /\ Has(name, ExplicitlyVegan),
         "non_core"),
    Rule(g = "non_core" /\ MeatlessFood(name) /\ Has(name, PlantCore), "core") >>

\* Guards 5a to 9: the name alone decides.
FamilyGuards(name, g) == <<
    Rule(Has(name, PetAccessory) /\ g # "out_of_scope", "out_of_scope"),
    Rule(Has(name, Petfood) /\ g # PetfoodGroup(name), PetfoodGroup(name)),
    Rule(Has(name, NonFood) /\ g # "out_of_scope", "out_of_scope"),
    Rule(Has(name, PlantMilk) /\ g # "core", "core"),
    Rule(Has(name, Sorbet) /\ g # "non_core", "non_core"),
    Rule(Has(name, SavorySnack) /\ Has(name, DairyEggAnimal) /\ g # "composite",
         "composite"),
    Rule(Has(name, SavorySnack) /\ ~Has(name, DairyEggAnimal)
            /\ g \notin {"non_core", "core"},
         "non_core"),
    Rule(Has(name, PlantCondiment) /\ g # "non_core"
            /\ ~Has(name, DairyEggAnimal),
         "non_core"),
    Rule(Has(name, Sweetener) /\ g # "out_of_scope", "out_of_scope") >>

Guard(name, g) ==
    FirstOf(PlantAndBeverageGuards(name, g) \o CompositeGuards(name, g)
                \o FamilyGuards(name, g),
            "none")

-----------------------------------------------------------------------------
(* The category of a readable name, "none" when no family is recognised. *)

FamilyFallbacks(name) == <<
    Rule(Has(name, PetAccessory), "out_of_scope"),
    Rule(Has(name, Petfood), PetfoodGroup(name)),
    Rule(Has(name, PlantMilk), "core"),
    Rule(Has(name, NonFood), "out_of_scope"),
    Rule(Has(name, SweetSpread), "non_core"),
    Rule(Has(name, SavorySnack), SavorySnackGroup(name)),
    Rule(Has(name, Sweetener), "out_of_scope"),
    Rule(Has(name, BeverageOutOfScope), "out_of_scope"),
    Rule(Has(name, BeverageNonCore), "non_core") >>

DishFallbacks(name) == <<
    Rule(Has(name, BakeryComposite), "composite"),
    Rule(Has(name, SelfEvidentAnimal), "composite"),
    Rule(Has(name, Sorbet), "non_core"),
    Rule(Has(name, PlantCondiment), "non_core"),
    Rule(Has(name, CulinaryIngredient), "non_core"),
    Rule(Has(name, Animal) /\ Has(name, PreparedDish), "composite"),
    Rule(Has(name, PlantCore), "core"),
    Rule(Has(name, AnimalSimple), "animal"),
    Rule(Has(name, NotPlantCore), "non_core"),
    Rule(Has(name, GenericPlantFood), "non_core") >>

Fallback(name) == FirstOf(FamilyFallbacks(name) \o DishFallbacks(name), "none")
=============================================================================

----------------------------- MODULE WWFGuards ------------------------------
(***************************************************************************)
(* WWF guards (ai/wwf_guards.py) and the well-formedness rules of a WWF    *)
(* classification (domain/wwf.py).  As in PTGuards, Guard corrects an      *)
(* answer and Fallback replaces an "unknown".                              *)
(***************************************************************************)
EXTENDS DecisionList

FoodGroup ==
    {"FG1", "FG2", "FG3", "FG4", "FG5", "FG6", "FG7", "out_of_scope", "unknown"}
MethodologyGroup == FoodGroup \ {"out_of_scope", "unknown"}

\* The five subgroup columns as one: the values of the column of each group.
Subgroup ==
    [g \in FoodGroup |->
        CASE g = "FG1" -> {"red_meat", "poultry", "processed_meats", "seafood",
                           "eggs", "nuts_seeds", "legumes", "alternative_protein",
                           "meat_alternatives"}
          [] g = "FG2" -> {"cheese", "other_dairy_animal", "plant_dairy"}
          [] g = "FG3" -> {"plant_based_fat", "animal_based_fat"}
          [] g = "FG5" -> {"whole_grain", "refined_grain"}
          [] g = "FG7" -> {"plant_based_snack", "animal_based_snack"}
          [] OTHER -> {"none"}]
Bucket == {"meat_based", "seafood_based", "vegetarian", "vegan"}

\* A classification: the bucket is "none" exactly when it is no composite.
FoodClass ==
    [group : FoodGroup, sub : UNION {Subgroup[g] : g \in FoodGroup},
     bucket : Bucket \cup {"none"}]

\* The validators of WWFProductClassification.
WellFormed(c) == c.sub \in Subgroup[c.group]

Simple(group, sub) == [group |-> group, sub |-> sub, bucket |-> "none"]
Plain(group) == Simple(group, "none")
OutOfScope == Plain("out_of_scope")
NoClass == [group |-> "none", sub |-> "none", bucket |-> "none"]

\* _to_composite: a composite keeps its methodology group, without subgroup.
Composite(c, bucket) ==
    [group |-> IF c.group \in MethodologyGroup THEN c.group ELSE "FG1",
     sub |-> "none", bucket |-> bucket]
\* _to_composite_or_fg1 and _readable_composite.
Dish(sub, bucket) == [group |-> "FG1", sub |-> sub, bucket |-> bucket]

Differs(c, group, sub) == c.group # group \/ c.sub # sub

\* _GUARD_CONFIDENCE_CEILING, in hundredths.
Ceiling == 69
\* Mutant: a correction keeps the confidence of the answer.
Uncapped(confidence) == confidence
Capped(confidence) == IF confidence > Ceiling THEN Ceiling ELSE confidence

-----------------------------------------------------------------------------
(* The vocabularies *)

Beverage == {"eau", "jus de pomme"}
Condiment == {"ketchup", "sauce salade"}
HerbSpice == {"sel", "curry"}
Ingredient == {"bicarbonate", "bouillon", "bouillon volaille"}
Baby == {"lait infantile", "biberon"}
NovelProtein == {"insecte"}
PetAccessory == {"litiere"}
NonFood == {"lessive"}
Petfood == {"croquettes chien"}
DairyBeverage == {"lait entier", "protein drink dairy"}
PlantMilk == {"boisson avoine", "boisson amande", "boisson soja",
    "almond milk"}
RedMeat == {"boeuf", "goat's milk"}
Poultry == {"bouillon volaille", "poulet", "graisse de canard",
    "salade poulet"}
ProcessedMeat == {"jambon", "merguez", "saucisse vegetale"}
Seafood == {"saumon", "bar"}
Egg == {"oeuf"}
Legume == {"lentilles", "haricot vert"}
NutSeed == {"boisson amande", "almond milk", "noix", "beurre de cacahuete",
    "peanut butter", "pumpkin seed", "huile sesame"}
AltProtein == {"tofu"}
MeatAlternative == {"steak vegetal", "saucisse vegetale",
    "plant-based mince"}
Cheese == {"fromage", "raclette", "blue cheese", "cream cheese",
    "fromage vegan", "cake feta"}
OtherDairy == {"lait infantile", "lait entier", "almond milk",
    "cream cheese", "lait", "yaourt", "goat's milk", "yaourt vegetal",
    "chocolat au lait", "a la creme"}
PlantDairy == {"boisson avoine", "boisson amande", "boisson soja",
    "almond milk", "plant-based mince", "yaourt vegetal", "fromage vegan",
    "plant-based", "vegan butter"}
AnimalFat == {"beurre de cacahuete", "beurre", "graisse de canard",
    "biscuit beurre"}
PlantFat == {"vegan butter", "huile", "huile olive", "huile sesame"}
FruitVeg == {"jus de pomme", "pumpkin seed", "huile olive", "carotte",
    "salade verte", "compote sans sucre", "haricot vert", "pomme de terre"}
WholeGrain == {"boisson avoine", "complet"}
RefinedGrain == {"pain blanc", "tortilla chips"}
Tuber == {"pomme de terre", "patate"}
PlantSnack == {"compote sans sucre", "chips", "crisps", "tortilla chips",
    "compote sucree", "granola sucre"}
AnimalSnack == {"chocolat au lait", "glace", "biscuit beurre", "cake feta"}
CompositeDish == {"sauce salade", "curry", "salade verte", "pizza",
    "cassoulet", "salade poulet", "bouillabaisse", "margherita",
    "a la creme", "cake feta", "porridge", "green salad"}
MeatDish == {"merguez", "cassoulet"}
SeafoodDish == {"bouillabaisse"}
VegetarianDish == {"raclette", "margherita", "a la creme"}
Muesli == {"muesli", "granola sucre", "porridge"}
SnackBar == {"bar", "barre"}
Porridge == {"porridge"}
MilkWord == {"lait infantile", "lait entier", "almond milk", "lait",
    "goat's milk", "chocolat au lait"}
SweetenedMuesli == {"granola sucre"}
NoSugar == {"compote sans sucre", "sans sucres"}
Bouillon == {"bouillon", "bouillon volaille"}
NutButter == {"beurre de cacahuete", "peanut butter"}
DairyAnchor == {"almond milk", "blue cheese", "cream cheese", "goat's milk"}
PlainSalad == {"salade verte", "green salad"}
PlantMince == {"plant-based mince"}
PlantButter == {"vegan butter"}
Fries == {"chips", "tortilla chips", "wedges"}
SweetCompote == {"compote sucree"}

InSome(name, vocabularies) == \E v \in vocabularies : Has(name, v)

Excluded(name) ==
    InSome(name, {NonFood, Beverage, Condiment, HerbSpice, Ingredient, Baby,
                  NovelProtein})

\* A bowl of cereals, and neither a bar, a milk porridge nor a sweet.
CerealBowl(name) ==
    /\ Has(name, Muesli)
    /\ ~Has(name, SnackBar) /\ ~Has(name, SweetenedMuesli)
    /\ ~(Has(name, Porridge) /\ Has(name, MilkWord))

\* _detect_fg1: the most specific FG1 subgroup of the name, or "none".
DetectFG1(name) ==
    FirstOf(<<
        Rule(Has(name, MeatAlternative), "meat_alternatives"),
        Rule(Has(name, AltProtein), "alternative_protein"),
        Rule(Has(name, Legume), "legumes"),
        Rule(Has(name, NutSeed), "nuts_seeds"),
        Rule(Has(name, ProcessedMeat), "processed_meats"),
        Rule(Has(name, Seafood), "seafood"),
        Rule(Has(name, Poultry), "poultry"),
        Rule(Has(name, RedMeat), "red_meat"),
        Rule(Has(name, Egg), "eggs") >>, "none")

\* _composite_bucket_for.
DishBucket(name) ==
    FirstOf(<<
        Rule(InSome(name, {RedMeat, Poultry, ProcessedMeat, MeatDish}),
             "meat_based"),
        Rule(InSome(name, {Seafood, SeafoodDish}), "seafood_based"),
        Rule(InSome(name, {Egg, Cheese, OtherDairy, AnimalFat, VegetarianDish}),
             "vegetarian") >>, "vegan")

-----------------------------------------------------------------------------
(* Corrections of an answer c.  No correction is the result NoClass. *)

\* Guards 1a to 2a and the cereal rule: whatever the answer was.
PetAndDrinkGuards(name, c) == <<
    Rule(Has(name, PetAccessory) /\ c.group # "out_of_scope", OutOfScope),
    Rule(Has(name, Petfood) /\ Has(name, AltProtein),
         Simple("FG1", "alternative_protein")),
    Rule(Has(name, Petfood) /\ Has(name, Seafood),
         Dish("seafood", "seafood_based")),
    Rule(Has(name, Petfood) /\ Has(name, RedMeat), Dish("red_meat", "meat_based")),
    Rule(Has(name, Petfood) /\ Has(name, Poultry), Dish("poultry", "meat_based")),
    Rule(Has(name, Petfood), Composite(c, "meat_based")),
    Rule(Has(name, PlantMilk), Simple("FG2", "plant_dairy")),
    Rule(Has(name, DairyBeverage), Simple("FG2", "other_dairy_animal")),
    Rule(CerealBowl(name), Simple("FG5", "whole_grain")) >>

\* Guards 3 and 4: dishes and snacks.
DishAndSnackGuards(name, c) == <<
    Rule(Has(name, CompositeDish) /\ c.bucket # DishBucket(name),
         Composite(c, DishBucket(name))),
    Rule(Has(name, AnimalSnack) /\ Differs(c, "FG7", "animal_based_snack"),
         Simple("FG7", "animal_based_snack")),
    Rule(Has(name, PlantSnack) /\ ~Has(name, NoSugar)
            /\ Differs(c, "FG7", "plant_based_snack"),
         Simple("FG7", "plant_based_snack")) >>

\* Guard 5a: what has to be recognised before the FG1 anchors are.
PriorityGuards(name, c) == <<
    Rule(Has(name, Bouillon) /\ c.group # "out_of_scope", OutOfScope),
    Rule(Has(name, NutButter), Simple("FG1", "nuts_seeds")),
    Rule(Has(name, AnimalFat) /\ Differs(c, "FG3", "animal_based_fat"),
         Simple("FG3", "animal_based_fat")),
    Rule(Has(name, DairyAnchor) /\ Has(name, OtherDairy)
            /\ Differs(c, "FG2", "other_dairy_animal"),
         Simple("FG2", "other_dairy_animal")),
    Rule(Has(name, DairyAnchor) /\ Has(name, Cheese)
            /\ Differs(c, "FG2", "cheese"),
         Simple("FG2", "cheese")),
    Rule(Has(name, PlainSalad) /\ c.group # "FG4", Plain("FG4")),
    Rule(Has(name, PlantMince), Simple("FG1", "meat_alternatives")),
    Rule(Has(name, PlantButter), Simple("FG3", "plant_based_fat")) >>

\* Guards 5 and 6: animal FG1 anchors win over the exclusions of the scope.
AnchorGuards(name, c) == <<
    Rule(DetectFG1(name) \in
            {"seafood", "red_meat", "poultry", "processed_meats", "eggs"}
            /\ Differs(c, "FG1", DetectFG1(name)),
         Simple("FG1", DetectFG1(name))),
    Rule(Excluded(name) /\ c.group # "out_of_scope", OutOfScope) >>

\* Guard 7: the other families.
FamilyGuards(name, c) == <<
    Rule(Has(name, AnimalFat) /\ Differs(c, "FG3", "animal_based_fat"),
         Simple("FG3", "animal_based_fat")),
    Rule(Has(name, PlantFat) /\ Differs(c, "FG3", "plant_based_fat"),
         Simple("FG3", "plant_based_fat")),
    Rule(Has(name, PlantDairy) /\ Differs(c, "FG2", "plant_dairy"),
         Simple("FG2", "plant_dairy")),
    Rule(Has(name, Cheese) /\ Differs(c, "FG2", "cheese"),
         Simple("FG2", "cheese")),
    Rule(Has(name, OtherDairy) /\ Differs(c, "FG2", "other_dairy_animal"),
         Simple("FG2", "other_dairy_animal")),
    Rule(Has(name, Tuber) /\ Has(name, Fries),
         Simple("FG7", "plant_based_snack")),
    Rule(Has(name, Tuber) /\ c.group # "FG6", Plain("FG6")),
    Rule(DetectFG1(name) # "none" /\ Differs(c, "FG1", DetectFG1(name)),
         Simple("FG1", DetectFG1(name))),
    Rule(Has(name, FruitVeg) /\ Has(name, SweetCompote),
         Simple("FG7", "plant_based_snack")),
    Rule(Has(name, FruitVeg) /\ c.group # "FG4", Plain("FG4")),
    Rule(Has(name, WholeGrain) /\ Differs(c, "FG5", "whole_grain"),
         Simple("FG5", "whole_grain")),
    Rule(Has(name, RefinedGrain) /\ Differs(c, "FG5", "refined_grain"),
         Simple("FG5", "refined_grain")) >>

Guard(name, c) ==
    FirstOf(PetAndDrinkGuards(name, c) \o DishAndSnackGuards(name, c)
                \o PriorityGuards(name, c) \o AnchorGuards(name, c)
                \o FamilyGuards(name, c),
            NoClass)

-----------------------------------------------------------------------------
(* The classification of a readable name, NoClass when none is recognised. *)

FamilyFallbacks(name) == <<
    Rule(Has(name, PetAccessory), OutOfScope),
    Rule(Has(name, Petfood) /\ Has(name, AltProtein),
         Simple("FG1", "alternative_protein")),
    Rule(Has(name, Petfood) /\ Has(name, Seafood), Dish("none", "seafood_based")),
    Rule(Has(name, Petfood), Dish("none", "meat_based")),
    Rule(Has(name, PlantMilk), Simple("FG2", "plant_dairy")),
    Rule(Has(name, DairyBeverage), Simple("FG2", "other_dairy_animal")),
    Rule(Excluded(name), OutOfScope),
    Rule(Has(name, AnimalFat), Simple("FG3", "animal_based_fat")),
    Rule(Has(name, PlantFat), Simple("FG3", "plant_based_fat")),
    Rule(Has(name, AnimalSnack), Simple("FG7", "animal_based_snack")),
    Rule(Has(name, CompositeDish), Dish("none", DishBucket(name))) >>

FoodFallbacks(name) == <<
    Rule(Has(name, Tuber) /\ Has(name, Fries),
         Simple("FG7", "plant_based_snack")),
    Rule(Has(name, Tuber), Plain("FG6")),
    Rule(Has(name, PlantSnack), Simple("FG7", "plant_based_snack")),
    Rule(Has(name, PlantDairy), Simple("FG2", "plant_dairy")),
    Rule(Has(name, Cheese), Simple("FG2", "cheese")),
    Rule(Has(name, OtherDairy), Simple("FG2", "other_dairy_animal")),
    Rule(Has(name, FruitVeg), Plain("FG4")),
    Rule(DetectFG1(name) # "none", Simple("FG1", DetectFG1(name))),
    Rule(Has(name, WholeGrain), Simple("FG5", "whole_grain")),
    Rule(Has(name, RefinedGrain), Simple("FG5", "refined_grain")) >>

Fallback(name) == FirstOf(FamilyFallbacks(name) \o FoodFallbacks(name), NoClass)
=============================================================================

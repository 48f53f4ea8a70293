--------------------------- MODULE Step2Ingredients ---------------------------
(***************************************************************************)
(* WWF Step 2: the ingredients of own-brand composites.  A companion file  *)
(* is validated (ingestion/wwf_step2.py) and, if nothing in it is wrong,   *)
(* replaces what is stored, product by product, while runs read it.        *)
(***************************************************************************)
EXTENDS Integers, Sequences, FiniteSetsExt, Functions

CONSTANTS
    Product,
    Catalogue,      \* for each product its weight, brand and classification
    File,           \* the files that may be uploaded: an entry for some keys
    Store,          \* "memory" or "postgres"
    MaxUploads      \* bound: how many files are uploaded

VARIABLES
    stored,     \* the ingredients of each product that has some
    upload,     \* the request in flight
    uploads,    \* how many files were uploaded
    accepted    \* what the last upload said that was answered with success

vars == <<stored, upload, uploads, accepted>>

-----------------------------------------------------------------------------
(* Validation *)

Subgroups ==
    [FG1 |-> {"red_meat", "legumes"},
     FG2 |-> {"cheese", "other_dairy_animal", "dairy_alternative_plant"},
     FG3 |-> {"plant_based_fat", "animal_based_fat"},
     FG5 |-> {"whole_grain", "refined_grain"}]
FoodGroups == {"FG1", "FG2", "FG3", "FG4", "FG5", "FG6"}

\* A subgroup is required in FG1 and FG2, optional in FG3 and FG5, and not
\* looked at in FG4 and FG6.
SubgroupFits(raw) ==
    CASE raw.food_group \in {"FG1", "FG2"} -> raw.subgroup \in Subgroups[raw.food_group]
      [] raw.food_group \in {"FG3", "FG5"} ->
            raw.subgroup \in Subgroups[raw.food_group] \cup {"none"}
      [] OTHER -> TRUE

IngredientFits(raw) ==
    /\ raw.food_group \in FoodGroups
    /\ SubgroupFits(raw)
    /\ raw.weight > 0

Ingredient(raw) ==
    [raw EXCEPT !.subgroup = IF raw.food_group \in DOMAIN Subgroups THEN @ ELSE "none"]

\* An entry is right if its product is a classified composite of this project
\* and it lists ingredients that fit.  The brand and the sum of the weights are
\* only warned about.
EntryFits(key, ingredients) ==
    /\ key \in Product
    /\ ingredients # <<>>
    /\ Catalogue[key].classified /\ Catalogue[key].composite
    /\ \A i \in DOMAIN ingredients : IngredientFits(ingredients[i])

IsValid(file) == \A key \in DOMAIN file : EntryFits(key, file[key])

\* What a valid file has to be stored: branded composites stay at Step 1.
ValidIngredients(file) ==
    LET own == {key \in DOMAIN file : Catalogue[key].ownBrand}
    IN  [key \in own |-> [i \in DOMAIN file[key] |-> Ingredient(file[key][i])]]

-----------------------------------------------------------------------------
(* The two stores *)

Nowhere == [key \in {} |-> <<>>]

\* Postgres: the row has no organisation_id, which the table requires.
InsertBreaks == Store = "postgres"

\* Postgres keeps one subgroup column and reads it back for FG1 and FG2 only.
ReadBack(ingredient) ==
    IF Store = "postgres" /\ ingredient.food_group \notin {"FG1", "FG2"}
    THEN [ingredient EXCEPT !.subgroup = "none"] ELSE ingredient

Idle == [pc |-> "idle", file |-> Nowhere, todo |-> Nowhere]

Init ==
    /\ stored = Nowhere
    /\ upload = Idle
    /\ uploads = 0
    /\ accepted = Nowhere

(***************************************************************************)
(* A file with a mistake is answered with what is wrong; nothing changes.  *)
(***************************************************************************)
UploadInvalid ==
    /\ upload.pc = "idle"
    /\ uploads < MaxUploads
    /\ \E file \in File : ~IsValid(file)
    /\ uploads' = uploads + 1
    /\ UNCHANGED <<stored, upload, accepted>>

(***************************************************************************)
(* A valid file: everything stored for the project is cleared.  The        *)
(* handler never yields after it has read the file, so uploads of one      *)
(* process do not overlap; runs read between its steps.                    *)
(***************************************************************************)
\* Mutant: only what the new file replaces is cleared.
ClearedNothing == stored
Cleared == Nowhere
UploadValid ==
    /\ upload.pc = "idle"
    /\ uploads < MaxUploads
    /\ \E file \in File :
        /\ IsValid(file)
        /\ upload' = [pc |-> "store", file |-> ValidIngredients(file),
                      todo |-> ValidIngredients(file)]
    /\ uploads' = uploads + 1
    /\ stored' = Cleared
    /\ UNCHANGED accepted

(***************************************************************************)
(* Then one product after the other is stored ...                          *)
(***************************************************************************)
StoreProduct ==
    /\ upload.pc = "store"
    /\ ~InsertBreaks
    /\ \E key \in DOMAIN upload.todo :
        /\ stored' = [k \in DOMAIN stored \cup {key} |->
                        IF k = key THEN upload.todo[key] ELSE stored[k]]
        /\ upload' = [upload EXCEPT !.todo = Restrict(@, DOMAIN @ \ {key})]
    /\ UNCHANGED <<uploads, accepted>>

(***************************************************************************)
(* ... until the answer says so ...                                        *)
(***************************************************************************)
Answer ==
    /\ upload.pc = "store"
    /\ upload.todo = Nowhere
    /\ upload' = Idle
    /\ accepted' = upload.file
    /\ UNCHANGED <<stored, uploads>>

(***************************************************************************)
(* ... or an insert raises, which is answered with 500: the clear stays.   *)
(***************************************************************************)
Break ==
    /\ upload.pc = "store"
    /\ upload.todo # Nowhere /\ InsertBreaks
    /\ upload' = Idle
    /\ UNCHANGED <<stored, uploads, accepted>>

Next == UploadInvalid \/ UploadValid \/ StoreProduct \/ Answer \/ Break

Spec == Init /\ [][Next]_vars

-----------------------------------------------------------------------------
(* Properties *)

\* "A valid upload replaces all previously stored Step 2 ingredients for the
\* project.  An invalid upload is rejected without touching existing data":
\* between uploads the store holds what the last one said that was answered with
\* success, on either store (on Postgres only files that store nothing are).
Step2IsStored ==
    upload.pc = "idle" =>
        /\ DOMAIN stored = DOMAIN accepted
        /\ \A key \in DOMAIN stored :
            [i \in DOMAIN stored[key] |-> ReadBack(stored[key][i])] = accepted[key]
=============================================================================

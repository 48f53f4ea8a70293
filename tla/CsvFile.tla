------------------------------ MODULE CsvFile -------------------------------
(***************************************************************************)
(* How the bytes of a file become products (ingestion/): the table is      *)
(* read, its columns get the names of the fields they stand for, columns   *)
(* with commercial data are dropped, and each row is parsed, checked, and  *)
(* given a block for every methodology it has the data for.  Import is a   *)
(* function of the file and of the methodologies of the project.           *)
(*                                                                         *)
(* A cell is a word or a number; numbers are tenths of the unit of their   *)
(* column, weights tenths of a gram.                                       *)
(***************************************************************************)
EXTENDS Integers, Sequences, FiniteSetsExt

CONSTANTS
    MaxRows         \* rows a file may have: 200 000 in the code

NoValue == -1000000
NotANumber == -1000001

Blank == [word |-> "", number |-> NoValue]
Word(w) == [word |-> w, number |-> NotANumber]

\* _coerce_decimal reads "15,3" and "1.234,5" as written; in "1,234" the comma is
\* taken for the decimal one.
Number(n) == [word |-> "", number |-> n]
Thousands(n) == Number(n \div 1000)

-----------------------------------------------------------------------------
(* Columns *)

Weights == {"weight_per_item_kg", "weight_per_item_g",
            "weight_per_item_lb", "weight_per_item_oz"}

\* The registry of synonyms, a few headers of each field: what a product is, what
\* describes it, and what the methodologies ask for.
ProductSynonyms == [
    external_product_id |-> {"sku", "internal_id"},
    product_name |-> {"libelle", "designation"},
    weight_per_item_kg |-> {"net_weight"},
    weight_per_item_g |-> {"weight", "poids_unitaire", "pack_weight_g"},
    brand |-> {"marque", "supplier_brand"}]
DescriptionSynonyms == [
    is_own_brand |-> {"mdd", "store_label", "brand_type"},
    country |-> {"pays"},
    language |-> {"langue"}]
MethodologySynonyms == [
    items_purchased |-> {"sales", "quantity"},
    items_sold |-> {"units_sold"},
    protein_pct |-> {"protein", "protein_g_per_100g"},
    plant_protein_pct |-> {"plant_protein"},
    animal_protein_pct |-> {"animal_protein"},
    retail_channel |-> {"canal", "retail_category"}]
Registry == {ProductSynonyms, DescriptionSynonyms, MethodologySynonyms}
Meant(h) ==
    UNION {{f \in DOMAIN synonyms : h = f \/ h \in synonyms[f]} : synonyms \in Registry}

\* Columns that Altera itself writes.
Outputs == {"confidence", "final_label"}

\* Headers that speak of a quantity, whatever else they say.
Bought == {"items_purchased", "units_purchased_total", "purchase_price", "weight_purchased"}
Sold == {"items_sold", "units_sold", "weight_sold"}

\* infer_mapping: the field a header stands for, or none.  A quantity is never
\* read as a weight.
Inferred(h) ==
    LET synonym == IF h \in Outputs THEN {} ELSE Meant(h)
    IN  IF synonym # {} /\ synonym \cap Weights = {} THEN synonym
        ELSE IF h \in Bought THEN {"items_purchased"}
        ELSE IF h \in Sold THEN {"items_sold"}
        ELSE synonym

\* Any weight column will do.
WeightsKnown(fields) ==
    IF fields \cap Weights = {} THEN fields ELSE fields \cup {"weight_per_item_kg"}

\* Mutant: the retail channel is not asked for.
RequiredFewer(methodology) ==
    {"product_name", "weight_per_item_kg"} \cup
    IF methodology = "protein_tracker" THEN {"items_purchased"}
    ELSE {"external_product_id", "items_sold", "is_own_brand"}
Required(methodology) ==
    {"product_name", "weight_per_item_kg"} \cup
    IF methodology = "protein_tracker" THEN {"items_purchased"}
    ELSE {"external_product_id", "items_sold", "is_own_brand", "retail_channel"}

\* What the preview says is missing for a methodology.
MissingFor(methodology, headers) ==
    Required(methodology) \ WeightsKnown(UNION {Inferred(headers[i]) : i \in DOMAIN headers})

\* The field a column is read as: a mapping of the user wins over the inferred
\* one, "ignore" drops the column, and a header of neither stays what it is.
Target(h, mapping) ==
    IF DOMAIN mapping # {} THEN IF h \in DOMAIN mapping THEN mapping[h] ELSE h
    ELSE IF Inferred(h) = {} THEN h ELSE CHOOSE f \in Inferred(h) : TRUE

\* filter_commercial_columns looks at the name a column has after the mapping.
Commercial == {"revenue", "cost_price", "supplier_brand", "store_label", "internal_id"}

-----------------------------------------------------------------------------
(* Reading the table *)

\* Rows shorter or longer than the header are padded or cut.
Padded(cells, n) ==
    [i \in 1 .. n |-> IF i <= Len(cells) THEN cells[i] ELSE Blank]

\* A row that begins with "#" is a comment, and is not counted.
IsComment(cells) == cells # <<>> /\ cells[1].word = "#"
DataRows(file) == SelectSeq(file.rows, LAMBDA cells : ~IsComment(cells))

Unreadable(file) ==
    file.headers = <<>> \/ Len(DataRows(file)) > MaxRows

\* The dictionary of a row.  Of two columns with one header the value of the last
\* is read, of two headers of one field the one that came last for the first time.
First(headers, h) == Min({i \in DOMAIN headers : headers[i] = h})
Last(headers, h) == Max({i \in DOMAIN headers : headers[i] = h})
HeadersOf(headers, mapping, key) ==
    {headers[i] : i \in {k \in DOMAIN headers : Target(headers[k], mapping) = key}}
Row(headers, mapping, cells) ==
    LET padded == Padded(cells, Len(headers))
        Winner(key) ==
            CHOOSE h \in HeadersOf(headers, mapping, key) :
                \A g \in HeadersOf(headers, mapping, key) :
                    First(headers, g) <= First(headers, h)
        keys == {Target(headers[i], mapping) : i \in DOMAIN headers}
    IN  [key \in keys \ (Commercial \cup {"ignore"}) |-> padded[Last(headers, Winner(key))]]

Cell(row, key) == IF key \in DOMAIN row THEN row[key] ELSE Blank
Value(row, key) == Cell(row, key).number
Given(row, key) == Value(row, key) # NoValue
Unclear(row, key) == Value(row, key) = NotANumber

-----------------------------------------------------------------------------
(* Parsing a row: errors and warnings are pairs of a field and a code *)

When(condition, field, code) == IF condition THEN {<<field, code>>} ELSE {}

TenthsOfGram(key, n) ==
    CASE key = "weight_per_item_kg" -> 1000 * n
      [] key = "weight_per_item_g" -> n
      [] key = "weight_per_item_lb" -> (n * 4536) \div 10
      [] key = "weight_per_item_oz" -> (n * 2835) \div 100
Kilogram == 10000

\* normalise_weight_kg
WeightColumns(row) == {key \in Weights : Given(row, key)}
Weight(row) ==
    LET key == CHOOSE k \in WeightColumns(row) : TRUE
    IN  IF WeightColumns(row) = {} THEN NoValue ELSE TenthsOfGram(key, Value(row, key))
WeightErrors(row) ==
    LET code ==
          IF \E key \in Weights : Unclear(row, key) THEN "invalid_type"
          ELSE IF Cardinality(WeightColumns(row)) > 1 THEN "mixed_weight_units"
          ELSE IF WeightColumns(row) = {} THEN "none"
          ELSE IF Weight(row) <= 0 THEN "weight_non_positive"
          ELSE IF Weight(row) > 50 * Kilogram THEN
               IF Value(row, "weight_per_item_kg") \in 500 .. 50000
               THEN "weight_unit_likely_grams" ELSE "weight_too_large"
          ELSE "none"
    IN  When(code # "none", "weight_per_item_kg", code)
WeightWarnings(row) ==
    LET heavy == Value(row, "weight_per_item_kg") >= 50
        light == Given(row, "weight_per_item_g") /\ Value(row, "weight_per_item_g") < 50
    IN  IF WeightErrors(row) # {} THEN {}
        ELSE When(heavy, "weight_per_item_kg", "weight_unit_likely_grams_warning")
             \cup When(light, "weight_per_item_g", "weight_unit_likely_kg_warning")

\* normalise_protein_pct.  A density of zero is divided by: the exception leaves
\* the parser.
Energy == {"protein_kj", "protein_kcal"}
ProteinColumns == {"protein_pct", "protein_g_per_100g", "protein_g_per_100ml",
                   "protein_g_per_serving"}
Proteins(row) == {key \in ProteinColumns : Given(row, key)}
Protein(row) ==
    LET key == CHOOSE k \in Proteins(row) : TRUE
        n == Value(row, key)
    IN  IF Proteins(row) = {} THEN NoValue
        ELSE CASE key = "protein_g_per_100ml" -> (n * 10) \div Value(row, "density_g_per_ml")
               [] key = "protein_g_per_serving" -> (n * 1000) \div Value(row, "serving_g")
               [] OTHER -> n
ProteinReadable(row) ==
    /\ \A key \in Energy : ~Given(row, key)
    /\ \A key \in ProteinColumns \cup {"density_g_per_ml", "serving_g"} : ~Unclear(row, key)
Raises(row) ==
    /\ ProteinReadable(row)
    /\ Given(row, "protein_g_per_100ml") /\ Value(row, "density_g_per_ml") = 0
ProteinErrors(row) ==
    LET code ==
          IF \E key \in Energy : Given(row, key) THEN "energy_not_protein"
          ELSE IF ~ProteinReadable(row) THEN "invalid_type"
          ELSE IF Given(row, "protein_g_per_100ml") /\ ~Given(row, "density_g_per_ml")
          THEN "missing_density"
          ELSE IF Given(row, "protein_g_per_serving")
                  /\ Value(row, "serving_g") \in {NoValue, 0} THEN "missing_serving_g"
          ELSE IF Cardinality(Proteins(row)) > 1 THEN "mixed_protein_inputs"
          ELSE IF Proteins(row) # {} /\ Protein(row) \notin 0 .. 1000
          THEN "protein_out_of_range" ELSE "none"
    IN  When(code # "none", "protein_pct", code)

\* Counts: a fraction is cut off.
Counts == {"items_purchased", "items_sold"}
Count(row, key) == IF Given(row, key) THEN (Value(row, key) \div 10) * 10 ELSE NoValue
CountErrors(row) ==
    {<<key, IF Unclear(row, key) THEN "invalid_type" ELSE "invalid_range">> :
        key \in {k \in Counts : Given(row, k) /\ Value(row, k) < 0}}
CountWarnings(row) ==
    {<<key, "non_integer_count">> :
        key \in {k \in Counts : Given(row, k) /\ Value(row, k) > 0 /\ Value(row, k) % 10 # 0}}

Splits == {"plant_protein_pct", "animal_protein_pct"}
SplitErrors(row) ==
    {<<key, IF Unclear(row, key) THEN "invalid_type" ELSE "invalid_range">> :
        key \in {k \in Splits : Given(row, k) /\ Value(row, k) \notin 0 .. 1000}}

\* _coerce_bool and the aliases of the retail channel.
Flag(cell) ==
    CASE cell.word \in {"yes", "own brand", "mdd"} \/ cell = Number(10) -> "true"
      [] cell.word \in {"no", "branded"} \/ cell = Number(0) -> "false"
      [] OTHER -> "none"
Channel(cell) ==
    CASE cell.word \in {"fresh", "frais"} -> "fresh"
      [] cell.word \in {"grocery/ambient", "sec"} -> "grocery_ambient"
      [] cell.word = "surgele" -> "frozen"
      [] OTHER -> "none"
\* Cells of spaces are blank everywhere but in is_own_brand.
WordErrors(row) ==
    LET own == Cell(row, "is_own_brand")
    IN  When(~Given(row, "product_name"), "product_name", "missing_required")
        \cup When(own # Blank /\ Flag(own) = "none", "is_own_brand", "invalid_type")
        \cup When(Given(row, "retail_channel")
                    /\ Channel(Cell(row, "retail_channel")) = "none",
                  "retail_channel", "invalid_enum")
        \cup When(Given(row, "protein_source")
                    /\ Cell(row, "protein_source").word \notin {"label", "reference_db", "enriched"},
                  "protein_source", "invalid_enum")

\* What the domain asks of a RawProduct beyond that: two letters.
DomainErrors(row) ==
    UNION {When(Given(row, key) /\ Cell(row, key).word \notin {"fr", "no"},
                key, "string_pattern_mismatch") : key \in {"country", "language"}}

ParseErrors(row) ==
    LET errors == WeightErrors(row) \cup ProteinErrors(row) \cup CountErrors(row)
                  \cup SplitErrors(row) \cup WordErrors(row)
    IN  IF errors = {} THEN DomainErrors(row) ELSE errors

-----------------------------------------------------------------------------
(* From a row to a product *)

NoBlock == [none |-> TRUE]

PTBlock(row) ==
    [items |-> Count(row, "items_purchased"), protein |-> Protein(row),
     plant |-> Value(row, "plant_protein_pct"), animal |-> Value(row, "animal_protein_pct")]
WWFBlock(row) ==
    [items |-> Count(row, "items_sold"), ownBrand |-> Flag(Cell(row, "is_own_brand")),
     channel |-> Channel(Cell(row, "retail_channel"))]

HasPT(row) == Given(row, "items_purchased")
HasWWF(row) ==
    /\ Given(row, "items_sold")
    /\ Flag(Cell(row, "is_own_brand")) # "none"
    /\ Channel(Cell(row, "retail_channel")) # "none"

\* The methodologies of the project that the row has the data for.
Satisfied(row, enabled) ==
    {m \in enabled : IF m = "protein_tracker" THEN HasPT(row) ELSE HasWWF(row)}

\* A plant share without an animal one, or the reverse.
HalfSplit(row) == Given(row, "plant_protein_pct") # Given(row, "animal_protein_pct")

\* Mutant: a row nothing can be made of is left out without an error.
NormaliseErrorsSilent(row, enabled) ==
    When(Weight(row) = NoValue, "weight_per_item_kg", "missing_required")
    \cup When("protein_tracker" \in Satisfied(row, enabled) /\ HalfSplit(row),
              "none", "value_error")
\* A project without methodologies is refused by the domain: a product has one.
NormaliseErrors(row, enabled) ==
    When(Weight(row) = NoValue, "weight_per_item_kg", "missing_required")
    \cup When("protein_tracker" \in Satisfied(row, enabled) /\ HalfSplit(row),
              "none", "value_error")
    \cup When(Satisfied(row, enabled) = {}, "none", "no_methodology_satisfiable")

NormaliseWarnings(row, enabled) ==
    UNION {When(m \notin Satisfied(row, enabled), m, "missing_for_methodology") : m \in enabled}
    \cup When("protein_tracker" \in Satisfied(row, enabled) /\ Protein(row) = NoValue,
              "protein_pct", "enrichment_needed")

Product(row, n, enabled) ==
    [row |-> n, name |-> Cell(row, "product_name"),
     id |-> IF Given(row, "external_product_id") THEN Cell(row, "external_product_id")
            ELSE Word("AUTO"),
     weight |-> Weight(row), methodologies |-> Satisfied(row, enabled),
     pt |-> IF "protein_tracker" \in Satisfied(row, enabled) THEN PTBlock(row) ELSE NoBlock,
     wwf |-> IF "wwf" \in Satisfied(row, enabled) THEN WWFBlock(row) ELSE NoBlock]

Errors(row, enabled) ==
    IF ParseErrors(row) # {} THEN ParseErrors(row) ELSE NormaliseErrors(row, enabled)
Warnings(row, enabled) ==
    When(~Given(row, "external_product_id"), "external_product_id", "auto_generated")
    \cup WeightWarnings(row) \cup CountWarnings(row)
    \cup IF ParseErrors(row) # {} THEN {} ELSE NormaliseWarnings(row, enabled)

(***************************************************************************)
(* ingest_csv_bytes.  An exception in one row ends the import of all; what *)
(* cannot be read at all is a report of no rows.                           *)
(***************************************************************************)
NoImport(outcome) ==
    [outcome |-> outcome, total |-> 0, errors |-> {}, warnings |-> {},
     products |-> {}, dropped |-> {}]
Import(file, enabled, mapping) ==
    LET rows == [n \in DOMAIN DataRows(file) |->
                    Row(file.headers, mapping, DataRows(file)[n])]
        accepted == {n \in DOMAIN rows : Errors(rows[n], enabled) = {}}
    IN  IF Unreadable(file) THEN NoImport("unreadable")
        ELSE IF \E n \in DOMAIN rows : Raises(rows[n]) THEN NoImport("raised")
        ELSE [outcome |-> IF accepted = DOMAIN rows THEN "succeeded" ELSE "blocked",
              total |-> Len(rows),
              errors |-> UNION {{n} \X Errors(rows[n], enabled) : n \in DOMAIN rows},
              warnings |-> UNION {{n} \X Warnings(rows[n], enabled) : n \in DOMAIN rows},
              products |-> {Product(rows[n], n, enabled) : n \in accepted},
              dropped |-> IF rows = <<>> THEN {}
                          ELSE Commercial \cap {Target(file.headers[i], mapping) :
                                                  i \in DOMAIN file.headers}]

-----------------------------------------------------------------------------
(* Properties of every file *)

\* No row vanishes: each data row of a file that was read is a product or has an
\* error, and never both; a product has a weight of at most 50 kg and a block for
\* each of its methodologies, at least one.
RowsAreAnswered(result) ==
    result.outcome \in {"succeeded", "blocked"} =>
        LET made == {p.row : p \in result.products}
            faulty == {e[1] : e \in result.errors}
        IN  /\ made \cup faulty = 1 .. result.total
            /\ made \cap faulty = {}
            /\ \A p \in result.products :
                /\ p.weight \in 1 .. 50 * Kilogram
                /\ p.methodologies # {}
                /\ (p.pt # NoBlock) <=> "protein_tracker" \in p.methodologies
                /\ (p.wwf # NoBlock) <=> "wwf" \in p.methodologies

\* "The row is still ingested with the SATISFIABLE subset": what a project with
\* one methodology makes of a row, a project with both makes of it too, unless
\* the protein split has one half only.
BothKeepEither(file, mapping, pt, wwf, both) ==
    LET Half(n) == HalfSplit(Row(file.headers, mapping, DataRows(file)[n]))
    IN  /\ \A p \in pt.products :
            \E q \in both.products : q.row = p.row /\ q.pt = p.pt /\ q.weight = p.weight
        /\ \A p \in wwf.products :
            Half(p.row) \/ \E q \in both.products : q.row = p.row /\ q.wwf = p.wwf

\* What the preview promises: when it finds nothing missing for a methodology, a
\* row that is filled in and has no error gets the block of that methodology.
PreviewKeepsItsWord(file, both) ==
    \A m \in {"protein_tracker", "wwf"} :
        MissingFor(m, file.headers) = {} =>
            \A p \in both.products :
                \/ m \in p.methodologies
                \/ \E i \in DOMAIN file.headers :
                    Padded(DataRows(file)[p.row], Len(file.headers))[i].number = NoValue
=============================================================================

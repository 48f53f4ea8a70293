------------------------------ MODULE NevoApply ------------------------------
(***************************************************************************)
(* The review and the application of the NEVO V2 matches                   *)
(* (classification_v2): commands an operator runs one after the other,     *)
(* which hand each other files and append enrichment records while the     *)
(* application goes on appending its own.  A reviewer fills a package, it  *)
(* is validated, planned and applied; then the plant and animal halves of  *)
(* what was applied are proposed and applied.  A command looks a product   *)
(* up and inserts in two store calls, and may die or be refused between.   *)
(* Dry runs and the two audits write no record: the audits are operators.  *)
(***************************************************************************)
EXTENDS Enrichment, FiniteSets

CONSTANTS
    Product,
    Operator,     \* people who may run commands, each one at a time
    Rows,         \* the filled rows of the package to consider
    Protein,      \* grams of protein
    NoFile,       \* a file that was not written yet
    MaxReviews, MaxEntries, MaxFaults   \* edits, entries of the application, failed calls

VARIABLES
    sheet,        \* the review package: a row for each product
    summary, approved, plan, proposals,   \* the files, NoFile until written
    records,      \* the enrichment records of each product, oldest first
    group,        \* its Protein Tracker group
    cmd,          \* what the command of each operator at work does
    spent         \* the bounds

vars == <<sheet, summary, approved, plan, proposals, records, group, cmd, spent>>
files == <<summary, approved, plan, proposals>>
world == <<sheet, group>>

\* The operators at work on this package: they do not change.
Crew == DOMAIN cmd

PlantGroups == {"plant_based_core", "plant_based_non_core"}
Unclassified == "unclassified"
Idle == [at |-> "idle", todo |-> {}]

ConstantsAssumption ==
    /\ Protein \subseteq Nat \ {0}
    /\ {MaxReviews, MaxEntries, MaxFaults} \subseteq Nat

-----------------------------------------------------------------------------
(* The package.  A row has the candidate the matcher offers and the one    *)
(* the reviewer typed instead, each a code, a name and a protein value; a  *)
(* value is NoValue when the cell is empty, NotANumber when it is text.    *)

NotANumber == -2
Candidate == [code : BOOLEAN, name : BOOLEAN, value : Protein \cup {NoValue, NotANumber}]

Row ==
    [decision : {"approve", "replace", "reject", "needs_more_info", "", "other"},
     p0 : BOOLEAN, nonFood : BOOLEAN, override : BOOLEAN,
     offered : Candidate, typed : Candidate]

\* A row is refused.
Invalid(row) ==
    \/ row.decision = "other"
    \/ row.typed.value = NotANumber
    \/ row.decision = "replace" /\ ~(row.typed.code /\ row.typed.name)
    \/ /\ row.decision = "approve"
       /\ \/ row.p0
          \/ row.nonFood /\ ~row.override
          \/ row.typed.code /\ ~row.typed.name
          \/ /\ ~row.typed.code
             /\ ~(row.offered.code /\ row.offered.name /\ row.offered.value # NoValue)

\* The candidate that is applied: the typed one when it has a code.
Effective(row) == IF row.typed.code THEN row.typed ELSE row.offered

Summary(rows) ==
    [recommendation |->
        IF \E p \in Product : Invalid(rows[p]) THEN "blocked_by_errors"
        ELSE IF \E p \in Product : rows[p].decision \in {"", "needs_more_info"}
             THEN "review_incomplete"
             ELSE "ready_for_apply_planning"]

\* The approved candidates: also those of a package with errors elsewhere.
Approved(rows) ==
    {[product |-> p, value |-> Effective(rows[p]).value] :
        p \in {q \in Product : rows[q].decision \in {"approve", "replace"}
                                /\ ~Invalid(rows[q])}}

-----------------------------------------------------------------------------
(* The records.  What the application appends carries no version.          *)

Marked(r, version) ==
    [nutrient |-> r.nutrient, source |-> r.source, status |-> r.status,
     value |-> r.value, version |-> version]

Versioned(recs, version) == [i \in DOMAIN recs |-> Marked(recs[i], version)]

IsManual(r) == r.source = "manual_altera"
HasValue(r) == r.value # NoValue

TotalsOf(recs) == {i \in DOMAIN recs : recs[i].nutrient = "protein_pct"}
V2Of(recs) == {i \in DOMAIN recs : recs[i].version = "v2_embeddings"}
HalvesOf(recs, nutrient) ==
    {i \in DOMAIN recs :
        recs[i].version = "v2_embeddings_split" /\ recs[i].nutrient = nutrient}

\* Only a product with neither a manual total, nor a V2 one, nor another value
\* is written.
Disposition(recs) ==
    LET totals == TotalsOf(recs)
    IN  IF \E i \in totals : IsManual(recs[i]) THEN "skip_manual"
        ELSE IF totals \cap V2Of(recs) # {} THEN "skip_v2"
        ELSE IF \E i \in totals : HasValue(recs[i]) THEN "skip_v1"
        ELSE "write"

\* Mutant: a product that lacks a half is split again.
HasWholeSplit(recs) ==
    \A n \in {"plant_protein_pct", "animal_protein_pct"} : Usable(recs, n) # {}

\* Some half of a split is there already, whoever wrote it.
HasExistingSplit(recs) ==
    \E n \in {"plant_protein_pct", "animal_protein_pct"} : Usable(recs, n) # {}

\* The policy: a group that is all plant or all animal is split.
SplitProposal(recs, pt) ==
    LET total == recs[Min(V2Of(recs))].value
        answer(action, plant, animal) ==
            [action |-> action, plant |-> plant, animal |-> animal]
    IN  IF \E i \in DOMAIN recs : IsManual(recs[i])
        THEN answer("skip_manual_override", NoValue, NoValue)
        ELSE IF pt = Unclassified THEN answer("skip_missing_class", NoValue, NoValue)
        ELSE IF pt = "animal_core" THEN answer("would_split", 0, total)
        ELSE IF pt \in PlantGroups THEN answer("would_split", total, 0)
        ELSE answer("needs_review", NoValue, NoValue)

\* One proposal for each product with a V2 total.
Proposals ==
    [p \in {q \in Product : V2Of(records[q]) # {}} |->
        SplitProposal(records[p], group[p])]

-----------------------------------------------------------------------------
Init ==
    /\ sheet \in [Product -> Rows]
    /\ summary = NoFile /\ approved = NoFile /\ plan = NoFile /\ proposals = NoFile
    /\ records = [p \in Product |-> <<>>]
    /\ group \in [Product -> {Unclassified, "animal_core"}]
    /\ cmd \in UNION {[crew -> {Idle}] : crew \in SUBSET Operator}
    /\ spent = [reviews |-> 0, entries |-> 0, faults |-> 0]

Spend(what, limit) ==
    /\ spent[what] < limit
    /\ spent' = [spent EXCEPT ![what] = @ + 1]

Append1(p, record) == records' = [records EXCEPT ![p] = Append(@, record)]

(* Around the commands: the reviewer edits a row, a product is classified  *)
(* anew, and the application's own endpoints append, whatever is there.    *)

Review(p, row) ==
    /\ Spend("reviews", MaxReviews)
    /\ sheet' = [sheet EXCEPT ![p] = row]
    /\ UNCHANGED <<files, records, group, cmd>>

Classify(p, pt) ==
    /\ Spend("entries", MaxEntries)
    /\ group[p] # pt
    /\ group' = [group EXCEPT ![p] = pt]
    /\ UNCHANGED <<files, sheet, records, cmd>>

Enrich(p, recs) ==
    /\ Spend("entries", MaxEntries)
    /\ records' = [records EXCEPT ![p] = @ \o Versioned(recs, "none")]
    /\ UNCHANGED <<files, world, cmd>>

Application(p) ==
    \/ \E pt \in PlantGroups \cup {"animal_core", "composite_products"} : Classify(p, pt)
    \/ \E v \in Protein : \/ Enrich(p, Total("manual_altera", v))
                          \/ Enrich(p, ManualNutrition(v, v, 0))
                          \/ Enrich(p, NevoEntry(v, v, group[p]))
    \/ Enrich(p, NoMatch)

-----------------------------------------------------------------------------
(* Validate and plan *)

Becomes(o, at, todo) == cmd' = [cmd EXCEPT ![o] = [at |-> at, todo |-> todo]]

\* The summary is written first, then the approved candidates.
Validate(o) ==
    /\ cmd[o] = Idle
    /\ summary' = Summary(sheet)
    /\ Becomes(o, "approving", Approved(sheet))
    /\ UNCHANGED <<approved, plan, proposals, world, records, spent>>

WriteApproved(o) ==
    /\ cmd[o].at = "approving"
    /\ approved' = cmd[o].todo
    /\ Becomes(o, "idle", {})
    /\ UNCHANGED <<summary, plan, proposals, world, records, spent>>

\* The plan lists the operations, but nothing but their number is read again.
Plan(rows) == [count |-> Cardinality(rows)]

\* An incomplete review is planned with --allow-incomplete only.
MakePlan(o) ==
    /\ cmd[o] = Idle
    /\ summary # NoFile /\ approved # NoFile
    /\ summary.recommendation # "blocked_by_errors"
    /\ plan' = Plan(approved)
    /\ UNCHANGED <<summary, approved, proposals, world, records, cmd, spent>>

-----------------------------------------------------------------------------
(* Apply *)

\* The plan may be older than the candidates: only their number is compared.  The
\* summary is read again, and one with errors refuses; an incomplete one needs
\* --allow-incomplete-apply.
Preconditions ==
    /\ plan # NoFile /\ approved # NoFile
    /\ plan.count = Cardinality(approved)
    /\ summary.recommendation # "blocked_by_errors"

\* With --confirm-apply-v2; --limit-apply takes some of the candidates.
StartApply(o) ==
    /\ cmd[o] = Idle
    /\ Preconditions
    /\ \E todo \in SUBSET approved \ {{}} : Becomes(o, "applying", todo)
    /\ UNCHANGED <<files, world, records, spent>>

\* The command is done with one row and looks at the next.
Done(o, row, at) ==
    LET left == cmd[o].todo \ {row}
    IN  IF left = {} THEN Becomes(o, "idle", {}) ELSE Becomes(o, at, left)

\* A candidate without a value is an error, and the run goes on.
SkipRow(o, row) ==
    /\ cmd[o].at = "applying"
    /\ row.value = NoValue \/ Disposition(records[row.product]) # "write"
    /\ Done(o, row, "applying")
    /\ UNCHANGED <<files, world, records, spent>>

LookUpRow(o, row) ==
    /\ cmd[o].at = "applying"
    /\ row.value # NoValue
    /\ Disposition(records[row.product]) = "write"
    /\ cmd' = [cmd EXCEPT ![o] = [at |-> "writing", todo |-> @.todo, row |-> row]]
    /\ UNCHANGED <<files, world, records, spent>>

\* The insert is accepted ...
WriteRow(o) ==
    /\ cmd[o].at = "writing"
    /\ LET row == cmd[o].row
       IN  /\ Append1(row.product,
                 Marked(Record("protein_pct", "nevo", "enriched", row.value),
                        "v2_embeddings"))
           /\ Done(o, row, "applying")
    /\ UNCHANGED <<files, world, spent>>

\* ... or refused: the row is reported and the run goes on.
RefuseRow(o) ==
    /\ cmd[o].at \in {"writing", "plant", "animal"}
    /\ Spend("faults", MaxFaults)
    /\ Done(o, cmd[o].row, IF cmd[o].at = "writing" THEN "applying" ELSE "splitting")
    /\ UNCHANGED <<files, world, records>>

-----------------------------------------------------------------------------
(* Propose and apply the splits *)

Propose(o) ==
    /\ cmd[o] = Idle
    /\ proposals' = Proposals
    /\ UNCHANGED <<summary, approved, plan, world, records, cmd, spent>>

StartSplits(o) ==
    /\ cmd[o] = Idle
    /\ proposals # NoFile
    /\ LET would == {p \in DOMAIN proposals : proposals[p].action = "would_split"}
       IN  \E chosen \in SUBSET would \ {{}} :
             Becomes(o, "splitting",
                 {[product |-> p, plant |-> proposals[p].plant,
                   animal |-> proposals[p].animal] : p \in chosen})
    /\ UNCHANGED <<files, world, records, spent>>

\* A manual value of any kind, or a half that is there, stops the split.
Splittable(recs) ==
    ~HasExistingSplit(recs) /\ \A i \in DOMAIN recs : ~IsManual(recs[i])

SkipSplit(o, row) ==
    /\ cmd[o].at = "splitting"
    /\ ~Splittable(records[row.product])
    /\ Done(o, row, "splitting")
    /\ UNCHANGED <<files, world, records, spent>>

LookUpSplit(o, row) ==
    /\ cmd[o].at = "splitting"
    /\ Splittable(records[row.product])
    /\ cmd' = [cmd EXCEPT ![o] = [at |-> "plant", todo |-> @.todo, row |-> row]]
    /\ UNCHANGED <<files, world, records, spent>>

Half(nutrient, value) ==
    Marked(Record(nutrient, "nevo", "enriched", value), "v2_embeddings_split")

\* Two inserts, the plant half and then the animal half.
WritePlant(o) ==
    /\ cmd[o].at = "plant"
    /\ Append1(cmd[o].row.product, Half("plant_protein_pct", cmd[o].row.plant))
    /\ cmd' = [cmd EXCEPT ![o].at = "animal"]
    /\ UNCHANGED <<files, world, spent>>

WriteAnimal(o) ==
    /\ cmd[o].at = "animal"
    /\ Append1(cmd[o].row.product, Half("animal_protein_pct", cmd[o].row.animal))
    /\ Done(o, cmd[o].row, "splitting")
    /\ UNCHANGED <<files, world, spent>>

\* A command dies where it is.
Die(o) ==
    /\ cmd[o] # Idle
    /\ Spend("faults", MaxFaults)
    /\ Becomes(o, "idle", {})
    /\ UNCHANGED <<files, world, records>>

Command(o) ==
    \/ Validate(o) \/ WriteApproved(o) \/ MakePlan(o)
    \/ StartApply(o) \/ WriteRow(o) \/ RefuseRow(o)
    \/ Propose(o) \/ StartSplits(o) \/ WritePlant(o) \/ WriteAnimal(o)
    \/ \E row \in cmd[o].todo :
        \/ SkipRow(o, row) \/ LookUpRow(o, row)
        \/ SkipSplit(o, row) \/ LookUpSplit(o, row)
    \/ Die(o)

Next ==
    \/ \E o \in Crew : Command(o)
    \/ \E p \in Product : Application(p) \/ \E row \in Rows : Review(p, row)

Spec == Init /\ [][Next]_vars

-----------------------------------------------------------------------------
(* The audits: what they would answer now. *)

Candidates == {row.product : row \in approved}
Applied == {p \in Product : V2Of(records[p]) # {}}

\* audit_records
ApplyAudit ==
    IF \/ ~(Applied \subseteq Candidates)
       \/ \E p \in Applied :
            LET recs == records[p]
                others == TotalsOf(recs) \ V2Of(recs)
            IN  \/ Cardinality(V2Of(recs)) > 1
                \/ \E i \in others : IsManual(recs[i]) \/ HasValue(recs[i])
    THEN "fail"
    ELSE IF Candidates \subseteq Applied THEN "pass" ELSE "warn"

Decisions(file) == [p \in DOMAIN file |-> file[p].action]

\* _resolve_proposals: the file serves only while it agrees with the policy, or
\* when no product with a record is classified.
Resolved ==
    IF proposals = NoFile THEN Proposals
    ELSE IF \A p \in Product : records[p] # <<>> => group[p] = Unclassified
         THEN proposals
    ELSE IF Decisions(proposals) = Decisions(Proposals) THEN proposals
    ELSE Proposals

\* One product of audit_split; both halves missing is no fault.
SplitIsSound(p, action) ==
    LET recs == records[p]
        plants == HalvesOf(recs, "plant_protein_pct")
        animals == HalvesOf(recs, "animal_protein_pct")
    IN  /\ plants = {} <=> animals = {}
        /\ plants # {} =>
            /\ action = "would_split"
            /\ Cardinality(plants) = 1 /\ Cardinality(animals) = 1
            /\ \A i \in DOMAIN recs : ~IsManual(recs[i])
            /\ recs[Min(plants)].value + recs[Min(animals)].value
                    = recs[Max(V2Of(recs))].value

\* audit_split, of the file or of the proposals made from the records.
SplitAudit(file) ==
    IF \E p \in DOMAIN file : ~SplitIsSound(p, file[p].action) THEN "fail"
    ELSE IF \E p \in DOMAIN file :
                /\ file[p].action = "would_split"
                /\ HalvesOf(records[p], "plant_protein_pct") = {}
         THEN "warn"
    ELSE "pass"

-----------------------------------------------------------------------------
(* Properties *)

TypeOK ==
    /\ Rows \subseteq Row /\ sheet \in [Product -> Rows]
    /\ group \in [Product -> PlantGroups \cup
                    {Unclassified, "animal_core", "composite_products"}]
    /\ approved # NoFile =>
        approved \subseteq [product : Product, value : Protein \cup {NoValue}]

\* When both audits pass, the calculation uses what they verified: each approved
\* product has the V2 total and no other source, and the halves it is calculated
\* with are either both missing or add up to it, "pilot_apply_verified" and
\* "split_apply_verified" (audit_nevo_v2_apply.py, audit_nevo_v2_protein_split.py).
VerifiedIsUsed ==
    approved # NoFile /\ ApplyAudit = "pass" /\ SplitAudit(Resolved) = "pass" =>
        \A p \in Candidates :
            LET used == Selected(records[p])
            IN  /\ used.source = "nevo"
                /\ used.pct \in {records[p][i].value : i \in V2Of(records[p])}
                /\ group[p] \in PlantGroups \cup {"animal_core"} => used.plant # NoValue
                /\ used.plant # NoValue => used.plant + used.animal = used.pct

\* With one operator nothing is applied twice, whatever is repeated after a
\* command that died: one V2 total for a product, one half of each kind, and two
\* halves are of one proposal ("Idempotency is enforced at APPLY time",
\* propose_nevo_v2_protein_split.py:58).
OneOperator == \A a, b \in Crew : a = b

OnceApplied(recs) ==
    LET plants == HalvesOf(recs, "plant_protein_pct")
        animals == HalvesOf(recs, "animal_protein_pct")
    IN  /\ Cardinality(V2Of(recs)) <= 1
        /\ Cardinality(plants) <= 1 /\ Cardinality(animals) <= 1
        /\ plants # {} /\ animals # {} =>
            recs[Min(plants)].value + recs[Min(animals)].value
                = recs[Min(V2Of(recs))].value

AppliedOnce == OneOperator => \A p \in Product : OnceApplied(records[p])
=============================================================================

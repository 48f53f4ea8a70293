------------------------------- MODULE Workflow -------------------------------
(***************************************************************************)
(* The guided workflow (api/workflow.py): the status of each step, the     *)
(* reasons that block a calculation, and the step the wizard leads to, as  *)
(* a function of the counts gathered from the store.                       *)
(*                                                                         *)
(* The counts c: whether the project enables pt and wwf, uploads, products,*)
(* for Protein Tracker how many products there are, are classified, have an*)
(* open review, miss a protein value and are eligible; for WWF how many    *)
(* there are, are classified, unknown and in review; whether enrichment was*)
(* ever attempted, and runs.                                               *)
(***************************************************************************)
EXTENDS Integers, Sequences, FiniteSetsExt

StepOrder ==
    <<"upload", "methodology", "mapping", "ingestion", "ai_classification",
      "manual_classification_review", "nutrition_enrichment_nevo",
      "nutrition_enrichment_ciqual", "nutrition_validation", "calculation", "report">>
Step == {StepOrder[i] : i \in DOMAIN StepOrder}

UploadStatus(c) == IF c.uploads > 0 THEN "complete" ELSE "needs_action"
MappingStatus(c) ==
    CASE c.products > 0 -> "complete"
      [] c.products = 0 /\ c.uploads > 0 -> "needs_action"
      [] OTHER -> "locked"
IngestionStatus(c) == IF c.products > 0 THEN "complete" ELSE "locked"

\* Both methodologies count for the classification step.
ToClassify(c) == (IF c.pt THEN c.ptProducts ELSE 0) + (IF c.wwf THEN c.wwfProducts ELSE 0)
Classified(c) ==
    (IF c.pt THEN c.ptClassified ELSE 0) + (IF c.wwf THEN c.wwfClassified ELSE 0)
ClassificationStatus(c) ==
    CASE ToClassify(c) = 0 -> "locked"
      [] ToClassify(c) > 0 /\ Classified(c) >= ToClassify(c) -> "complete"
      [] OTHER -> "needs_action"

\* The steps that only Protein Tracker has.
ReviewStatus(c) ==
    CASE ~c.pt -> "not_needed"
      [] c.pt /\ c.ptInReview > 0 -> "needs_action"
      [] c.pt /\ c.ptInReview = 0 /\ c.ptProducts = 0 -> "locked"
      [] OTHER -> "not_needed"
NevoStatus(c) ==
    CASE ~c.pt -> "not_needed"
      [] c.pt /\ c.ptProducts = 0 -> "locked"
      [] c.pt /\ c.ptProducts > 0 /\ c.attempted -> "complete"
      [] c.pt /\ c.ptProducts > 0 /\ ~c.attempted /\ c.missing = 0 -> "not_needed"
      [] OTHER -> "available"
NutritionStatus(c) ==
    CASE ~c.pt -> "not_needed"
      [] c.pt /\ c.ptProducts = 0 -> "locked"
      [] c.pt /\ c.ptProducts > 0 /\ c.missing = 0 -> "complete"
      [] OTHER -> "needs_action"

When(condition, code) == IF condition THEN {code} ELSE {}

\* What blocks Protein Tracker; that nothing is eligible is a reason of its own
\* only if there is no other.
PTGaps(c) ==
    When(c.ptProducts = 0, "no_eligible_products")
        \cup When(c.ptClassified < c.ptProducts, "classification_required")
        \cup When(c.missing > 0, "nutrition_required")
PTBlockers(c) ==
    PTGaps(c) \cup When(PTGaps(c) = {} /\ c.ptEligible = 0, "no_eligible_products")

WWFEligible(c) == Max({0, c.wwfClassified - c.wwfUnknown})
\* Mutant: products that are all unknown do not block.
WWFBlockersUnlessUnknown(c) ==
    When(c.wwfProducts = 0, "no_eligible_products_wwf")
        \cup When(c.wwfClassified < c.wwfProducts, "classification_required_wwf")
WWFBlockers(c) ==
    When(c.wwfProducts = 0, "no_eligible_products_wwf")
        \cup When(c.wwfClassified < c.wwfProducts, "classification_required_wwf")
        \cup When(c.wwfProducts > 0 /\ WWFEligible(c) = 0
                    /\ c.wwfClassified >= c.wwfProducts, "no_eligible_products_wwf")

Blockers(c) ==
    (IF c.pt THEN PTBlockers(c) ELSE {}) \cup (IF c.wwf THEN WWFBlockers(c) ELSE {})
EligibleRows(c) ==
    (IF c.pt THEN c.ptEligible ELSE 0) + (IF c.wwf THEN WWFEligible(c) ELSE 0)

CalculationStatus(c) ==
    CASE c.runs > 0 -> "complete"
      [] c.runs = 0 /\ Blockers(c) # {} -> "blocked"
      [] c.runs = 0 /\ Blockers(c) = {} /\ EligibleRows(c) > 0 -> "ready"
      [] OTHER -> "locked"

StatusOf(c) ==
    [upload |-> UploadStatus(c), methodology |-> UploadStatus(c),
     mapping |-> MappingStatus(c), ingestion |-> IngestionStatus(c),
     ai_classification |-> ClassificationStatus(c),
     manual_classification_review |-> ReviewStatus(c),
     nutrition_enrichment_nevo |-> NevoStatus(c),
     nutrition_enrichment_ciqual |-> "not_needed",
     nutrition_validation |-> NutritionStatus(c),
     calculation |-> CalculationStatus(c),
     report |-> IF c.runs > 0 THEN "complete" ELSE "locked"]

Accessible(c, step) ==
    /\ step # "nutrition_enrichment_ciqual"
    /\ step \in {"upload", "methodology"} \/ StatusOf(c)[step] # "locked"

\* The first step that has something to do, or the last.
Current(c) ==
    LET waiting == {i \in DOMAIN StepOrder :
                        StatusOf(c)[StepOrder[i]]
                            \notin {"complete", "not_needed", "locked"}}
    IN  StepOrder[IF waiting = {} THEN Len(StepOrder) ELSE Min(waiting)]

\* The steps of the wizard, for the progress bar.
WizardSteps == Step \ {"mapping", "ingestion", "nutrition_enrichment_ciqual"}
Progress(c) ==
    (100 * Quantify(WizardSteps, LAMBDA s :
        StatusOf(c)[s] \in {"complete", "not_needed"})) \div Cardinality(WizardSteps)

\* The gate of create_run: ready, or in partial mode nothing but gaps.
Gaps == {"nutrition_required", "review_pending", "classification_required"}
RunReady(c, partial) ==
    \/ CalculationStatus(c) = "ready"
    \/ partial /\ Blockers(c) \ Gaps = {}

-----------------------------------------------------------------------------
(* Properties of the counts *)

\* The wizard never leads to a step that is closed, and shows 100 percent only
\* when nothing waits and there is a report.
LeadsOn(c) ==
    /\ Accessible(c, Current(c))
    /\ Progress(c) = 100 => Current(c) = "report" /\ c.runs > 0
=============================================================================

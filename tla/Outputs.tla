------------------------------- MODULE Outputs -------------------------------
(***************************************************************************)
(* What stands around a run: its exports (the extended module), the        *)
(* scenarios on it, its recommendations, the pipeline jobs that compute    *)
(* and render, and the commands that apply the reviewed NEVO matches it is *)
(* calculated with.  They share no table, so what must hold is said of     *)
(* each of them; a worker serves requests of any kind.                     *)
(***************************************************************************)
EXTENDS ReportExports

CONSTANTS
    Operation, Order, MaxScenarios, MaxOperations,  \* of scenarios
    Action, MaxGenerated,                           \* of recommendations
    Key, MaxJobs,                                   \* of pipeline jobs
    Product, Operator, Rows, Protein, NoFile,       \* of the NEVO matches
    MaxReviews, MaxEntries, MaxFaults

VARIABLES
    scenarios, shown,
    recs, generated,
    jobs, lost,
    sheet, summary, approved, plan, proposals, records, group, cmd, spent

Scen == INSTANCE Scenarios
Recs == INSTANCE Recommendations WITH Store <- "memory"
Jobs == INSTANCE PipelineJobs WITH Store <- "postgres"
Nevo == INSTANCE NevoApply

\* What the constants are: the module that gives them values assumes it.
OutputsAssumption ==
    /\ ConstantsAssumption
    /\ Scen!ConstantsAssumption /\ Recs!ConstantsAssumption
    /\ Jobs!ConstantsAssumption
    /\ Nevo!ConstantsAssumption /\ Rows \subseteq Nevo!Row

-----------------------------------------------------------------------------
(* Properties, and ClientsGetApproved of ReportExports *)

\* An active scenario has a result, and clients never see one without
\* (run_scenario saves before it promotes; Scenarios).
ActiveHasResult == Scen!ActiveHasResult

\* Generating again keeps what was decided: in memory, see Recommendations.
PromotedIsKept == Recs!PromotedIsKept

\* One execution for each idempotency key, on Postgres: the unique index of
\* migration 0019 (PipelineJobs).
OneAtATime == Jobs!OneAtATime

\* What the NEVO audits verified is what is calculated with, and one operator
\* applies nothing twice (NevoApply).
VerifiedIsUsed == Nevo!VerifiedIsUsed /\ Nevo!AppliedOnce
=============================================================================

------------------------------ MODULE MCOutputs ------------------------------
(***************************************************************************)
(* What stands around a run, on small instances.  The parts share no       *)
(* table, so they are checked side by side: a behaviour is about one of    *)
(* them, on one store or with one crew, and MCInit chooses which.  What a  *)
(* behaviour is not about stays as it was.                                 *)
(***************************************************************************)
EXTENDS Outputs

VARIABLES focus, store

\* Exports in memory are those of the extended module.
Postgres == INSTANCE ReportExports WITH Store <- "postgres", MaxDownloads <- 1

-----------------------------------------------------------------------------
(* The rows of the review package: the reviewer approves what the matcher  *)
(* offers, replaces it by a food without a value, is wrong to approve, ... *)

Cells == INSTANCE Enrichment

Typed(there) == [code |-> there, name |-> there, value |-> Cells!NoValue]
Filled(decision, p0) ==
    [decision |-> decision, p0 |-> p0, nonFood |-> FALSE, override |-> FALSE,
     offered |-> [code |-> TRUE, name |-> TRUE, value |-> 1],
     typed |-> Typed(decision = "replace")]
Good == Filled("approve", FALSE)
Rejected == Filled("reject", FALSE)

\* One operator on one product, two on one product, one on two products.
Crews ==
    [alone |-> [operators |-> {"anna"}, products |-> {"soup"},
                rows |-> {Good, Filled("approve", TRUE), Filled("replace", FALSE),
                          Filled("", FALSE)}],
     together |-> [operators |-> {"anna", "bob"}, products |-> {"soup"},
                   rows |-> {Good}],
     pair |-> [operators |-> {"anna"}, products |-> {"soup", "ham"},
               rows |-> {Good, Rejected}]]
AllRows == UNION {Crews[c].rows : c \in DOMAIN Crews}

ASSUME InstanceIsMeant ==
    /\ OutputsAssumption /\ Store = "memory" /\ Postgres!ConstantsAssumption

-----------------------------------------------------------------------------
exportVars == <<exports, audit, given>>
recVars == <<recs, generated>>
scenarioVars == <<scenarios, shown>>
jobVars == <<jobs, lost>>
choice == <<focus, store>>
nevoVars == <<sheet, summary, approved, plan, proposals, records, group, cmd, spent>>
allVars == <<choice, exportVars, recVars, scenarioVars, jobVars, nevoVars, pc, req, deaths>>

Subjects ==
    {<<"exports", "memory">>, <<"exports", "postgres">>, <<"recommendations", "memory">>,
     <<"scenarios", "postgres">>, <<"jobs", "postgres">>}
        \cup {"nevo"} \X DOMAIN Crews

\* A crew has its operators and its rows, and leaves the other products alone.
CrewInit ==
    LET crew == Crews[store]
    IN  /\ DOMAIN cmd = crew.operators
        /\ \A p \in Product : sheet[p] \in IF p \in crew.products THEN crew.rows
                                           ELSE {Rejected}
        /\ \A p \in Product \ crew.products : group[p] = Nevo!Unclassified

NobodyInit ==
    /\ cmd = <<>> /\ sheet = [p \in Product |-> Rejected]
    /\ group = [p \in Product |-> Nevo!Unclassified]

MCInit ==
    /\ \E c \in Subjects : focus = c[1] /\ store = c[2]
    /\ exports = <<>> /\ audit = {} /\ given = {}
    /\ recs = {} /\ generated = 0
    /\ scenarios = <<>> /\ shown = {}
    /\ jobs = <<>> /\ lost = {}
    /\ deaths = 0
    /\ CASE focus = "recommendations" -> Recs!Init
         [] focus = "scenarios" -> Scen!Init
         [] focus = "jobs" -> Jobs!Init
         [] OTHER -> Init
    /\ Nevo!Init
    /\ IF focus = "nevo" THEN CrewInit ELSE NobodyInit

Exports ==
    /\ focus = "exports"
    /\ \/ store = "memory" /\ Next
       \/ store = "postgres" /\ Postgres!Next
    /\ UNCHANGED <<choice, recVars, scenarioVars, jobVars, nevoVars>>

Recommend ==
    /\ focus = "recommendations"
    /\ Recs!Next
    /\ UNCHANGED <<choice, exportVars, scenarioVars, jobVars, nevoVars, deaths>>

Scenario ==
    /\ focus = "scenarios"
    /\ Scen!Next
    /\ UNCHANGED <<choice, exportVars, recVars, jobVars, nevoVars>>

RunJob ==
    /\ focus = "jobs"
    /\ Jobs!Next
    /\ UNCHANGED <<choice, exportVars, recVars, scenarioVars, nevoVars>>

\* Two operators meet the application, two products a reviewer.
ApplyNevo ==
    /\ focus = "nevo"
    /\ \/ \E o \in Nevo!Crew : Nevo!Command(o)
       \/ \E p \in Crews[store].products :
            \/ store # "pair" /\ Nevo!Application(p)
            \/ store # "together" /\ \E row \in Crews[store].rows : Nevo!Review(p, row)
    /\ UNCHANGED <<choice, exportVars, recVars, scenarioVars, jobVars, pc, req, deaths>>

MCNext == Exports \/ Recommend \/ Scenario \/ RunJob \/ ApplyNevo

\* A request of a pipeline job that was accepted is served to its end.
ServeJob(w) ==
    /\ focus = "jobs"
    /\ Jobs!Serve(w)
    /\ UNCHANGED <<choice, exportVars, recVars, scenarioVars, nevoVars>>

Fairness == \A w \in Worker : WF_allVars(ServeJob(w))

MCSpec == MCInit /\ [][MCNext]_allVars /\ Fairness

-----------------------------------------------------------------------------
(* Properties: those of Outputs and ClientsGetApproved, and *)

\* Every pipeline job ends unless its own request dies (PipelineJobs).
JobsEnd == focus = "jobs" => Jobs!JobsEnd
=============================================================================

------------------------------ MODULE Scenarios ------------------------------
(***************************************************************************)
(* What-if scenarios over a finished Protein Tracker run (api/routes.py,   *)
(* "Scenarios"): operations are added, the projection is run and its       *)
(* result replaces the earlier one; clients see a scenario once it is      *)
(* active.  The projection itself is module Projection.                    *)
(***************************************************************************)
EXTENDS Naturals, Sequences, FiniteSets, SequencesExt

CONSTANTS
    Worker,
    Operation,      \* the operations staff may add
    Order,          \* the positions they may give them
    MaxScenarios,   \* bound: scenarios ever created
    MaxOperations,  \* bound: operations of one scenario
    MaxDeaths       \* bound: requests that die

\* What the constants are: the module that gives them values assumes it.
ConstantsAssumption ==
    /\ Order \subseteq Nat
    /\ MaxScenarios \in Nat /\ MaxOperations \in Nat /\ MaxDeaths \in Nat

VARIABLES
    scenarios,  \* the rows of scenarios, with their operations and result
    shown,      \* history: results a client has read, per scenario
    pc, req,    \* the request of a worker
    deaths

vars == <<scenarios, shown, pc, req, deaths>>

NoResult == <<"none">>
Result(ops) == <<"projected", ops>>
Operations == Seq([type : Operation, order : Order])
IsResult(r) == r = NoResult \/ (r[1] = "projected" /\ r[2] \in Operations)

IsScenario(row) ==
    /\ row.status \in {"draft", "active"}
    /\ row.operations \in Operations
    /\ IsResult(row.result)

Draft == [status |-> "draft", operations |-> <<>>, result |-> NoResult]
ScenarioId == DOMAIN scenarios

\* The operations in the order they are applied: sorted by their position, and
\* as they were added where positions are equal.
Applied(operations) ==
    SortSeq(operations, LAMBDA a, b : a.order < b.order)

Idle == [scenario |-> 0, status |-> "draft", result |-> NoResult]

Init ==
    /\ scenarios = <<>>
    /\ shown = {}
    /\ pc = [w \in Worker |-> "idle"]
    /\ req = [w \in Worker |-> Idle]
    /\ deaths = 0

Goto(w, label, request) ==
    /\ pc' = [pc EXCEPT ![w] = label]
    /\ req' = [req EXCEPT ![w] = request]

(***************************************************************************)
(* Create a scenario for a Protein Tracker run, and add an operation to    *)
(* it; the type is checked, the parameters only when it is run.            *)
(***************************************************************************)
CreateScenario ==
    /\ Len(scenarios) < MaxScenarios
    /\ scenarios' = Append(scenarios, Draft)
    /\ UNCHANGED <<shown, pc, req, deaths>>

AddOperation ==
    /\ \E s \in ScenarioId, o \in Operation, n \in Order :
        /\ Len(scenarios[s].operations) < MaxOperations
        /\ scenarios' = [scenarios EXCEPT ![s].operations =
                            Append(@, [type |-> o, order |-> n])]
    /\ UNCHANGED <<shown, pc, req, deaths>>

(***************************************************************************)
(* Run: the scenario is read ...                                           *)
(***************************************************************************)
RunRead(w) ==
    /\ pc[w] = "idle"
    /\ \E s \in ScenarioId :
        Goto(w, "project", [Idle EXCEPT !.scenario = s,
                                        !.status = scenarios[s].status])
    /\ UNCHANGED <<scenarios, shown, deaths>>

(***************************************************************************)
(* ... its operations are listed and projected ...                         *)
(***************************************************************************)
Project(w) ==
    /\ pc[w] = "project"
    /\ Goto(w, "save", [req[w] EXCEPT !.result =
            Result(Applied(scenarios[req[w].scenario].operations))])
    /\ UNCHANGED <<scenarios, shown, deaths>>

\* Mutant: the scenario is promoted first.
SaveResultPromoting(w) ==
    /\ pc[w] = "save"
    /\ scenarios' = [scenarios EXCEPT ![req[w].scenario].status = "active"]
    /\ Goto(w, "promote", req[w])
    /\ UNCHANGED <<shown, deaths>>
(***************************************************************************)
(* ... the result replaces whatever result there is ...                    *)
(***************************************************************************)
SaveResult(w) ==
    /\ pc[w] = "save"
    /\ scenarios' = [scenarios EXCEPT ![req[w].scenario].result = req[w].result]
    /\ Goto(w, "promote", req[w])
    /\ UNCHANGED <<shown, deaths>>

(***************************************************************************)
(* ... and a scenario that was a draft when it was read becomes active.    *)
(***************************************************************************)
Promote(w) ==
    /\ pc[w] = "promote"
    /\ scenarios' = IF req[w].status = "draft"
                    THEN [scenarios EXCEPT ![req[w].scenario].status = "active"]
                    ELSE scenarios
    /\ Goto(w, "idle", Idle)
    /\ UNCHANGED <<shown, deaths>>

(***************************************************************************)
(* A client of the organisation reads the result of an active scenario.    *)
(***************************************************************************)
ReadResult ==
    /\ \E s \in ScenarioId :
        /\ scenarios[s].status = "active"
        /\ shown' = shown \cup {<<s, scenarios[s].result>>}
    /\ UNCHANGED <<scenarios, pc, req, deaths>>

Die(w) ==
    /\ pc[w] # "idle"
    /\ deaths < MaxDeaths
    /\ deaths' = deaths + 1
    /\ Goto(w, "idle", Idle)
    /\ UNCHANGED <<scenarios, shown>>

Next ==
    \/ CreateScenario \/ AddOperation \/ ReadResult
    \/ \E w \in Worker :
        RunRead(w) \/ Project(w) \/ SaveResult(w) \/ Promote(w) \/ Die(w)

Spec == Init /\ [][Next]_vars

-----------------------------------------------------------------------------
(* Properties *)

TypeOK ==
    /\ \A s \in ScenarioId : IsScenario(scenarios[s])
    /\ pc \in [Worker -> {"idle", "project", "save", "promote"}]
    /\ \A w \in Worker :
        /\ req[w].status \in {"draft", "active"}
        /\ IsResult(req[w].result)
        /\ pc[w] # "idle" => req[w].scenario \in ScenarioId
    /\ deaths \in 0 .. MaxDeaths

\* An active scenario has a result, wherever a run of it dies: a client that
\* sees the scenario is never told to "run the scenario first".
ActiveHasResult ==
    /\ \A s \in ScenarioId :
        scenarios[s].status = "active" => scenarios[s].result # NoResult
    /\ \A e \in shown : e[2] # NoResult
=============================================================================

---------------------------- MODULE OutputsProofs ----------------------------
(***************************************************************************)
(* Proofs about what surrounds a run: Scenarios, for any number of         *)
(* scenarios, operations and overlapping runs; PipelineJobs, for any       *)
(* number of requests, keys and jobs; Recommendations in memory, for any   *)
(* number of generations and transitions; and NevoApply, for any package,  *)
(* any catalogue, any number of failures and, but for AppliedOnce, any     *)
(* number of operators.                                                    *)
(***************************************************************************)
EXTENDS Outputs, FiniteSetTheorems, SequenceTheorems, NaturalsInduction,
        WellFoundedInduction, TLAPS

-----------------------------------------------------------------------------
(* Scenarios *)

Projected == {Scen!Result(Scen!Applied(o)) : o \in Scen!Operations}

Row == [status : {"draft", "active"}, operations : Scen!Operations,
        result : Projected \cup {Scen!NoResult}]

Types ==
    /\ scenarios \in Seq(Row)
    /\ pc \in [Worker -> {"idle", "project", "save", "promote"}]
    /\ req \in [Worker -> [scenario : Nat, status : {"draft", "active"},
                           result : Projected \cup {Scen!NoResult}]]

\* A run is about a scenario that exists, saves a result that was projected, and
\* promotes only after some result has been saved.
RunsInOrder ==
    \A w \in Worker :
        /\ pc[w] # "idle" => req[w].scenario \in Scen!ScenarioId
        /\ pc[w] = "save" => req[w].result \in Projected
        /\ pc[w] = "promote" => scenarios[req[w].scenario].result # Scen!NoResult

IInv == Types /\ RunsInOrder /\ ActiveHasResult

LEMMA ProjectedIsAResult == Scen!NoResult \notin Projected
<1> SUFFICES ASSUME NEW o \in Scen!Operations,
                    Scen!NoResult = Scen!Result(Scen!Applied(o))
             PROVE  FALSE
  BY DEF Projected
<1>1. Len(<<"none">>) = 1 /\ Len(<<"projected", Scen!Applied(o)>>) = 2
  OBVIOUS
<1> QED
  BY <1>1 DEF Scen!NoResult, Scen!Result

\* The rows, by position.
LEMMA ScenarioRows ==
    ASSUME Types
    PROVE  /\ Len(scenarios) \in Nat /\ Scen!ScenarioId = 1 .. Len(scenarios)
           /\ scenarios \in [Scen!ScenarioId -> Row]
BY DEF Types, Scen!ScenarioId

\* A step that rewrites one row and does not take its result away.
LEMMA RowWrite ==
    ASSUME IInv, NEW s \in Scen!ScenarioId, NEW row \in Row,
           row.result = Scen!NoResult => scenarios[s].result = Scen!NoResult,
           row.status = "active" => row.result # Scen!NoResult,
           scenarios' = [scenarios EXCEPT ![s] = row], shown' = shown,
           pc' \in [Worker -> {"idle", "project", "save", "promote"}],
           req' \in [Worker -> [scenario : Nat, status : {"draft", "active"},
                                result : Projected \cup {Scen!NoResult}]],
           \A w \in Worker : pc'[w] # "idle" =>
                /\ req'[w].scenario = req[w].scenario /\ pc[w] # "idle"
                /\ pc'[w] = "save" => req'[w].result \in Projected
                /\ pc'[w] = "promote" =>
                    pc[w] = "promote" \/ (req[w].scenario = s /\ row.result # Scen!NoResult)
    PROVE  IInv'
<1>1. /\ Len(scenarios) \in Nat /\ Scen!ScenarioId = 1 .. Len(scenarios)
      /\ scenarios \in [Scen!ScenarioId -> Row]
  BY ScenarioRows DEF IInv
<1>2. scenarios' \in [Scen!ScenarioId -> Row] /\ Scen!ScenarioId' = Scen!ScenarioId
  BY <1>1 DEF Scen!ScenarioId
<1>3. scenarios' \in Seq(Row)
  BY <1>1, <1>2
<1>4. \A k \in Scen!ScenarioId :
        /\ scenarios'[k].result = Scen!NoResult => scenarios[k].result = Scen!NoResult
        /\ scenarios'[k].status = "active" => scenarios'[k].result # Scen!NoResult
  BY <1>1 DEF IInv, ActiveHasResult, Scen!ActiveHasResult
<1>5. scenarios'[s] = row
  BY <1>1
<1>6. RunsInOrder'
  BY <1>2, <1>4, <1>5 DEF IInv, RunsInOrder
<1>7. ActiveHasResult'
  BY <1>2, <1>4 DEF IInv, ActiveHasResult, Scen!ActiveHasResult
<1> QED
  BY <1>3, <1>6, <1>7 DEF IInv, Types

\* A step of one request that leaves the scenarios alone.
LEMMA RequestStep ==
    ASSUME IInv, NEW w \in Worker, NEW next, NEW r,
           next \in {"idle", "project", "save", "promote"},
           r \in [scenario : Nat, status : {"draft", "active"},
                  result : Projected \cup {Scen!NoResult}],
           Scen!Goto(w, next, r),
           next # "idle" => r.scenario \in Scen!ScenarioId,
           next = "save" => r.result \in Projected,
           next # "promote",
           UNCHANGED <<scenarios, shown>>
    PROVE  IInv'
<1>1. pc' = [pc EXCEPT ![w] = next] /\ req' = [req EXCEPT ![w] = r]
  BY DEF Scen!Goto
<1>2. Types'
  BY <1>1 DEF IInv, Types
<1>3. RunsInOrder'
  BY <1>1 DEF IInv, Types, RunsInOrder, Scen!ScenarioId
<1>4. ActiveHasResult'
  BY DEF IInv, ActiveHasResult, Scen!ActiveHasResult, Scen!ScenarioId
<1> QED
  BY <1>2, <1>3, <1>4 DEF IInv

LEMMA InitIInv == Scen!Init => IInv
<1> SUFFICES ASSUME Scen!Init PROVE IInv
  OBVIOUS
<1>1. <<>> \in Seq(Row) /\ DOMAIN <<>> = {}
  OBVIOUS
<1> QED
  BY <1>1 DEF Scen!Init, IInv, Types, RunsInOrder,
              ActiveHasResult, Scen!ActiveHasResult, Scen!ScenarioId, Scen!Idle

LEMMA CreateStep == ASSUME IInv, Scen!CreateScenario PROVE IInv'
<1> DEFINE n == Len(scenarios) + 1
<1>1. /\ scenarios' = Append(scenarios, Scen!Draft) /\ UNCHANGED <<shown, pc, req>>
  BY DEF Scen!CreateScenario
<1>2. Scen!Draft \in Row /\ Scen!Draft.status = "draft"
  <2>1. <<>> \in Scen!Operations
    BY DEF Scen!Operations
  <2> QED
    BY <2>1 DEF Scen!Draft, Row
<1>3. scenarios \in Seq(Row) /\ Len(scenarios) \in Nat
  BY DEF IInv, Types
<1>4. /\ scenarios' \in Seq(Row) /\ DOMAIN scenarios' = 1 .. n
      /\ DOMAIN scenarios = 1 .. Len(scenarios)
      /\ scenarios'[n] = Scen!Draft
      /\ \A k \in 1 .. Len(scenarios) : scenarios'[k] = scenarios[k]
  BY <1>1, <1>2, <1>3
<1>5. DOMAIN scenarios' = DOMAIN scenarios \cup {n}
  BY <1>3, <1>4
<1> HIDE DEF n
<1>6. Types'
  BY <1>1, <1>4 DEF IInv, Types
<1>7. RunsInOrder'
  BY <1>1, <1>4, <1>5 DEF IInv, RunsInOrder, Scen!ScenarioId
<1>8. ActiveHasResult'
  BY <1>1, <1>2, <1>4, <1>5 DEF IInv, ActiveHasResult, Scen!ActiveHasResult, Scen!ScenarioId
<1> QED
  BY <1>6, <1>7, <1>8 DEF IInv

LEMMA AddStep == ASSUME IInv, Scen!AddOperation PROVE IInv'
<1>1. PICK s \in Scen!ScenarioId, o \in Operation, n \in Order :
        scenarios' = [scenarios EXCEPT ![s].operations =
                            Append(@, [type |-> o, order |-> n])]
  BY DEF Scen!AddOperation
<1>2. UNCHANGED <<shown, pc, req>>
  BY DEF Scen!AddOperation
<1> DEFINE ops == Append(scenarios[s].operations, [type |-> o, order |-> n])
           row == [scenarios[s] EXCEPT !.operations = ops]
<1>3. scenarios[s] \in Row /\ scenarios \in [Scen!ScenarioId -> Row]
  BY ScenarioRows DEF IInv
<1>4. ops \in Scen!Operations
  BY <1>3 DEF Row, Scen!Operations
<1>5. scenarios' = [scenarios EXCEPT ![s] = row]
  BY <1>1
<1> HIDE DEF ops
<1>6. row \in Row /\ row.result = scenarios[s].result /\ row.status = scenarios[s].status
  BY <1>3, <1>4 DEF Row
<1> HIDE DEF row
<1>7. row.status = "active" => row.result # Scen!NoResult
  BY <1>6 DEF IInv, ActiveHasResult, Scen!ActiveHasResult
<1>8. \A w \in Worker : pc'[w] = "save" => req'[w].result \in Projected
  BY <1>2 DEF IInv, RunsInOrder
<1> QED
  BY <1>2, <1>5, <1>6, <1>7, <1>8, RowWrite DEF IInv, Types

LEMMA SaveStep == ASSUME IInv, NEW w \in Worker, Scen!SaveResult(w) PROVE IInv'
<1> DEFINE s == req[w].scenario
           row == [scenarios[s] EXCEPT !.result = req[w].result]
<1>1. /\ scenarios' = [scenarios EXCEPT ![s] = row]
      /\ pc' = [pc EXCEPT ![w] = "promote"] /\ req' = [req EXCEPT ![w] = req[w]]
      /\ shown' = shown /\ pc[w] = "save"
  BY DEF Scen!SaveResult, Scen!Goto
<1>2. s \in Scen!ScenarioId /\ req[w].result \in Projected
  BY <1>1 DEF IInv, RunsInOrder
<1>3. scenarios[s] \in Row
  BY <1>2, ScenarioRows DEF IInv
<1>4. row \in Row /\ row.result # Scen!NoResult
  BY <1>2, <1>3, ProjectedIsAResult DEF Row
<1> HIDE DEF row
<1>5. /\ pc' \in [Worker -> {"idle", "project", "save", "promote"}]
      /\ req' = req
      /\ \A v \in Worker \ {w} : pc'[v] = pc[v]
  BY <1>1 DEF IInv, Types
<1>6. \A v \in Worker : pc'[v] # "idle" =>
        /\ req'[v].scenario = req[v].scenario /\ pc[v] # "idle"
        /\ pc'[v] = "save" => req'[v].result \in Projected
        /\ pc'[v] = "promote" =>
            pc[v] = "promote" \/ (req[v].scenario = s /\ row.result # Scen!NoResult)
  BY <1>1, <1>4, <1>5 DEF IInv, RunsInOrder, Types
<1>7. req' \in [Worker -> [scenario : Nat, status : {"draft", "active"},
                           result : Projected \cup {Scen!NoResult}]]
  BY <1>5 DEF IInv, Types
<1>8. /\ scenarios' = [scenarios EXCEPT ![s] = row] /\ shown' = shown
      /\ row.result = Scen!NoResult => scenarios[s].result = Scen!NoResult
      /\ row.status = "active" => row.result # Scen!NoResult
      /\ s \in Scen!ScenarioId /\ row \in Row
  BY <1>1, <1>2, <1>4
<1>9. pc' \in [Worker -> {"idle", "project", "save", "promote"}]
  BY <1>5
<1> HIDE DEF s
<1> QED
  BY <1>6, <1>7, <1>8, <1>9, RowWrite

LEMMA PromoteStep == ASSUME IInv, NEW w \in Worker, Scen!Promote(w) PROVE IInv'
<1> DEFINE s == req[w].scenario
           row == [scenarios[s] EXCEPT !.status = "active"]
<1>1. /\ scenarios' \in {scenarios, [scenarios EXCEPT ![s] = row]}
      /\ pc' = [pc EXCEPT ![w] = "idle"] /\ req' = [req EXCEPT ![w] = Scen!Idle]
      /\ shown' = shown /\ pc[w] = "promote"
  BY DEF Scen!Promote, Scen!Goto
<1>2. s \in Scen!ScenarioId /\ scenarios[s].result # Scen!NoResult
  BY <1>1 DEF IInv, RunsInOrder
<1>3. scenarios[s] \in Row /\ scenarios \in [Scen!ScenarioId -> Row]
  BY <1>2, ScenarioRows DEF IInv
<1>4. row \in Row /\ row.result = scenarios[s].result
  BY <1>3 DEF Row
<1> HIDE DEF row
<1>5. /\ pc' \in [Worker -> {"idle", "project", "save", "promote"}]
      /\ req' \in [Worker -> [scenario : Nat, status : {"draft", "active"},
                              result : Projected \cup {Scen!NoResult}]]
      /\ \A v \in Worker : pc'[v] # "idle" =>
            v # w /\ pc'[v] = pc[v] /\ req'[v] = req[v]
  BY <1>1 DEF IInv, Types, Scen!Idle
<1>6. CASE scenarios' = [scenarios EXCEPT ![s] = row]
  <2>1. \A v \in Worker : pc'[v] # "idle" =>
            /\ req'[v].scenario = req[v].scenario /\ pc[v] # "idle"
            /\ pc'[v] = "save" => req'[v].result \in Projected
            /\ pc'[v] = "promote" => pc[v] = "promote"
    BY <1>5 DEF IInv, RunsInOrder
  <2> QED
    BY <1>1, <1>2, <1>4, <1>5, <1>6, <2>1, RowWrite
<1>7. CASE scenarios' = scenarios
  BY <1>1, <1>5, <1>7 DEF IInv, Types, RunsInOrder,
              ActiveHasResult, Scen!ActiveHasResult, Scen!ScenarioId
<1> QED
  BY <1>1, <1>6, <1>7

LEMMA NextIInv == IInv /\ [Scen!Next]_(Scen!vars) => IInv'
<1> SUFFICES ASSUME IInv, [Scen!Next]_(Scen!vars) PROVE IInv'
  OBVIOUS
<1>1. ASSUME NEW w \in Worker, Scen!RunRead(w) PROVE IInv'
  <2>1. PICK s \in Scen!ScenarioId :
            Scen!Goto(w, "project", [Scen!Idle EXCEPT !.scenario = s,
                                            !.status = scenarios[s].status])
    BY <1>1 DEF Scen!RunRead
  <2>2. s \in Nat /\ scenarios[s] \in Row
    BY ScenarioRows DEF IInv
  <2> DEFINE r == [Scen!Idle EXCEPT !.scenario = s, !.status = scenarios[s].status]
  <2>3. Scen!Idle \in [scenario : Nat, status : {"draft", "active"},
                  result : Projected \cup {Scen!NoResult}]
    BY DEF Scen!Idle
  <2> HIDE DEF Scen!Idle
  <2>4. r \in [scenario : Nat, status : {"draft", "active"},
               result : Projected \cup {Scen!NoResult}]
        /\ r.scenario = s
    BY <2>2, <2>3 DEF Row
  <2>5. Scen!Goto(w, "project", r) /\ UNCHANGED <<scenarios, shown>>
    BY <1>1, <2>1 DEF Scen!RunRead
  <2> HIDE DEF r
  <2> QED
    BY <2>4, <2>5, RequestStep
<1>2. ASSUME NEW w \in Worker, Scen!Project(w) PROVE IInv'
  <2> DEFINE new == Scen!Result(Scen!Applied(scenarios[req[w].scenario].operations))
             r == [req[w] EXCEPT !.result = new]
  <2>1. /\ req[w].scenario \in Scen!ScenarioId
        /\ req[w] \in [scenario : Nat, status : {"draft", "active"},
                       result : Projected \cup {Scen!NoResult}]
    BY <1>2 DEF Scen!Project, IInv, RunsInOrder, Types
  <2>2. scenarios[req[w].scenario].operations \in Scen!Operations
    BY <2>1, ScenarioRows DEF IInv, Row
  <2>3. new \in Projected
    BY <2>2 DEF Projected
  <2> HIDE DEF new
  <2>4. r \in [scenario : Nat, status : {"draft", "active"},
               result : Projected \cup {Scen!NoResult}]
        /\ r.scenario = req[w].scenario /\ r.result = new
    BY <2>1, <2>3
  <2>5. Scen!Goto(w, "save", r) /\ UNCHANGED <<scenarios, shown>>
    BY <1>2 DEF Scen!Project, new
  <2> HIDE DEF r
  <2> QED
    BY <2>1, <2>3, <2>4, <2>5, RequestStep
<1>3. ASSUME NEW w \in Worker, Scen!Die(w) PROVE IInv'
  <2>1. Scen!Goto(w, "idle", Scen!Idle) /\ UNCHANGED <<scenarios, shown>>
    BY <1>3 DEF Scen!Die
  <2>2. Scen!Idle \in [scenario : Nat, status : {"draft", "active"},
                  result : Projected \cup {Scen!NoResult}]
    BY DEF Scen!Idle
  <2> QED
    BY <2>1, <2>2, RequestStep
<1>4. CASE Scen!ReadResult
  <2>1. PICK s \in Scen!ScenarioId :
            /\ scenarios[s].status = "active"
            /\ shown' = shown \cup {<<s, scenarios[s].result>>}
    BY <1>4 DEF Scen!ReadResult
  <2>2. UNCHANGED <<scenarios, pc, req>>
    BY <1>4 DEF Scen!ReadResult
  <2>3. scenarios[s].result # Scen!NoResult
    BY <2>1 DEF IInv, ActiveHasResult, Scen!ActiveHasResult
  <2>4. ActiveHasResult'
    BY <2>1, <2>2, <2>3 DEF IInv, ActiveHasResult, Scen!ActiveHasResult, Scen!ScenarioId
  <2>5. Types' /\ RunsInOrder'
    BY <2>2 DEF IInv, Types, RunsInOrder, Scen!ScenarioId
  <2> QED
    BY <2>4, <2>5 DEF IInv
<1>5. CASE UNCHANGED Scen!vars
  BY <1>5 DEF Scen!vars, IInv, Types, RunsInOrder,
              ActiveHasResult, Scen!ActiveHasResult, Scen!ScenarioId
<1> QED
  BY <1>1, <1>2, <1>3, <1>4, <1>5, CreateStep, AddStep, SaveStep, PromoteStep DEF Scen!Next

\* A scenario that clients can see has a result, and so had every result they
\* were shown, however runs of it overlap and wherever they die
\* (run_scenario saves the result before it promotes the scenario).
THEOREM NoEmptyScenarioShown == Scen!Spec => []ActiveHasResult
<1>1. IInv => ActiveHasResult
  BY DEF IInv
<1> QED
  BY <1>1, InitIInv, NextIInv, PTL DEF Scen!Spec

-----------------------------------------------------------------------------
(* Pipeline jobs *)

\* A request that executes has a job of its key, which is active, and its own.
OwnJob ==
    /\ \A w \in Worker : Jobs!Executing(w) =>
        /\ req[w].job \in Jobs!JobId
        /\ jobs[req[w].job].key = req[w].key
        /\ jobs[req[w].job].status \in Jobs!Active
    /\ \A v, w \in Worker :
        Jobs!Executing(v) /\ Jobs!Executing(w) /\ req[v].job = req[w].job => v = w

\* What the unique index of Postgres enforces.
OneActive ==
    \A i, j \in Jobs!JobId :
        /\ jobs[i].key = jobs[j].key /\ jobs[i].key # Jobs!NoKey
        /\ jobs[i].status \in Jobs!Active /\ jobs[j].status \in Jobs!Active
        => i = j

JobsIInv == Jobs!TypeOK /\ OwnJob /\ OneActive

\* The step that sets the status of the job a request executes.
LEMMA StatusWrite ==
    ASSUME Jobs!TypeOK, NEW w \in Worker, NEW s \in Jobs!Active \cup Jobs!Ended,
           req[w].job \in Jobs!JobId, Jobs!SetStatus(w, s)
    PROVE  /\ jobs' \in Seq(Jobs!Job) /\ DOMAIN jobs' = DOMAIN jobs
           /\ \A j \in DOMAIN jobs :
                /\ jobs'[j].key = jobs[j].key
                /\ jobs'[j].status = IF j = req[w].job THEN s ELSE jobs[j].status
<1> DEFINE k == req[w].job
<1>1. jobs \in Seq(Jobs!Job) /\ k \in 1 .. Len(jobs) /\ Len(jobs) \in Nat
  BY DEF Jobs!TypeOK, Jobs!JobId
<1>2. jobs' = [jobs EXCEPT ![k].status = s]
  BY DEF Jobs!SetStatus
<1> HIDE DEF k
<1>3. jobs \in [1 .. Len(jobs) -> Jobs!Job]
  BY <1>1
<1>4. jobs' \in [1 .. Len(jobs) -> Jobs!Job]
  BY <1>1, <1>2, <1>3 DEF Jobs!Job
<1>5. jobs' \in Seq(Jobs!Job)
  BY <1>1, <1>4
<1>6. \A j \in 1 .. Len(jobs) :
        /\ jobs'[j].key = jobs[j].key
        /\ jobs'[j].status = IF j = k THEN s ELSE jobs[j].status
  BY <1>1, <1>2, <1>3 DEF Jobs!Job
<1> QED
  BY <1>1, <1>3, <1>4, <1>5, <1>6 DEF k

LEMMA JobsInitIInv == ASSUME Jobs!ConstantsAssumption, Jobs!Init PROVE JobsIInv
<1>1. <<>> \in Seq(Jobs!Job) /\ DOMAIN <<>> = {}
  OBVIOUS
<1>2. Jobs!TypeOK
  BY <1>1 DEF Jobs!ConstantsAssumption, Jobs!Init, Jobs!TypeOK, Jobs!Idle
<1> QED
  BY <1>1, <1>2 DEF Jobs!Init, JobsIInv, OwnJob, OneActive, Jobs!Executing, Jobs!JobId

\* A request goes on without touching the table.
LEMMA MoveOn ==
    ASSUME JobsIInv, NEW w \in Worker, NEW next,
           \/ next \in {"work", "succeed", "fail"} /\ Jobs!Executing(w)
                /\ pc' = [pc EXCEPT ![w] = next]
                /\ req' = [req EXCEPT ![w] = req[w]]
           \/ next = "add" /\ pc' = [pc EXCEPT ![w] = next]
                /\ \E key \in Key \cup {Jobs!NoKey} :
                    req' = [req EXCEPT ![w] = [Jobs!Idle EXCEPT !.key = key]]
           \/ next = "idle" /\ pc' = [pc EXCEPT ![w] = next]
                /\ req' = [req EXCEPT ![w] = Jobs!Idle],
           UNCHANGED jobs, deaths' \in 0 .. MaxDeaths, lost' \subseteq Jobs!JobId
    PROVE  JobsIInv'
<1>1. pc \in [Worker -> {"idle", "add", "start", "work", "succeed", "fail"}]
      /\ req \in [Worker -> [key : Key \cup {Jobs!NoKey}, job : Nat]]
  BY DEF JobsIInv, Jobs!TypeOK
<1>2. PICK r \in [key : Key \cup {Jobs!NoKey}, job : Nat] :
        /\ pc' = [pc EXCEPT ![w] = next] /\ req' = [req EXCEPT ![w] = r]
        /\ next \in {"work", "succeed", "fail"} => Jobs!Executing(w) /\ r = req[w]
        /\ next \in {"idle", "add", "work", "succeed", "fail"}
  BY <1>1 DEF Jobs!Idle
<1>3. \A v \in Worker : Jobs!Executing(v)' => Jobs!Executing(v) /\ req'[v] = req[v]
  BY <1>1, <1>2 DEF Jobs!Executing
<1>4. OwnJob' /\ OneActive'
  BY <1>3 DEF JobsIInv, OwnJob, OneActive, Jobs!JobId
<1>5. \A v \in Worker : pc'[v] \notin {"idle", "add"} =>
        req'[v].job \in Jobs!JobId /\ jobs[req'[v].job].key = req'[v].key
  BY <1>1, <1>2, <1>3 DEF JobsIInv, OwnJob, Jobs!Executing
<1>6. Jobs!TypeOK'
  BY <1>1, <1>2, <1>5 DEF JobsIInv, Jobs!TypeOK, Jobs!JobId
<1> QED
  BY <1>4, <1>6 DEF JobsIInv

LEMMA AddJobStep ==
    ASSUME JobsIInv, NEW w \in Worker, Jobs!Add(w)
    PROVE  JobsIInv'
<1>1. CASE Jobs!Duplicate(req[w].key)
  <2>1. /\ pc' = [pc EXCEPT ![w] = "idle"]
        /\ req' = [req EXCEPT ![w] = Jobs!Idle]
        /\ UNCHANGED <<jobs, deaths, lost>>
    BY <1>1 DEF Jobs!Add, Jobs!Goto
  <2>2. deaths' \in 0 .. MaxDeaths /\ lost' \subseteq Jobs!JobId
    BY <2>1 DEF JobsIInv, Jobs!TypeOK
  <2> QED
    BY <2>1, <2>2, MoveOn
<1>2. CASE ~Jobs!Duplicate(req[w].key)
  <2> DEFINE n == Len(jobs) + 1
             row == [key |-> req[w].key, status |-> "queued"]
  <2>1. /\ jobs' = Append(jobs, row) /\ pc' = [pc EXCEPT ![w] = "start"]
        /\ req' = [req EXCEPT ![w] = [req[w] EXCEPT !.job = n]]
        /\ UNCHANGED <<deaths, lost>> /\ pc[w] = "add"
    BY <1>2 DEF Jobs!Add, Jobs!Goto
  <2>2. /\ pc \in [Worker -> {"idle", "add", "start", "work", "succeed", "fail"}]
        /\ req \in [Worker -> [key : Key \cup {Jobs!NoKey}, job : Nat]]
        /\ jobs \in Seq(Jobs!Job) /\ Len(jobs) \in Nat
    BY DEF JobsIInv, Jobs!TypeOK
  <2>3. row \in Jobs!Job
    BY <2>2 DEF Jobs!Job, Jobs!Active
  <2> HIDE DEF row
  <2>4. /\ jobs' \in Seq(Jobs!Job) /\ DOMAIN jobs = 1 .. Len(jobs)
        /\ DOMAIN jobs' = 1 .. n
        /\ jobs'[n] = row /\ \A i \in 1 .. Len(jobs) : jobs'[i] = jobs[i]
    BY <2>1, <2>2, <2>3
  <2>5. n \in Nat /\ n \in DOMAIN jobs' /\ n \notin DOMAIN jobs
        /\ DOMAIN jobs' = DOMAIN jobs \cup {n}
    BY <2>2, <2>4
  <2>6. /\ row.key = req[w].key /\ row.status \in Jobs!Active
    BY DEF row, Jobs!Active
  <2> HIDE DEF n
  <2>7. req'[w].job = n /\ req'[w].key = req[w].key /\ pc'[w] = "start"
        /\ req'[w] \in [key : Key \cup {Jobs!NoKey}, job : Nat]
    BY <2>1, <2>2, <2>5
  <2>8. \A v \in Worker \ {w} : pc'[v] = pc[v] /\ req'[v] = req[v]
    BY <2>1, <2>2
  <2>9. ASSUME NEW v \in Worker, Jobs!Executing(v)'
        PROVE  /\ req'[v].job \in DOMAIN jobs'
               /\ jobs'[req'[v].job].key = req'[v].key
               /\ jobs'[req'[v].job].status \in Jobs!Active
               /\ v # w => req'[v].job # n /\ Jobs!Executing(v)
    <3>1. CASE v = w
      BY <3>1, <2>4, <2>5, <2>6, <2>7
    <3>2. CASE v # w
      BY <3>2, <2>4, <2>5, <2>8, <2>9 DEF JobsIInv, OwnJob, Jobs!Executing, Jobs!JobId
    <3> QED
      BY <3>1, <3>2
  <2>10. OwnJob'
    <3>1. ASSUME NEW u \in Worker, NEW v \in Worker,
                 Jobs!Executing(u)', Jobs!Executing(v)',
                 req'[u].job = req'[v].job
          PROVE  u = v
      BY <3>1, <2>7, <2>8, <2>9 DEF JobsIInv, OwnJob
    <3> QED
      BY <2>9, <3>1 DEF OwnJob, Jobs!JobId
  <2>11. OneActive'
    <3> SUFFICES ASSUME NEW i \in DOMAIN jobs', NEW j \in DOMAIN jobs',
                        jobs'[i].key = jobs'[j].key, jobs'[i].key # Jobs!NoKey,
                        jobs'[i].status \in Jobs!Active, jobs'[j].status \in Jobs!Active
                 PROVE  i = j
      BY DEF OneActive, Jobs!JobId
    <3>1. req[w].key # Jobs!NoKey => \A k \in DOMAIN jobs :
                ~(jobs[k].key = req[w].key /\ jobs[k].status \in Jobs!Active)
      BY <1>2 DEF Jobs!Duplicate, Jobs!FindActiveJob, Jobs!JobId
    <3>2. CASE i = n /\ j # n
      BY <3>1, <3>2, <2>4, <2>5, <2>6
    <3>3. CASE i # n /\ j = n
      BY <3>1, <3>3, <2>4, <2>5, <2>6
    <3>4. CASE i # n /\ j # n
      BY <3>4, <2>4, <2>5 DEF JobsIInv, OneActive, Jobs!JobId
    <3> QED
      BY <3>2, <3>3, <3>4
  <2>12. Jobs!TypeOK'
    <3>1. \A v \in Worker : pc'[v] \notin {"idle", "add"} =>
            req'[v].job \in DOMAIN jobs' /\ jobs'[req'[v].job].key = req'[v].key
      BY <2>2, <2>9, <2>1 DEF Jobs!Executing
    <3>2. pc' \in [Worker -> {"idle", "add", "start", "work", "succeed", "fail"}]
          /\ req' \in [Worker -> [key : Key \cup {Jobs!NoKey}, job : Nat]]
      BY <2>1, <2>2, <2>5
    <3> QED
      BY <3>1, <3>2, <2>1, <2>4 DEF JobsIInv, Jobs!TypeOK, Jobs!JobId
  <2> QED
    BY <2>10, <2>11, <2>12 DEF JobsIInv
<1> QED
  BY <1>1, <1>2

\* Start, Succeed and Fail write the status of the request's own job.
LEMMA WriteStatusStep ==
    ASSUME JobsIInv, NEW w \in Worker, Jobs!Start(w) \/ Jobs!Succeed(w) \/ Jobs!Fail(w)
    PROVE  JobsIInv'
<1> DEFINE k == req[w].job
<1>1. PICK s \in {"running"} \cup Jobs!Ended, next \in {"work", "idle"},
           r \in {req[w], Jobs!Idle} :
        /\ Jobs!SetStatus(w, s) /\ pc' = [pc EXCEPT ![w] = next]
        /\ req' = [req EXCEPT ![w] = r]
        /\ next = "work" => s = "running" /\ r = req[w]
  BY DEF Jobs!Start, Jobs!Succeed, Jobs!Fail, Jobs!Goto, Jobs!Ended
<1>2. Jobs!Executing(w) /\ UNCHANGED <<deaths, lost>>
  BY DEF Jobs!Start, Jobs!Succeed, Jobs!Fail, Jobs!Executing
<1>3. /\ pc \in [Worker -> {"idle", "add", "start", "work", "succeed", "fail"}]
      /\ req \in [Worker -> [key : Key \cup {Jobs!NoKey}, job : Nat]]
      /\ r \in [key : Key \cup {Jobs!NoKey}, job : Nat]
      /\ k \in Jobs!JobId /\ jobs[k].status \in Jobs!Active /\ Jobs!TypeOK
  BY <1>2 DEF JobsIInv, OwnJob, Jobs!TypeOK, Jobs!Idle
<1>4. /\ jobs' \in Seq(Jobs!Job) /\ DOMAIN jobs' = DOMAIN jobs
      /\ \A j \in DOMAIN jobs :
            /\ jobs'[j].key = jobs[j].key
            /\ jobs'[j].status = IF j = k THEN s ELSE jobs[j].status
  BY <1>1, <1>3, StatusWrite DEF Jobs!Active
<1>5. ASSUME NEW v \in Worker, Jobs!Executing(v)'
      PROVE  /\ Jobs!Executing(v) /\ req'[v] = req[v]
             /\ req[v].job \in DOMAIN jobs
             /\ jobs[req[v].job].key = req[v].key
             /\ jobs'[req[v].job].status \in Jobs!Active
  <2>1. CASE v = w
    BY <2>1, <1>1, <1>2, <1>3, <1>4, <1>5
       DEF JobsIInv, OwnJob, Jobs!Executing, Jobs!Active,
                                           Jobs!JobId
  <2>2. CASE v # w
    <3>1. Jobs!Executing(v) /\ req'[v] = req[v]
      BY <2>2, <1>1, <1>3, <1>5 DEF Jobs!Executing
    <3>2. req[v].job # k
      BY <3>1, <2>2, <1>2 DEF JobsIInv, OwnJob
    <3> QED
      BY <3>1, <3>2, <1>4 DEF JobsIInv, OwnJob, Jobs!JobId
  <2> QED
    BY <2>1, <2>2
<1>6. OwnJob'
  BY <1>4, <1>5 DEF JobsIInv, OwnJob, Jobs!JobId
<1>7. OneActive'
  BY <1>3, <1>4 DEF JobsIInv, OneActive, Jobs!JobId
<1>8. Jobs!TypeOK'
  <2>1. pc' \in [Worker -> {"idle", "add", "start", "work", "succeed", "fail"}]
        /\ req' \in [Worker -> [key : Key \cup {Jobs!NoKey}, job : Nat]]
    BY <1>1, <1>3
  <2>2. \A v \in Worker : pc'[v] \notin {"idle", "add"} => Jobs!Executing(v)'
    BY <2>1 DEF Jobs!Executing
  <2> QED
    BY <2>1, <2>2, <1>2, <1>4, <1>5 DEF JobsIInv, Jobs!TypeOK, Jobs!JobId
<1> QED
  BY <1>6, <1>7, <1>8 DEF JobsIInv

LEMMA JobsNextIInv ==
    ASSUME Jobs!ConstantsAssumption, JobsIInv, [Jobs!Next]_(Jobs!vars)
    PROVE  JobsIInv'
<1>1. deaths \in 0 .. MaxDeaths /\ MaxDeaths \in Nat /\ lost \subseteq Jobs!JobId
  BY DEF Jobs!ConstantsAssumption, JobsIInv, Jobs!TypeOK
<1>2. ASSUME NEW w \in Worker, Jobs!Find(w) PROVE JobsIInv'
  <2>1. pc' = [pc EXCEPT ![w] = "add"] /\ UNCHANGED <<jobs, deaths, lost>>
        /\ \E key \in Key \cup {Jobs!NoKey} :
                req' = [req EXCEPT ![w] = [Jobs!Idle EXCEPT !.key = key]]
    BY <1>2 DEF Jobs!Find, Jobs!Goto
  <2> QED
    BY <1>1, <2>1, MoveOn
<1>3. ASSUME NEW w \in Worker, Jobs!Handle(w) \/ Jobs!SucceedBreaks(w) PROVE JobsIInv'
  <2>1. Jobs!Executing(w) /\ req' = [req EXCEPT ![w] = req[w]] /\ UNCHANGED <<jobs, lost>>
        /\ deaths' \in 0 .. MaxDeaths
        /\ \E next \in {"work", "succeed", "fail"} : pc' = [pc EXCEPT ![w] = next]
    <3>1. CASE Jobs!Handle(w)
      BY <1>1, <3>1 DEF Jobs!Handle, Jobs!Goto, Jobs!Executing
    <3>2. CASE Jobs!SucceedBreaks(w)
      BY <1>1, <3>2 DEF Jobs!SucceedBreaks, Jobs!Goto, Jobs!Executing
    <3> QED
      BY <1>3, <3>1, <3>2
  <2> QED
    BY <1>1, <2>1, MoveOn DEF Jobs!JobId
<1>4. ASSUME NEW w \in Worker, Jobs!Die(w) PROVE JobsIInv'
  <2>1. /\ pc' = [pc EXCEPT ![w] = "idle"]
        /\ req' = [req EXCEPT ![w] = Jobs!Idle]
        /\ UNCHANGED jobs /\ deaths' \in 0 .. MaxDeaths
        /\ lost' \subseteq Jobs!JobId
    BY <1>1, <1>4 DEF Jobs!Die, Jobs!Goto
  <2> QED
    BY <2>1, MoveOn
<1>5. CASE UNCHANGED Jobs!vars
  BY <1>5 DEF Jobs!vars, JobsIInv, Jobs!TypeOK, OwnJob, OneActive, Jobs!Executing,
              Jobs!JobId
<1> QED
  BY <1>2, <1>3, <1>4, <1>5, AddJobStep, WriteStatusStep DEF Jobs!Next, Jobs!Serve

LEMMA JobsInvariance == ASSUME Jobs!ConstantsAssumption PROVE Jobs!Spec => []JobsIInv
BY JobsInitIInv, JobsNextIInv, PTL DEF Jobs!Spec

\* However many requests look for an active job before any adds its own: on
\* Postgres the partial unique index (migration 0019) keeps two of them from
\* executing jobs of one idempotency key.
THEOREM KeysExclude ==
    ASSUME OutputsAssumption PROVE Jobs!Spec => []OneAtATime
<1>1. JobsIInv => OneAtATime
  BY DEF JobsIInv, OwnJob, OneActive, OneAtATime, Jobs!OneAtATime, Jobs!TypeOK
<1> Jobs!ConstantsAssumption
  BY DEF OutputsAssumption
<1> QED
  BY <1>1, JobsInvariance, PTL

-----------------------------------------------------------------------------
(* Recommendations *)

RecRequest == [id : Recs!Id \cup {<<"none", 0>>}, status : Recs!RecStatus,
               fresh : SUBSET Recs!Record]

\* Rows and drafts are records; what a transition writes is no draft.
RecsIInv ==
    /\ recs \subseteq Recs!Record
    /\ generated \in Nat
    /\ pc \in [Worker -> {"idle", "upsert", "transition"}]
    /\ req \in [Worker -> RecRequest]
    /\ \A w \in Worker : pc[w] = "transition" => req[w].status \in Recs!Promoted

\* A row that is written again is a record; in memory it keeps its action, and the
\* status that somebody gave it.
LEMMA KeptKeeps ==
    ASSUME NEW row \in Recs!Record, NEW rec \in Recs!Record
    PROVE  /\ Recs!Kept(row, rec) \in Recs!Record
           /\ Recs!Kept(row, rec).action = row.action
           /\ row.status \in Recs!Promoted => Recs!Kept(row, rec).status = row.status
<1> DEFINE status == IF row.status \in Recs!Promoted THEN row.status ELSE rec.status
<1>1. Recs!Kept(row, rec) = [row EXCEPT !.status = status]
  BY DEF Recs!Kept
<1>2. row.status \in Recs!RecStatus /\ rec.status \in Recs!RecStatus
  BY DEF Recs!Record
<1>3. status \in Recs!RecStatus
  BY <1>2
<1>4. row.status \in Recs!Promoted => status = row.status
  OBVIOUS
<1> HIDE DEF status
<1> QED BY <1>1, <1>3, <1>4 DEF Recs!Record

\* What upsert_recommendations_for_run leaves: every row that no draft is about, and
\* for every draft a record; in memory, of a row that was there, that row.
LEMMA UpsertedRows ==
    ASSUME NEW rows \in SUBSET Recs!Record, NEW fresh \in SUBSET Recs!Record
    PROVE  /\ Recs!Upserted(rows, fresh) \subseteq Recs!Record
           /\ \A row \in rows :
                \/ row \in Recs!Upserted(rows, fresh)
                \/ \E rec \in fresh :
                        Recs!Kept(row, rec) \in Recs!Upserted(rows, fresh)
<1> DEFINE old(rec) == CHOOSE row \in rows : Recs!Matches(rec, row)
           new == {rec \in fresh : \A row \in rows : ~Recs!Matches(rec, row)}
           olds == {old(rec) : rec \in fresh \ new}
           Written(rec) == IF rec \in new THEN rec
                           ELSE Recs!Kept(old(rec), rec)
           written == {Written(rec) : rec \in fresh}
<1>1. Recs!Upserted(rows, fresh) = (rows \ olds) \cup written
  BY DEF Recs!Upserted
<1>2. \A rec \in fresh \ new : old(rec) \in rows
  <2> SUFFICES ASSUME NEW rec \in fresh \ new PROVE old(rec) \in rows
    OBVIOUS
  <2>1. \E row \in rows : Recs!Matches(rec, row)
    OBVIOUS
  <2> QED BY <2>1
<1>3. \A rec \in fresh : Written(rec) \in Recs!Record
  <2> SUFFICES ASSUME NEW rec \in fresh PROVE Written(rec) \in Recs!Record
    OBVIOUS
  <2>1. CASE rec \in new
    BY <2>1
  <2>2. CASE rec \notin new
    <3>1. old(rec) \in Recs!Record
      BY <1>2, <2>2
    <3>2. Written(rec) = Recs!Kept(old(rec), rec)
      BY <2>2
    <3> HIDE DEF old, Written
    <3> QED BY <3>1, <3>2, KeptKeeps
  <2> QED BY <2>1, <2>2
<1>4. ASSUME NEW row \in rows, row \in olds
      PROVE  \E rec \in fresh : Recs!Kept(row, rec) \in written
  <2>1. PICK rec \in fresh \ new : row = old(rec)
    BY <1>4
  <2>2. Written(rec) = Recs!Kept(row, rec)
    BY <1>4, <2>1
  <2>3. Written(rec) \in written
    OBVIOUS
  <2> QED BY <2>1, <2>2, <2>3
<1> HIDE DEF olds, written
<1>5. written \subseteq Recs!Record
  BY <1>3 DEF written
<1> QED BY <1>1, <1>4, <1>5

LEMMA RecsInit == Recs!Init => RecsIInv
BY DEF Recs!Init, Recs!Idle, Recs!RecStatus, RecsIInv, RecRequest

\* A step of one request.
LEMMA RecsGoto ==
    ASSUME RecsIInv, NEW w \in Worker, NEW label \in {"idle", "upsert", "transition"},
           NEW r \in RecRequest, Recs!Goto(w, label, r),
           label = "transition" => r.status \in Recs!Promoted,
           recs' \subseteq Recs!Record, generated' \in Nat
    PROVE  RecsIInv'
BY DEF RecsIInv, RecRequest, Recs!Goto

LEMMA RecsNext ==
    ASSUME RecsIInv, [Recs!Next]_(Recs!vars)
    PROVE  RecsIInv'
<1>1. Recs!Idle \in RecRequest /\ DOMAIN Recs!Idle = {"id", "status", "fresh"}
  BY DEF Recs!Idle, RecRequest, Recs!RecStatus
<1>2. ASSUME NEW w \in Worker, Recs!GenerateRead(w) PROVE RecsIInv'
  <2>1. PICK actions \in SUBSET Action \ {{}} :
            Recs!Goto(w, "upsert",
                      [Recs!Idle EXCEPT !.fresh = Recs!Drafts(actions, generated)])
    BY <1>2 DEF Recs!GenerateRead
  <2>2. Recs!Drafts(actions, generated) \in SUBSET Recs!Record
    BY DEF RecsIInv, Recs!Drafts, Recs!Record, Recs!Id, Recs!RecStatus
  <2> DEFINE r == [Recs!Idle EXCEPT !.fresh = Recs!Drafts(actions, generated)]
  <2>3. r \in RecRequest
    BY <1>1, <2>2 DEF RecRequest
  <2>4. /\ Recs!Goto(w, "upsert", r) /\ recs' = recs /\ generated' = generated + 1
    BY <1>2, <2>1 DEF Recs!GenerateRead
  <2> HIDE DEF r
  <2>5. generated' \in Nat /\ recs' \subseteq Recs!Record
    BY <2>4 DEF RecsIInv
  <2> QED BY <2>3, <2>4, <2>5, RecsGoto
<1>3. ASSUME NEW w \in Worker, Recs!Upsert(w) PROVE RecsIInv'
  <2>1. req[w].fresh \in SUBSET Recs!Record /\ recs \in SUBSET Recs!Record
    BY DEF RecsIInv, RecRequest
  <2>2. recs' \subseteq Recs!Record
    BY <1>3, <2>1, UpsertedRows DEF Recs!Upsert
  <2> QED BY <1>1, <1>3, <2>2, RecsGoto DEF Recs!Upsert, RecsIInv
<1>4. ASSUME NEW w \in Worker, Recs!TransitionRead(w) PROVE RecsIInv'
  <2>1. PICK rec \in recs, s \in Recs!Promoted :
            Recs!Goto(w, "transition", [Recs!Idle EXCEPT !.id = rec.id, !.status = s])
    BY <1>4 DEF Recs!TransitionRead
  <2> DEFINE r == [Recs!Idle EXCEPT !.id = rec.id, !.status = s]
  <2>2. rec.id \in Recs!Id /\ s \in Recs!RecStatus
    BY DEF RecsIInv, Recs!Record, Recs!RecStatus
  <2>3. r \in RecRequest /\ r.status = s
    BY <1>1, <2>2 DEF RecRequest
  <2>4. Recs!Goto(w, "transition", r) /\ recs' = recs /\ generated' = generated
    BY <1>4, <2>1 DEF Recs!TransitionRead
  <2> HIDE DEF r
  <2>5. generated' \in Nat /\ recs' \subseteq Recs!Record
    BY <2>4 DEF RecsIInv
  <2> QED BY <2>3, <2>4, <2>5, RecsGoto
<1>5. ASSUME NEW w \in Worker, Recs!TransitionWrite(w) PROVE RecsIInv'
  <2>1. req[w].status \in Recs!RecStatus
    BY DEF RecsIInv, RecRequest
  <2>2. \A rec \in recs :
            [rec EXCEPT !.status = req[w].status] \in Recs!Record
    BY <2>1 DEF RecsIInv, Recs!Record
  <2>3. recs' \subseteq Recs!Record
    BY <1>5, <2>2 DEF Recs!TransitionWrite, RecsIInv
  <2> QED BY <1>1, <1>5, <2>3, RecsGoto DEF Recs!TransitionWrite, RecsIInv
<1>6. CASE UNCHANGED Recs!vars
  BY <1>6 DEF Recs!vars, RecsIInv
<1> QED BY <1>2, <1>3, <1>4, <1>5, <1>6 DEF Recs!Next

\* What a step does to a row that is no draft.
LEMMA RecsStep ==
    ASSUME RecsIInv, [Recs!Next]_(Recs!vars)
    PROVE  Recs!DecisionsKept
<1> SUFFICES ASSUME NEW r \in recs, r.status \in Recs!Promoted
             PROVE  \E s \in recs' : s.action = r.action /\ s.status \in Recs!Promoted
  BY DEF Recs!DecisionsKept
<1>1. CASE recs' = recs
  BY <1>1
<1>2. ASSUME NEW w \in Worker, Recs!Upsert(w)
      PROVE  \E s \in recs' : s.action = r.action /\ s.status \in Recs!Promoted
  <2>1. recs' = Recs!Upserted(recs, req[w].fresh)
    BY <1>2 DEF Recs!Upsert
  <2>2. req[w].fresh \in SUBSET Recs!Record /\ recs \in SUBSET Recs!Record
    BY DEF RecsIInv, RecRequest
  <2>3. r \in recs' \/ \E rec \in req[w].fresh : Recs!Kept(r, rec) \in recs'
    BY <2>1, <2>2, UpsertedRows
  <2>4. ASSUME NEW rec \in req[w].fresh
        PROVE  /\ Recs!Kept(r, rec).action = r.action
               /\ Recs!Kept(r, rec).status = r.status
    BY <2>2, KeptKeeps
  <2> QED BY <2>3, <2>4
<1>3. ASSUME NEW w \in Worker, Recs!TransitionWrite(w)
      PROVE  \E s \in recs' : s.action = r.action /\ s.status \in Recs!Promoted
  <2> DEFINE Written(rec) == IF rec.id = req[w].id
                             THEN [rec EXCEPT !.status = req[w].status] ELSE rec
  <2>1. recs' = {Written(rec) : rec \in recs}
    BY <1>3 DEF Recs!TransitionWrite
  <2>2. Written(r) \in recs'
    BY <2>1
  <2>3. r \in Recs!Record /\ req[w].status \in Recs!Promoted
    BY <1>3 DEF RecsIInv, Recs!TransitionWrite
  <2>4. Written(r).action = r.action /\ Written(r).status \in Recs!Promoted
    BY <2>3 DEF Recs!Record
  <2> QED BY <2>2, <2>4
<1> QED
  BY <1>1, <1>2, <1>3 DEF Recs!Next, Recs!vars, Recs!GenerateRead, Recs!TransitionRead

\* In memory what was decided on a recommendation stays decided, however often and by
\* whom recommendations are generated again meanwhile
\* (upsert_recommendations_for_run and the transitions of api/routes.py).
THEOREM DecidedStaysDecided == Recs!Spec => PromotedIsKept
<1>1. RecsIInv /\ [Recs!Next]_(Recs!vars) => RecsIInv'
  BY RecsNext
<1>2. RecsIInv /\ [Recs!Next]_(Recs!vars) => [Recs!DecisionsKept]_(Recs!vars)
  BY RecsStep
<1> QED BY RecsInit, <1>1, <1>2, PTL DEF Recs!Spec, PromotedIsKept, Recs!PromotedIsKept

-----------------------------------------------------------------------------
(* The application of the NEVO matches, by one operator *)

NevoRecord == [nutrient : Nevo!Nutrient, source : Nevo!Source, status : Nevo!Status,
               value : Int, version : {"none", "v2_embeddings", "v2_embeddings_split"}]
Halves == {"plant_protein_pct", "animal_protein_pct"}

AtMostOne(S) == \A i, j \in S : i = j

\* The plant half and the animal half of a total.
AddUp(found) ==
    \A i \in Nevo!HalvesOf(found, "plant_protein_pct"),
       j \in Nevo!HalvesOf(found, "animal_protein_pct"), k \in Nevo!V2Of(found) :
        found[i].value + found[j].value = found[k].value

\* What the commands have appended to the records of a product, each thing once.  A
\* total and a half can be seen by the next command, and there is no half without a
\* total.
Once(found) ==
    /\ AtMostOne(Nevo!V2Of(found))
    /\ Nevo!V2Of(found) \subseteq Nevo!TotalsOf(found)
    /\ \A i \in Nevo!V2Of(found) : found[i].value # Nevo!NoValue
    /\ \A n \in Halves : /\ AtMostOne(Nevo!HalvesOf(found, n))
                         /\ Nevo!HalvesOf(found, n) \subseteq Nevo!Usable(found, n)
                         /\ Nevo!HalvesOf(found, n) # {} => Nevo!V2Of(found) # {}
    /\ AddUp(found)

\* A row to be split, in the proposals or in a command, is about the total as it is.
Splits(row, found) ==
    /\ row.plant \in Int \ {Nevo!NoValue} /\ row.animal \in Int \ {Nevo!NoValue}
    /\ Nevo!V2Of(found) # {}
    /\ \A k \in Nevo!V2Of(found) : row.plant + row.animal = found[k].value

IsCandidate(row) == row.product \in Product /\ row.value \in Int

\* The rows a command has to do.
RowsFit(at, todo, found) ==
    /\ at = "applying" => \A row \in todo : IsCandidate(row)
    /\ at = "splitting" =>
        \A row \in todo : row.product \in Product /\ Splits(row, found[row.product])

\* What a command has read is still so: between its look at a product and its insert
\* the application appends records of its own only.
CommandFits(c, found) ==
    /\ c.at \in {"idle", "approving", "applying", "writing", "splitting",
                 "plant", "animal"}
    /\ c.at \in {"approving", "applying", "writing"} => RowsFit("applying", c.todo, found)
    /\ c.at = "writing" =>
        /\ IsCandidate(c.row) /\ c.row.value # Nevo!NoValue
        /\ Nevo!V2Of(found[c.row.product]) = {}
    /\ c.at \in {"splitting", "plant", "animal"} => RowsFit("splitting", c.todo, found)
    /\ c.at \in {"plant", "animal"} =>
        /\ c = [at |-> c.at, todo |-> c.todo, row |-> c.row]
        /\ c.row.product \in Product /\ Splits(c.row, found[c.row.product])
        /\ Nevo!HalvesOf(found[c.row.product], "animal_protein_pct") = {}
    /\ c.at = "plant" =>
        Nevo!HalvesOf(found[c.row.product], "plant_protein_pct") = {}
    /\ c.at = "animal" =>
        /\ Nevo!HalvesOf(found[c.row.product], "plant_protein_pct") # {}
        /\ \A i \in Nevo!HalvesOf(found[c.row.product], "plant_protein_pct") :
            found[c.row.product][i].value = c.row.plant

ApprovedFits(file) == file # NoFile => \A row \in file : IsCandidate(row)

ProposalsFit(file, found) ==
    file # NoFile =>
        \A p \in DOMAIN file :
            /\ p \in Product
            /\ file[p].action = "would_split" => Splits(file[p], found[p])

NevoIInv ==
    /\ records \in [Product -> Seq(NevoRecord)]
    /\ sheet \in [Product -> Nevo!Row]
    /\ cmd = [o \in DOMAIN cmd |-> cmd[o]]
    /\ \A p \in Product : Once(records[p])
    /\ \A o \in DOMAIN cmd : CommandFits(cmd[o], records)
    /\ ApprovedFits(approved) /\ ProposalsFit(proposals, records)

\* The new records of a product are the old ones and others that a command of this
\* kind did not append.
Extends(new, old) ==
    /\ \A i \in DOMAIN old : i \in DOMAIN new /\ new[i] = old[i]
    /\ Nevo!V2Of(new) = Nevo!V2Of(old)
    /\ \A n \in Halves : Nevo!HalvesOf(new, n) = Nevo!HalvesOf(old, n)

\* What one record adds.
LEMMA OneMore ==
    ASSUME NEW old \in Seq(NevoRecord), NEW r \in NevoRecord
    PROVE  LET new == Append(old, r)
               last == Len(old) + 1
           IN  /\ new \in Seq(NevoRecord)
               /\ last \in DOMAIN new /\ new[last] = r /\ last \notin DOMAIN old
               /\ \A i \in DOMAIN old : i \in DOMAIN new /\ new[i] = old[i]
               /\ Nevo!V2Of(new) =
                    IF r.version = "v2_embeddings"
                    THEN Nevo!V2Of(old) \cup {last} ELSE Nevo!V2Of(old)
               /\ \A n \in Halves :
                    Nevo!HalvesOf(new, n) =
                        IF r.version = "v2_embeddings_split" /\ r.nutrient = n
                        THEN Nevo!HalvesOf(old, n) \cup {last}
                        ELSE Nevo!HalvesOf(old, n)
<1> DEFINE new == Append(old, r)
           last == Len(old) + 1
<1>1. /\ new \in Seq(NevoRecord) /\ last \notin DOMAIN old /\ new[last] = r
      /\ DOMAIN new = DOMAIN old \cup {last}
      /\ \A i \in DOMAIN old : new[i] = old[i]
  OBVIOUS
<1> HIDE DEF new, last
<1>2. Nevo!V2Of(new) = IF r.version = "v2_embeddings"
                       THEN Nevo!V2Of(old) \cup {last} ELSE Nevo!V2Of(old)
  BY <1>1 DEF Nevo!V2Of
<1>3. \A n \in Halves :
        Nevo!HalvesOf(new, n) =
            IF r.version = "v2_embeddings_split" /\ r.nutrient = n
            THEN Nevo!HalvesOf(old, n) \cup {last} ELSE Nevo!HalvesOf(old, n)
  BY <1>1 DEF Nevo!HalvesOf
<1> QED BY <1>1, <1>2, <1>3 DEF new, last

LEMMA MarkedFits ==
    ASSUME NEW r \in Nevo!EnrichmentRecord,
           NEW v \in {"none", "v2_embeddings", "v2_embeddings_split"}
    PROVE  Nevo!Marked(r, v) \in NevoRecord
BY DEF Nevo!Marked, NevoRecord, Nevo!EnrichmentRecord

\* What the application appends carries no version.
LEMMA MoreOfOthers ==
    ASSUME NEW old \in Seq(NevoRecord), NEW found \in Seq(Nevo!EnrichmentRecord)
    PROVE  LET new == old \o Nevo!Versioned(found, "none")
           IN  new \in Seq(NevoRecord) /\ Extends(new, old)
<1> DEFINE more == Nevo!Versioned(found, "none")
           new == old \o more
<1>1. /\ more \in Seq(NevoRecord) /\ Len(more) = Len(found)
      /\ \A i \in 1 .. Len(more) : more[i].version = "none"
  <2>1. \A i \in 1 .. Len(found) :
            /\ Nevo!Marked(found[i], "none") \in NevoRecord
            /\ Nevo!Marked(found[i], "none").version = "none"
    <3> SUFFICES ASSUME NEW i \in 1 .. Len(found)
                 PROVE  /\ Nevo!Marked(found[i], "none") \in NevoRecord
                        /\ Nevo!Marked(found[i], "none").version = "none"
      OBVIOUS
    <3>1. found[i] \in Nevo!EnrichmentRecord
      OBVIOUS
    <3> QED BY <3>1, MarkedFits DEF Nevo!Marked
  <2>2. more = [i \in 1 .. Len(found) |-> Nevo!Marked(found[i], "none")]
    BY DEF Nevo!Versioned
  <2> HIDE DEF more
  <2> QED BY <2>1, <2>2
<1> HIDE DEF more
<1>2. /\ new \in Seq(NevoRecord)
      /\ \A i \in DOMAIN old : i \in DOMAIN new /\ new[i] = old[i]
      /\ \A i \in DOMAIN new \ DOMAIN old : new[i].version = "none"
  BY <1>1
<1> HIDE DEF new
<1>3. Nevo!V2Of(new) = Nevo!V2Of(old)
  BY <1>2 DEF Nevo!V2Of
<1>4. \A n \in Halves : Nevo!HalvesOf(new, n) = Nevo!HalvesOf(old, n)
  BY <1>2 DEF Nevo!HalvesOf
<1> QED BY <1>2, <1>3, <1>4 DEF Extends, new, more

\* A row that splits a total splits it still when the totals are the same.
LEMMA StillSplits ==
    ASSUME NEW old, NEW new, NEW row, Splits(row, old),
           Nevo!V2Of(new) = Nevo!V2Of(old),
           \A i \in DOMAIN old : new[i] = old[i]
    PROVE  Splits(row, new)
<1>1. Nevo!V2Of(old) \subseteq DOMAIN old
  BY DEF Nevo!V2Of
<1> QED BY <1>1 DEF Splits

LEMMA StillOnce ==
    ASSUME NEW old, NEW new, Once(old), Extends(new, old)
    PROVE  Once(new)
<1>1. /\ Nevo!V2Of(old) \subseteq DOMAIN old
      /\ \A n \in Halves : Nevo!HalvesOf(old, n) \subseteq DOMAIN old
  BY DEF Nevo!V2Of, Nevo!HalvesOf
<1>2. Nevo!V2Of(new) \subseteq Nevo!TotalsOf(new)
  BY <1>1 DEF Once, Extends, Nevo!TotalsOf
<1>5. \A i \in Nevo!V2Of(new) : new[i].value # Nevo!NoValue
  BY <1>1 DEF Once, Extends
<1>3. \A n \in Halves : Nevo!HalvesOf(new, n) \subseteq Nevo!Usable(new, n)
  BY <1>1 DEF Once, Extends, Nevo!Usable
<1>4. AddUp(new)
  <2>1. "plant_protein_pct" \in Halves /\ "animal_protein_pct" \in Halves
    BY DEF Halves
  <2> QED BY <1>1, <2>1 DEF Once, Extends, AddUp
<1> QED BY <1>2, <1>3, <1>4, <1>5 DEF Once, Extends

LEMMA ExtendsItself == ASSUME NEW old PROVE Extends(old, old)
BY DEF Extends

\* Steps that are no command's.
LEMMA AroundStep ==
    ASSUME NevoIInv, UNCHANGED <<approved, proposals, cmd>>,
           sheet' \in [Product -> Nevo!Row],
           records' \in [Product -> Seq(NevoRecord)],
           \A p \in Product : Extends(records'[p], records[p])
    PROVE  NevoIInv'
<1>1. \A p \in Product : Once(records'[p])
  BY StillOnce DEF NevoIInv
<1>2. ASSUME NEW p \in Product, NEW row, Splits(row, records[p])
      PROVE  Splits(row, records'[p])
  BY <1>2, StillSplits DEF Extends
<1>3. ASSUME NEW o \in DOMAIN cmd
      PROVE  CommandFits(cmd[o], records')
  <2> DEFINE c == cmd[o]
  <2>1. CommandFits(c, records)
    BY DEF NevoIInv
  <2> HIDE DEF c
  <2>2. c.at = "writing" => Nevo!V2Of(records'[c.row.product]) = {}
    BY <2>1 DEF CommandFits, IsCandidate, Extends
  <2>3. c.at \in {"splitting", "plant", "animal"} =>
            RowsFit("splitting", c.todo, records')
    BY <1>2, <2>1 DEF CommandFits, RowsFit
  <2>8. c.at \in {"approving", "applying", "writing"} =>
            RowsFit("applying", c.todo, records')
    BY <2>1 DEF CommandFits, RowsFit
  <2>4. c.at \in {"plant", "animal"} =>
            /\ c.row.product \in Product /\ Splits(c.row, records'[c.row.product])
            /\ Nevo!HalvesOf(records'[c.row.product], "animal_protein_pct") = {}
    BY <1>2, <2>1 DEF CommandFits, Extends, Halves
  <2>5. c.at = "plant" =>
            Nevo!HalvesOf(records'[c.row.product], "plant_protein_pct") = {}
    BY <2>1 DEF CommandFits, Extends, Halves
  <2>6. c.at = "animal" =>
            /\ Nevo!HalvesOf(records'[c.row.product], "plant_protein_pct") # {}
            /\ \A i \in Nevo!HalvesOf(records'[c.row.product], "plant_protein_pct") :
                records'[c.row.product][i].value = c.row.plant
    <3> SUFFICES ASSUME c.at = "animal"
                 PROVE  /\ Nevo!HalvesOf(records'[c.row.product],
                                         "plant_protein_pct") # {}
                        /\ \A i \in Nevo!HalvesOf(records'[c.row.product],
                                                  "plant_protein_pct") :
                            records'[c.row.product][i].value = c.row.plant
      OBVIOUS
    <3>1. c.row.product \in Product
      BY <2>1 DEF CommandFits
    <3> DEFINE old == records[c.row.product]
               new == records'[c.row.product]
    <3>2. Extends(new, old)
      BY <3>1
    <3>3. /\ Nevo!HalvesOf(old, "plant_protein_pct") # {}
          /\ \A i \in Nevo!HalvesOf(old, "plant_protein_pct") : old[i].value = c.row.plant
      BY <2>1 DEF CommandFits
    <3>4. Nevo!HalvesOf(old, "plant_protein_pct") \subseteq DOMAIN old
      BY DEF Nevo!HalvesOf
    <3> HIDE DEF old, new
    <3>5. /\ Nevo!HalvesOf(new, "plant_protein_pct") # {}
          /\ \A i \in Nevo!HalvesOf(new, "plant_protein_pct") : new[i].value = c.row.plant
      BY <3>2, <3>3, <3>4 DEF Extends, Halves
    <3> QED BY <3>5 DEF new
  <2>7. CommandFits(c, records')
    BY <2>1, <2>2, <2>3, <2>4, <2>5, <2>6, <2>8 DEF CommandFits
  <2> QED BY <2>7 DEF c
<1>4. ProposalsFit(proposals, records')
  BY <1>2 DEF NevoIInv, ProposalsFit
<1> QED BY <1>1, <1>3, <1>4 DEF NevoIInv

\* A step of the one operator's command.
LEMMA CommandStep ==
    ASSUME NevoIInv, NEW o \in DOMAIN cmd, \A v \in DOMAIN cmd : v = o,
           NEW c, cmd' = [cmd EXCEPT ![o] = c], UNCHANGED sheet,
           records' \in [Product -> Seq(NevoRecord)],
           \A p \in Product : Once(records'[p]),
           CommandFits(c, records'),
           ApprovedFits(approved'), ProposalsFit(proposals', records')
    PROVE  NevoIInv'
BY DEF NevoIInv

\* One that leaves the records alone.
LEMMA QuietStep ==
    ASSUME NevoIInv, NEW o \in DOMAIN cmd, \A v \in DOMAIN cmd : v = o,
           NEW c, cmd' = [cmd EXCEPT ![o] = c], UNCHANGED <<sheet, records>>,
           CommandFits(c, records),
           ApprovedFits(approved'), ProposalsFit(proposals', records)
    PROVE  NevoIInv'
BY CommandStep DEF NevoIInv

\* A command that is done with a row goes on with the others, or ends.
LEMMA DoneFits ==
    ASSUME NEW found, NEW c, NEW row, NEW at \in {"applying", "splitting"},
           RowsFit(at, c.todo, found)
    PROVE  /\ CommandFits([at |-> "idle", todo |-> {}], found)
           /\ CommandFits([at |-> at, todo |-> c.todo \ {row}], found)
BY DEF CommandFits, RowsFit

\* The candidates a package approves.
LEMMA ApprovedAreCandidates ==
    ASSUME sheet \in [Product -> Nevo!Row], Nevo!ConstantsAssumption
    PROVE  \A row \in Nevo!Approved(sheet) : IsCandidate(row)
<1>1. ASSUME NEW p \in Product
      PROVE  Nevo!Effective(sheet[p]).value \in Int
  <2>1. sheet[p].typed \in Nevo!Candidate /\ sheet[p].offered \in Nevo!Candidate
    BY DEF Nevo!Row
  <2>2. Protein \cup {Nevo!NoValue, Nevo!NotANumber} \subseteq Int
    BY DEF Nevo!ConstantsAssumption, Nevo!NoValue, Nevo!NotANumber
  <2>3. \A x \in Nevo!Candidate : x.value \in Int
    BY <2>2 DEF Nevo!Candidate
  <2> QED BY <2>1, <2>3 DEF Nevo!Effective
<1> QED BY <1>1 DEF Nevo!Approved, IsCandidate

LEMMA MinIsIn ==
    ASSUME NEW S \in SUBSET Nat, S # {}
    PROVE  Nevo!Min(S) \in S
<1>1. PICK x \in S : \A y \in S : <<y, x>> \notin OpToRel(<, Nat)
  BY NatLessThanWellFounded, WFMin
<1>2. ASSUME NEW y \in S PROVE x <= y
  <2>1. ~(y < x)
    BY <1>1 DEF OpToRel
  <2> QED BY <2>1
<1> QED BY <1>2 DEF Nevo!Min

LEMMA MinOfOne ==
    ASSUME NEW S \in SUBSET Nat, S # {}, AtMostOne(S)
    PROVE  Nevo!Min(S) \in S
<1>1. PICK x : x \in S
  OBVIOUS
<1>2. x \in Nat /\ \A y \in S : y = x
  BY <1>1 DEF AtMostOne
<1>3. x \in S /\ \A y \in S : x <= y
  BY <1>1, <1>2
<1> QED BY <1>3 DEF Nevo!Min

\* A proposal to split is about the one total there is.
LEMMA ProposalsSplit ==
    ASSUME NevoIInv PROVE ProposalsFit(Nevo!Proposals, records)
<1> DEFINE file == Nevo!Proposals
<1>1. /\ DOMAIN file = {q \in Product : Nevo!V2Of(records[q]) # {}}
      /\ \A p \in DOMAIN file : file[p] = Nevo!SplitProposal(records[p], group[p])
  BY DEF Nevo!Proposals
<1> HIDE DEF file
<1>2. ASSUME NEW p \in DOMAIN file, file[p].action = "would_split"
      PROVE  Splits(file[p], records[p])
  <2> DEFINE found == records[p]
             first == Nevo!Min(Nevo!V2Of(found))
             total == found[first].value
  <2>1. p \in Product /\ Nevo!V2Of(found) # {}
    BY <1>1
  <2>2. found \in Seq(NevoRecord) /\ Once(found)
    BY <2>1 DEF NevoIInv
  <2>3. Nevo!V2Of(found) \in SUBSET Nat /\ Nevo!V2Of(found) \subseteq DOMAIN found
    BY <2>2 DEF Nevo!V2Of
  <2>4. first \in Nevo!V2Of(found)
    BY <2>1, <2>2, <2>3, MinOfOne DEF Once
  <2>5. \A k \in Nevo!V2Of(found) : found[k].value = total
    BY <2>2, <2>4 DEF Once, AtMostOne
  <2>7. \/ file[p].plant = 0 /\ file[p].animal = total
        \/ file[p].plant = total /\ file[p].animal = 0
    <3>1. file[p] = Nevo!SplitProposal(found, group[p])
      BY <1>1
    <3> HIDE DEF found
    <3> QED BY <1>2, <3>1 DEF Nevo!SplitProposal
  <2> HIDE DEF found, first
  <2>6. total \in Int \ {Nevo!NoValue}
    <3>1. found[first] \in NevoRecord /\ found[first].value # Nevo!NoValue
      BY <2>2, <2>3, <2>4 DEF Once
    <3> QED BY <3>1 DEF NevoRecord
  <2> HIDE DEF total
  <2>8. Splits(file[p], found)
    BY <2>1, <2>5, <2>6, <2>7 DEF Splits, Nevo!NoValue
  <2> QED BY <2>8 DEF found
<1>3. ProposalsFit(file, records)
  BY <1>1, <1>2 DEF ProposalsFit
<1> QED BY <1>3 DEF file

-----------------------------------------------------------------------------
(* What the application does meanwhile *)

LEMMA EndpointsAppend ==
    ASSUME NEW v \in Nat, NEW pt
    PROVE  /\ Nevo!Total("manual_altera", v) \in Seq(Nevo!EnrichmentRecord)
           /\ Nevo!ManualNutrition(v, v, 0) \in Seq(Nevo!EnrichmentRecord)
           /\ Nevo!NevoEntry(v, v, pt) \in Seq(Nevo!EnrichmentRecord)
           /\ Nevo!NoMatch \in Seq(Nevo!EnrichmentRecord)
<1>1. \A n \in Nevo!Nutrient, s \in Nevo!Source, t \in Nevo!Status, x \in Int :
        Nevo!Record(n, s, t, x) \in Nevo!EnrichmentRecord
  BY DEF Nevo!Record, Nevo!EnrichmentRecord
<1>2. /\ "protein_pct" \in Nevo!Nutrient /\ "plant_protein_pct" \in Nevo!Nutrient
      /\ "animal_protein_pct" \in Nevo!Nutrient
      /\ "manual_altera" \in Nevo!Source /\ "nevo" \in Nevo!Source
      /\ "enriched" \in Nevo!Status /\ "failed" \in Nevo!Status
      /\ Nevo!NoValue \in Int
  BY DEF Nevo!Nutrient, Nevo!Source, Nevo!Status, Nevo!NoValue
<1>3. \A s \in {"manual_altera", "nevo"}, x \in Int, y \in Int :
        /\ Nevo!Total(s, x) \in Seq(Nevo!EnrichmentRecord)
        /\ Nevo!Both(s, x, y) \in Seq(Nevo!EnrichmentRecord)
  BY <1>1, <1>2 DEF Nevo!Total, Nevo!Both
<1>4. Nevo!NoMatch \in Seq(Nevo!EnrichmentRecord)
  BY <1>1, <1>2 DEF Nevo!NoMatch
<1>5. v \in Int /\ 0 \in Int /\ v - v \in Int /\ v # Nevo!NoValue
  BY DEF Nevo!NoValue
<1>6. /\ Nevo!Total("manual_altera", v) \in Seq(Nevo!EnrichmentRecord)
      /\ Nevo!Both("manual_altera", v, 0) \in Seq(Nevo!EnrichmentRecord)
      /\ Nevo!Total("nevo", v) \in Seq(Nevo!EnrichmentRecord)
      /\ Nevo!Both("nevo", v, v - v) \in Seq(Nevo!EnrichmentRecord)
  BY <1>3, <1>5
<1>7. \A s, t \in Seq(Nevo!EnrichmentRecord) : s \o t \in Seq(Nevo!EnrichmentRecord)
  OBVIOUS
<1>8. Nevo!ManualNutrition(v, v, 0) \in Seq(Nevo!EnrichmentRecord)
  BY <1>6, <1>7 DEF Nevo!ManualNutrition
<1>9. Nevo!NevoEntry(v, v, pt) \in Seq(Nevo!EnrichmentRecord)
  BY <1>5, <1>6, <1>7 DEF Nevo!NevoEntry
<1> QED
  BY <1>4, <1>6, <1>8, <1>9

LEMMA AroundSteps ==
    ASSUME NevoIInv, Nevo!ConstantsAssumption, Rows \subseteq Nevo!Row,
           NEW p \in Product,
           Nevo!Application(p) \/ \E row \in Rows : Nevo!Review(p, row)
    PROVE  NevoIInv'
<1>1. ASSUME NEW row \in Rows, Nevo!Review(p, row) PROVE NevoIInv'
  BY <1>1, AroundStep, ExtendsItself DEF Nevo!Review, Nevo!files, NevoIInv
<1>2. ASSUME NEW pt, Nevo!Classify(p, pt) PROVE NevoIInv'
  BY <1>2, AroundStep, ExtendsItself DEF Nevo!Classify, Nevo!files, NevoIInv
<1>3. ASSUME NEW found \in Seq(Nevo!EnrichmentRecord), Nevo!Enrich(p, found)
      PROVE  NevoIInv'
  <2> DEFINE new == records[p] \o Nevo!Versioned(found, "none")
  <2>1. records' = [records EXCEPT ![p] = new]
    BY <1>3 DEF Nevo!Enrich
  <2>2. records[p] \in Seq(NevoRecord)
    BY DEF NevoIInv
  <2>3. new \in Seq(NevoRecord) /\ Extends(new, records[p])
    BY <2>2, MoreOfOthers
  <2> HIDE DEF new
  <2>4. records' \in [Product -> Seq(NevoRecord)]
    BY <2>1, <2>3 DEF NevoIInv
  <2>5. \A q \in Product : Extends(records'[q], records[q])
    BY <2>1, <2>3, ExtendsItself DEF NevoIInv
  <2> QED
    BY <1>3, <2>4, <2>5, AroundStep DEF Nevo!Enrich, Nevo!files, Nevo!world, NevoIInv
<1>4. \A v \in Protein : v \in Nat
  BY DEF Nevo!ConstantsAssumption
<1>5. 0 \in Nat /\ Nevo!NoMatch \in Seq(Nevo!EnrichmentRecord)
  BY EndpointsAppend
<1> QED BY <1>1, <1>2, <1>3, <1>4, <1>5, EndpointsAppend DEF Nevo!Application

-----------------------------------------------------------------------------
(* What the commands do *)

\* One record more for one product.
LEMMA Appending ==
    ASSUME NevoIInv, NEW p \in Product, NEW r \in NevoRecord, Nevo!Append1(p, r),
           Once(Append(records[p], r)),
           r.version = "v2_embeddings" => Nevo!V2Of(records[p]) = {}
    PROVE  /\ records' \in [Product -> Seq(NevoRecord)]
           /\ records'[p] = Append(records[p], r)
           /\ \A q \in Product : Once(records'[q])
           /\ \A q \in Product : \A row :
                Splits(row, records[q]) => Splits(row, records'[q])
           /\ ProposalsFit(proposals, records')
<1>1. /\ records[p] \in Seq(NevoRecord)
      /\ records' = [records EXCEPT ![p] = Append(records[p], r)]
  BY DEF NevoIInv, Nevo!Append1
<1>2. /\ records' \in [Product -> Seq(NevoRecord)]
      /\ records'[p] = Append(records[p], r)
      /\ \A q \in Product \ {p} : records'[q] = records[q]
  BY <1>1, OneMore DEF NevoIInv
<1>3. \A q \in Product : Once(records'[q])
  BY <1>2 DEF NevoIInv
<1>4. ASSUME NEW q \in Product, NEW row, Splits(row, records[q])
      PROVE  Splits(row, records'[q])
  <2>1. CASE q = p
    <3>1. Nevo!V2Of(records[p]) # {}
      BY <1>4, <2>1 DEF Splits
    <3>2. /\ Nevo!V2Of(Append(records[p], r)) = Nevo!V2Of(records[p])
          /\ \A i \in DOMAIN records[p] : Append(records[p], r)[i] = records[p][i]
      BY <1>1, <3>1, OneMore
    <3>3. Splits(row, Append(records[p], r))
      BY <1>4, <2>1, <3>2, StillSplits
    <3> QED BY <1>2, <2>1, <3>3
  <2>2. CASE q # p
    BY <1>2, <1>4, <2>2
  <2> QED BY <2>1, <2>2
<1>5. ProposalsFit(proposals, records')
  BY <1>4 DEF NevoIInv, ProposalsFit
<1> QED BY <1>2, <1>3, <1>4, <1>5

\* The records the commands insert.
LEMMA Inserted ==
    ASSUME NEW v \in Int
    PROVE  /\ LET r == Nevo!Marked(Nevo!Record("protein_pct", "nevo", "enriched", v),
                                   "v2_embeddings")
              IN  /\ r \in NevoRecord /\ r.version = "v2_embeddings"
                  /\ r.nutrient = "protein_pct" /\ r.value = v
           /\ \A n \in Halves :
                LET r == Nevo!Half(n, v)
                IN  /\ r \in NevoRecord /\ r.version = "v2_embeddings_split"
                    /\ r.nutrient = n /\ r.value = v /\ r.status = "enriched"
BY DEF Nevo!Half, Nevo!Marked, Nevo!Record, NevoRecord, Halves,
       Nevo!Nutrient, Nevo!Source, Nevo!Status

\* A total where there was none.
LEMMA TotalOnce ==
    ASSUME NEW old \in Seq(NevoRecord), NEW r \in NevoRecord,
           Once(old), Nevo!V2Of(old) = {}, r.version = "v2_embeddings",
           r.nutrient = "protein_pct", r.value # Nevo!NoValue
    PROVE  Once(Append(old, r))
<1> DEFINE new == Append(old, r)
           last == Len(old) + 1
<1>1. /\ new[last] = r /\ last \in DOMAIN new
      /\ Nevo!V2Of(new) = {last}
      /\ \A n \in Halves : Nevo!HalvesOf(new, n) = {}
  <2>1. \A n \in Halves : Nevo!HalvesOf(old, n) = {}
    BY DEF Once
  <2> QED BY <2>1, OneMore
<1> HIDE DEF new, last
<1>2. {last} \subseteq Nevo!TotalsOf(new)
  BY <1>1 DEF Nevo!TotalsOf
<1>3. AddUp(new)
  BY <1>1 DEF AddUp, Halves
<1>4. Once(new)
  BY <1>1, <1>2, <1>3 DEF Once, AtMostOne
<1> QED BY <1>4 DEF new

LEMMA OneHalfMore ==
    ASSUME NEW old \in Seq(NevoRecord), NEW r \in NevoRecord,
           r.version = "v2_embeddings_split", r.nutrient \in Halves,
           Nevo!HalvesOf(old, r.nutrient) = {}
    PROVE  LET new == Append(old, r)
               last == Len(old) + 1
           IN  /\ new[last] = r /\ last \in DOMAIN new
               /\ \A i \in DOMAIN old : i \in DOMAIN new /\ new[i] = old[i]
               /\ Nevo!V2Of(new) = Nevo!V2Of(old)
               /\ Nevo!HalvesOf(new, r.nutrient) = {last}
               /\ \A n \in Halves \ {r.nutrient} :
                    Nevo!HalvesOf(new, n) = Nevo!HalvesOf(old, n)
<1> DEFINE new == Append(old, r)
           last == Len(old) + 1
<1>1. /\ new[last] = r /\ last \in DOMAIN new
      /\ \A i \in DOMAIN old : i \in DOMAIN new /\ new[i] = old[i]
  BY OneMore
<1>2. Nevo!V2Of(new) = Nevo!V2Of(old)
  BY OneMore
<1>3. Nevo!HalvesOf(new, r.nutrient) = {last}
  BY OneMore
<1>4. ASSUME NEW n \in Halves \ {r.nutrient}
      PROVE  Nevo!HalvesOf(new, n) = Nevo!HalvesOf(old, n)
  BY OneMore
<1> QED BY <1>1, <1>2, <1>3, <1>4

\* A half where there was none of its kind, and the other fits.
LEMMA HalfOnce ==
    ASSUME NEW old \in Seq(NevoRecord), NEW r \in NevoRecord,
           Once(old), Nevo!V2Of(old) # {}, r.version = "v2_embeddings_split",
           r.nutrient \in Halves, r.status = "enriched", r.value # Nevo!NoValue,
           Nevo!HalvesOf(old, r.nutrient) = {},
           \A n \in Halves \ {r.nutrient} :
                \A i \in Nevo!HalvesOf(old, n), k \in Nevo!V2Of(old) :
                    old[i].value + r.value = old[k].value
    PROVE  Once(Append(old, r))
<1> DEFINE new == Append(old, r)
           last == Len(old) + 1
<1>1. /\ new[last] = r /\ last \in DOMAIN new
      /\ \A i \in DOMAIN old : i \in DOMAIN new /\ new[i] = old[i]
      /\ Nevo!V2Of(new) = Nevo!V2Of(old)
      /\ Nevo!HalvesOf(new, r.nutrient) = {last}
      /\ \A n \in Halves \ {r.nutrient} : Nevo!HalvesOf(new, n) = Nevo!HalvesOf(old, n)
  BY OneHalfMore
<1> HIDE DEF new, last
<1>2. /\ Nevo!V2Of(old) \subseteq DOMAIN old
      /\ \A n \in Halves : Nevo!HalvesOf(old, n) \subseteq DOMAIN old
  BY DEF Nevo!V2Of, Nevo!HalvesOf
<1>3. /\ Nevo!V2Of(new) \subseteq Nevo!TotalsOf(new)
      /\ \A i \in Nevo!V2Of(new) : new[i].value # Nevo!NoValue
      /\ AtMostOne(Nevo!V2Of(new))
  BY <1>1, <1>2 DEF Once, Nevo!TotalsOf
<1>4. ASSUME NEW n \in Halves
      PROVE  /\ AtMostOne(Nevo!HalvesOf(new, n))
             /\ Nevo!HalvesOf(new, n) \subseteq Nevo!Usable(new, n)
  <2>1. CASE n = r.nutrient
    BY <1>1, <2>1 DEF AtMostOne, Nevo!Usable
  <2>2. CASE n # r.nutrient
    BY <1>1, <1>2, <2>2 DEF Once, Nevo!Usable
  <2> QED BY <2>1, <2>2
<1>5. \A k \in Nevo!V2Of(old) : new[k] = old[k]
  BY <1>1, <1>2
<1>6. \A n \in Halves \ {r.nutrient} :
        \A i \in Nevo!HalvesOf(new, n), k \in Nevo!V2Of(new) :
            new[i].value + new[last].value = new[k].value
  BY <1>1, <1>2, <1>5
<1>7. \A n \in Halves : \A i \in Nevo!HalvesOf(new, n) : new[i].value \in Int
  <2>1. new \in Seq(NevoRecord)
    BY OneMore DEF new
  <2>2. \A i \in DOMAIN new : new[i] \in NevoRecord
    BY <2>1
  <2>3. \A i \in DOMAIN new : new[i].value \in Int
    BY <2>2 DEF NevoRecord
  <2> QED BY <2>3 DEF Nevo!HalvesOf
<1>8. AddUp(new)
  <2> SUFFICES ASSUME NEW i \in Nevo!HalvesOf(new, "plant_protein_pct"),
                      NEW j \in Nevo!HalvesOf(new, "animal_protein_pct"),
                      NEW k \in Nevo!V2Of(new)
               PROVE  new[i].value + new[j].value = new[k].value
    BY DEF AddUp
  <2>1. new[i].value \in Int /\ new[j].value \in Int
    BY <1>7 DEF Halves
  <2>2. CASE r.nutrient = "plant_protein_pct"
    <3>1. i = last
      BY <1>1, <2>2
    <3>2. new[j].value + new[last].value = new[k].value
      BY <1>6, <2>2 DEF Halves
    <3> QED BY <2>1, <3>1, <3>2
  <2>3. CASE r.nutrient = "animal_protein_pct"
    <3>1. j = last
      BY <1>1, <2>3
    <3> QED BY <1>6, <2>3, <3>1 DEF Halves
  <2> QED BY <2>2, <2>3 DEF Halves
<1>9. Once(new)
  BY <1>1, <1>3, <1>4, <1>8 DEF Once
<1> QED BY <1>9 DEF new

\* What a command does at first: reads the package or a file, and writes a file.
LEMMA FileSteps ==
    ASSUME NevoIInv, Nevo!ConstantsAssumption, Nevo!OneOperator, NEW o \in DOMAIN cmd,
           \/ Nevo!Validate(o) \/ Nevo!WriteApproved(o) \/ Nevo!MakePlan(o)
           \/ Nevo!StartApply(o) \/ Nevo!Propose(o) \/ Nevo!StartSplits(o)
           \/ Nevo!Die(o)
    PROVE  NevoIInv'
<1> USE DEF Nevo!OneOperator, Nevo!Crew
<1>1. CommandFits(cmd[o], records) /\ cmd = [cmd EXCEPT ![o] = cmd[o]]
  BY DEF NevoIInv
<1>2. CommandFits([at |-> "idle", todo |-> {}], records)
  BY DEF CommandFits
<1>3. ApprovedFits(approved) /\ ProposalsFit(proposals, records)
  BY DEF NevoIInv
<1>4. CASE Nevo!Validate(o)
  <2>1. CommandFits([at |-> "approving", todo |-> Nevo!Approved(sheet)], records)
    BY ApprovedAreCandidates DEF NevoIInv, CommandFits, RowsFit
  <2> QED
    BY <1>3, <1>4, <2>1, QuietStep DEF Nevo!Validate, Nevo!Becomes, Nevo!world
<1>5. CASE Nevo!WriteApproved(o)
  <2>1. ApprovedFits(approved')
    BY <1>1, <1>5 DEF Nevo!WriteApproved, CommandFits, RowsFit, ApprovedFits
  <2> QED
    BY <1>2, <1>3, <1>5, <2>1, QuietStep
       DEF Nevo!WriteApproved, Nevo!Becomes, Nevo!world
<1>6. CASE Nevo!MakePlan(o)
  BY <1>1, <1>3, <1>6, QuietStep DEF Nevo!MakePlan, Nevo!world
<1>7. CASE Nevo!StartApply(o)
  <2>1. PICK todo \in SUBSET approved \ {{}} : Nevo!Becomes(o, "applying", todo)
    BY <1>7 DEF Nevo!StartApply
  <2>2. \A row \in todo : IsCandidate(row)
    BY <1>3, <1>7 DEF Nevo!StartApply, Nevo!Preconditions, ApprovedFits
  <2>3. CommandFits([at |-> "applying", todo |-> todo], records)
    BY <2>2 DEF CommandFits, RowsFit
  <2> QED
    BY <1>3, <1>7, <2>1, <2>3, QuietStep
       DEF Nevo!StartApply, Nevo!Becomes, Nevo!world, Nevo!files
<1>8. CASE Nevo!Propose(o)
  BY <1>1, <1>3, <1>8, ProposalsSplit, QuietStep DEF Nevo!Propose, Nevo!world
<1>9. CASE Nevo!StartSplits(o)
  <2> DEFINE Chosen(p) == [product |-> p, plant |-> proposals[p].plant,
                         animal |-> proposals[p].animal]
  <2>1. PICK chosen \in SUBSET {p \in DOMAIN proposals :
                                    proposals[p].action = "would_split"} :
            Nevo!Becomes(o, "splitting", {Chosen(p) : p \in chosen})
    BY <1>9 DEF Nevo!StartSplits
  <2>2. proposals # NoFile
    BY <1>9 DEF Nevo!StartSplits
  <2>3. ASSUME NEW p \in chosen
        PROVE  /\ Chosen(p).product \in Product
               /\ Splits(Chosen(p), records[Chosen(p).product])
    <3>1. p \in Product /\ Splits(proposals[p], records[p])
      BY <1>3, <2>2 DEF ProposalsFit
    <3> QED BY <3>1 DEF Splits
  <2> DEFINE todo == {Chosen(p) : p \in chosen}
  <2>4. \A row \in todo : row.product \in Product /\ Splits(row, records[row.product])
    BY <2>3
  <2> HIDE DEF todo
  <2>5. CommandFits([at |-> "splitting", todo |-> todo], records)
    BY <2>4 DEF CommandFits, RowsFit
  <2>6. cmd' = [cmd EXCEPT ![o] = [at |-> "splitting", todo |-> todo]]
    BY <2>1 DEF Nevo!Becomes, todo
  <2> QED
    BY <1>3, <1>9, <2>5, <2>6, QuietStep DEF Nevo!StartSplits, Nevo!world, Nevo!files
<1>10. CASE Nevo!Die(o)
  BY <1>2, <1>3, <1>10, QuietStep DEF Nevo!Die, Nevo!Becomes, Nevo!world, Nevo!files
<1> QED BY <1>4, <1>5, <1>6, <1>7, <1>8, <1>9, <1>10

\* The command is done with a row.
LEMMA DoneStep ==
    ASSUME NevoIInv, Nevo!OneOperator, NEW o \in DOMAIN cmd, NEW row,
           NEW at \in {"applying", "splitting"}, Nevo!Done(o, row, at),
           RowsFit(at, cmd[o].todo, records'),
           UNCHANGED <<sheet, approved, proposals>>,
           records' \in [Product -> Seq(NevoRecord)],
           \A p \in Product : Once(records'[p]),
           ProposalsFit(proposals, records')
    PROVE  NevoIInv'
<1>1. /\ CommandFits([at |-> "idle", todo |-> {}], records')
      /\ CommandFits([at |-> at, todo |-> cmd[o].todo \ {row}], records')
  BY DoneFits
<1>2. PICK c \in {[at |-> "idle", todo |-> {}],
                  [at |-> at, todo |-> cmd[o].todo \ {row}]} :
        cmd' = [cmd EXCEPT ![o] = c]
  BY DEF Nevo!Done, Nevo!Becomes
<1>3. ApprovedFits(approved') /\ ProposalsFit(proposals', records')
  BY DEF NevoIInv
<1> QED BY <1>1, <1>2, <1>3, CommandStep DEF Nevo!OneOperator, Nevo!Crew

\* A row is skipped, looked up, or refused.
LEMMA RowSteps ==
    ASSUME NevoIInv, Nevo!OneOperator, NEW o \in DOMAIN cmd,
           \/ Nevo!RefuseRow(o)
           \/ \E row \in cmd[o].todo :
                \/ Nevo!SkipRow(o, row) \/ Nevo!LookUpRow(o, row)
                \/ Nevo!SkipSplit(o, row) \/ Nevo!LookUpSplit(o, row)
    PROVE  NevoIInv'
<1>1. /\ CommandFits(cmd[o], records)
      /\ ApprovedFits(approved) /\ ProposalsFit(proposals, records)
      /\ records \in [Product -> Seq(NevoRecord)]
      /\ \A p \in Product : Once(records[p])
  BY DEF NevoIInv
<1>2. CASE Nevo!RefuseRow(o)
  <2> DEFINE at == IF cmd[o].at = "writing" THEN "applying" ELSE "splitting"
  <2>1. /\ Nevo!Done(o, cmd[o].row, at)
        /\ at \in {"applying", "splitting"}
        /\ RowsFit(at, cmd[o].todo, records)
    BY <1>1, <1>2 DEF Nevo!RefuseRow, CommandFits
  <2> HIDE DEF at
  <2> QED BY <1>1, <1>2, <2>1, DoneStep DEF Nevo!RefuseRow, Nevo!files, Nevo!world
<1>3. ASSUME NEW row \in cmd[o].todo, Nevo!SkipRow(o, row) PROVE NevoIInv'
  BY <1>1, <1>3, DoneStep DEF Nevo!SkipRow, Nevo!files, Nevo!world, CommandFits
<1>4. ASSUME NEW row \in cmd[o].todo, Nevo!SkipSplit(o, row) PROVE NevoIInv'
  BY <1>1, <1>4, DoneStep DEF Nevo!SkipSplit, Nevo!files, Nevo!world, CommandFits
<1>5. ASSUME NEW row \in cmd[o].todo, Nevo!LookUpRow(o, row) PROVE NevoIInv'
  <2> DEFINE c == [at |-> "writing", todo |-> cmd[o].todo, row |-> row]
  <2>1. cmd[o].at = "applying" /\ row.value # Nevo!NoValue
    BY <1>5 DEF Nevo!LookUpRow
  <2>2. IsCandidate(row) /\ RowsFit("applying", cmd[o].todo, records)
    BY <1>1, <2>1 DEF CommandFits, RowsFit
  <2>3. Nevo!V2Of(records[row.product]) = {}
    <3>1. Once(records[row.product])
      BY <1>1, <2>2 DEF IsCandidate
    <3>2. Nevo!Disposition(records[row.product]) = "write"
      BY <1>5 DEF Nevo!LookUpRow
    <3>3. Nevo!TotalsOf(records[row.product])
            \cap Nevo!V2Of(records[row.product]) = {}
      BY <3>2 DEF Nevo!Disposition
    <3> QED BY <3>1, <3>3 DEF Once
  <2>4. CommandFits(c, records)
    BY <2>1, <2>2, <2>3 DEF CommandFits
  <2>5. cmd' = [cmd EXCEPT ![o] = c]
    BY <1>5 DEF Nevo!LookUpRow
  <2> HIDE DEF c
  <2> QED
    BY <1>1, <1>5, <2>4, <2>5, QuietStep
       DEF Nevo!LookUpRow, Nevo!files, Nevo!world, Nevo!OneOperator, Nevo!Crew
<1>6. ASSUME NEW row \in cmd[o].todo, Nevo!LookUpSplit(o, row) PROVE NevoIInv'
  <2> DEFINE c == [at |-> "plant", todo |-> cmd[o].todo, row |-> row]
  <2>1. cmd[o].at = "splitting"
    BY <1>6 DEF Nevo!LookUpSplit
  <2>2. /\ RowsFit("splitting", cmd[o].todo, records)
        /\ row.product \in Product /\ Splits(row, records[row.product])
    BY <1>1, <2>1 DEF CommandFits, RowsFit
  <2>3. \A n \in Halves : Nevo!HalvesOf(records[row.product], n) = {}
    <3>1. Once(records[row.product])
      BY <1>1, <2>2
    <3>2. Nevo!Splittable(records[row.product])
      BY <1>6 DEF Nevo!LookUpSplit
    <3>3. \A n \in Halves : Nevo!Usable(records[row.product], n) = {}
      BY <3>2 DEF Nevo!Splittable, Nevo!HasExistingSplit, Halves
    <3> QED BY <3>1, <3>3 DEF Once
  <2>4. CommandFits(c, records)
    BY <2>2, <2>3 DEF CommandFits, Halves
  <2>5. cmd' = [cmd EXCEPT ![o] = c]
    BY <1>6 DEF Nevo!LookUpSplit
  <2> HIDE DEF c
  <2> QED
    BY <1>1, <1>6, <2>4, <2>5, QuietStep
       DEF Nevo!LookUpSplit, Nevo!files, Nevo!world, Nevo!OneOperator, Nevo!Crew
<1> QED BY <1>2, <1>3, <1>4, <1>5, <1>6

\* A total is inserted.
LEMMA WriteRowStep ==
    ASSUME NevoIInv, Nevo!OneOperator, NEW o \in DOMAIN cmd, Nevo!WriteRow(o)
    PROVE  NevoIInv'
<1> DEFINE row == cmd[o].row
           r == Nevo!Marked(Nevo!Record("protein_pct", "nevo", "enriched", row.value),
                            "v2_embeddings")
<1>1. /\ cmd[o].at = "writing" /\ Nevo!Append1(row.product, r)
      /\ Nevo!Done(o, row, "applying")
      /\ UNCHANGED <<sheet, approved, proposals>>
  BY DEF Nevo!WriteRow, Nevo!files, Nevo!world
<1>2. /\ row.product \in Product /\ row.value \in Int /\ row.value # Nevo!NoValue
      /\ Nevo!V2Of(records[row.product]) = {}
      /\ RowsFit("applying", cmd[o].todo, records)
  BY <1>1 DEF NevoIInv, CommandFits, IsCandidate
<1>3. /\ r \in NevoRecord /\ r.version = "v2_embeddings"
      /\ r.nutrient = "protein_pct" /\ r.value = row.value
  BY <1>2, Inserted
<1> HIDE DEF r
<1>4. records[row.product] \in Seq(NevoRecord) /\ Once(records[row.product])
  BY <1>2 DEF NevoIInv
<1>5. Once(Append(records[row.product], r))
  BY <1>2, <1>3, <1>4, TotalOnce
<1>6. /\ records' \in [Product -> Seq(NevoRecord)]
      /\ \A q \in Product : Once(records'[q])
      /\ ProposalsFit(proposals, records')
  BY <1>1, <1>2, <1>3, <1>5, Appending
<1>7. RowsFit("applying", cmd[o].todo, records')
  BY <1>2 DEF RowsFit
<1> QED BY <1>1, <1>6, <1>7, DoneStep

\* The plant half is inserted; the animal half is next.
LEMMA WritePlantStep ==
    ASSUME NevoIInv, Nevo!OneOperator, NEW o \in DOMAIN cmd, Nevo!WritePlant(o)
    PROVE  NevoIInv'
<1> DEFINE row == cmd[o].row
           r == Nevo!Half("plant_protein_pct", row.plant)
           c == [at |-> "animal", todo |-> cmd[o].todo, row |-> row]
           found == records[row.product]
<1>1. /\ cmd[o].at = "plant" /\ Nevo!Append1(row.product, r)
      /\ cmd' = [cmd EXCEPT ![o].at = "animal"]
      /\ UNCHANGED <<sheet, approved, proposals>>
  BY DEF Nevo!WritePlant, Nevo!files, Nevo!world
<1>2. /\ cmd[o] = [at |-> cmd[o].at, todo |-> cmd[o].todo, row |-> row]
      /\ row.product \in Product /\ Splits(row, found)
      /\ Nevo!HalvesOf(found, "plant_protein_pct") = {}
      /\ Nevo!HalvesOf(found, "animal_protein_pct") = {}
      /\ RowsFit("splitting", cmd[o].todo, records)
  BY <1>1 DEF NevoIInv, CommandFits
<1>3. cmd' = [cmd EXCEPT ![o] = c]
  <2>1. [cmd[o] EXCEPT !.at = "animal"] = c
    BY <1>2
  <2>2. cmd' = [cmd EXCEPT ![o] = [cmd[o] EXCEPT !.at = "animal"]]
    BY <1>1
  <2> HIDE DEF c
  <2> QED BY <2>1, <2>2
<1>4. row.plant \in Int /\ row.plant # Nevo!NoValue /\ Nevo!V2Of(found) # {}
  BY <1>2 DEF Splits
<1>5. /\ r \in NevoRecord /\ r.version = "v2_embeddings_split" /\ r.status = "enriched"
      /\ r.nutrient = "plant_protein_pct" /\ r.value = row.plant
  BY <1>4, Inserted DEF Halves
<1> HIDE DEF r
<1>6. found \in Seq(NevoRecord) /\ Once(found)
  BY <1>2 DEF NevoIInv
<1>7. Once(Append(found, r))
  BY <1>2, <1>4, <1>5, <1>6, HalfOnce DEF Halves
<1>8. /\ records' \in [Product -> Seq(NevoRecord)]
      /\ records'[row.product] = Append(found, r)
      /\ \A q \in Product : Once(records'[q])
      /\ \A q \in Product : \A x : Splits(x, records[q]) => Splits(x, records'[q])
      /\ ProposalsFit(proposals, records')
  BY <1>1, <1>2, <1>5, <1>7, Appending
<1> DEFINE new == Append(found, r)
           last == Len(found) + 1
<1>9. /\ Nevo!HalvesOf(new, "plant_protein_pct") = {last} /\ new[last] = r
      /\ Nevo!HalvesOf(new, "animal_protein_pct") = {}
  <2>1. r.nutrient \in Halves /\ "animal_protein_pct" \in Halves \ {r.nutrient}
    BY <1>5 DEF Halves
  <2> HIDE DEF row, found
  <2>2. /\ Nevo!HalvesOf(new, r.nutrient) = {last} /\ new[last] = r
        /\ \A n \in Halves \ {r.nutrient} :
            Nevo!HalvesOf(new, n) = Nevo!HalvesOf(found, n)
    BY <1>2, <1>5, <1>6, <2>1, OneHalfMore
  <2> HIDE DEF new, last
  <2> QED BY <1>2, <1>5, <2>1, <2>2
<1> HIDE DEF new, last
<1>10. RowsFit("splitting", c.todo, records')
  BY <1>2, <1>8 DEF RowsFit
<1>11. Splits(row, records'[row.product])
  BY <1>2, <1>8
<1>12. records'[row.product] = new
  BY <1>8 DEF new
<1>13. CommandFits(c, records')
  BY <1>2, <1>5, <1>9, <1>10, <1>11, <1>12 DEF CommandFits
<1>14. ApprovedFits(approved') /\ ProposalsFit(proposals', records')
  BY <1>1, <1>8 DEF NevoIInv
<1> HIDE DEF c, row
<1> QED BY <1>1, <1>3, <1>8, <1>13, <1>14, CommandStep DEF Nevo!OneOperator, Nevo!Crew

\* The animal half is inserted: the two halves add up to the total.
LEMMA WriteAnimalStep ==
    ASSUME NevoIInv, Nevo!OneOperator, NEW o \in DOMAIN cmd, Nevo!WriteAnimal(o)
    PROVE  NevoIInv'
<1> DEFINE row == cmd[o].row
           r == Nevo!Half("animal_protein_pct", row.animal)
           found == records[row.product]
<1>1. /\ cmd[o].at = "animal" /\ Nevo!Append1(row.product, r)
      /\ Nevo!Done(o, row, "splitting")
      /\ UNCHANGED <<sheet, approved, proposals>>
  BY DEF Nevo!WriteAnimal, Nevo!files, Nevo!world
<1>2. /\ row.product \in Product /\ Splits(row, found)
      /\ Nevo!HalvesOf(found, "animal_protein_pct") = {}
      /\ \A i \in Nevo!HalvesOf(found, "plant_protein_pct") : found[i].value = row.plant
      /\ RowsFit("splitting", cmd[o].todo, records)
  BY <1>1 DEF NevoIInv, CommandFits
<1>3. /\ row.plant \in Int /\ row.animal \in Int /\ row.animal # Nevo!NoValue
      /\ Nevo!V2Of(found) # {}
      /\ \A k \in Nevo!V2Of(found) : row.plant + row.animal = found[k].value
  BY <1>2 DEF Splits
<1>4. /\ r \in NevoRecord /\ r.version = "v2_embeddings_split" /\ r.status = "enriched"
      /\ r.nutrient = "animal_protein_pct" /\ r.value = row.animal
  BY <1>3, Inserted DEF Halves
<1> HIDE DEF r
<1>5. found \in Seq(NevoRecord) /\ Once(found)
  BY <1>2 DEF NevoIInv
<1>6. Once(Append(found, r))
  <2>1. \A n \in Halves \ {r.nutrient} :
            \A i \in Nevo!HalvesOf(found, n), k \in Nevo!V2Of(found) :
                found[i].value + r.value = found[k].value
    BY <1>2, <1>3, <1>4 DEF Halves
  <2> HIDE DEF found
  <2> QED BY <1>2, <1>3, <1>4, <1>5, <2>1, HalfOnce DEF Halves
<1>7. /\ records' \in [Product -> Seq(NevoRecord)]
      /\ \A q \in Product : Once(records'[q])
      /\ \A q \in Product : \A x : Splits(x, records[q]) => Splits(x, records'[q])
      /\ ProposalsFit(proposals, records')
  BY <1>1, <1>2, <1>4, <1>6, Appending
<1>8. RowsFit("splitting", cmd[o].todo, records')
  BY <1>2, <1>7 DEF RowsFit
<1> QED BY <1>1, <1>7, <1>8, DoneStep

LEMMA NevoInit ==
    ASSUME Nevo!Init, Rows \subseteq Nevo!Row
    PROVE  NevoIInv
<1>1. /\ records = [p \in Product |-> <<>>] /\ sheet \in [Product -> Nevo!Row]
      /\ cmd = [o \in DOMAIN cmd |-> [at |-> "idle", todo |-> {}]]
      /\ approved = NoFile /\ proposals = NoFile
  BY DEF Nevo!Init, Nevo!Idle
<1>2. <<>> \in Seq(NevoRecord) /\ DOMAIN <<>> = {}
  OBVIOUS
<1>3. Once(<<>>)
  BY <1>2 DEF Once, AtMostOne, AddUp, Nevo!V2Of, Nevo!HalvesOf
<1>4. \A o \in DOMAIN cmd : CommandFits(cmd[o], records)
  BY <1>1 DEF CommandFits
<1> QED BY <1>1, <1>2, <1>3, <1>4 DEF NevoIInv, ApprovedFits, ProposalsFit

LEMMA NevoNext ==
    ASSUME NevoIInv, Nevo!ConstantsAssumption, Nevo!OneOperator, Rows \subseteq Nevo!Row,
           [Nevo!Next]_(Nevo!vars)
    PROVE  NevoIInv'
<1>1. ASSUME NEW o \in DOMAIN cmd, Nevo!Command(o) PROVE NevoIInv'
  BY <1>1, FileSteps, RowSteps, WriteRowStep, WritePlantStep, WriteAnimalStep
     DEF Nevo!Command
<1>2. ASSUME NEW p \in Product,
             Nevo!Application(p) \/ \E row \in Rows : Nevo!Review(p, row)
      PROVE  NevoIInv'
  BY <1>2, AroundSteps
<1>3. CASE UNCHANGED Nevo!vars
  BY <1>3, AroundStep, ExtendsItself DEF Nevo!vars, NevoIInv
<1> QED BY <1>1, <1>2, <1>3 DEF Nevo!Next, Nevo!Crew

\* Nobody joins and nobody leaves.
LEMMA CrewStays == ASSUME [Nevo!Next]_(Nevo!vars) PROVE DOMAIN cmd' = DOMAIN cmd
<1>1. ASSUME NEW o \in DOMAIN cmd, Nevo!Command(o) PROVE DOMAIN cmd' = DOMAIN cmd
  <2>1. \/ UNCHANGED cmd
        \/ \E c : cmd' = [cmd EXCEPT ![o] = c]
    BY <1>1
       DEF Nevo!Command, Nevo!Validate, Nevo!WriteApproved, Nevo!MakePlan,
           Nevo!StartApply, Nevo!SkipRow, Nevo!LookUpRow, Nevo!WriteRow, Nevo!RefuseRow,
           Nevo!Propose, Nevo!StartSplits, Nevo!SkipSplit, Nevo!LookUpSplit,
           Nevo!WritePlant, Nevo!WriteAnimal, Nevo!Die, Nevo!Done, Nevo!Becomes
  <2> QED BY <2>1
<1>2. ASSUME NEW p \in Product,
             Nevo!Application(p) \/ \E row \in Rows : Nevo!Review(p, row)
      PROVE  UNCHANGED cmd
  BY <1>2 DEF Nevo!Application, Nevo!Classify, Nevo!Enrich, Nevo!Review
<1>3. CASE UNCHANGED Nevo!vars
  BY <1>3 DEF Nevo!vars
<1> QED BY <1>1, <1>2, <1>3 DEF Nevo!Next, Nevo!Crew

\* With one operator nothing is applied twice, whatever is reviewed, classified and
\* enriched meanwhile, however often a command is repeated and wherever it dies: a
\* product has one V2 total and one half of each kind, and the halves add up to it
\* (apply_nevo_v2.py and apply_nevo_v2_protein_split.py look before they insert).
THEOREM NothingIsAppliedTwice ==
    ASSUME Nevo!ConstantsAssumption, Rows \subseteq Nevo!Row
    PROVE  Nevo!Spec => []Nevo!AppliedOnce
<1>1. ASSUME NEW S, S \subseteq Nat, AtMostOne(S)
      PROVE  /\ Nevo!Cardinality(S) <= 1
             /\ S # {} => Nevo!Min(S) \in S
  <2>1. Nevo!Cardinality(S) = Cardinality(S)
    BY DEF Nevo!Cardinality, Cardinality
  <2>2. CASE S = {}
    BY <2>1, <2>2, FS_EmptySet
  <2>3. CASE S # {}
    <3>1. PICK x : x \in S
      BY <2>3
    <3>2. S = {x}
      BY <1>1, <3>1 DEF AtMostOne
    <3> QED BY <1>1, <2>1, <2>3, <3>2, FS_Singleton, MinOfOne
  <2> QED BY <2>2, <2>3
<1>2. ASSUME NevoIInv, NEW p \in Product PROVE Nevo!OnceApplied(records[p])
  <2> DEFINE found == records[p]
             plants == Nevo!HalvesOf(found, "plant_protein_pct")
             animals == Nevo!HalvesOf(found, "animal_protein_pct")
             totals == Nevo!V2Of(found)
  <2>1. found \in Seq(NevoRecord) /\ Once(found)
    BY <1>2 DEF NevoIInv
  <2>2. plants \subseteq Nat /\ animals \subseteq Nat /\ totals \subseteq Nat
    BY <2>1 DEF Nevo!HalvesOf, Nevo!V2Of
  <2>3. /\ AtMostOne(plants) /\ AtMostOne(animals) /\ AtMostOne(totals)
        /\ plants # {} => totals # {}
    BY <2>1 DEF Once, Halves
  <2>4. \A i \in plants, j \in animals, k \in totals :
            found[i].value + found[j].value = found[k].value
    BY <2>1 DEF Once, AddUp
  <2> HIDE DEF plants, animals, totals
  <2>5. /\ Nevo!Cardinality(totals) <= 1
        /\ Nevo!Cardinality(plants) <= 1 /\ Nevo!Cardinality(animals) <= 1
        /\ plants # {} /\ animals # {} =>
            found[Nevo!Min(plants)].value + found[Nevo!Min(animals)].value
                = found[Nevo!Min(totals)].value
    BY <1>1, <2>2, <2>3, <2>4
  <2> QED BY <2>5 DEF plants, animals, totals, Nevo!OnceApplied
<1> DEFINE I == Nevo!OneOperator => NevoIInv
<1>3. I => Nevo!AppliedOnce
  BY <1>2 DEF Nevo!AppliedOnce
<1>4. Nevo!Init => I
  BY NevoInit
<1>5. I /\ [Nevo!Next]_(Nevo!vars) => I'
  BY CrewStays, NevoNext
     DEF Nevo!OneOperator, Nevo!Crew
<1> HIDE DEF I
<1> QED BY <1>3, <1>4, <1>5, PTL DEF Nevo!Spec

-----------------------------------------------------------------------------
(* The audits of the NEVO matches, however many operators there are *)

\* A record of the commands carries a value of NEVO; a half is of a product that was
\* classified; and a half the application appended came with a total.
Traced(found, pt) ==
    /\ \A i \in Nevo!V2Of(found) :
        /\ found[i].nutrient = "protein_pct" /\ found[i].source = "nevo"
        /\ found[i].status = "enriched" /\ found[i].value # Nevo!NoValue
    /\ \A n \in Halves : \A i \in Nevo!HalvesOf(found, n) :
        /\ found[i].source = "nevo" /\ found[i].status = "enriched"
        /\ found[i].value # Nevo!NoValue /\ pt # Nevo!Unclassified
    /\ \A i \in DOMAIN found :
        found[i].version = "none" /\ found[i].nutrient \in Halves =>
            \E j \in DOMAIN found : /\ found[j].version = "none"
                                   /\ found[j].nutrient = "protein_pct"
                                   /\ found[j].value # Nevo!NoValue

SplitFits(row, groups) ==
    /\ row.product \in Product /\ groups[row.product] # Nevo!Unclassified
    /\ row.plant \in Int \ {Nevo!NoValue} /\ row.animal \in Int \ {Nevo!NoValue}

CommandCarries(c, groups) ==
    /\ c.at \in {"approving", "applying", "writing"} =>
        \A row \in c.todo : IsCandidate(row)
    /\ c.at = "writing" => IsCandidate(c.row) /\ c.row.value # Nevo!NoValue
    /\ c.at \in {"splitting", "plant", "animal"} =>
        \A row \in c.todo : SplitFits(row, groups)
    /\ c.at \in {"plant", "animal"} =>
        SplitFits(c.row, groups) /\ c = [at |-> c.at, todo |-> c.todo, row |-> c.row]

ProposalsCarry(file, groups) ==
    file # NoFile =>
        \A p \in DOMAIN file : file[p].action = "would_split" =>
            SplitFits([product |-> p, plant |-> file[p].plant,
                       animal |-> file[p].animal], groups)

TraceInv ==
    /\ records \in [Product -> Seq(NevoRecord)]
    /\ sheet \in [Product -> Nevo!Row]
    /\ group = [p \in Product |-> group[p]]
    /\ cmd = [o \in DOMAIN cmd |-> cmd[o]]
    /\ \A p \in Product : Traced(records[p], group[p])
    /\ \A o \in DOMAIN cmd : CommandCarries(cmd[o], group)
    /\ ApprovedFits(approved) /\ ProposalsCarry(proposals, group)

\* Steps that are no command's: a product may be classified, and not the reverse.
LEMMA TraceAround ==
    ASSUME TraceInv, UNCHANGED <<approved, proposals, cmd>>,
           sheet' \in [Product -> Nevo!Row],
           records' \in [Product -> Seq(NevoRecord)],
           group' = [p \in Product |-> group'[p]],
           \A p \in Product : group[p] # Nevo!Unclassified =>
                                    group'[p] # Nevo!Unclassified,
           \A p \in Product : Traced(records'[p], group'[p])
    PROVE  TraceInv'
<1>1. ASSUME NEW row, SplitFits(row, group) PROVE SplitFits(row, group')
  BY <1>1 DEF SplitFits
<1>2. ASSUME NEW o \in DOMAIN cmd PROVE CommandCarries(cmd[o], group')
  BY <1>1 DEF TraceInv, CommandCarries
<1>3. ProposalsCarry(proposals, group')
  BY <1>1 DEF TraceInv, ProposalsCarry
<1> QED BY <1>2, <1>3 DEF TraceInv

\* A step of a command.
LEMMA TraceCommand ==
    ASSUME TraceInv, NEW o \in DOMAIN cmd, NEW c, cmd' = [cmd EXCEPT ![o] = c],
           CommandCarries(c, group), UNCHANGED <<sheet, group>>,
           records' \in [Product -> Seq(NevoRecord)],
           \A p \in Product : Traced(records'[p], group[p]),
           ApprovedFits(approved'), ProposalsCarry(proposals', group)
    PROVE  TraceInv'
BY DEF TraceInv

LEMMA TraceQuiet ==
    ASSUME TraceInv, NEW o \in DOMAIN cmd, NEW c, cmd' = [cmd EXCEPT ![o] = c],
           CommandCarries(c, group), UNCHANGED <<sheet, group, records>>,
           ApprovedFits(approved'), ProposalsCarry(proposals', group)
    PROVE  TraceInv'
BY TraceCommand DEF TraceInv

LEMMA TraceDone ==
    ASSUME TraceInv, NEW o \in DOMAIN cmd, NEW row,
           NEW at \in {"applying", "splitting"}, Nevo!Done(o, row, at),
           at = "applying" => cmd[o].at \in {"applying", "writing"},
           at = "splitting" => cmd[o].at \in {"splitting", "plant", "animal"},
           UNCHANGED <<sheet, group, approved, proposals>>,
           records' \in [Product -> Seq(NevoRecord)],
           \A p \in Product : Traced(records'[p], group[p])
    PROVE  TraceInv'
<1>1. CommandCarries(cmd[o], group)
  BY DEF TraceInv
<1>2. CommandCarries([at |-> "idle", todo |-> {}], group)
  BY DEF CommandCarries
<1>3. CommandCarries([at |-> at, todo |-> cmd[o].todo \ {row}], group)
  <2>1. at = "applying" => \A r \in cmd[o].todo \ {row} : IsCandidate(r)
    BY <1>1 DEF CommandCarries
  <2>2. at = "splitting" => \A r \in cmd[o].todo \ {row} : SplitFits(r, group)
    BY <1>1 DEF CommandCarries
  <2> QED BY <2>1, <2>2 DEF CommandCarries
<1>4. PICK c \in {[at |-> "idle", todo |-> {}],
                  [at |-> at, todo |-> cmd[o].todo \ {row}]} :
        cmd' = [cmd EXCEPT ![o] = c]
  BY DEF Nevo!Done, Nevo!Becomes
<1>5. ApprovedFits(approved') /\ ProposalsCarry(proposals', group)
  BY DEF TraceInv
<1> QED BY <1>2, <1>3, <1>4, <1>5, TraceCommand

\* What one record does to the others of a product.
LEMMA TracedMore ==
    ASSUME NEW old \in Seq(NevoRecord), NEW r \in NevoRecord, NEW pt, Traced(old, pt),
           r.source = "nevo", r.status = "enriched", r.value # Nevo!NoValue,
           \/ r.version = "v2_embeddings" /\ r.nutrient = "protein_pct"
           \/ /\ r.version = "v2_embeddings_split" /\ r.nutrient \in Halves
              /\ pt # Nevo!Unclassified
    PROVE  Traced(Append(old, r), pt)
<1> DEFINE new == Append(old, r)
           last == Len(old) + 1
<1>1. /\ DOMAIN new = DOMAIN old \cup {last} /\ new[last] = r
      /\ \A i \in DOMAIN old : new[i] = old[i]
  OBVIOUS
<1> HIDE DEF new, last
<1>2. \A i \in Nevo!V2Of(new) :
        /\ new[i].nutrient = "protein_pct" /\ new[i].source = "nevo"
        /\ new[i].status = "enriched" /\ new[i].value # Nevo!NoValue
  BY <1>1 DEF Traced, Nevo!V2Of
<1>3. \A n \in Halves : \A i \in Nevo!HalvesOf(new, n) :
        /\ new[i].source = "nevo" /\ new[i].status = "enriched"
        /\ new[i].value # Nevo!NoValue /\ pt # Nevo!Unclassified
  BY <1>1 DEF Traced, Nevo!HalvesOf
<1>4. ASSUME NEW i \in DOMAIN new, new[i].version = "none", new[i].nutrient \in Halves
      PROVE  \E j \in DOMAIN new : /\ new[j].version = "none"
                                   /\ new[j].nutrient = "protein_pct"
                                   /\ new[j].value # Nevo!NoValue
  BY <1>1, <1>4 DEF Traced
<1>5. Traced(new, pt)
  BY <1>2, <1>3, <1>4 DEF Traced
<1> QED BY <1>5 DEF new

\* A command inserts a record.
LEMMA TraceInsert ==
    ASSUME TraceInv, NEW p \in Product, NEW r \in NevoRecord, Nevo!Append1(p, r),
           r.source = "nevo", r.status = "enriched", r.value # Nevo!NoValue,
           \/ r.version = "v2_embeddings" /\ r.nutrient = "protein_pct"
           \/ /\ r.version = "v2_embeddings_split" /\ r.nutrient \in Halves
              /\ group[p] # Nevo!Unclassified
    PROVE  /\ records' \in [Product -> Seq(NevoRecord)]
           /\ \A q \in Product : Traced(records'[q], group[q])
<1>1. /\ records[p] \in Seq(NevoRecord) /\ Traced(records[p], group[p])
      /\ records' = [records EXCEPT ![p] = Append(records[p], r)]
  BY DEF TraceInv, Nevo!Append1
<1> DEFINE new == Append(records[p], r)
<1>2. new \in Seq(NevoRecord) /\ Traced(new, group[p])
  BY <1>1, TracedMore
<1> HIDE DEF new
<1>3. /\ records' \in [Product -> Seq(NevoRecord)] /\ records'[p] = new
      /\ \A q \in Product \ {p} : records'[q] = records[q]
  BY <1>1, <1>2 DEF TraceInv, new
<1> QED BY <1>2, <1>3 DEF TraceInv

\* What the endpoints append: a half comes with a total.
Accompanied(found) ==
    \/ \A i \in DOMAIN found : found[i].nutrient \notin Halves
    \/ \E j \in DOMAIN found : /\ found[j].nutrient = "protein_pct"
                              /\ found[j].value # Nevo!NoValue

LEMMA EndpointsAccompany ==
    ASSUME NEW v \in Nat, NEW pt
    PROVE  /\ Accompanied(Nevo!Total("manual_altera", v))
           /\ Accompanied(Nevo!ManualNutrition(v, v, 0))
           /\ Accompanied(Nevo!NevoEntry(v, v, pt))
           /\ Accompanied(Nevo!NoMatch)
<1>1. v # Nevo!NoValue
  BY DEF Nevo!NoValue
<1>2. ASSUME NEW s, NEW more \in Seq(Nevo!EnrichmentRecord)
      PROVE  Accompanied(Nevo!Total(s, v) \o more) /\ Accompanied(Nevo!Total(s, v))
  <2> DEFINE r == Nevo!Record("protein_pct", s, "enriched", v)
  <2>1. r.nutrient = "protein_pct" /\ r.value # Nevo!NoValue
    BY <1>1 DEF Nevo!Record
  <2> HIDE DEF r
  <2>2. /\ 1 \in DOMAIN (<<r>> \o more) /\ (<<r>> \o more)[1] = r
        /\ 1 \in DOMAIN <<r>> /\ <<r>>[1] = r
    OBVIOUS
  <2>3. Accompanied(<<r>> \o more) /\ Accompanied(<<r>>)
    BY <2>1, <2>2 DEF Accompanied
  <2> QED BY <2>3 DEF Nevo!Total, r
<1>3. Accompanied(Nevo!NoMatch)
  BY DEF Accompanied, Nevo!NoMatch, Nevo!Record, Halves
<1>4. /\ Nevo!Both("manual_altera", v, 0) \in Seq(Nevo!EnrichmentRecord)
      /\ Nevo!Both("nevo", v, v - v) \in Seq(Nevo!EnrichmentRecord)
  BY DEF Nevo!Both, Nevo!Record, Nevo!EnrichmentRecord, Nevo!Nutrient, Nevo!Source,
         Nevo!Status
<1> QED
  BY <1>1, <1>2, <1>3, <1>4 DEF Nevo!ManualNutrition, Nevo!NevoEntry

LEMMA TracedOthers ==
    ASSUME NEW old \in Seq(NevoRecord), NEW found \in Seq(Nevo!EnrichmentRecord), NEW pt,
           Traced(old, pt), Accompanied(found)
    PROVE  Traced(old \o Nevo!Versioned(found, "none"), pt)
<1> DEFINE more == Nevo!Versioned(found, "none")
           new == old \o more
           At(j) == Len(old) + j
<1>1. Extends(new, old)
  BY MoreOfOthers
<1>2. /\ Len(old) \in Nat /\ DOMAIN found = 1 .. Len(found) /\ Len(found) \in Nat
      /\ DOMAIN old = 1 .. Len(old)
  OBVIOUS
<1>3. /\ more \in Seq(NevoRecord) /\ DOMAIN more = DOMAIN found
      /\ Len(more) = Len(found)
      /\ \A j \in DOMAIN found : /\ more[j].version = "none"
                                /\ more[j].nutrient = found[j].nutrient
                                /\ more[j].value = found[j].value
  <2>1. more = [j \in 1 .. Len(found) |-> Nevo!Marked(found[j], "none")]
    BY DEF Nevo!Versioned
  <2>2. \A j \in 1 .. Len(found) : Nevo!Marked(found[j], "none") \in NevoRecord
    <3> SUFFICES ASSUME NEW j \in 1 .. Len(found)
                 PROVE  Nevo!Marked(found[j], "none") \in NevoRecord
      OBVIOUS
    <3>1. found[j] \in Nevo!EnrichmentRecord
      OBVIOUS
    <3> QED BY <3>1, MarkedFits
  <2> HIDE DEF more
  <2> QED BY <1>2, <2>1, <2>2 DEF Nevo!Marked
<1> HIDE DEF more
<1>4. /\ \A j \in DOMAIN found : At(j) \in DOMAIN new /\ new[At(j)] = more[j]
      /\ \A i \in DOMAIN new : i \in DOMAIN old \/ \E j \in DOMAIN found : i = At(j)
  <2>1. DOMAIN new = 1 .. (Len(old) + Len(found))
    <3>1. new \in Seq(NevoRecord) /\ Len(new) = Len(old) + Len(more)
      BY <1>3, ConcatProperties
    <3> QED BY <1>3, <3>1
  <2>2. \A j \in 1 .. Len(found) : new[Len(old) + j] = more[j]
    BY <1>2, <1>3, <2>1
  <2> HIDE DEF new
  <2>3. \A j \in DOMAIN found : At(j) \in DOMAIN new /\ new[At(j)] = more[j]
    BY <1>2, <2>1, <2>2
  <2>4. ASSUME NEW i \in DOMAIN new, i \notin DOMAIN old
        PROVE  \E j \in DOMAIN found : i = At(j)
    <3>1. i - Len(old) \in DOMAIN found /\ i = At(i - Len(old))
      BY <1>2, <2>1, <2>4
    <3> QED BY <3>1
  <2> QED BY <2>3, <2>4
<1> HIDE DEF new, At
<1>5. /\ Nevo!V2Of(old) \subseteq DOMAIN old
      /\ \A n \in Halves : Nevo!HalvesOf(old, n) \subseteq DOMAIN old
  BY DEF Nevo!V2Of, Nevo!HalvesOf
<1>6. ASSUME NEW i \in DOMAIN new, new[i].version = "none", new[i].nutrient \in Halves
      PROVE  \E j \in DOMAIN new : /\ new[j].version = "none"
                                   /\ new[j].nutrient = "protein_pct"
                                   /\ new[j].value # Nevo!NoValue
  <2>1. CASE i \in DOMAIN old
    BY <1>1, <1>6, <2>1 DEF Traced, Extends
  <2>2. ASSUME NEW j \in DOMAIN found, i = At(j)
        PROVE  \E l \in DOMAIN new : /\ new[l].version = "none"
                                     /\ new[l].nutrient = "protein_pct"
                                     /\ new[l].value # Nevo!NoValue
    <3>1. found[j].nutrient \in Halves
      BY <1>3, <1>4, <1>6, <2>2
    <3>2. PICK l \in DOMAIN found : /\ found[l].nutrient = "protein_pct"
                                   /\ found[l].value # Nevo!NoValue
      BY <3>1 DEF Accompanied
    <3> QED BY <1>3, <1>4, <3>2
  <2> QED BY <1>4, <2>1, <2>2
<1>7. \A i \in Nevo!V2Of(new) :
        /\ new[i].nutrient = "protein_pct" /\ new[i].source = "nevo"
        /\ new[i].status = "enriched" /\ new[i].value # Nevo!NoValue
  BY <1>1, <1>5 DEF Traced, Extends
<1>8. \A n \in Halves : \A i \in Nevo!HalvesOf(new, n) :
        /\ new[i].source = "nevo" /\ new[i].status = "enriched"
        /\ new[i].value # Nevo!NoValue /\ pt # Nevo!Unclassified
  BY <1>1, <1>5 DEF Traced, Extends
<1>9. Traced(new, pt)
  BY <1>6, <1>7, <1>8 DEF Traced
<1> QED BY <1>9 DEF new, more

LEMMA TraceInit ==
    ASSUME Nevo!Init, Rows \subseteq Nevo!Row
    PROVE  TraceInv
<1>1. /\ records = [p \in Product |-> <<>>] /\ sheet \in [Product -> Nevo!Row]
      /\ group = [p \in Product |-> group[p]]
      /\ cmd = [o \in DOMAIN cmd |-> [at |-> "idle", todo |-> {}]]
      /\ approved = NoFile /\ proposals = NoFile
  BY DEF Nevo!Init, Nevo!Idle
<1>2. <<>> \in Seq(NevoRecord) /\ DOMAIN <<>> = {}
  OBVIOUS
<1>3. \A pt : Traced(<<>>, pt)
  BY <1>2 DEF Traced, Nevo!V2Of, Nevo!HalvesOf
<1>4. \A o \in DOMAIN cmd : CommandCarries(cmd[o], group)
  BY <1>1 DEF CommandCarries
<1> QED BY <1>1, <1>2, <1>3, <1>4 DEF TraceInv, ApprovedFits, ProposalsCarry

\* A proposal to split is of a classified product that has a total.
LEMMA ProposalsTrace ==
    ASSUME TraceInv PROVE ProposalsCarry(Nevo!Proposals, group)
<1> DEFINE file == Nevo!Proposals
<1>1. /\ DOMAIN file = {q \in Product : Nevo!V2Of(records[q]) # {}}
      /\ \A p \in DOMAIN file : file[p] = Nevo!SplitProposal(records[p], group[p])
  BY DEF Nevo!Proposals
<1> HIDE DEF file
<1>2. ASSUME NEW p \in DOMAIN file, file[p].action = "would_split"
      PROVE  SplitFits([product |-> p, plant |-> file[p].plant,
                        animal |-> file[p].animal], group)
  <2> DEFINE found == records[p]
             first == Nevo!Min(Nevo!V2Of(found))
             total == found[first].value
  <2>1. p \in Product /\ Nevo!V2Of(found) # {}
    BY <1>1
  <2>2. found \in Seq(NevoRecord) /\ Traced(found, group[p])
    BY <2>1 DEF TraceInv
  <2>3. Nevo!V2Of(found) \in SUBSET Nat /\ Nevo!V2Of(found) \subseteq DOMAIN found
    BY <2>2 DEF Nevo!V2Of
  <2>4. first \in Nevo!V2Of(found)
    BY <2>1, <2>3, MinIsIn
  <2>5. \/ file[p].plant = 0 /\ file[p].animal = total /\ group[p] # Nevo!Unclassified
        \/ file[p].plant = total /\ file[p].animal = 0 /\ group[p] # Nevo!Unclassified
    <3>1. file[p] = Nevo!SplitProposal(found, group[p])
      BY <1>1
    <3> HIDE DEF found
    <3> QED BY <1>2, <3>1 DEF Nevo!SplitProposal
  <2> HIDE DEF found, first
  <2>6. total \in Int \ {Nevo!NoValue}
    <3>1. found[first] \in NevoRecord /\ found[first].value # Nevo!NoValue
      BY <2>2, <2>3, <2>4 DEF Traced
    <3> QED BY <3>1 DEF NevoRecord
  <2> HIDE DEF total
  <2> QED BY <2>1, <2>5, <2>6 DEF SplitFits, Nevo!NoValue
<1>3. ProposalsCarry(file, group)
  BY <1>2 DEF ProposalsCarry
<1> QED BY <1>3 DEF file

LEMMA TraceCommands ==
    ASSUME TraceInv, Nevo!ConstantsAssumption, NEW o \in DOMAIN cmd, Nevo!Command(o)
    PROVE  TraceInv'
<1> DEFINE c == cmd[o]
<1>1. /\ CommandCarries(c, group) /\ cmd = [cmd EXCEPT ![o] = c]
      /\ ApprovedFits(approved) /\ ProposalsCarry(proposals, group)
      /\ records \in [Product -> Seq(NevoRecord)]
      /\ \A p \in Product : Traced(records[p], group[p])
  BY DEF TraceInv
<1> HIDE DEF c
<1>2. CommandCarries([at |-> "idle", todo |-> {}], group)
  BY DEF CommandCarries
<1>3. CASE Nevo!Validate(o)
  <2>1. CommandCarries([at |-> "approving", todo |-> Nevo!Approved(sheet)], group)
    BY ApprovedAreCandidates DEF TraceInv, CommandCarries
  <2> QED BY <1>1, <1>3, <2>1, TraceQuiet DEF Nevo!Validate, Nevo!Becomes, Nevo!world
<1>4. CASE Nevo!WriteApproved(o)
  <2>1. ApprovedFits(approved')
    BY <1>1, <1>4 DEF Nevo!WriteApproved, CommandCarries, ApprovedFits, c
  <2> QED
    BY <1>1, <1>2, <1>4, <2>1, TraceQuiet
       DEF Nevo!WriteApproved, Nevo!Becomes, Nevo!world
<1>5. CASE Nevo!MakePlan(o)
  BY <1>1, <1>5, TraceQuiet DEF Nevo!MakePlan, Nevo!world
<1>6. CASE Nevo!StartApply(o)
  <2>1. PICK todo \in SUBSET approved \ {{}} : Nevo!Becomes(o, "applying", todo)
    BY <1>6 DEF Nevo!StartApply
  <2>2. \A row \in todo : IsCandidate(row)
    BY <1>1, <1>6 DEF Nevo!StartApply, Nevo!Preconditions, ApprovedFits
  <2>3. CommandCarries([at |-> "applying", todo |-> todo], group)
    BY <2>2 DEF CommandCarries
  <2> QED
    BY <1>1, <1>6, <2>1, <2>3, TraceQuiet
       DEF Nevo!StartApply, Nevo!Becomes, Nevo!world, Nevo!files
<1>7. CASE Nevo!Propose(o)
  BY <1>1, <1>7, ProposalsTrace, TraceQuiet DEF Nevo!Propose, Nevo!world
<1>8. CASE Nevo!StartSplits(o)
  <2> DEFINE Chosen(p) == [product |-> p, plant |-> proposals[p].plant,
                           animal |-> proposals[p].animal]
  <2>1. PICK chosen \in SUBSET {p \in DOMAIN proposals :
                                    proposals[p].action = "would_split"} :
            Nevo!Becomes(o, "splitting", {Chosen(p) : p \in chosen})
    BY <1>8 DEF Nevo!StartSplits
  <2>2. proposals # NoFile
    BY <1>8 DEF Nevo!StartSplits
  <2>3. \A p \in chosen : SplitFits(Chosen(p), group)
    BY <1>1, <2>2 DEF ProposalsCarry
  <2> DEFINE todo == {Chosen(p) : p \in chosen}
  <2>4. \A row \in todo : SplitFits(row, group)
    BY <2>3
  <2> HIDE DEF todo
  <2>5. CommandCarries([at |-> "splitting", todo |-> todo], group)
    BY <2>4 DEF CommandCarries
  <2>6. cmd' = [cmd EXCEPT ![o] = [at |-> "splitting", todo |-> todo]]
    BY <2>1 DEF Nevo!Becomes, todo
  <2> QED
    BY <1>1, <1>8, <2>5, <2>6, TraceQuiet DEF Nevo!StartSplits, Nevo!world, Nevo!files
<1>9. CASE Nevo!Die(o)
  BY <1>1, <1>2, <1>9, TraceQuiet DEF Nevo!Die, Nevo!Becomes, Nevo!world, Nevo!files
<1>10. CASE Nevo!RefuseRow(o)
  <2> DEFINE at == IF c.at = "writing" THEN "applying" ELSE "splitting"
  <2>1. /\ Nevo!Done(o, c.row, at) /\ at \in {"applying", "splitting"}
        /\ at = "applying" => c.at \in {"applying", "writing"}
        /\ at = "splitting" => c.at \in {"splitting", "plant", "animal"}
    BY <1>10 DEF Nevo!RefuseRow, c
  <2> HIDE DEF at
  <2> QED
    BY <1>1, <1>10, <2>1, TraceDone DEF Nevo!RefuseRow, Nevo!files, Nevo!world, c
<1>11. ASSUME NEW row \in c.todo, Nevo!SkipRow(o, row) \/ Nevo!SkipSplit(o, row)
       PROVE  TraceInv'
  BY <1>1, <1>11, TraceDone DEF Nevo!SkipRow, Nevo!SkipSplit, Nevo!files, Nevo!world
<1>12. ASSUME NEW row \in c.todo, Nevo!LookUpRow(o, row) PROVE TraceInv'
  <2> DEFINE d == [at |-> "writing", todo |-> c.todo, row |-> row]
  <2>1. c.at = "applying" /\ row.value # Nevo!NoValue /\ cmd' = [cmd EXCEPT ![o] = d]
    BY <1>12 DEF Nevo!LookUpRow, c
  <2>2. CommandCarries(d, group)
    BY <1>1, <1>12, <2>1 DEF CommandCarries
  <2> HIDE DEF d
  <2> QED
    BY <1>1, <1>12, <2>1, <2>2, TraceQuiet DEF Nevo!LookUpRow, Nevo!files, Nevo!world
<1>13. ASSUME NEW row \in c.todo, Nevo!LookUpSplit(o, row) PROVE TraceInv'
  <2> DEFINE d == [at |-> "plant", todo |-> c.todo, row |-> row]
  <2>1. c.at = "splitting" /\ cmd' = [cmd EXCEPT ![o] = d]
    BY <1>13 DEF Nevo!LookUpSplit, c
  <2>2. CommandCarries(d, group)
    BY <1>1, <1>13, <2>1 DEF CommandCarries
  <2> HIDE DEF d
  <2> QED
    BY <1>1, <1>13, <2>1, <2>2, TraceQuiet DEF Nevo!LookUpSplit, Nevo!files, Nevo!world
<1>14. CASE Nevo!WriteRow(o)
  <2> DEFINE r == Nevo!Marked(Nevo!Record("protein_pct", "nevo", "enriched", c.row.value),
                              "v2_embeddings")
  <2>1. /\ c.at = "writing" /\ Nevo!Append1(c.row.product, r)
        /\ Nevo!Done(o, c.row, "applying")
        /\ UNCHANGED <<sheet, group, approved, proposals>>
    BY <1>14 DEF Nevo!WriteRow, Nevo!files, Nevo!world, c
  <2>2. c.row.product \in Product /\ c.row.value \in Int /\ c.row.value # Nevo!NoValue
    BY <1>1, <2>1 DEF CommandCarries, IsCandidate
  <2>3. /\ r \in NevoRecord /\ r.version = "v2_embeddings"
        /\ r.nutrient = "protein_pct" /\ r.value = c.row.value
        /\ r.source = "nevo" /\ r.status = "enriched"
    BY <2>2, Inserted DEF Nevo!Marked, Nevo!Record
  <2> HIDE DEF r
  <2>4. /\ records' \in [Product -> Seq(NevoRecord)]
        /\ \A q \in Product : Traced(records'[q], group[q])
    BY <2>1, <2>2, <2>3, TraceInsert
  <2> QED BY <2>1, <2>4, TraceDone DEF c
<1>15. CASE Nevo!WritePlant(o)
  <2> DEFINE r == Nevo!Half("plant_protein_pct", c.row.plant)
             d == [at |-> "animal", todo |-> c.todo, row |-> c.row]
  <2>1. /\ c.at = "plant" /\ Nevo!Append1(c.row.product, r)
        /\ cmd' = [cmd EXCEPT ![o].at = "animal"]
        /\ UNCHANGED <<sheet, group, approved, proposals>>
    BY <1>15 DEF Nevo!WritePlant, Nevo!files, Nevo!world, c
  <2>2. /\ SplitFits(c.row, group) /\ c = [at |-> c.at, todo |-> c.todo, row |-> c.row]
        /\ \A row \in c.todo : SplitFits(row, group)
    BY <1>1, <2>1 DEF CommandCarries
  <2>3. cmd' = [cmd EXCEPT ![o] = d]
    <3>1. [c EXCEPT !.at = "animal"] = d
      BY <2>2
    <3>2. cmd' = [cmd EXCEPT ![o] = [c EXCEPT !.at = "animal"]]
      BY <2>1 DEF c
    <3> HIDE DEF d
    <3> QED BY <3>1, <3>2
  <2>4. /\ r \in NevoRecord /\ r.version = "v2_embeddings_split" /\ r.source = "nevo"
        /\ r.nutrient \in Halves /\ r.value # Nevo!NoValue /\ r.status = "enriched"
    BY <2>2, Inserted DEF Halves, SplitFits, Nevo!Half, Nevo!Marked, Nevo!Record
  <2> HIDE DEF r
  <2>5. /\ records' \in [Product -> Seq(NevoRecord)]
        /\ \A q \in Product : Traced(records'[q], group[q])
    BY <2>1, <2>2, <2>4, TraceInsert DEF SplitFits
  <2>6. CommandCarries(d, group)
    BY <2>2 DEF CommandCarries
  <2> HIDE DEF d
  <2> QED BY <1>1, <2>1, <2>3, <2>5, <2>6, TraceCommand
<1>16. CASE Nevo!WriteAnimal(o)
  <2> DEFINE r == Nevo!Half("animal_protein_pct", c.row.animal)
  <2>1. /\ c.at = "animal" /\ Nevo!Append1(c.row.product, r)
        /\ Nevo!Done(o, c.row, "splitting")
        /\ UNCHANGED <<sheet, group, approved, proposals>>
    BY <1>16 DEF Nevo!WriteAnimal, Nevo!files, Nevo!world, c
  <2>2. SplitFits(c.row, group)
    BY <1>1, <2>1 DEF CommandCarries
  <2>3. /\ r \in NevoRecord /\ r.version = "v2_embeddings_split" /\ r.source = "nevo"
        /\ r.nutrient \in Halves /\ r.value # Nevo!NoValue /\ r.status = "enriched"
    BY <2>2, Inserted DEF Halves, SplitFits, Nevo!Half, Nevo!Marked, Nevo!Record
  <2> HIDE DEF r
  <2>4. /\ records' \in [Product -> Seq(NevoRecord)]
        /\ \A q \in Product : Traced(records'[q], group[q])
    BY <2>1, <2>2, <2>3, TraceInsert DEF SplitFits
  <2> QED BY <2>1, <2>4, TraceDone DEF c
<1> QED
  BY <1>3, <1>4, <1>5, <1>6, <1>7, <1>8, <1>9, <1>10, <1>11, <1>12, <1>13, <1>14,
     <1>15, <1>16 DEF Nevo!Command, c

LEMMA TraceApplication ==
    ASSUME TraceInv, Nevo!ConstantsAssumption, Rows \subseteq Nevo!Row,
           NEW p \in Product,
           Nevo!Application(p) \/ \E row \in Rows : Nevo!Review(p, row)
    PROVE  TraceInv'
<1>1. ASSUME NEW row \in Rows, Nevo!Review(p, row) PROVE TraceInv'
  BY <1>1, TraceAround DEF Nevo!Review, Nevo!files, TraceInv
<1>2. ASSUME NEW pt, pt # Nevo!Unclassified, Nevo!Classify(p, pt) PROVE TraceInv'
  <2>1. /\ group' = [group EXCEPT ![p] = pt]
        /\ UNCHANGED <<approved, proposals, cmd, sheet, records>>
    BY <1>2 DEF Nevo!Classify, Nevo!files
  <2>2. /\ group' = [q \in Product |-> group'[q]]
        /\ \A q \in Product : group[q] # Nevo!Unclassified =>
                                    group'[q] # Nevo!Unclassified
    BY <1>2, <2>1 DEF TraceInv
  <2>3. \A q \in Product : Traced(records[q], group[q])
    BY DEF TraceInv
  <2>4. \A q \in Product : Traced(records[q], group'[q])
    BY <2>2, <2>3 DEF Traced
  <2> QED BY <2>1, <2>2, <2>4, TraceAround DEF TraceInv
<1>3. ASSUME NEW found \in Seq(Nevo!EnrichmentRecord), Accompanied(found),
             Nevo!Enrich(p, found)
      PROVE  TraceInv'
  <2> DEFINE new == records[p] \o Nevo!Versioned(found, "none")
  <2>1. /\ records' = [records EXCEPT ![p] = new]
        /\ UNCHANGED <<approved, proposals, cmd, sheet, group>>
    BY <1>3 DEF Nevo!Enrich, Nevo!files, Nevo!world
  <2>2. records[p] \in Seq(NevoRecord) /\ Traced(records[p], group[p])
    BY DEF TraceInv
  <2>3. new \in Seq(NevoRecord) /\ Traced(new, group[p])
    BY <1>3, <2>2, MoreOfOthers, TracedOthers
  <2> HIDE DEF new
  <2>4. /\ records' \in [Product -> Seq(NevoRecord)]
        /\ \A q \in Product : Traced(records'[q], group[q])
    BY <2>1, <2>3 DEF TraceInv
  <2> QED BY <2>1, <2>4, TraceAround DEF TraceInv
<1>4. /\ \A v \in Protein : v \in Nat
      /\ 0 \in Nat
      /\ \A pt \in Nevo!PlantGroups \cup {"animal_core", "composite_products"} :
            pt # Nevo!Unclassified
  BY DEF Nevo!ConstantsAssumption, Nevo!PlantGroups, Nevo!Unclassified
<1>5. Nevo!NoMatch \in Seq(Nevo!EnrichmentRecord) /\ Accompanied(Nevo!NoMatch)
  BY <1>4, EndpointsAppend, EndpointsAccompany
<1> QED
  BY <1>1, <1>2, <1>3, <1>4, <1>5, EndpointsAppend, EndpointsAccompany
     DEF Nevo!Application

LEMMA TraceNext ==
    ASSUME TraceInv, Nevo!ConstantsAssumption, Rows \subseteq Nevo!Row,
           [Nevo!Next]_(Nevo!vars)
    PROVE  TraceInv'
<1>1. CASE UNCHANGED Nevo!vars
  <2>1. UNCHANGED <<sheet, approved, proposals, records, group, cmd>>
    BY <1>1 DEF Nevo!vars
  <2>2. sheet' \in [Product -> Nevo!Row] /\ records' \in [Product -> Seq(NevoRecord)]
    BY <2>1 DEF TraceInv
  <2>3. /\ group' = [p \in Product |-> group'[p]]
        /\ \A p \in Product : Traced(records'[p], group'[p])
    BY <2>1 DEF TraceInv
  <2> QED BY <2>1, <2>2, <2>3, TraceAround
<1>2. CASE Nevo!Next
  BY <1>2, TraceCommands, TraceApplication DEF Nevo!Next, Nevo!Crew
<1> QED BY <1>1, <1>2

\* What the apply audit found of a product it passed.
TotalPasses(found) ==
    /\ Nevo!V2Of(found) # {} /\ ~(Nevo!Cardinality(Nevo!V2Of(found)) > 1)
    /\ \A i \in Nevo!TotalsOf(found) \ Nevo!V2Of(found) :
        ~Nevo!IsManual(found[i]) /\ ~Nevo!HasValue(found[i])

\* The engine then finds that total, nobody's manual value, and as the halves of it
\* those the commands wrote.
LEMMA PassedIsSelected ==
    ASSUME NEW found \in Seq(NevoRecord), NEW pt, Traced(found, pt), TotalPasses(found)
    PROVE  /\ \A i \in DOMAIN found : ~Nevo!IsManual(found[i])
           /\ \E k \in DOMAIN found :
                /\ Nevo!V2Of(found) = {k} /\ Nevo!Max(Nevo!V2Of(found)) = k
                /\ Nevo!Selected(found) =
                    [pct |-> found[k].value,
                     plant |-> Nevo!Sibling(found, "plant_protein_pct", "nevo"),
                     animal |-> Nevo!Sibling(found, "animal_protein_pct", "nevo"),
                     source |-> "nevo"]
           /\ \A n \in Halves :
                /\ Nevo!HalvesOf(found, n) = {} =>
                    Nevo!Sibling(found, n, "nevo") = Nevo!NoValue
                /\ Nevo!HalvesOf(found, n) # {} =>
                    /\ pt # Nevo!Unclassified
                    /\ Nevo!Sibling(found, n, "nevo")
                            = found[Nevo!Min(Nevo!HalvesOf(found, n))].value
                    /\ Nevo!Sibling(found, n, "nevo") # Nevo!NoValue
<1>1. \A i \in DOMAIN found :
        /\ found[i].version \in {"none", "v2_embeddings", "v2_embeddings_split"}
        /\ found[i].nutrient \in Halves \cup {"protein_pct"}
  <2>1. \A i \in DOMAIN found : found[i] \in NevoRecord
    OBVIOUS
  <2>2. \A r \in NevoRecord :
            /\ r.version \in {"none", "v2_embeddings", "v2_embeddings_split"}
            /\ r.nutrient \in Halves \cup {"protein_pct"}
    BY DEF NevoRecord, Nevo!Nutrient, Halves
  <2> QED BY <2>1, <2>2
<1>2. /\ DOMAIN found \subseteq Nat /\ Nevo!V2Of(found) \subseteq DOMAIN found
      /\ \A n \in Halves : Nevo!HalvesOf(found, n) \subseteq DOMAIN found
      /\ "protein_pct" \notin Halves
  BY DEF Nevo!V2Of, Nevo!HalvesOf, Halves
\* A half of the application would have come with a total, which the audit sees.
<1>3. \A i \in DOMAIN found : found[i].version = "none" => found[i].nutrient \notin Halves
  <2> SUFFICES ASSUME NEW i \in DOMAIN found, found[i].version = "none",
                      found[i].nutrient \in Halves
               PROVE  FALSE
    OBVIOUS
  <2>1. PICK j \in DOMAIN found : /\ found[j].version = "none"
                                 /\ found[j].nutrient = "protein_pct"
                                 /\ found[j].value # Nevo!NoValue
    BY DEF Traced
  <2> QED BY <2>1 DEF TotalPasses, Nevo!TotalsOf, Nevo!V2Of, Nevo!HasValue
<1>4. \A i \in DOMAIN found : ~Nevo!IsManual(found[i])
  <2> SUFFICES ASSUME NEW i \in DOMAIN found, Nevo!IsManual(found[i]) PROVE FALSE
    OBVIOUS
  <2>1. found[i].source # "nevo"
    BY DEF Nevo!IsManual
  <2>2. CASE found[i].version = "none"
    BY <1>1, <1>3, <2>2 DEF TotalPasses, Nevo!TotalsOf, Nevo!V2Of
  <2>3. CASE found[i].version = "v2_embeddings"
    BY <2>1, <2>3 DEF Traced, Nevo!V2Of
  <2>4. CASE found[i].version = "v2_embeddings_split"
    <3>1. CASE found[i].nutrient \in Halves
      BY <2>1, <2>4, <3>1 DEF Traced, Nevo!HalvesOf
    <3>2. CASE found[i].nutrient = "protein_pct"
      BY <2>4, <3>2 DEF TotalPasses, Nevo!TotalsOf, Nevo!V2Of
    <3> QED BY <1>1, <3>1, <3>2
  <2> QED BY <1>1, <2>2, <2>3, <2>4
<1>5. PICK k : Nevo!V2Of(found) = {k}
  <2>1. Nevo!Cardinality(Nevo!V2Of(found)) = Cardinality(Nevo!V2Of(found))
    BY DEF Nevo!Cardinality, Cardinality
  <2>2. IsFiniteSet(Nevo!V2Of(found))
    <3>1. DOMAIN found = 1 .. Len(found) /\ Len(found) \in Nat
      OBVIOUS
    <3>2. IsFiniteSet(1 .. Len(found))
      BY <3>1, FS_Interval
    <3> QED BY <1>2, <3>1, <3>2, FS_Subset
  <2>3. Cardinality(Nevo!V2Of(found)) \in Nat /\ Cardinality(Nevo!V2Of(found)) # 0
    BY <2>2, FS_CardinalityType, FS_EmptySet DEF TotalPasses
  <2>4. Cardinality(Nevo!V2Of(found)) = 1
    BY <2>1, <2>3 DEF TotalPasses
  <2> QED BY <2>2, <2>4, FS_Singleton
<1>6. /\ k \in DOMAIN found /\ k \in Nat
      /\ found[k].nutrient = "protein_pct" /\ found[k].source = "nevo"
      /\ found[k].status = "enriched" /\ found[k].value # Nevo!NoValue
  BY <1>2, <1>5 DEF Traced
<1>7. Nevo!Usable(found, "protein_pct") = {k}
  <2>1. k \in Nevo!Usable(found, "protein_pct")
    BY <1>6 DEF Nevo!Usable
  <2>2. ASSUME NEW i \in Nevo!Usable(found, "protein_pct") PROVE i = k
    BY <1>5, <2>2 DEF Nevo!Usable, TotalPasses, Nevo!TotalsOf, Nevo!HasValue
  <2> QED BY <2>1, <2>2
<1>8. Nevo!Best(found) = k
  BY <1>6, <1>7 DEF Nevo!Best
<1>9. Nevo!Max({k}) = k
  BY <1>6 DEF Nevo!Max
<1>10. Nevo!Selected(found) =
        [pct |-> found[k].value,
         plant |-> Nevo!Sibling(found, "plant_protein_pct", "nevo"),
         animal |-> Nevo!Sibling(found, "animal_protein_pct", "nevo"),
         source |-> "nevo"]
  BY <1>6, <1>7, <1>8 DEF Nevo!Selected
<1>11. ASSUME NEW n \in Halves
       PROVE  {i \in Nevo!Usable(found, n) : found[i].source = "nevo"}
                = Nevo!HalvesOf(found, n)
  <2>1. ASSUME NEW i \in Nevo!Usable(found, n) PROVE i \in Nevo!HalvesOf(found, n)
    <3>1. i \in DOMAIN found /\ found[i].nutrient = n
      BY <2>1 DEF Nevo!Usable
    <3>2. found[i].version # "none"
      BY <1>3, <3>1
    <3>3. found[i].version # "v2_embeddings"
      BY <1>2, <3>1 DEF Traced, Nevo!V2Of
    <3> QED BY <1>1, <3>1, <3>2, <3>3 DEF Nevo!HalvesOf
  <2>2. ASSUME NEW i \in Nevo!HalvesOf(found, n)
        PROVE  i \in Nevo!Usable(found, n) /\ found[i].source = "nevo"
    BY <2>2 DEF Traced, Nevo!HalvesOf, Nevo!Usable
  <2> QED BY <2>1, <2>2
<1>12. ASSUME NEW n \in Halves
       PROVE  /\ Nevo!HalvesOf(found, n) = {} =>
                    Nevo!Sibling(found, n, "nevo") = Nevo!NoValue
              /\ Nevo!HalvesOf(found, n) # {} =>
                    /\ pt # Nevo!Unclassified
                    /\ Nevo!Sibling(found, n, "nevo")
                            = found[Nevo!Min(Nevo!HalvesOf(found, n))].value
                    /\ Nevo!Sibling(found, n, "nevo") # Nevo!NoValue
  <2> DEFINE halves == Nevo!HalvesOf(found, n)
  <2>1. Nevo!Sibling(found, n, "nevo") =
            IF halves = {} THEN Nevo!NoValue ELSE found[Nevo!Min(halves)].value
    BY <1>11 DEF Nevo!Sibling
  <2>2. halves \in SUBSET Nat
    BY <1>2
  <2>3. halves # {} => Nevo!Min(halves) \in halves
    BY <2>2, MinIsIn
  <2>4. halves # {} =>
            pt # Nevo!Unclassified /\ found[Nevo!Min(halves)].value # Nevo!NoValue
    BY <2>3 DEF Traced
  <2> QED BY <2>1, <2>4
<1> QED BY <1>4, <1>5, <1>6, <1>9, <1>10, <1>12

\* What both audits say, product by product.
LEMMA AuditsPassed ==
    ASSUME TraceInv, approved # NoFile, Nevo!ApplyAudit = "pass",
           Nevo!SplitAudit(Nevo!Resolved) = "pass", NEW p \in Nevo!Candidates
    PROVE  /\ p \in Product /\ TotalPasses(records[p])
           /\ group[p] # Nevo!Unclassified =>
                LET action == Nevo!SplitProposal(records[p], group[p]).action
                IN  /\ Nevo!SplitIsSound(p, action)
                    /\ action = "would_split" =>
                        Nevo!HalvesOf(records[p], "plant_protein_pct") # {}
<1>1. /\ Nevo!Candidates \subseteq Nevo!Applied
      /\ \A q \in Nevo!Applied : q \in Product /\ TotalPasses(records[q])
  <2>1. /\ ~(\E q \in Nevo!Applied :
                LET found == records[q]
                    others == Nevo!TotalsOf(found) \ Nevo!V2Of(found)
                IN  \/ Nevo!Cardinality(Nevo!V2Of(found)) > 1
                    \/ \E i \in others : Nevo!IsManual(found[i]) \/ Nevo!HasValue(found[i]))
        /\ Nevo!Candidates \subseteq Nevo!Applied
    BY DEF Nevo!ApplyAudit
  <2>2. ASSUME NEW q \in Nevo!Applied PROVE q \in Product /\ TotalPasses(records[q])
    BY <2>1, <2>2 DEF Nevo!Applied, TotalPasses
  <2> QED BY <2>1, <2>2
<1>2. p \in Nevo!Applied
  BY <1>1
<1> DEFINE file == Nevo!Proposals
           action(q) == Nevo!SplitProposal(records[q], group[q]).action
<1>3. DOMAIN file = Nevo!Applied /\ \A q \in DOMAIN file : file[q].action = action(q)
  BY DEF Nevo!Proposals, Nevo!Applied
<1>4. ASSUME group[p] # Nevo!Unclassified
      PROVE  p \in DOMAIN Nevo!Resolved /\ Nevo!Resolved[p].action = action(p)
  <2>1. records[p] # <<>>
    <3>1. Nevo!V2Of(records[p]) # {}
      BY <1>1, <1>2 DEF TotalPasses
    <3> QED BY <3>1 DEF Nevo!V2Of
  <2>2. ~ \A q \in Product : records[q] # <<>> => group[q] = Nevo!Unclassified
    BY <1>1, <1>2, <1>4, <2>1
  <2>3. \/ Nevo!Resolved = file
        \/ Nevo!Resolved = proposals /\ Nevo!Decisions(proposals) = Nevo!Decisions(file)
    BY <2>2 DEF Nevo!Resolved
  <2> HIDE DEF file
  <2>4. CASE Nevo!Decisions(proposals) = Nevo!Decisions(file)
    <3>1. /\ DOMAIN Nevo!Decisions(proposals) = DOMAIN proposals
          /\ DOMAIN Nevo!Decisions(file) = DOMAIN file
          /\ \A q \in DOMAIN proposals :
                Nevo!Decisions(proposals)[q] = proposals[q].action
          /\ \A q \in DOMAIN file : Nevo!Decisions(file)[q] = file[q].action
      BY DEF Nevo!Decisions
    <3>2. DOMAIN proposals = DOMAIN file
      BY <2>4, <3>1
    <3>3. p \in DOMAIN proposals /\ proposals[p].action = action(p)
      BY <1>2, <1>3, <2>4, <3>1, <3>2
    <3> QED BY <1>2, <1>3, <2>3, <3>3
  <2> QED BY <1>2, <1>3, <2>3, <2>4
<1> HIDE DEF file
<1>5. \A q \in DOMAIN Nevo!Resolved :
        /\ Nevo!SplitIsSound(q, Nevo!Resolved[q].action)
        /\ Nevo!Resolved[q].action = "would_split" =>
            Nevo!HalvesOf(records[q], "plant_protein_pct") # {}
  BY DEF Nevo!SplitAudit
<1> QED BY <1>1, <1>2, <1>4, <1>5

LEMMA AuditsSuffice == ASSUME TraceInv PROVE Nevo!VerifiedIsUsed
<1> SUFFICES ASSUME approved # NoFile, Nevo!ApplyAudit = "pass",
                    Nevo!SplitAudit(Nevo!Resolved) = "pass", NEW p \in Nevo!Candidates
             PROVE  LET used == Nevo!Selected(records[p])
                    IN  /\ used.source = "nevo"
                        /\ used.pct \in
                            {records[p][i].value : i \in Nevo!V2Of(records[p])}
                        /\ group[p] \in Nevo!PlantGroups \cup {"animal_core"} =>
                            used.plant # Nevo!NoValue
                        /\ used.plant # Nevo!NoValue =>
                            used.plant + used.animal = used.pct
  BY DEF Nevo!VerifiedIsUsed
<1> DEFINE found == records[p]
           pt == group[p]
           used == Nevo!Selected(found)
           plants == Nevo!HalvesOf(found, "plant_protein_pct")
           animals == Nevo!HalvesOf(found, "animal_protein_pct")
           action == Nevo!SplitProposal(found, pt).action
<1>1. /\ p \in Product /\ TotalPasses(found)
      /\ pt # Nevo!Unclassified =>
            /\ Nevo!SplitIsSound(p, action)
            /\ action = "would_split" => plants # {}
  BY AuditsPassed
<1>2. found \in Seq(NevoRecord) /\ Traced(found, pt)
  BY <1>1 DEF TraceInv
<1>3. /\ \A i \in DOMAIN found : ~Nevo!IsManual(found[i])
      /\ \E k \in DOMAIN found :
            /\ Nevo!V2Of(found) = {k} /\ Nevo!Max(Nevo!V2Of(found)) = k
            /\ used = [pct |-> found[k].value,
                       plant |-> Nevo!Sibling(found, "plant_protein_pct", "nevo"),
                       animal |-> Nevo!Sibling(found, "animal_protein_pct", "nevo"),
                       source |-> "nevo"]
  BY <1>1, <1>2, PassedIsSelected
<1>4. /\ plants = {} => Nevo!Sibling(found, "plant_protein_pct", "nevo") = Nevo!NoValue
      /\ plants # {} =>
            /\ pt # Nevo!Unclassified
            /\ Nevo!Sibling(found, "plant_protein_pct", "nevo")
                    = found[Nevo!Min(plants)].value
            /\ Nevo!Sibling(found, "plant_protein_pct", "nevo") # Nevo!NoValue
      /\ animals # {} =>
            Nevo!Sibling(found, "animal_protein_pct", "nevo")
                = found[Nevo!Min(animals)].value
  BY <1>1, <1>2, PassedIsSelected DEF Halves
<1>5. PICK k \in DOMAIN found :
        /\ Nevo!V2Of(found) = {k} /\ Nevo!Max(Nevo!V2Of(found)) = k
        /\ used = [pct |-> found[k].value,
                   plant |-> Nevo!Sibling(found, "plant_protein_pct", "nevo"),
                   animal |-> Nevo!Sibling(found, "animal_protein_pct", "nevo"),
                   source |-> "nevo"]
  BY <1>3
<1>6. pt \in Nevo!PlantGroups \cup {"animal_core"} =>
        pt # Nevo!Unclassified /\ action = "would_split"
  BY <1>3 DEF Nevo!PlantGroups, Nevo!Unclassified, Nevo!SplitProposal
<1>7. pt # Nevo!Unclassified =>
        /\ plants = {} <=> animals = {}
        /\ plants # {} => found[Nevo!Min(plants)].value + found[Nevo!Min(animals)].value
                            = found[Nevo!Max(Nevo!V2Of(found))].value
  BY <1>1 DEF Nevo!SplitIsSound
<1> HIDE DEF found, plants, animals, used, pt, action
<1>8. used.plant = Nevo!Sibling(found, "plant_protein_pct", "nevo")
      /\ used.animal = Nevo!Sibling(found, "animal_protein_pct", "nevo")
      /\ used.pct = found[k].value /\ used.source = "nevo"
  BY <1>5
<1>9. used.plant # Nevo!NoValue => used.plant + used.animal = used.pct
  BY <1>4, <1>5, <1>7, <1>8
<1>10. pt \in Nevo!PlantGroups \cup {"animal_core"} => used.plant # Nevo!NoValue
  BY <1>1, <1>4, <1>6, <1>8
<1>11. used.pct \in {found[i].value : i \in Nevo!V2Of(found)}
  BY <1>5, <1>8
<1> QED BY <1>8, <1>9, <1>10, <1>11 DEF used, found, pt

\* When both audits pass, the calculation uses what they verified, however many
\* operators ran commands over each other, wherever those died, and whatever the
\* reviewer and the application did meanwhile; and one operator applies nothing
\* twice (audit_nevo_v2_apply.py, audit_nevo_v2_protein_split.py,
\* select_protein_enrichment).
THEOREM AuditsTellWhatIsUsed ==
    ASSUME OutputsAssumption PROVE Nevo!Spec => []VerifiedIsUsed
<1> Nevo!ConstantsAssumption /\ Rows \subseteq Nevo!Row
  BY DEF OutputsAssumption
<1>1. Nevo!Init => TraceInv
  BY TraceInit
<1>2. TraceInv /\ [Nevo!Next]_(Nevo!vars) => TraceInv'
  BY TraceNext
<1>3. TraceInv => Nevo!VerifiedIsUsed
  BY AuditsSuffice
<1>4. Nevo!Spec => []Nevo!AppliedOnce
  BY NothingIsAppliedTwice
<1>5. Nevo!VerifiedIsUsed /\ Nevo!AppliedOnce => VerifiedIsUsed
  BY DEF VerifiedIsUsed
<1> QED BY <1>1, <1>2, <1>3, <1>4, <1>5, PTL DEF Nevo!Spec
=============================================================================

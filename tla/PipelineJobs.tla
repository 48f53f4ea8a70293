---------------------------- MODULE PipelineJobs ----------------------------
(***************************************************************************)
(* The pipeline jobs (jobs/, "Background jobs" of api/routes.py): validate, *)
(* ingest, classify, calculate, export.  SyncDevRunner executes a job in   *)
(* the request that created it; the row in the table tells other requests  *)
(* what has become of it, and an idempotency key keeps a second request    *)
(* from starting the same work.                                            *)
(***************************************************************************)
EXTENDS Naturals, Sequences

CONSTANTS
    Worker,
    Key,        \* idempotency keys: <job type>:<upload or run>:<variant>
    Store,      \* "memory" or "postgres"
    MaxJobs,    \* bound: jobs ever created
    MaxDeaths   \* bound: requests that die or whose store call fails

\* What the constants are: the module that gives them values assumes it.
ConstantsAssumption ==
    Store \in {"memory", "postgres"} /\ MaxJobs \in Nat /\ MaxDeaths \in Nat

VARIABLES
    jobs,       \* the rows, in the order they were added
    pc,         \* what the request of a worker does next
    req,        \* its key, and its job once that is added
    deaths,
    lost        \* history: the jobs whose own request died

vars == <<jobs, pc, req, deaths, lost>>

NoKey == "none"     \* a calculation has none
Active == {"queued", "running"}
Ended == {"succeeded", "failed"}
Job == [key : Key \cup {NoKey}, status : Active \cup Ended]
JobId == DOMAIN jobs

\* find_active_job
FindActiveJob(key) ==
    {j \in JobId : jobs[j].key = key /\ jobs[j].status \in Active}

\* Mutant: the index leaves out the jobs that run.
DuplicateQueued(key) ==
    /\ Store = "postgres" /\ key # NoKey
    /\ \E j \in FindActiveJob(key) : jobs[j].status = "queued"
\* The partial unique index of migration 0019; the in-memory store has none.
Duplicate(key) ==
    Store = "postgres" /\ key # NoKey /\ FindActiveJob(key) # {}

Idle == [key |-> NoKey, job |-> 0]

Init ==
    /\ jobs = <<>>
    /\ pc = [w \in Worker |-> "idle"]
    /\ req = [w \in Worker |-> Idle]
    /\ deaths = 0
    /\ lost = {}

Goto(w, label, request) ==
    /\ pc' = [pc EXCEPT ![w] = label]
    /\ req' = [req EXCEPT ![w] = request]

SetStatus(w, status) == jobs' = [jobs EXCEPT ![req[w].job].status = status]

(***************************************************************************)
(* A request looks for an active job with its key.  When there is one, it  *)
(* is the answer, and nothing changes.                                     *)
(***************************************************************************)
Find(w) ==
    /\ pc[w] = "idle"
    /\ Len(jobs) < MaxJobs
    /\ \E key \in Key \cup {NoKey} :
        /\ key = NoKey \/ FindActiveJob(key) = {}
        /\ Goto(w, "add", [Idle EXCEPT !.key = key])
    /\ UNCHANGED <<jobs, deaths, lost>>

(***************************************************************************)
(* It adds its job, unless the unique index refuses the row: 500.          *)
(***************************************************************************)
Add(w) ==
    /\ pc[w] = "add"
    /\ IF Duplicate(req[w].key)
       THEN Goto(w, "idle", Idle) /\ UNCHANGED jobs
       ELSE /\ jobs' = Append(jobs, [key |-> req[w].key, status |-> "queued"])
            /\ Goto(w, "start", [req[w] EXCEPT !.job = Len(jobs) + 1])
    /\ UNCHANGED <<deaths, lost>>

(***************************************************************************)
(* execute_job: the row is set to running,                                 *)
(***************************************************************************)
Start(w) ==
    /\ pc[w] = "start"
    /\ SetStatus(w, "running")
    /\ Goto(w, "work", req[w])
    /\ UNCHANGED <<deaths, lost>>

\* Mutant: an exception of the handler leaves the request.
HandleUnguarded(w) ==
    /\ pc[w] = "work"
    /\ \E outcome \in {"succeed", "idle"} : Goto(w, outcome, req[w])
    /\ UNCHANGED <<jobs, deaths, lost>>
(***************************************************************************)
(* the handler does its work, or raises,                                   *)
(***************************************************************************)
Handle(w) ==
    /\ pc[w] = "work"
    /\ \E outcome \in {"succeed", "fail"} : Goto(w, outcome, req[w])
    /\ UNCHANGED <<jobs, deaths, lost>>

(***************************************************************************)
(* and the row is set to succeeded.  This write is inside the try: when it *)
(* breaks, the job is failed although its work is done.                    *)
(***************************************************************************)
Succeed(w) ==
    /\ pc[w] = "succeed"
    /\ SetStatus(w, "succeeded")
    /\ Goto(w, "idle", Idle)
    /\ UNCHANGED <<deaths, lost>>

SucceedBreaks(w) ==
    /\ pc[w] = "succeed"
    /\ deaths < MaxDeaths
    /\ deaths' = deaths + 1
    /\ Goto(w, "fail", req[w])
    /\ UNCHANGED <<jobs, lost>>

Fail(w) ==
    /\ pc[w] = "fail"
    /\ SetStatus(w, "failed")
    /\ Goto(w, "idle", Idle)
    /\ UNCHANGED <<deaths, lost>>

(***************************************************************************)
(* The request dies, or another store call of its breaks.  Nobody looks    *)
(* after the row: no sweep reads this table.                               *)
(***************************************************************************)
Die(w) ==
    /\ pc[w] # "idle"
    /\ deaths < MaxDeaths
    /\ deaths' = deaths + 1
    /\ lost' = lost \cup ({req[w].job} \cap JobId)
    /\ Goto(w, "idle", Idle)
    /\ UNCHANGED jobs

Serve(w) ==
    \/ Add(w) \/ Start(w) \/ Handle(w) \/ Succeed(w) \/ Fail(w)

Next == \E w \in Worker : Find(w) \/ Serve(w) \/ SucceedBreaks(w) \/ Die(w)

\* A request that was accepted is served to its end.
Fairness == \A w \in Worker : WF_vars(Serve(w))

Spec == Init /\ [][Next]_vars /\ Fairness

-----------------------------------------------------------------------------
(* Properties *)

TypeOK ==
    /\ jobs \in Seq(Job)
    /\ pc \in [Worker -> {"idle", "add", "start", "work", "succeed", "fail"}]
    /\ req \in [Worker -> [key : Key \cup {NoKey}, job : Nat]]
    /\ \A w \in Worker : pc[w] \notin {"idle", "add"} =>
        req[w].job \in JobId /\ jobs[req[w].job].key = req[w].key
    /\ deaths \in 0 .. MaxDeaths
    /\ lost \subseteq JobId

Executing(w) == pc[w] \in {"start", "work", "succeed", "fail"}

\* The unique index is enough: on Postgres two requests never execute jobs of
\* one idempotency key at once, although each looked for an active job before
\* the other added its own.
OneAtATime ==
    Store = "postgres" =>
        \A v, w \in Worker :
            Executing(v) /\ Executing(w) /\ req[v].key = req[w].key
                => v = w \/ req[v].key = NoKey

\* "The frontend polls until status transitions to succeeded or failed": a job
\* ends, whatever its handler raises, although the write of its success breaks
\* and although other requests die.  Only the death of its own request leaves it
\* as it is, for no sweep reads this table.
JobsEnd ==
    \A j \in 1 .. MaxJobs :
        j \in JobId ~> (j \in lost \/ (j \in JobId /\ jobs[j].status \in Ended))
=============================================================================

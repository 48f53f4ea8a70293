---------------------------- MODULE IngestionJob ----------------------------
(***************************************************************************)
(* Chunked CSV ingestion (api/ingestion_job_orchestrator.py,               *)
(* domain/ingestion_job.py).  A file is parsed when it is posted and its   *)
(* rows are kept on the job; each advance request inserts one chunk of     *)
(* them into the products table and writes the trimmed job row back.       *)
(*                                                                         *)
(* One job per upload.  As in ClassificationJob an action is one store     *)
(* call, and a request writes back the copy of the row it read.  The code  *)
(* runs on two stores that differ where it matters: the in-memory store    *)
(* overwrites a product that is there already, Postgres refuses it.        *)
(***************************************************************************)
EXTENDS Integers, Sequences, FiniteSets, Functions

CONSTANTS
    RowCount,       \* bound: rows of a file
    JobId,          \* uploads, each with one ingestion job
    Worker,         \* requests the server may be serving at the same time
    ChunkSize,      \* chunk sizes a client may ask for, already clamped
    MaxChunk,       \* MAX_CHUNK_SIZE
    InsertSize,     \* rows Postgres is given in one insert (CHUNK)
    MaxFaults       \* bound: requests that die and inserts that break

\* What the constants are: the module that gives them values assumes it.
ConstantsAssumption ==
    /\ RowCount \in Nat
    /\ JobId # {}
    /\ MaxChunk \in Nat \ {0}
    /\ InsertSize \in Nat \ {0}
    /\ ChunkSize \subseteq 1 .. MaxChunk
    /\ MaxFaults \in Nat

VARIABLES
    store,      \* "memory" or "postgres": the server is started with one
    jobs,       \* the ingestion_jobs table
    products,   \* rows of each upload that are in the products table
    malformed,  \* rows of each upload that product_from_row raises on
    rejected,   \* history: errors counted when the file was parsed
    pc,         \* where the request served by a worker is
    target,     \* the job that request is about
    snap,       \* the copy of the job row it read
    todo,       \* rows of its chunk it has not inserted yet
    faults      \* requests that died and inserts that broke so far

storeVars == <<jobs, products, malformed, rejected>>
requestVars == <<pc, target, snap, todo>>
vars == <<store, storeVars, requestVars, faults>>

-----------------------------------------------------------------------------
(* Job rows *)

Row == 1 .. RowCount

Active == {"queued", "running"}
Completed == {"completed", "completed_with_errors"}
Terminal == Completed \cup {"failed", "cancelled"}

Job == [status : Active \cup Terminal \cup {"absent"},
        pending : Seq(Row), total : Nat, processed : Nat,
        inserted : Nat, errors : Nat, chunk : Nat]

NewJob(status, pending, errors, chunk) ==
    [status |-> status, pending |-> pending, total |-> Len(pending),
     processed |-> 0, inserted |-> 0, errors |-> errors, chunk |-> chunk]

NoJob == NewJob("absent", <<>>, 0, 1)

Take(job) ==
    LET n == IF job.chunk < MaxChunk THEN job.chunk ELSE MaxChunk
        m == IF n < 1 THEN 1 ELSE n
    IN  IF m < Len(job.pending) THEN m ELSE Len(job.pending)
Chunk(job) == SubSeq(job.pending, 1, Take(job))

Remaining(job) == SubSeq(job.pending, Take(job) + 1, Len(job.pending))

Finished(errors) ==
    IF errors > 0 THEN "completed_with_errors" ELSE "completed"

-----------------------------------------------------------------------------
(* Requests *)

Pc == {"idle", "advance", "insert", "inserted", "broken"}

AnyJob == CHOOSE j \in JobId : TRUE

\* The request ends: nothing of it is kept.
Respond(w) ==
    /\ pc' = [pc EXCEPT ![w] = "idle"]
    /\ target' = [target EXCEPT ![w] = AnyJob]
    /\ snap' = [snap EXCEPT ![w] = NoJob]
    /\ todo' = [todo EXCEPT ![w] = <<>>]

Goto(w, p) == pc' = [pc EXCEPT ![w] = p]
Write(j, job) == jobs' = [jobs EXCEPT ![j] = job]

Init ==
    /\ store \in {"memory", "postgres"}
    /\ jobs = [j \in JobId |-> NoJob]
    /\ products = [j \in JobId |-> {}]
    /\ malformed = [j \in JobId |-> {}]
    /\ rejected = [j \in JobId |-> 0]
    /\ pc = [w \in Worker |-> "idle"]
    /\ target = [w \in Worker |-> AnyJob]
    /\ snap = [w \in Worker |-> NoJob]
    /\ todo = [w \in Worker |-> <<>>]
    /\ faults = 0

(* POST .../ingestion-jobs: parse the file, insert the row.  Rows the       *)
(* parser rejects are counted and are not on the list; nothing is inserted  *)
(* into products yet.                                                       *)
Create(j) ==
    /\ jobs[j].status = "absent"
    /\ \E n \in 0 .. RowCount, c \in ChunkSize, e \in {0, 1} :
            /\ Write(j, NewJob("queued", [i \in 1 .. n |-> i], e, c))
            /\ rejected' = [rejected EXCEPT ![j] = e]
            /\ \E bad \in SUBSET (1 .. n) :
                    malformed' = [malformed EXCEPT ![j] = bad]
    /\ UNCHANGED <<store, products, requestVars, faults>>

-----------------------------------------------------------------------------
(* POST .../advance: one chunk.                                             *)

\* A terminal job is returned unchanged.
AdvanceRead(w, j) ==
    /\ pc[w] = "idle"
    /\ jobs[j].status \in Active
    /\ Goto(w, "advance")
    /\ target' = [target EXCEPT ![w] = j]
    /\ snap' = [snap EXCEPT ![w] = jobs[j]]
    /\ UNCHANGED <<store, storeVars, todo, faults>>

AdvanceDrained(w) ==
    /\ pc[w] = "advance"
    /\ snap[w].pending = <<>>
    /\ Write(target[w], [snap[w] EXCEPT !.status = Finished(snap[w].errors)])
    /\ Respond(w)
    /\ UNCHANGED <<store, products, malformed, rejected, faults>>

\* Only the first advance of a job writes the row before it inserts.  A row of
\* the chunk that cannot be deserialised breaks the whole chunk.
AdvanceStart(w) ==
    /\ pc[w] = "advance"
    /\ snap[w].pending # <<>>
    /\ IF snap[w].status = "queued"
       THEN Write(target[w], [snap[w] EXCEPT !.status = "running"])
       ELSE UNCHANGED jobs
    /\ IF Range(Chunk(snap[w])) \cap malformed[target[w]] = {}
       THEN /\ Goto(w, "insert")
            /\ todo' = [todo EXCEPT ![w] = Chunk(snap[w])]
       ELSE Goto(w, "broken") /\ UNCHANGED todo
    /\ UNCHANGED <<store, products, malformed, rejected, target, snap, faults>>

\* The rows of one store call of add_products_bulk.
Portion(rows) ==
    IF store = "postgres" /\ InsertSize < Len(rows)
    THEN SubSeq(rows, 1, InsertSize) ELSE rows

\* Mutant: the in-memory store refuses a product that is there, too.
ConflictEverywhere(j, rows) == Range(rows) \cap products[j] # {}
Conflict(j, rows) == store = "postgres" /\ Range(rows) \cap products[j] # {}

AddProducts(j, rows) ==
    products' = [products EXCEPT ![j] = @ \cup Range(rows)]

InsertRows(w) ==
    /\ pc[w] = "insert"
    /\ ~Conflict(target[w], Portion(todo[w]))
    /\ AddProducts(target[w], Portion(todo[w]))
    /\ todo' = [todo EXCEPT ![w] =
            SubSeq(@, Len(Portion(@)) + 1, Len(@))]
    /\ Goto(w, IF todo'[w] = <<>> THEN "inserted" ELSE "insert")
    /\ UNCHANGED <<store, jobs, malformed, rejected, target, snap, faults>>

\* The insert meets a row that is there already: the call raises and inserts
\* none of its rows.
InsertConflict(w) ==
    /\ pc[w] = "insert"
    /\ Conflict(target[w], Portion(todo[w]))
    /\ Goto(w, "broken")
    /\ todo' = [todo EXCEPT ![w] = <<>>]
    /\ UNCHANGED <<store, storeVars, target, snap, faults>>

\* The connection to Postgres breaks, before or after the rows were inserted.
InsertBreaks(w) ==
    /\ pc[w] = "insert"
    /\ store = "postgres"
    /\ faults < MaxFaults
    /\ faults' = faults + 1
    /\ \/ UNCHANGED products
       \/ /\ ~Conflict(target[w], Portion(todo[w]))
          /\ AddProducts(target[w], Portion(todo[w]))
    /\ Goto(w, "broken")
    /\ todo' = [todo EXCEPT ![w] = <<>>]
    /\ UNCHANGED <<store, jobs, malformed, rejected, target, snap>>

\* Mutant: rows are not counted as processed.
AfterChunkUncounted(job) ==
    [job EXCEPT !.status = IF Remaining(job) = <<>> THEN Finished(job.errors)
                           ELSE "running",
                !.pending = Remaining(job),
                !.inserted = @ + Len(Chunk(job))]

\* The row after a chunk that was inserted ...
AfterChunk(job) ==
    [job EXCEPT !.status = IF Remaining(job) = <<>> THEN Finished(job.errors)
                           ELSE "running",
                !.pending = Remaining(job),
                !.processed = @ + Len(Chunk(job)),
                !.inserted = @ + Len(Chunk(job))]

\* Mutants of AfterFailure: the failed chunk stays on the list, as before the
\* "Hotfix-Upload" comment; its rows are not counted as errors; its rows are
\* counted as inserted all the same.
AfterFailureRetrying(job) == [job EXCEPT !.status = "running"]

AfterFailureSilent(job) ==
    [job EXCEPT !.status = IF Remaining(job) = <<>> THEN Finished(job.errors)
                           ELSE "running",
                !.pending = Remaining(job),
                !.processed = @ + Len(Chunk(job))]

AfterFailureInserted(job) ==
    [job EXCEPT !.status = "running",
                !.pending = Remaining(job),
                !.processed = @ + Len(Chunk(job)),
                !.inserted = @ + Len(Chunk(job)),
                !.errors = @ + Len(Chunk(job))]

\* ... and after one that was not: it is given up, row by row an error, and
\* the job fails if the chunk was all there was.
AfterFailure(job) ==
    [job EXCEPT !.status = IF /\ job.processed = 0 /\ job.inserted = 0
                              /\ Remaining(job) = <<>>
                           THEN "failed" ELSE "running",
                !.pending = Remaining(job),
                !.processed = @ + Len(Chunk(job)),
                !.errors = @ + Len(Chunk(job))]

Commit(w) ==
    /\ \/ pc[w] = "inserted" /\ Write(target[w], AfterChunk(snap[w]))
       \/ pc[w] = "broken" /\ Write(target[w], AfterFailure(snap[w]))
    /\ Respond(w)
    /\ UNCHANGED <<store, products, malformed, rejected, faults>>

-----------------------------------------------------------------------------
(* A request dies between two store calls, or its last write raises.        *)
Crash(w) ==
    /\ pc[w] # "idle"
    /\ faults < MaxFaults
    /\ faults' = faults + 1
    /\ Respond(w)
    /\ UNCHANGED <<store, storeVars>>

(* cancel_stale_ingestion_jobs: a row nobody updated for 30 minutes, longer *)
(* than any request lives, ends.  The in-memory store completes a job whose *)
(* rows are all processed; Postgres completes one that has processed rows   *)
(* and has errors.                                                          *)
SweptStatus(job) ==
    IF store = "memory" /\ job.total > 0 /\ job.processed >= job.total
    THEN Finished(job.errors)
    ELSE IF store = "postgres" /\ job.processed > 0 /\ job.errors > 0
         THEN "completed_with_errors" ELSE "cancelled"

SweepStale(j) ==
    /\ jobs[j].status \in Active
    /\ \A w \in Worker : pc[w] # "idle" => target[w] # j
    /\ Write(j, [jobs[j] EXCEPT !.status = SweptStatus(jobs[j])])
    /\ UNCHANGED <<store, products, malformed, rejected, requestVars, faults>>

Serve(w) ==
    \/ AdvanceDrained(w) \/ AdvanceStart(w)
    \/ InsertRows(w) \/ InsertConflict(w) \/ InsertBreaks(w)
    \/ Commit(w)

Next ==
    \/ \E j \in JobId : Create(j) \/ SweepStale(j)
    \/ \E w \in Worker :
        \/ \E j \in JobId : AdvanceRead(w, j)
        \/ Serve(w)
        \/ Crash(w)

Spec == Init /\ [][Next]_vars

(* A request is served to its end unless it dies, and the browser calls     *)
(* advance until the answer is terminal.                                    *)
FairSpec ==
    /\ Spec
    /\ \A w \in Worker : WF_vars(Serve(w))
    /\ \A j \in JobId : WF_vars(\E w \in Worker : AdvanceRead(w, j))

-----------------------------------------------------------------------------
(* Properties *)

\* Type correctness of the tables and of every request in flight.
TypeOK ==
    /\ store \in {"memory", "postgres"}
    /\ jobs \in [JobId -> Job]
    /\ products \in [JobId -> SUBSET Row]
    /\ malformed \in [JobId -> SUBSET Row]
    /\ rejected \in [JobId -> Nat]
    /\ pc \in [Worker -> Pc]
    /\ target \in [Worker -> JobId]
    /\ snap \in [Worker -> Job]
    /\ todo \in [Worker -> Seq(Row)]
    /\ faults \in Nat

\* The numbers the wizard shows agree with each other however advances overlap:
\* every row of the file is pending, inserted, or counted as an error, once.
RowsAccounted ==
    \A j \in JobId :
        /\ jobs[j].processed + Len(jobs[j].pending) = jobs[j].total
        /\ jobs[j].inserted + (jobs[j].errors - rejected[j]) = jobs[j].processed

\* A product reported as inserted is in the products table: the table is never
\* behind the job, whatever died in between.
InsertedArePresent ==
    \A j \in JobId :
        jobs[j].inserted <= Cardinality(products[j] \ Range(jobs[j].pending))

\* A job that ends without any error has ingested the whole file.  One that ends
\* "with errors" shows some, and has tried every row: but on Postgres, whose sweep
\* completes a job that stalled after its first errors with rows still pending.
CompletedMeansIngested ==
    \A j \in JobId :
        /\ jobs[j].status = "completed" => products[j] = 1 .. jobs[j].total
        /\ jobs[j].status = "completed_with_errors" =>
            /\ jobs[j].errors > 0
            /\ store = "memory" => jobs[j].pending = <<>>

\* No row is both in the products table and reported as an error: "at worst
\* one chunk of work is repeated, and product upsert keys de-duplicate".
RepeatIsHarmless ==
    \A j \in JobId :
        Cardinality(products[j]) + (jobs[j].errors - rejected[j]) <= jobs[j].total

\* In memory, where a row that is inserted again replaces itself: on Postgres it
\* breaks its chunk.
MemoryRepeatIsHarmless == store = "memory" => RepeatIsHarmless

\* The polling loop ends, even when two tabs drive the same job.
JobSettles ==
    \A j \in JobId : jobs[j].status \in Active ~> [](jobs[j].status \in Terminal)

\* In memory and driven by one tab, the job rows keep the promise of
\* JobLifecycle; the stale sweep completes a job only when all is processed.
Lifecycle == INSTANCE JobLifecycle WITH
    Item <- Row,
    status <- [j \in JobId |-> jobs[j].status],
    left <- [j \in JobId |-> Range(jobs[j].pending)]
ImplementsLifecycle == Lifecycle!Spec
=============================================================================

------------------------- MODULE ClassificationJob -------------------------
(***************************************************************************)
(* The chunked AI classification jobs of one upload under one methodology  *)
(* (api/classification_job_orchestrator.py, domain/classification_job.py). *)
(*                                                                         *)
(* A job is a row of the store.  The browser drives it: every HTTP request *)
(* (create, advance, cancel, retry-failed) is served by a worker thread    *)
(* that reads the row once, makes several store calls, and writes the      *)
(* whole row back from the copy it read.  The store serialises single      *)
(* calls and nothing else, so one action below is one store call and the   *)
(* requests of several workers interleave between them.                    *)
(***************************************************************************)
EXTENDS Integers, Sequences, FiniteSets, Functions, TLC

CONSTANTS
    Product,        \* the products of the upload
    JobId,          \* identifiers of job rows
    Worker,         \* requests the server may be serving at the same time
    Methodology,    \* "pt" or "wwf"
    BatchSize,      \* batch sizes a client may ask for, already clamped
    MaxBatch,       \* MAX_BATCH_SIZE
    RetryFloor,     \* smallest batch size of a halved retry job
    MaxCrashes      \* bound: requests that may die half way

ASSUME ConstantsAssumption ==
    /\ IsFiniteSet(Product)
    /\ Methodology \in {"pt", "wwf"}
    /\ JobId # {}
    /\ MaxBatch \in Nat \ {0}
    /\ RetryFloor \in Nat \ {0}
    /\ BatchSize \subseteq 1 .. MaxBatch
    /\ MaxCrashes \in Nat

VARIABLES
    jobs,       \* the classification_jobs table
    scope,      \* history: the pending list a job was created with, as a set
    cls,        \* the classification row of each product
    review,     \* the manual-review item of each product
    pc,         \* where the request served by a worker is
    target,     \* the job that request is about
    snap,       \* the copy of the job row it read, never read again
    todo,       \* products it still has to handle, in order
    verdict,    \* the verdict it is recording for the head of todo
    newFailed,  \* products it could not classify (failed_ids)
    sawFailed,  \* its coverage count found failed rows (failed_total > 0)
    crashes     \* requests that died so far

storeVars == <<jobs, scope, cls, review>>
requestVars == <<pc, target, snap, todo, verdict, newFailed, sawFailed>>
vars == <<storeVars, requestVars, crashes>>

-----------------------------------------------------------------------------
(* Job rows *)

Active == {"queued", "running"}
Completed == {"completed", "completed_with_errors"}
Terminal == Completed \cup {"failed", "cancelled"}

\* "absent": no row.  total_products, processed_products and the batch size
\* are kept; timestamps, ids and display counters are not.
Job == [status : Active \cup Terminal \cup {"absent"},
        pending : Seq(Product), total : Nat, processed : Nat,
        failed : SUBSET Product, batch : Nat, cancelRequested : BOOLEAN]

NewJob(status, pending, batch) ==
    [status |-> status, pending |-> pending, total |-> Len(pending),
     processed |-> 0, failed |-> {}, batch |-> batch,
     cancelRequested |-> FALSE]

NoJob == NewJob("absent", <<>>, 1)

\* The slice of the pending list an advance takes, and what it leaves.
Take(job) ==
    LET n == IF job.batch < MaxBatch THEN job.batch ELSE MaxBatch
        m == IF n < 1 THEN 1 ELSE n
    IN  IF m < Len(job.pending) THEN m ELSE Len(job.pending)
Chunk(job) == SubSeq(job.pending, 1, Take(job))
\* Mutant: the slice left behind starts one too late.
RemainingOffByOne(job) == SubSeq(job.pending, Take(job) + 2, Len(job.pending))
Remaining(job) == SubSeq(job.pending, Take(job) + 1, Len(job.pending))

\* The lists a set of product ids can be returned as: neither the products
\* query nor tuple({...}) fixes an order.
Orderings(S) == Injection(1 .. Cardinality(S), S)

-----------------------------------------------------------------------------
(* Classification rows and review items *)

\* "known" and "unknown" are AI verdicts, "placeholder" is the system row that
\* _queue_unknown_pt / _queue_unknown_wwf writes for a product it cannot class.
ClsRow == {"none", "known", "unknown", "placeholder"}
\* The reason of the queued item; "ai_failed" is AI_PARSE_FAILED or
\* AI_PROVIDER_ERROR, the two reasons the coverage counters call failed.
ReviewItem == {"none", "low_confidence", "ai_failed"}
Verdict == {"accepted", "low_confidence", "ai_failed"}

\* Which products a default job (only missing or failed) still has to class.
NeedsClassification(p) ==
    IF Methodology = "pt" THEN cls[p] # "known" ELSE cls[p] = "none"

Eligible(everything) == {p \in Product : everything \/ NeedsClassification(p)}

ClsAfter(v) == IF v = "ai_failed" THEN {"placeholder"} ELSE {"known", "unknown"}
ReviewAfter(v) == IF v = "accepted" THEN "none" ELSE v

-----------------------------------------------------------------------------
(* Requests *)

Pc == {"idle", "list", "insert", "advance", "classify", "enqueue", "count",
       "commit", "cancel", "retry"}
\* The request holds a copy of an active row and will write it back.
HoldsJob == {"advance", "classify", "enqueue", "count", "commit", "cancel"}

Request(w, p, j, job) ==
    /\ pc' = [pc EXCEPT ![w] = p]
    /\ target' = [target EXCEPT ![w] = j]
    /\ snap' = [snap EXCEPT ![w] = job]

AnyJob == CHOOSE j \in JobId : TRUE

\* The request ends: nothing of it is kept.
Respond(w) ==
    /\ Request(w, "idle", AnyJob, NoJob)
    /\ todo' = [todo EXCEPT ![w] = <<>>]
    /\ verdict' = [verdict EXCEPT ![w] = "accepted"]
    /\ newFailed' = [newFailed EXCEPT ![w] = {}]
    /\ sawFailed' = [sawFailed EXCEPT ![w] = FALSE]

Write(j, job) == jobs' = [jobs EXCEPT ![j] = job]

FreeJob(j) == jobs[j].status = "absent"
Insert(j, job) ==
    /\ FreeJob(j)
    /\ Write(j, job)
    /\ scope' = [scope EXCEPT ![j] = Range(job.pending)]

\* Bound: requests that insert a row start only while JobId has an id for it.
IdLeft == Cardinality({w \in Worker : pc[w] \in {"list", "insert", "retry"}})
            < Cardinality({j \in JobId : FreeJob(j)})

Init ==
    /\ jobs = [j \in JobId |-> NoJob]
    /\ scope = [j \in JobId |-> {}]
    /\ cls = [p \in Product |-> "none"]
    /\ review = [p \in Product |-> "none"]
    /\ pc = [w \in Worker |-> "idle"]
    /\ target = [w \in Worker |-> AnyJob]
    /\ snap = [w \in Worker |-> NoJob]
    /\ todo = [w \in Worker |-> <<>>]
    /\ verdict = [w \in Worker |-> "accepted"]
    /\ newFailed = [w \in Worker |-> {}]
    /\ sawFailed = [w \in Worker |-> FALSE]
    /\ crashes = 0

-----------------------------------------------------------------------------
(* POST .../classification-jobs: 409 if an active job exists, otherwise    *)
(* list the eligible products, then insert the row.  Three store calls: no *)
(* index forbids a second active row.                                      *)

CreateCheck(w) ==
    /\ pc[w] = "idle"
    /\ IdLeft
    /\ \A j \in JobId : jobs[j].status \notin Active
    /\ pc' = [pc EXCEPT ![w] = "list"]
    /\ UNCHANGED <<storeVars, target, snap, todo, verdict, newFailed,
                   sawFailed, crashes>>

\* "everything" is overwrite, or only_missing_or_failed switched off.
CreateList(w) ==
    /\ pc[w] = "list"
    /\ \E everything \in BOOLEAN : \E s \in Orderings(Eligible(everything)) :
            todo' = [todo EXCEPT ![w] = s]
    /\ pc' = [pc EXCEPT ![w] = "insert"]
    /\ UNCHANGED <<storeVars, target, snap, verdict, newFailed, sawFailed,
                   crashes>>

CreateInsert(w) ==
    /\ pc[w] = "insert"
    /\ \E j \in JobId, b \in BatchSize :
            Insert(j, NewJob("queued", todo[w], b))
    /\ Respond(w)
    /\ UNCHANGED <<cls, review, crashes>>

-----------------------------------------------------------------------------
(* POST .../advance: one batch.                                            *)

\* Mutant: the early return on a terminal job is lost.
AdvanceReadUnguarded(w, j) ==
    /\ pc[w] = "idle"
    /\ ~FreeJob(j)
    /\ Request(w, "advance", j, jobs[j])
    /\ UNCHANGED <<storeVars, todo, verdict, newFailed, sawFailed, crashes>>

\* A terminal job is returned unchanged; no conflict is ever raised.
AdvanceRead(w, j) ==
    /\ pc[w] = "idle"
    /\ jobs[j].status \in Active
    /\ Request(w, "advance", j, jobs[j])
    /\ UNCHANGED <<storeVars, todo, verdict, newFailed, sawFailed, crashes>>

\* Cancellation was requested, or the server has no AI provider configured.
AdvanceStop(w) ==
    /\ pc[w] = "advance"
    /\ Write(target[w], [snap[w] EXCEPT
            !.status = IF snap[w].cancelRequested THEN "cancelled" ELSE "failed"])
    /\ Respond(w)
    /\ UNCHANGED <<scope, cls, review, crashes>>

\* Nothing is pending: only the counters and the final status are left.
AdvanceDrained(w) ==
    /\ pc[w] = "advance"
    /\ ~snap[w].cancelRequested
    /\ snap[w].pending = <<>>
    /\ pc' = [pc EXCEPT ![w] = "count"]
    /\ UNCHANGED <<storeVars, target, snap, todo, verdict, newFailed,
                   sawFailed, crashes>>

\* Mutant: the chunk is claimed, taken off the stored list, before the AI call.
AdvanceStartClaiming(w) ==
    /\ pc[w] = "advance"
    /\ ~snap[w].cancelRequested
    /\ snap[w].pending # <<>>
    /\ Write(target[w], [snap[w] EXCEPT !.status = "running",
                                        !.pending = Remaining(snap[w])])
    /\ todo' = [todo EXCEPT ![w] = Chunk(snap[w])]
    /\ pc' = [pc EXCEPT ![w] = "classify"]
    /\ UNCHANGED <<scope, cls, review, target, snap, verdict, newFailed,
                   sawFailed, crashes>>

\* Take the head of the pending list of the copy, and write the copy back as
\* running before the AI is called.
AdvanceStart(w) ==
    /\ pc[w] = "advance"
    /\ ~snap[w].cancelRequested
    /\ snap[w].pending # <<>>
    /\ Write(target[w], [snap[w] EXCEPT !.status = "running"])
    /\ todo' = [todo EXCEPT ![w] = Chunk(snap[w])]
    /\ pc' = [pc EXCEPT ![w] = "classify"]
    /\ UNCHANGED <<scope, cls, review, target, snap, verdict, newFailed,
                   sawFailed, crashes>>

\* Record the verdict on the next product: first its classification row ...
Classify(w) ==
    /\ pc[w] = "classify"
    /\ \E v \in Verdict : \E c \in ClsAfter(v) :
            /\ cls' = [cls EXCEPT ![Head(todo[w])] = c]
            /\ verdict' = [verdict EXCEPT ![w] = v]
    /\ pc' = [pc EXCEPT ![w] = "enqueue"]
    /\ UNCHANGED <<jobs, scope, review, target, snap, todo, newFailed,
                   sawFailed, crashes>>

\* ... then its review item, removed when the verdict was accepted.
Enqueue(w) ==
    /\ pc[w] = "enqueue"
    /\ review' = [review EXCEPT ![Head(todo[w])] = ReviewAfter(verdict[w])]
    /\ newFailed' = [newFailed EXCEPT ![w] =
            IF verdict[w] = "ai_failed" THEN @ \cup {Head(todo[w])} ELSE @]
    /\ todo' = [todo EXCEPT ![w] = Tail(@)]
    /\ verdict' = [verdict EXCEPT ![w] = "accepted"]
    /\ pc' = [pc EXCEPT ![w] = IF Len(todo[w]) = 1 THEN "count" ELSE "classify"]
    /\ UNCHANGED <<jobs, scope, cls, target, snap, sawFailed, crashes>>

\* Mutant: only the failures of this batch are counted.
CountThisBatch(w) ==
    /\ pc[w] = "count"
    /\ sawFailed' = [sawFailed EXCEPT ![w] = newFailed[w] # {}]
    /\ pc' = [pc EXCEPT ![w] = "commit"]
    /\ UNCHANGED <<storeVars, target, snap, todo, verdict, newFailed, crashes>>

\* _refresh_coverage_counters walks the upload for Protein Tracker only.
CountCoverage(w) ==
    /\ pc[w] = "count"
    /\ sawFailed' = [sawFailed EXCEPT ![w] =
            Methodology = "pt" /\ \E p \in Product : review[p] = "ai_failed"]
    /\ pc' = [pc EXCEPT ![w] = "commit"]
    /\ UNCHANGED <<storeVars, target, snap, todo, verdict, newFailed, crashes>>

\* Mutant: the last product does not count as remaining.
StatusAfterEarly(job, errors) ==
    IF Len(Remaining(job)) > 1 THEN "running"
    ELSE IF errors THEN "completed_with_errors" ELSE "completed"

StatusAfter(job, errors) ==
    IF Remaining(job) # <<>> THEN "running"
    ELSE IF errors THEN "completed_with_errors" ELSE "completed"

\* Mutants of AfterBatch: the counter grows by the batch size even for a short last
\* batch; failed products stay pending and are tried for ever.
AfterBatchFullSize(job, failedIds, errors) ==
    [job EXCEPT !.status = StatusAfter(job, errors),
                !.pending = Remaining(job),
                !.processed = @ + job.batch,
                !.failed = @ \cup failedIds]

AfterBatchRetrying(job, failedIds, errors) ==
    [job EXCEPT !.status = IF failedIds = {} THEN StatusAfter(job, errors)
                           ELSE "running",
                !.pending = IF failedIds = {} THEN Remaining(job) ELSE @,
                !.failed = @ \cup failedIds]

AfterBatch(job, failedIds, errors) ==
    [job EXCEPT !.status = StatusAfter(job, errors),
                !.pending = Remaining(job),
                !.processed = @ + Len(Chunk(job)),
                !.failed = @ \cup failedIds]

\* The whole row is written, computed from the copy read at the start.
CommitAdvance(w) ==
    /\ pc[w] = "commit"
    /\ Write(target[w], AfterBatch(snap[w], newFailed[w], sawFailed[w]))
    /\ Respond(w)
    /\ UNCHANGED <<scope, cls, review, crashes>>

-----------------------------------------------------------------------------
(* POST .../cancel and POST .../retry-failed                               *)

CancelRead(w, j) ==
    /\ pc[w] = "idle"
    /\ jobs[j].status \in Active
    /\ Request(w, "cancel", j, jobs[j])
    /\ UNCHANGED <<storeVars, todo, verdict, newFailed, sawFailed, crashes>>

CancelWrite(w) ==
    /\ pc[w] = "cancel"
    /\ Write(target[w], [snap[w] EXCEPT !.status = "cancelled",
                                        !.cancelRequested = TRUE])
    /\ Respond(w)
    /\ UNCHANGED <<scope, cls, review, crashes>>

\* Any existing job can be retried, a running one too.
RetryRead(w, j) ==
    /\ pc[w] = "idle"
    /\ IdLeft
    /\ ~FreeJob(j)
    /\ Request(w, "retry", j, jobs[j])
    /\ UNCHANGED <<storeVars, todo, verdict, newFailed, sawFailed, crashes>>

\* Half the batch when a whole batch was lost, but never below the floor.
RetryBatch(job) ==
    IF job.batch >= 2 /\ Cardinality(job.failed) >= job.batch
    THEN IF job.batch \div 2 > RetryFloor THEN job.batch \div 2 ELSE RetryFloor
    ELSE job.batch

RetryNothing(w) ==
    /\ pc[w] = "retry"
    /\ snap[w].failed = {}
    /\ \E j \in JobId : Insert(j, NewJob("completed", <<>>, snap[w].batch))
    /\ Respond(w)
    /\ UNCHANGED <<cls, review, crashes>>

\* Mutant: the old row is queued again instead of a new one.
RetryInPlace(w) ==
    /\ pc[w] = "retry"
    /\ snap[w].failed # {}
    /\ \E s \in Orderings(snap[w].failed) :
            Write(target[w], NewJob("queued", s, RetryBatch(snap[w])))
    /\ Respond(w)
    /\ UNCHANGED <<scope, cls, review, crashes>>

RetryInsert(w) ==
    /\ pc[w] = "retry"
    /\ snap[w].failed # {}
    /\ \E j \in JobId, s \in Orderings(snap[w].failed) :
            Insert(j, NewJob("queued", s, RetryBatch(snap[w])))
    /\ Respond(w)
    /\ UNCHANGED <<cls, review, crashes>>

-----------------------------------------------------------------------------
(* A request dies between two store calls: the process restarts, or a      *)
(* store call raises and the route answers 502.                            *)
Crash(w) ==
    /\ pc[w] # "idle"
    /\ crashes < MaxCrashes
    /\ crashes' = crashes + 1
    /\ Respond(w)
    /\ UNCHANGED storeVars

(* cancel_stale_classification_jobs, run by an admin or by the heavy-job   *)
(* guard: a row nobody updated for 30 minutes is cancelled in one UPDATE.  *)
(* A request is assumed to end well within that time, so a job some        *)
(* request holds is not stale.                                             *)
SweepStale(j) ==
    /\ jobs[j].status \in Active
    /\ \A w \in Worker : pc[w] \in HoldsJob => target[w] # j
    /\ Write(j, [jobs[j] EXCEPT !.status = "cancelled"])
    /\ UNCHANGED <<scope, cls, review, requestVars, crashes>>

Advance(w) ==
    \/ AdvanceStop(w) \/ AdvanceDrained(w) \/ AdvanceStart(w)
    \/ Classify(w) \/ Enqueue(w) \/ CountCoverage(w) \/ CommitAdvance(w)

Serve(w) ==
    \/ CreateList(w) \/ CreateInsert(w)
    \/ Advance(w)
    \/ CancelWrite(w)
    \/ RetryNothing(w) \/ RetryInsert(w)

Next ==
    \/ \E w \in Worker :
        \/ CreateCheck(w)
        \/ \E j \in JobId : AdvanceRead(w, j) \/ CancelRead(w, j) \/ RetryRead(w, j)
        \/ Serve(w)
        \/ Crash(w)
    \/ \E j \in JobId : SweepStale(j)

Spec == Init /\ [][Next]_vars

(* A request that was accepted is served to its end unless it dies, and    *)
(* the browser calls advance until the answer is terminal.                 *)
FairSpec ==
    /\ Spec
    /\ \A w \in Worker : WF_vars(Serve(w))
    /\ \A j \in JobId : WF_vars(\E w \in Worker : AdvanceRead(w, j))

-----------------------------------------------------------------------------
(* Properties *)

StoreTypeOK ==
    /\ jobs \in [JobId -> Job]
    /\ scope \in [JobId -> SUBSET Product]
    /\ cls \in [Product -> ClsRow]
    /\ review \in [Product -> ReviewItem]

RequestTypeOK ==
    /\ pc \in [Worker -> Pc]
    /\ target \in [Worker -> JobId]
    /\ snap \in [Worker -> Job]
    /\ todo \in [Worker -> Seq(Product)]
    /\ verdict \in [Worker -> Verdict]
    /\ newFailed \in [Worker -> SUBSET Product]
    /\ sawFailed \in [Worker -> BOOLEAN]

\* Type correctness of the tables and of every request in flight.
TypeOK == StoreTypeOK /\ RequestTypeOK /\ crashes \in Nat

\* However requests interleave or die, a product a job was created for is
\* either still in its pending list or has a classification row: overlapping
\* whole-row writes may repeat work but never lose a product.
NoProductSkipped ==
    \A j \in JobId : \A p \in scope[j] :
        p \in Range(jobs[j].pending) \/ cls[p] # "none"

\* The counters of a row agree with its lists after any mix of stale writes:
\* the progress bar of the wizard is processed over total.
ProgressAddsUp ==
    \A j \in JobId :
        /\ jobs[j].processed + Len(jobs[j].pending) = jobs[j].total
        /\ Cardinality(scope[j]) = jobs[j].total

\* What retry-failed would process is work the job has given up on, never
\* something it has not tried yet.
FailedWereTried ==
    \A j \in JobId :
        jobs[j].failed \subseteq scope[j] \ Range(jobs[j].pending)

\* "RUNNING -> COMPLETED when all eligible products are classified": a job
\* reported as completed has classified every product it was created for.
CompletedIsComplete ==
    \A j \in JobId : jobs[j].status \in Completed =>
        /\ jobs[j].pending = <<>>
        /\ \A p \in scope[j] : cls[p] # "none"

\* Driven by one tab, a job that has ended, by completion, failure, cancellation
\* or the stale sweep, never changes again, whatever is requested afterwards.
TerminalIsFinal ==
    [][\A j \in JobId : jobs[j].status \in Terminal => jobs'[j] = jobs[j]]_vars

\* A job the user has cancelled never runs again, not even when an advance was
\* in flight: "Anywhere -> CANCELLED when the caller explicitly cancels" and
\* "if two advance calls race, the loser sees 0 rows updated".
CancelSticks ==
    [][\A j \in JobId : jobs[j].status = "cancelled" =>
            jobs'[j].status \notin Active]_vars

\* The row of a product is a placeholder, and no reviewer is asked about it.
Unrecorded(p) == cls[p] = "placeholder" /\ review[p] # "ai_failed"
\* A job that advance still serves will take the product up again.
Listed(p) ==
    \E j \in JobId : jobs[j].status \in Active /\ p \in Range(jobs[j].pending)
Stranded(p) == Unrecorded(p) /\ ~Listed(p)
\* A job with the product on its list is stopped by this step.
StoppedWith(p) ==
    \E j \in JobId :
        /\ jobs[j].status \in Active /\ p \in Range(jobs[j].pending)
        /\ jobs'[j].status \in {"failed", "cancelled"}

\* A placeholder written for a product the AI could not classify is not left
\* behind without its review item (_queue_unknown_pt / _queue_unknown_wwf write
\* the two one after the other).  It takes two things together to leave one
\* behind: a request that died between the writes, and a cancel, a sweep or a
\* missing provider that stops the job before it repeats the batch.  In any other
\* case, in particular when the job goes on or completes, the item is queued or an
\* active job has the product on its list.
OnlyStopsStrand ==
    \A p \in Product : Stranded(p)' =>
        Stranded(p) \/ (crashes > 0 /\ StoppedWith(p))
PlaceholderNotStranded == [][OnlyStopsStrand]_vars

\* A job never ends as plain "completed" while a row of the upload is queued
\* as failed: "RUNNING -> COMPLETED_WITH_ERRORS when finished but some rows
\* remained as parse_failed / unknown".
FailuresShow ==
    [][\A j \in JobId :
        jobs[j].status \in Active /\ jobs'[j].status = "completed" =>
            \A p \in Product : review'[p] # "ai_failed"]_vars

\* The browser's polling loop ends: driven by one tab, an active job reaches a
\* terminal status and stays there, whatever dies on the way.
JobSettles ==
    \A j \in JobId : jobs[j].status \in Active ~> [](jobs[j].status \in Terminal)

\* Driven by one tab, the job rows keep the promise of JobLifecycle: work only
\* takes products off the list, and a job completes with nothing left.
Lifecycle == INSTANCE JobLifecycle WITH
    Item <- Product,
    status <- [j \in JobId |-> jobs[j].status],
    left <- [j \in JobId |-> Range(jobs[j].pending)]
ImplementsLifecycle == Lifecycle!Spec

-----------------------------------------------------------------------------
(* The inductive invariant behind the properties that hold for any number  *)
(* of concurrent requests.                                                 *)

Classified == {p \in Product : cls[p] # "none"}

\* What holds of a row, and of every copy of it a request may write back.
RowInv(row, items, done) ==
    /\ IsInjective(row.pending)
    /\ Range(row.pending) \subseteq items
    /\ items \ Range(row.pending) \subseteq done
    /\ row.failed \subseteq items \ Range(row.pending)
    /\ row.processed + Len(row.pending) = row.total
    /\ Cardinality(items) = row.total
    /\ row.status \in Completed => row.pending = <<>>
    /\ row.cancelRequested => row.status = "cancelled"

\* The products of the chunk already handled by the request are classified.
RequestInv(w) ==
    /\ pc[w] \in HoldsJob =>
        /\ jobs[target[w]].status # "absent"
        /\ snap[w].status \in Active
        /\ RowInv(snap[w], scope[target[w]], Classified)
    /\ pc[w] = "insert" => IsInjective(todo[w])
    /\ pc[w] \in {"advance", "count", "commit"} => todo[w] = <<>>
    /\ pc[w] = "advance" => newFailed[w] = {}
    /\ pc[w] \in {"classify", "enqueue"} => todo[w] # <<>>
    /\ pc[w] = "enqueue" => cls[Head(todo[w])] # "none"
    /\ pc[w] \in {"classify", "enqueue", "count", "commit"} =>
        /\ Range(todo[w]) \subseteq Range(Chunk(snap[w]))
        /\ Range(Chunk(snap[w])) \ Range(todo[w]) \subseteq Classified
        /\ newFailed[w] \subseteq Range(Chunk(snap[w]))
    /\ pc[w] \notin HoldsJob \cup {"insert"} => todo[w] = <<>> /\ newFailed[w] = {}

\* Every row, and every copy of one that a request will write back over it,
\* accounts for each product of its job as pending or classified: the reason why
\* overlapping advances, cancels and crashes of any number of requests can
\* repeat work but never lose it.
IInv ==
    /\ TypeOK
    /\ \A j \in JobId : RowInv(jobs[j], scope[j], Classified)
    /\ \A w \in Worker : RequestInv(w)
-----------------------------------------------------------------------------
(* The inductive invariant behind the properties of one tab, which waits   *)
(* for each answer: at most one request is served at a time.               *)

OneTab == \A v, w \in Worker : v = w

\* The stored row is the copy its request holds, but for the status that
\* AdvanceStart writes, and an id without a row has nothing pending.
CopyIsCurrent ==
    /\ \A w \in Worker : pc[w] \in HoldsJob =>
            jobs[target[w]] \in {snap[w], [snap[w] EXCEPT !.status = "running"]}
    /\ \A j \in JobId : jobs[j].status = "absent" => jobs[j].pending = <<>>

\* What the request has recorded of its chunk so far: a placeholder has its item,
\* but for the one whose item is about to be queued.
RecordInv(w) ==
    /\ pc[w] = "enqueue" /\ cls[Head(todo[w])] = "placeholder" =>
            verdict[w] = "ai_failed"
    /\ pc[w] \in {"classify", "enqueue", "count", "commit"} =>
            \A p \in Range(Chunk(snap[w])) \ Range(todo[w]) :
                cls[p] = "placeholder" => review[p] = "ai_failed"

\* What the request will report is what the upload holds.
CountIsCurrent ==
    \A w \in Worker : pc[w] = "commit" =>
        sawFailed[w] = (Methodology = "pt" /\ \E p \in Product : review[p] = "ai_failed")

\* Unless a request has died, the only placeholder without its item is the one
\* that is being recorded.
OpenIsCurrent ==
    crashes = 0 => \A p \in Product : Unrecorded(p) =>
        \E w \in Worker : pc[w] = "enqueue" /\ Head(todo[w]) = p

OneTabInv ==
    /\ CopyIsCurrent
    /\ \A w \in Worker : RecordInv(w)
    /\ OpenIsCurrent
    /\ CountIsCurrent

-----------------------------------------------------------------------------
(* For TLC: products and workers are interchangeable (a job id is not).     *)

Symmetry == Permutations(Product) \cup Permutations(Worker)
=============================================================================

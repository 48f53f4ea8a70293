----------------------------- MODULE ReviewQueue -----------------------------
(***************************************************************************)
(* Manual review (review/workflow.py, review/locks.py and the review part  *)
(* of api/orchestrator.py) under one methodology, and the classification   *)
(* batch that writes the same rows.                                        *)
(*                                                                         *)
(* A product awaiting a decision has an item; a reviewer who opens it has  *)
(* a soft lock that only a clock takes away.  Every request reads the item *)
(* once, decides on that copy, and writes with an unconditional upsert or  *)
(* delete.  An action makes at most one store write, and reads the clock   *)
(* with the row it checks against it.                                      *)
(***************************************************************************)
EXTENDS Integers, Sequences, FiniteSets, Functions, TLC

CONSTANTS
    Product,        \* the products of the project
    Reviewer,       \* Altera staff
    Worker,         \* requests the server may be serving at the same time
    Group,          \* the categories of the methodology
    Unknown,        \* the category "unknown", not one a reviewer can choose
    None,           \* no reviewer, no product
    LockTime,       \* SOFT_LOCK_DURATION
    Bulk,           \* may reviewers act on several items at once
    MaxTime,        \* bound: the clock
    MaxBatches,     \* bound: products that classification batches rewrite
    MaxCrashes      \* bound: requests that may die half way

ASSUME ConstantsAssumption ==
    /\ IsFiniteSet(Product)
    /\ Unknown \notin Group
    /\ None \notin Reviewer \cup Product
    /\ LockTime \in Nat \ {0}
    /\ Bulk \in BOOLEAN
    /\ MaxTime \in Nat /\ MaxBatches \in Nat /\ MaxCrashes \in Nat

VARIABLES
    items,      \* the manual_reviews table
    cls,        \* the classification row of each product
    now,        \* the clock
    pc,         \* where the request served by a worker is
    by,         \* the reviewer who sent it
    want,       \* the decision it carries
    at,         \* the time it takes for now
    copy,       \* the item it will write, computed from the one it read
    seen,       \* the classification it read
    todo,       \* products it still has to handle
    valid,      \* bulk: products that passed validation, in order
    job,        \* where a classification batch is
    batches,    \* products that batches have rewritten so far
    crashes     \* requests that died so far

storeVars == <<items, cls>>
requestVars == <<pc, by, want, at, copy, seen, todo, valid>>
jobVars == <<job, batches>>
vars == <<storeVars, now, requestVars, jobVars, crashes>>

-----------------------------------------------------------------------------
(* Items, locks and classification rows *)

\* An item with status "absent" is no row; accepted and changed items are
\* deleted, so "deferred" is the one terminal status that is stored.
Status == {"absent", "in_queue", "reviewing", "deferred"}
Item ==
    {i \in [status : Status, lock : Reviewer \cup {None}, expires : Nat] :
        (i.lock # None) <=> (i.status = "reviewing")}

MakeItem(status) == [status |-> status, lock |-> None, expires |-> 0]
NoItem == MakeItem("absent")
Queued == MakeItem("in_queue")

Open(item) == item.status \in {"in_queue", "reviewing"}
LockedBy(item, r) ==
    [status |-> "reviewing", lock |-> r, expires |-> now + LockTime]

Expired(item, t) == item.lock # None /\ t >= item.expires
HeldByOther(item, r, t) == item.lock \notin {None, r} /\ ~Expired(item, t)

\* claim_item, and the guard of every decision.
MayDecide(item, r, t) == Open(item) /\ ~HeldByOther(item, r, t)

Source == {"none", "ai", "manual"}
Cls == [group : Group \cup {Unknown}, source : Source]
NoCls == [group |-> Unknown, source |-> "none"]

Decision ==
    [kind : {"accept", "defer"}, to : {Unknown}, bulk : BOOLEAN]
    \cup [kind : {"change"}, to : Group, bulk : BOOLEAN]
NoDecision == [kind |-> "defer", to |-> Unknown, bulk |-> FALSE]

-----------------------------------------------------------------------------
(* Requests *)

Pc == {"idle", "lock", "synth", "validate", "current", "classify", "settle"}

NoJob == [pc |-> "idle", product |-> None, item |-> NoItem]

Goto(w, p) == pc' = [pc EXCEPT ![w] = p]
Upsert(p, item) == items' = [items EXCEPT ![p] = item]

\* The request ends: nothing of it is kept.
Respond(w) ==
    /\ Goto(w, "idle")
    /\ by' = [by EXCEPT ![w] = None]
    /\ want' = [want EXCEPT ![w] = NoDecision]
    /\ at' = [at EXCEPT ![w] = 0]
    /\ copy' = [copy EXCEPT ![w] = NoItem]
    /\ seen' = [seen EXCEPT ![w] = NoCls]
    /\ todo' = [todo EXCEPT ![w] = <<>>]
    /\ valid' = [valid EXCEPT ![w] = <<>>]

\* The states a finished classification job leaves a product in.
AfterJob ==
    {<<NoCls, NoItem>>} \cup
    {<<[group |-> g, source |-> "ai"], item>> :
        g \in Group \cup {Unknown}, item \in {NoItem, Queued}}

Init ==
    /\ \E start \in [Product -> AfterJob] :
            /\ cls = [p \in Product |-> start[p][1]]
            /\ items = [p \in Product |-> start[p][2]]
    /\ now = 0
    /\ pc = [w \in Worker |-> "idle"]
    /\ by = [w \in Worker |-> None]
    /\ want = [w \in Worker |-> NoDecision]
    /\ at = [w \in Worker |-> 0]
    /\ copy = [w \in Worker |-> NoItem]
    /\ seen = [w \in Worker |-> NoCls]
    /\ todo = [w \in Worker |-> <<>>]
    /\ valid = [w \in Worker |-> <<>>]
    /\ job = NoJob
    /\ batches = 0
    /\ crashes = 0

-----------------------------------------------------------------------------
(* claim, release, refresh-lock and assign: read the item, then write the   *)
(* whole item computed from that copy.  Who an item is assigned to guards   *)
(* nothing and is left out, so assign writes back the item it read.         *)

Begin(w, r, p, item) ==
    /\ pc[w] = "idle"
    /\ Goto(w, "lock")
    /\ by' = [by EXCEPT ![w] = r]
    /\ at' = [at EXCEPT ![w] = now]
    /\ copy' = [copy EXCEPT ![w] = item]
    /\ todo' = [todo EXCEPT ![w] = <<p>>]
    /\ UNCHANGED <<storeVars, now, want, seen, valid, jobVars, crashes>>

ClaimRead(w, r, p) ==
    /\ MayDecide(items[p], r, now)
    /\ Begin(w, r, p, LockedBy(items[p], r))

ReleaseRead(w, r, p) ==
    /\ MayDecide(items[p], r, now)
    /\ Begin(w, r, p, Queued)

\* Mutant: a refresh adds a full lock time to what is left of the lock.
RefreshReadAdding(w, r, p) ==
    /\ Open(items[p]) /\ items[p].lock = r /\ ~Expired(items[p], now)
    /\ Begin(w, r, p, [items[p] EXCEPT !.expires = @ + LockTime])

\* Only the holder of a lock that has not expired may extend it.
RefreshRead(w, r, p) ==
    /\ Open(items[p]) /\ items[p].lock = r /\ ~Expired(items[p], now)
    /\ Begin(w, r, p, LockedBy(items[p], r))

AssignRead(w, r, p) ==
    /\ Open(items[p])
    /\ Begin(w, r, p, items[p])

LockWrite(w) ==
    /\ pc[w] = "lock"
    /\ Upsert(Head(todo[w]), copy[w])
    /\ Respond(w)
    /\ UNCHANGED <<cls, now, jobVars, crashes>>

-----------------------------------------------------------------------------
(* submit_decision: one product.                                            *)

Decide(w, r, p, d, next) ==
    /\ pc[w] = "idle"
    /\ Goto(w, next)
    /\ by' = [by EXCEPT ![w] = r]
    /\ want' = [want EXCEPT ![w] = d]
    /\ at' = [at EXCEPT ![w] = now]
    /\ todo' = [todo EXCEPT ![w] = <<p>>]
    /\ valid' = [valid EXCEPT ![w] = <<p>>]
    /\ UNCHANGED <<storeVars, now, copy, seen, jobVars, crashes>>

DecideItem(w, r, p, d) ==
    /\ ~d.bulk
    /\ MayDecide(items[p], r, now)
    /\ Decide(w, r, p, d, "current")

\* A product that is not in the queue is queued first, unless there is
\* nothing to accept or defer.
DecideUnqueued(w, r, p, d) ==
    /\ ~d.bulk
    /\ items[p].status = "absent"
    /\ cls[p].source # "none" \/ d.kind = "change"
    /\ Decide(w, r, p, d, "synth")

Synthesise(w) ==
    /\ pc[w] = "synth"
    /\ Upsert(Head(todo[w]), Queued)
    /\ Goto(w, "current")
    /\ UNCHANGED <<cls, now, by, want, at, copy, seen, todo, valid, jobVars,
                   crashes>>

(* bulk_submit_decision: validate every item, one read each; then apply     *)
(* them one by one.                                                         *)

\* The products selected in the queue, each once.
Selections == UNION {Injection(1 .. Cardinality(S), S) : S \in SUBSET Product}

BulkStart(w, r, s, d) ==
    /\ Bulk /\ d.bulk
    /\ pc[w] = "idle"
    /\ s # <<>>
    /\ Goto(w, "validate")
    /\ by' = [by EXCEPT ![w] = r]
    /\ want' = [want EXCEPT ![w] = d]
    /\ at' = [at EXCEPT ![w] = now]
    /\ todo' = [todo EXCEPT ![w] = s]
    /\ UNCHANGED <<storeVars, now, copy, seen, valid, jobVars, crashes>>

BulkCheck(w) ==
    LET p == Head(todo[w])
    IN  /\ pc[w] = "validate"
        /\ MayDecide(items[p], by[w], at[w])
        /\ valid' = [valid EXCEPT ![w] = Append(@, p)]
        /\ IF Len(todo[w]) = 1
           THEN todo' = [todo EXCEPT ![w] = valid'[w]] /\ Goto(w, "current")
           ELSE todo' = [todo EXCEPT ![w] = Tail(@)] /\ UNCHANGED pc
        /\ UNCHANGED <<storeVars, now, by, want, at, copy, seen, jobVars, crashes>>

\* One item is missing, terminal or locked by another: 400 for the batch.
BulkReject(w) ==
    /\ pc[w] = "validate"
    /\ ~MayDecide(items[Head(todo[w])], by[w], at[w])
    /\ Respond(w)
    /\ UNCHANGED <<storeVars, now, jobVars, crashes>>

-----------------------------------------------------------------------------
(* Applying a decision to the head of todo                                  *)

\* Nothing to accept; or a bulk change to the category it already has, which
\* change_pt_item refuses (a single one counts as an acceptance).
Refused(d, row) ==
    \/ d.kind = "accept" /\ row.source = "none"
    \/ d.kind = "change" /\ d.bulk /\ row.source # "none" /\ row.group = d.to

\* Mutant: accepting does not store the promoted classification.
FirstWriteSkipping(d) == IF d.kind = "change" THEN "classify" ELSE "settle"

\* A decision other than defer stores a classification before the item goes.
FirstWrite(d) == IF d.kind = "defer" THEN "settle" ELSE "classify"

ReadCurrent(w) ==
    LET row == cls[Head(todo[w])]
    IN  /\ pc[w] = "current"
        /\ ~Refused(want[w], row)
        /\ seen' = [seen EXCEPT ![w] = row]
        /\ Goto(w, FirstWrite(want[w]))
        /\ UNCHANGED <<storeVars, now, by, want, at, copy, todo, valid,
                       jobVars, crashes>>

DecisionFails(w) ==
    /\ pc[w] = "current"
    /\ Refused(want[w], cls[Head(todo[w])])
    /\ Respond(w)
    /\ UNCHANGED <<storeVars, now, jobVars, crashes>>

\* Mutant: an acceptance keeps the source of the row it accepts.
DecidedKeepingSource(d, row) ==
    IF d.kind = "accept" THEN row ELSE [group |-> d.to, source |-> "manual"]

\* The classification a decision leaves; accepting promotes its source.
Decided(d, row) ==
    [group |-> IF d.kind = "accept" THEN row.group ELSE d.to, source |-> "manual"]

ClassifyItem(w) ==
    /\ pc[w] = "classify"
    /\ cls' = [cls EXCEPT ![Head(todo[w])] = Decided(want[w], seen[w])]
    /\ Goto(w, "settle")
    /\ UNCHANGED <<items, now, by, want, at, copy, seen, todo, valid, jobVars,
                   crashes>>

\* The item a decision leaves: deleted, or deferred.
Settled(d) == IF d.kind = "defer" THEN MakeItem("deferred") ELSE NoItem

\* A bulk request goes on with the next product.
Settle(w) ==
    /\ pc[w] = "settle"
    /\ Upsert(Head(todo[w]), Settled(want[w]))
    /\ IF Len(todo[w]) = 1
       THEN Respond(w)
       ELSE /\ todo' = [todo EXCEPT ![w] = Tail(@)]
            /\ Goto(w, "current")
            /\ UNCHANGED <<by, want, at, copy, seen, valid>>
    /\ UNCHANGED <<cls, now, jobVars, crashes>>

-----------------------------------------------------------------------------
(* A batch of a default classification job: the products were listed as     *)
(* missing or unknown when the job was created, and are not looked at again *)
(* before their verdicts are written (Classify and Enqueue of               *)
(* ClassificationJob).                                                      *)

JobCreate(p) ==
    /\ job = NoJob
    /\ batches < MaxBatches
    /\ cls[p].group = Unknown
    /\ job' = [pc |-> "classify", product |-> p, item |-> NoItem]
    /\ batches' = batches + 1
    /\ UNCHANGED <<storeVars, now, requestVars, crashes>>

JobClassify ==
    /\ job.pc = "classify"
    /\ \E g \in Group \cup {Unknown}, item \in {NoItem, Queued} :
            /\ cls' = [cls EXCEPT ![job.product] = [group |-> g, source |-> "ai"]]
            /\ job' = [job EXCEPT !.pc = "enqueue", !.item = item]
    /\ UNCHANGED <<items, now, requestVars, batches, crashes>>

JobEnqueue ==
    /\ job.pc = "enqueue"
    /\ Upsert(job.product, job.item)
    /\ job' = NoJob
    /\ UNCHANGED <<cls, now, requestVars, batches, crashes>>

-----------------------------------------------------------------------------

Crash(w) ==
    /\ pc[w] # "idle"
    /\ crashes < MaxCrashes
    /\ crashes' = crashes + 1
    /\ Respond(w)
    /\ UNCHANGED <<storeVars, now, jobVars>>

Tick ==
    /\ now < MaxTime
    /\ now' = now + 1
    /\ UNCHANGED <<storeVars, requestVars, jobVars, crashes>>

Serve(w) ==
    \/ LockWrite(w)
    \/ Synthesise(w) \/ BulkCheck(w) \/ BulkReject(w)
    \/ ReadCurrent(w) \/ DecisionFails(w) \/ ClassifyItem(w) \/ Settle(w)

Receive(w, r) ==
    \/ \E p \in Product :
        \/ ClaimRead(w, r, p) \/ ReleaseRead(w, r, p)
        \/ RefreshRead(w, r, p) \/ AssignRead(w, r, p)
        \/ \E d \in Decision : DecideItem(w, r, p, d) \/ DecideUnqueued(w, r, p, d)
    \/ \E s \in Selections, d \in Decision : BulkStart(w, r, s, d)

Next ==
    \/ \E w \in Worker : Serve(w) \/ Crash(w) \/ \E r \in Reviewer : Receive(w, r)
    \/ \E p \in Product : JobCreate(p)
    \/ JobClassify \/ JobEnqueue
    \/ Tick

Spec == Init /\ [][Next]_vars

-----------------------------------------------------------------------------
(* Properties *)

\* Type correctness of the tables and of every request in flight.
TypeOK ==
    /\ items \in [Product -> Item]
    /\ cls \in [Product -> Cls]
    /\ now \in Nat
    /\ pc \in [Worker -> Pc]
    /\ by \in [Worker -> Reviewer \cup {None}]
    /\ want \in [Worker -> Decision]
    /\ at \in [Worker -> Nat]
    /\ copy \in [Worker -> Item]
    /\ seen \in [Worker -> Cls]
    /\ todo \in [Worker -> Seq(Product)]
    /\ valid \in [Worker -> Seq(Product)]
    /\ job \in [pc : {"idle", "classify", "enqueue"},
               product : Product \cup {None}, item : Item]
    /\ batches \in Nat /\ crashes \in Nat

\* Nobody locks an item for longer than the lock time from now, though stale
\* copies of locks are written back: a reviewer who has gone away, or a request
\* that died, never keeps the others out for good.
LockIsBounded == \A p \in Product : items[p].expires <= now + LockTime

\* An item leaves the queue only when its product has been decided: whatever
\* overlaps or dies, no request deletes an item before a manual classification
\* is stored, so nothing drops out of the queue unseen.  A batch can undo a
\* decision before its item is deleted, so this is about queues without one.
RemovedIsDecided ==
    [][\A p \in Product :
        batches = 0 /\ items[p].status # "absent" /\ items'[p].status = "absent"
            => cls[p].source = "manual"]_vars

HumanDecided(row) == row.source = "manual" /\ row.group # Unknown

\* "Any decision made in manual review is the final word": a product that a
\* reviewer has put in a category keeps a manual classification.
FinalWord ==
    [][\A p \in Product :
        HumanDecided(cls[p]) => cls'[p].source = "manual"]_vars

\* What is left of it: only a batch that listed the product before the decision
\* was made overwrites it; requests with stale copies never do.
FinalWordUnlessListed ==
    [][\A p \in Product :
        HumanDecided(cls[p]) /\ job.product # p => cls'[p].source = "manual"]_vars


-----------------------------------------------------------------------------
(* For TLC: products, reviewers, categories and workers are interchangeable. *)

Symmetry ==
    Permutations(Product) \cup Permutations(Reviewer)
    \cup Permutations(Group) \cup Permutations(Worker)
=============================================================================

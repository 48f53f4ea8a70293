--------------------------- MODULE UploadRecords ---------------------------
(***************************************************************************)
(* The upload records and the ways a file becomes products: a CSV that is  *)
(* posted (upload_csv), a file that was put into the bucket and is         *)
(* ingested by a request or by a pipeline job (prepare_upload_route,       *)
(* ingest_from_storage_route, _handle_ingest_upload), and a chunked job    *)
(* (create_ingestion_job_route; IngestionJob has its chunks one by one).   *)
(* Each is a sequence of store calls on one record, and a client that got  *)
(* no answer may send the same upload again.                               *)
(***************************************************************************)
EXTENDS Naturals

CONSTANTS
    Upload,         \* upload ids
    File,           \* contents: [rows |-> rows that parse, errors |-> others do not]
    Worker,         \* requests served at the same time
    Store,          \* "memory" or "postgres"
    MaxRequests,    \* bound: requests ever sent
    MaxDeaths       \* bound: requests that die

\* What the constants are: the module that gives them values assumes it.
ConstantsAssumption ==
    /\ Store \in {"memory", "postgres"}
    /\ \A f \in File : f.rows \subseteq Nat \ {0} /\ f.errors \in BOOLEAN
    /\ MaxRequests \in Nat /\ MaxDeaths \in Nat

VARIABLES
    uploads,    \* the uploads table
    products,   \* the products table
    jobs,       \* chunked jobs that have rows left
    bucket,     \* the file stored for an upload
    pc, req,    \* what the request of a worker does next, and its locals
    sent,       \* requests so far; the number of a request stands for its time
    deleted,    \* history: uploads that were ever deleted
    chunked,    \* history: uploads a chunked job was ever posted for
    deaths

history == <<deleted, chunked>>
vars == <<uploads, products, jobs, bucket, pc, req, sent, history, deaths>>

None == "none"
NoFile == [rows |-> {0}, errors |-> TRUE]     \* rows are numbered from 1
Status == {"absent", "url_created", "validation_failed", "ready_for_classification"}

Absent ==
    [status |-> "absent", file |-> NoFile, listed |-> {}, reported |-> FALSE,
     report |-> {}, duplicate |-> None, created |-> 0, stored |-> FALSE]
Idle == [route |-> None, upload |-> None, file |-> NoFile, duplicate |-> None,
         time |-> 0, exists |-> FALSE]

Exists(u) == uploads[u].status # "absent"

\* A parse gives every row a new id.
Parsed(r) == {[id |-> <<r.time, n>>, upload |-> r.upload, row |-> n] : n \in r.file.rows}
Ids(ps) == {p.id : p \in ps}
StatusAfter(f) == IF f.errors THEN "validation_failed" ELSE "ready_for_classification"

Init ==
    /\ uploads = [u \in Upload |-> Absent]
    /\ products = {} /\ jobs = {}
    /\ bucket = [u \in Upload |-> NoFile]
    /\ pc = [w \in Worker |-> "idle"]
    /\ req = [w \in Worker |-> Idle]
    /\ sent = 0 /\ deleted = {} /\ chunked = {} /\ deaths = 0

Goto(w, label) == pc' = [pc EXCEPT ![w] = label]
Respond(w) == Goto(w, "idle") /\ req' = [req EXCEPT ![w] = Idle]
Put(u, record) == uploads' = [uploads EXCEPT ![u] = record]

-----------------------------------------------------------------------------
(* Requests *)

\* find_upload_by_checksum: the latest upload with this content.
SameContent(f) == {u \in Upload : uploads[u].file = f}
FindByChecksum(f) ==
    CHOOSE u \in SameContent(f) :
        \A v \in SameContent(f) : uploads[v].created <= uploads[u].created
\* The latest one is a duplicate unless it is this upload itself.
DuplicateOf(u, f) ==
    IF SameContent(f) \subseteq {u} \/ FindByChecksum(f) = u THEN None
    ELSE FindByChecksum(f)

Begin(w, route, u, f) ==
    /\ pc[w] = "idle" /\ sent < MaxRequests
    /\ sent' = sent + 1
    /\ req' = [req EXCEPT ![w] =
            [route |-> route, upload |-> u, file |-> f, exists |-> FALSE,
             duplicate |-> DuplicateOf(u, f), time |-> sent + 1]]
    /\ Goto(w, "look")

Fresh(u) ==
    /\ ~Exists(u) /\ u \notin deleted
    /\ \A w \in Worker : req[w].upload # u

\* POST .../uploads: the server makes the id.
UploadCsv(w) ==
    /\ \E u \in Upload, f \in File : Fresh(u) /\ Begin(w, "csv", u, f)
    /\ UNCHANGED <<uploads, products, jobs, bucket, history, deaths>>

\* POST .../ingestion-jobs: the browser makes the id, and what it posts again
\* has the id it had.
CreateIngestionJob(w) ==
    /\ \E u \in Upload, f \in File :
        /\ Begin(w, "job", u, f)
        /\ chunked' = chunked \cup {u}
    /\ UNCHANGED <<uploads, products, jobs, bucket, deleted, deaths>>

\* POST .../uploads/prepare: a stub, and a signed URL for the file.
Prepare(w) ==
    /\ pc[w] = "idle" /\ sent < MaxRequests
    /\ sent' = sent + 1
    /\ \E u \in Upload :
        /\ Fresh(u)
        /\ Put(u, [Absent EXCEPT !.status = "url_created", !.stored = TRUE,
                                 !.created = sent + 1])
    /\ UNCHANGED <<products, jobs, bucket, pc, req, history, deaths>>

\* The browser puts the file into the bucket.
PutFile(u) ==
    /\ uploads[u].status = "url_created" /\ bucket[u] = NoFile
    /\ \E f \in File : bucket' = [bucket EXCEPT ![u] = f]
    /\ UNCHANGED <<uploads, products, jobs, pc, req, sent, history, deaths>>

\* POST .../ingest names the path of the file; the record is not asked for.
IngestFromStorage(w) ==
    /\ \E u \in Upload : bucket[u] # NoFile /\ Begin(w, "stored", u, bucket[u])
    /\ UNCHANGED <<uploads, products, jobs, bucket, history, deaths>>

\* The pipeline job takes the file of the record from the bucket, and the bytes
\* of its payload when the record has none there.
ResolveFile(u, payload) ==
    IF Exists(u) /\ uploads[u].stored THEN bucket[u] ELSE payload
IngestUpload(w) ==
    /\ \E u \in Upload, payload \in File :
        LET f == ResolveFile(u, payload)
        IN  f # NoFile /\ Begin(w, IF f = bucket[u] THEN "stored" ELSE "csv", u, f)
    /\ UNCHANGED <<uploads, products, jobs, bucket, history, deaths>>

-----------------------------------------------------------------------------
(* ingest_upload and _create_upload_record_for_ingestion_job *)

Look(w) ==
    /\ pc[w] = "look"
    /\ req' = [req EXCEPT ![w].exists = Exists(req[w].upload)]
    /\ Goto(w, "record")
    /\ UNCHANGED <<uploads, products, jobs, bucket, sent, history, deaths>>

\* Mutant: the report is stored with the record.
DescribedReported(r, record) ==
    [record EXCEPT !.status = StatusAfter(r.file), !.file = r.file,
                   !.listed = Ids(Parsed(r)), !.created = r.time,
                   !.stored = r.route = "stored", !.reported = TRUE,
                   !.report = r.file.rows]
Described(r, record) ==
    [record EXCEPT !.status = StatusAfter(r.file), !.file = r.file,
                   !.listed = Ids(Parsed(r)), !.created = r.time,
                   !.stored = r.route = "stored"]

\* What follows the record: products and then the report, or the report and then
\* the job.
AfterRecord(r) == IF r.route = "job" THEN "report" ELSE "insert"

\* update_upload when the record was there: what the report said stays.  In
\* memory it makes a record that is gone meanwhile, on Postgres it changes none.
Update(w) ==
    LET r == req[w] IN
    /\ pc[w] = "record" /\ r.exists
    /\ IF Store = "memory" \/ Exists(r.upload)
       THEN Put(r.upload, Described(r, uploads[r.upload])) ELSE UNCHANGED uploads
    /\ Goto(w, AfterRecord(r))
    /\ UNCHANGED <<products, jobs, bucket, req, sent, history, deaths>>

\* add_upload when it was not: in memory it replaces one that came meanwhile, on
\* Postgres the primary key refuses it.
Add(w) ==
    LET r == req[w] IN
    /\ pc[w] = "record" /\ ~r.exists
    /\ IF Store = "postgres" /\ Exists(r.upload)
       THEN Respond(w) /\ UNCHANGED uploads
       ELSE Put(r.upload, Described(r, Absent)) /\ Goto(w, AfterRecord(r)) /\ UNCHANGED req
    /\ UNCHANGED <<products, jobs, bucket, sent, history, deaths>>

\* Postgres has a unique row number per upload and a foreign key to the upload.
Refused(ps) ==
    /\ Store = "postgres"
    /\ \E p \in ps : \/ ~Exists(p.upload)
                     \/ \E q \in products : q.upload = p.upload /\ q.row = p.row

\* add_products_bulk; a refused insert ends the request.
Insert(w) ==
    /\ pc[w] = "insert"
    /\ IF Refused(Parsed(req[w]))
       THEN Respond(w) /\ UNCHANGED products
       ELSE /\ products' = products \cup Parsed(req[w])
            /\ Goto(w, "report") /\ UNCHANGED req
    /\ UNCHANGED <<uploads, jobs, bucket, sent, history, deaths>>

\* set_upload_validation_report; a duplicate that is known is not forgotten.
Report(w) ==
    LET r == req[w]
        old == uploads[r.upload]
    IN
    /\ pc[w] = "report"
    /\ IF Exists(r.upload)
       THEN Put(r.upload, [old EXCEPT !.reported = TRUE, !.report = r.file.rows,
                !.duplicate = IF r.duplicate = None THEN @ ELSE r.duplicate])
       ELSE UNCHANGED uploads
    /\ IF r.route = "job" THEN Goto(w, "job") /\ UNCHANGED req ELSE Respond(w)
    /\ UNCHANGED <<products, jobs, bucket, sent, history, deaths>>

\* create_ingestion_job keeps the parsed rows on a job row.
AddJob(w) ==
    /\ pc[w] = "job"
    /\ jobs' = IF Store = "postgres" /\ ~Exists(req[w].upload) THEN jobs
               ELSE jobs \cup {[upload |-> req[w].upload, rows |-> Parsed(req[w])]}
    /\ Respond(w)
    /\ UNCHANGED <<uploads, products, bucket, sent, history, deaths>>

\* The job inserts its rows, or counts them as errors.
RunJob(j) ==
    /\ jobs' = jobs \ {j}
    /\ products' = IF Refused(j.rows) THEN products ELSE products \cup j.rows
    /\ UNCHANGED <<uploads, bucket, pc, req, sent, history, deaths>>

-----------------------------------------------------------------------------
(* delete_upload *)

\* In memory the products the record lists go; on Postgres all that refer to it,
\* unless it is the original of a duplicate: that foreign key does not cascade.
Duplicated(u) == \E v \in Upload \ {u} : uploads[v].duplicate = u
OfUpload(u) ==
    IF Store = "memory" THEN {p \in products : p.id \in uploads[u].listed}
    ELSE {p \in products : p.upload = u}

Delete(u) ==
    /\ Exists(u)
    /\ Store = "postgres" => ~Duplicated(u)
    /\ Put(u, Absent)
    /\ products' = products \ OfUpload(u)
    /\ jobs' = IF Store = "memory" THEN jobs ELSE {j \in jobs : j.upload # u}
    /\ deleted' = deleted \cup {u}
    /\ UNCHANGED <<bucket, pc, req, sent, chunked, deaths>>

Die(w) ==
    /\ pc[w] # "idle" /\ deaths < MaxDeaths
    /\ deaths' = deaths + 1
    /\ Respond(w)
    /\ UNCHANGED <<uploads, products, jobs, bucket, sent, history>>

Next ==
    \/ \E w \in Worker :
        \/ UploadCsv(w) \/ CreateIngestionJob(w) \/ Prepare(w)
        \/ IngestFromStorage(w) \/ IngestUpload(w)
        \/ Look(w) \/ Update(w) \/ Add(w) \/ Insert(w) \/ Report(w) \/ AddJob(w)
        \/ Die(w)
    \/ \E j \in jobs : RunJob(j)
    \/ \E u \in Upload : PutFile(u) \/ Delete(u)

Spec == Init /\ [][Next]_vars

-----------------------------------------------------------------------------
(* Properties *)

\* A report is the last thing a request stores: when an upload shows one, the
\* rows it accepts are among the products, whichever requests died before or
\* sent the same upload again.  (A chunked job reports before it inserts, and a
\* deleted upload takes its products with it.)
ReportMeansStored ==
    \A u \in DOMAIN uploads \ (deleted \cup chunked) :
        uploads[u].reported =>
            uploads[u].report \subseteq {p.row : p \in {q \in products : q.upload = u}}
=============================================================================

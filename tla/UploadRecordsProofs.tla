------------------------ MODULE UploadRecordsProofs ------------------------
(***************************************************************************)
(* Proofs about UploadRecords (the instance Records), for any number of    *)
(* uploads, files, requests in flight and deaths, on either store: what a  *)
(* report accepts is stored.                                               *)
(*                                                                         *)
(* A report is written by the request that inserted its rows, so the rows  *)
(* are there at that moment; what has to be shown is that nobody takes     *)
(* them away.  In memory a delete takes the products whose ids the record  *)
(* lists, and the ids of a record are those of the request that wrote it   *)
(* last, which need not be the one that inserted.  So ids are followed     *)
(* wherever they are (Owners): the number of a request, which every id it  *)
(* makes starts with, belongs to one upload only.                          *)
(*                                                                         *)
(* The last section is about CsvFile and the imports of files.             *)
(***************************************************************************)
EXTENDS Ingestion, NaturalsInduction, WellFoundedInduction, TLAPS

Files == File \cup {Records!NoFile}
Id == Nat \X Nat
Product == [id : Id, upload : Upload, row : Nat]
Record ==
    [status : Records!Status, file : Files, listed : SUBSET Id, reported : BOOLEAN,
     report : SUBSET Nat, duplicate : Upload \cup {Records!None}, created : Nat,
     stored : BOOLEAN]
Request ==
    [route : {"csv", "stored", "job"}, upload : Upload, file : Files,
     duplicate : Upload \cup {Records!None}, time : Nat, exists : BOOLEAN]
JobRow == [upload : Upload, rows : SUBSET Product]
Label == {"idle", "look", "record", "insert", "report", "job"}

Types ==
    /\ uploads \in [Upload -> Record]
    /\ table \in SUBSET Product
    /\ chunks \in SUBSET JobRow
    /\ bucket \in [Upload -> Files]
    /\ step \in [Worker -> Label]
    /\ req \in [Worker -> Request \cup {Records!Idle}]
    /\ sent \in Nat /\ deaths \in Nat
    /\ deleted \in SUBSET Upload /\ chunked \in SUBSET Upload

\* Requests that are being served have locals; no record is younger than the
\* last request.
InOrder ==
    /\ \A w \in Worker : step[w] # "idle" => req[w] \in Request
    /\ \A u \in Upload : uploads[u].created <= sent
    /\ \A w \in Worker : step[w] # "idle" => req[w].time <= sent

\* Who has ids, or may still make some: pairs of a request's number and an upload.
Mark(p) == <<p.id[1], p.upload>>
OfProducts(ps) == {Mark(p) : p \in ps}
OfRecords(us) == UNION {{<<i[1], u>> : i \in us[u].listed} : u \in Upload}
OfRequests(at, rs) ==
    {<<rs[w].time, rs[w].upload>> : w \in {v \in Worker : at[v] # "idle"}}
Owners(ps, js, us, at, rs) ==
    OfProducts(ps) \cup OfProducts(UNION {j.rows : j \in js})
        \cup OfRecords(us) \cup OfRequests(at, rs)
OwnersNow == Owners(table, chunks, uploads, step, req)

OneEach(owners, n) ==
    /\ \A o \in owners : o[1] \in Nat /\ o[1] <= n
    /\ \A o, q \in owners : o[1] = q[1] => o[2] = q[2]
OneOwner == OneEach(OwnersNow, sent)

\* A request is about to report what it has inserted, unless its upload was
\* deleted meanwhile or has a chunked job.
RowsOf(ps, u) == {p.row : p \in {q \in ps : q.upload = u}}
Inserted ==
    \A w \in Worker :
        /\ step[w] # "idle" /\ req[w].route = "job" => req[w].upload \in chunked
        /\ step[w] = "report" /\ req[w].upload \notin deleted \cup chunked =>
               req[w].file.rows \subseteq RowsOf(table, req[w].upload)

IInv == Types /\ InOrder /\ OneOwner /\ Inserted /\ Records!ReportMeansStored

-----------------------------------------------------------------------------
(* What the operators return *)

LEMMA NoFileIsAFile ==
    /\ Records!NoFile \in Files
    /\ Records!NoFile.rows = {0} /\ Records!NoFile.errors = TRUE
BY DEF Files, Records!NoFile

\* Files have rows that are numbers.
LEMMA FilesHaveRows ==
    ASSUME Records!ConstantsAssumption, NEW f \in Files
    PROVE  f.rows \in SUBSET Nat
<1>1. CASE f = Records!NoFile
  BY <1>1, NoFileIsAFile
<1>2. CASE f \in File
  BY <1>2 DEF Records!ConstantsAssumption
<1> QED
  BY <1>1, <1>2 DEF Files

LEMMA AbsentIsARecord ==
    /\ Records!Absent \in Record /\ ~Records!Absent.reported /\ Records!Absent.created = 0
    /\ Records!Absent.listed = {}
BY NoFileIsAFile DEF Records!Absent, Record, Records!Status

\* A parse makes ids of its own time, for its upload, for the rows of its file.
LEMMA ParsedRows ==
    ASSUME Records!ConstantsAssumption, NEW r \in Request
    PROVE  /\ Records!Parsed(r) \in SUBSET Product
           /\ \A p \in Records!Parsed(r) : Mark(p) = <<r.time, r.upload>>
           /\ RowsOf(Records!Parsed(r), r.upload) = r.file.rows
           /\ Records!Ids(Records!Parsed(r)) \in SUBSET Id
           /\ \A i \in Records!Ids(Records!Parsed(r)) : i[1] = r.time
<1>1. r.file.rows \in SUBSET Nat /\ r.time \in Nat /\ r.upload \in Upload
  BY FilesHaveRows DEF Request
<1>2. Records!Parsed(r) \in SUBSET Product
  BY <1>1 DEF Records!Parsed, Product, Id
<1>3. \A p \in Records!Parsed(r) : Mark(p) = <<r.time, r.upload>>
  BY DEF Records!Parsed, Mark
<1>4. RowsOf(Records!Parsed(r), r.upload) = r.file.rows
  <2>1. {q \in Records!Parsed(r) : q.upload = r.upload} = Records!Parsed(r)
    BY DEF Records!Parsed
  <2>2. ASSUME NEW n \in r.file.rows PROVE \E p \in Records!Parsed(r) : p.row = n
    <3> DEFINE p == [id |-> <<r.time, n>>, upload |-> r.upload, row |-> n]
    <3>1. p \in Records!Parsed(r)
      BY DEF Records!Parsed
    <3> QED
      BY <3>1
  <2>3. \A p \in Records!Parsed(r) : p.row \in r.file.rows
    BY DEF Records!Parsed
  <2>4. {p.row : p \in Records!Parsed(r)} = r.file.rows
    BY <2>2, <2>3
  <2> QED
    BY <2>1, <2>4 DEF RowsOf
<1>5. /\ Records!Ids(Records!Parsed(r)) \in SUBSET Id
      /\ \A i \in Records!Ids(Records!Parsed(r)) : i[1] = r.time
  BY <1>1 DEF Records!Ids, Records!Parsed, Id
<1> QED
  BY <1>2, <1>3, <1>4, <1>5

LEMMA DescribedIsARecord ==
    ASSUME Records!ConstantsAssumption, NEW r \in Request, NEW record \in Record
    PROVE  LET d == Records!Described(r, record)
           IN  /\ d \in Record /\ d.created = r.time /\ d.listed = Records!Ids(Records!Parsed(r))
               /\ d.reported = record.reported /\ d.report = record.report
<1>1. /\ Records!Ids(Records!Parsed(r)) \in SUBSET Id
      /\ Records!StatusAfter(r.file) \in Records!Status
  BY ParsedRows DEF Records!StatusAfter, Records!Status
<1>2. r.file \in Files /\ r.time \in Nat /\ (r.route = "stored") \in BOOLEAN
  BY DEF Request
<1> QED
  BY <1>1, <1>2 DEF Records!Described, Record

\* The latest upload with a content exists: times are numbers up to the present.
LEMMA LatestExists ==
    ASSUME NEW S \in SUBSET Upload, S # {}, NEW n \in Nat,
           NEW created \in [Upload -> Nat], \A u \in S : created[u] <= n
    PROVE  \E u \in S : \A v \in S : created[v] <= created[u]
<1> DEFINE T == {n - created[u] : u \in S}
<1>1. T \subseteq Nat /\ T # {}
  OBVIOUS
<1> HIDE DEF T
<1>2. PICK x \in T : \A y \in T : <<y, x>> \notin OpToRel(<, Nat)
  BY <1>1, NatLessThanWellFounded, WFMin
<1>3. \A y \in T : ~(y < x)
  BY <1>1, <1>2 DEF OpToRel
<1> USE DEF T
<1>4. PICK u \in S : x = n - created[u]
  OBVIOUS
<1>5. ASSUME NEW v \in S PROVE created[v] <= created[u]
  <2>1. n - created[v] \in T
    OBVIOUS
  <2>2. ~(n - created[v] < n - created[u])
    BY <2>1, <1>3, <1>4
  <2> QED
    BY <2>2
<1> QED
  BY <1>5

\* An upload a new one is a duplicate of is one of the uploads.
LEMMA DuplicateIsAnUpload ==
    ASSUME IInv, NEW u \in Upload, NEW f \in Files
    PROVE  Records!DuplicateOf(u, f) \in Upload \cup {Records!None}
<1>1. CASE Records!SameContent(f) \subseteq {u}
  BY <1>1 DEF Records!DuplicateOf
<1>2. CASE ~(Records!SameContent(f) \subseteq {u})
  <2> DEFINE created == [v \in Upload |-> uploads[v].created]
  <2>1. created \in [Upload -> Nat] /\ \A v \in Upload : created[v] <= sent
    BY DEF IInv, Types, InOrder, Record
  <2>2. Records!SameContent(f) \in SUBSET Upload /\ Records!SameContent(f) # {} /\ sent \in Nat
    BY <1>2 DEF Records!SameContent, IInv, Types
  <2>3. \E x \in Records!SameContent(f) : \A v \in Records!SameContent(f) : created[v] <= created[x]
    <3> HIDE DEF created
    <3> QED BY <2>1, <2>2, LatestExists
  <2>4. \E x \in Records!SameContent(f) : \A v \in Records!SameContent(f) :
            uploads[v].created <= uploads[x].created
    BY <2>2, <2>3
  <2>5. Records!FindByChecksum(f) \in Records!SameContent(f)
    BY <2>4 DEF Records!FindByChecksum
  <2> QED
    BY <2>2, <2>5 DEF Records!DuplicateOf
<1> QED
  BY <1>1, <1>2

-----------------------------------------------------------------------------
(* Owners of ids *)

\* Owners grow with what they are read from.
LEMMA OwnersAre ==
    ASSUME NEW ps, NEW js, NEW us, NEW at, NEW rs, NEW o
    PROVE  o \in Owners(ps, js, us, at, rs) <=>
            \/ \E p \in ps : o = Mark(p)
            \/ \E j \in js : \E p \in j.rows : o = Mark(p)
            \/ \E u \in Upload : \E i \in us[u].listed : o = <<i[1], u>>
            \/ \E w \in Worker : at[w] # "idle" /\ o = <<rs[w].time, rs[w].upload>>
<1>1. o \in OfProducts(ps) <=> \E p \in ps : o = Mark(p)
  BY DEF OfProducts
<1>2. o \in OfProducts(UNION {j.rows : j \in js}) <=>
        \E j \in js : \E p \in j.rows : o = Mark(p)
  BY DEF OfProducts
<1>3. o \in OfRecords(us) <=> \E u \in Upload : \E i \in us[u].listed : o = <<i[1], u>>
  BY DEF OfRecords
<1>4. o \in OfRequests(at, rs) <=>
        \E w \in Worker : at[w] # "idle" /\ o = <<rs[w].time, rs[w].upload>>
  BY DEF OfRequests
<1> QED
  BY <1>1, <1>2, <1>3, <1>4 DEF Owners

LEMMA FewerOwners ==
    ASSUME OneOwner, NEW more, more \subseteq OwnersNow
    PROVE  OneEach(more, sent)
BY DEF OneOwner, OneEach

\* A new request may make ids of its own.
LEMMA OneMoreOwner ==
    ASSUME OneOwner, sent \in Nat, NEW u, NEW more,
           more \subseteq OwnersNow \cup {<<sent + 1, u>>}
    PROVE  OneEach(more, sent + 1)
<1>1. \A o \in OwnersNow : o[1] \in Nat /\ o[1] <= sent
  BY DEF OneOwner, OneEach
<1>2. \A o \in more : o[1] \in Nat /\ o[1] <= sent + 1
  BY <1>1
<1>3. \A o, q \in more : o[1] = q[1] => o[2] = q[2]
  <2> SUFFICES ASSUME NEW o \in more, NEW q \in more, o[1] = q[1]
               PROVE  o[2] = q[2]
    OBVIOUS
  <2>1. CASE o \in OwnersNow /\ q \in OwnersNow
    BY <2>1 DEF OneOwner, OneEach
  <2>2. CASE o \notin OwnersNow /\ q \notin OwnersNow
    BY <2>2
  <2>3. CASE o \in OwnersNow /\ q \notin OwnersNow
    BY <2>3, <1>1
  <2>4. CASE o \notin OwnersNow /\ q \in OwnersNow
    BY <2>4, <1>1
  <2> QED
    BY <2>1, <2>2, <2>3, <2>4
<1> QED
  BY <1>2, <1>3 DEF OneEach

\* What is owned in a state, part by part.
Owned(O, ps, js, us, at, rs) ==
    /\ \A p \in ps : Mark(p) \in O
    /\ \A j \in js : \A p \in j.rows : Mark(p) \in O
    /\ \A u \in Upload : \A i \in us[u].listed : <<i[1], u>> \in O
    /\ \A w \in Worker : at[w] # "idle" => <<rs[w].time, rs[w].upload>> \in O

LEMMA OwnersWithin ==
    ASSUME NEW O, NEW ps, NEW js, NEW us, NEW at, NEW rs, Owned(O, ps, js, us, at, rs)
    PROVE  Owners(ps, js, us, at, rs) \subseteq O
<1> SUFFICES ASSUME NEW o \in Owners(ps, js, us, at, rs) PROVE o \in O
  OBVIOUS
<1> QED
  BY OwnersAre DEF Owned

LEMMA OwnedNow == Owned(OwnersNow, table, chunks, uploads, step, req)
<1> DEFINE In(o) == o \in Owners(table, chunks, uploads, step, req)
<1>1. ASSUME NEW p \in table PROVE In(Mark(p))
  BY OwnersAre
<1>2. ASSUME NEW j \in chunks, NEW p \in j.rows PROVE In(Mark(p))
  BY OwnersAre
<1>3. ASSUME NEW u \in Upload, NEW i \in uploads[u].listed PROVE In(<<i[1], u>>)
  BY OwnersAre
<1>4. ASSUME NEW w \in Worker, step[w] # "idle" PROVE In(<<req[w].time, req[w].upload>>)
  BY <1>4, OwnersAre
<1> QED
  BY <1>1, <1>2, <1>3, <1>4 DEF Owned, OwnersNow

-----------------------------------------------------------------------------
(* What every step of the steps below shows *)

LEMMA MoreRows ==
    ASSUME NEW ps, NEW more, ps \subseteq more, NEW u
    PROVE  RowsOf(ps, u) \subseteq RowsOf(more, u)
BY DEF RowsOf

\* Reports and requests about to report, when a step takes no rows away from
\* uploads that are neither deleted nor chunked.
LEMMA StoredStays ==
    ASSUME IInv,
           deleted \subseteq deleted', chunked \subseteq chunked',
           req' \in [Worker -> Request \cup {Records!Idle}], DOMAIN uploads' = Upload,
           \A w \in Worker : step'[w] # "idle" => req'[w] \in Request,
           \A u \in Upload \ (deleted' \cup chunked') :
                /\ RowsOf(table, u) \subseteq RowsOf(table', u)
                /\ uploads'[u].reported =>
                        \/ uploads[u].reported /\ uploads'[u].report = uploads[u].report
                        \/ uploads'[u].report \subseteq RowsOf(table', u),
           \A w \in Worker : step'[w] # "idle" =>
                /\ req'[w].route = "job" => req'[w].upload \in chunked'
                /\ step'[w] = "report" =>
                        \/ step[w] = "report" /\ req'[w].upload = req[w].upload
                            /\ req'[w].file = req[w].file
                        \/ req'[w].upload \in chunked'
                        \/ req'[w].file.rows \subseteq RowsOf(table', req'[w].upload)
    PROVE  Inserted' /\ Records!ReportMeansStored'
<1>1. Inserted'
  <2> SUFFICES ASSUME NEW w \in Worker
               PROVE  /\ step'[w] # "idle" /\ req'[w].route = "job" =>
                            req'[w].upload \in chunked'
                      /\ step'[w] = "report" /\ req'[w].upload \notin deleted' \cup chunked' =>
                            req'[w].file.rows \subseteq RowsOf(table', req'[w].upload)
    BY DEF Inserted
  <2>1. step'[w] # "idle" => req'[w].upload \in Upload
    BY DEF Request
  <2> QED
    BY <2>1 DEF IInv, Inserted
<1>2. Records!ReportMeansStored'
  <2> SUFFICES ASSUME NEW u \in Upload \ (deleted' \cup chunked'), uploads'[u].reported
               PROVE  uploads'[u].report \subseteq RowsOf(table', u)
    BY DEF Records!ReportMeansStored, RowsOf
  <2>1. uploads[u].reported => uploads[u].report \subseteq RowsOf(table, u)
    <3>1. DOMAIN uploads = Upload
      BY DEF IInv, Types
    <3> QED
      BY <3>1 DEF IInv, Records!ReportMeansStored, RowsOf
  <2> QED
    BY <2>1
<1> QED
  BY <1>1, <1>2

-----------------------------------------------------------------------------
(* Requests that begin *)

LEMMA FreshRequest ==
    ASSUME Records!ConstantsAssumption, IInv, NEW w \in Worker,
           NEW route \in {"csv", "stored", "job"}, NEW u \in Upload, NEW f \in Files,
           Records!Begin(w, route, u, f), route = "job" => u \in chunked',
           chunked \subseteq chunked', chunked' \in SUBSET Upload,
           UNCHANGED <<uploads, table, chunks, bucket, deleted, deaths>>
    PROVE  IInv'
<1> DEFINE r == [route |-> route, upload |-> u, file |-> f, exists |-> FALSE,
                 duplicate |-> Records!DuplicateOf(u, f), time |-> sent + 1]
<1>1. sent \in Nat /\ sent' = sent + 1
  BY DEF IInv, Types, Records!Begin
<1>2. Records!DuplicateOf(u, f) \in Upload \cup {Records!None}
  BY DuplicateIsAnUpload
<1>3. /\ r \in Request /\ r.upload = u /\ r.route = route /\ r.time = sent + 1
  BY <1>1, <1>2 DEF Request
<1>4. /\ step' = [step EXCEPT ![w] = "look"]
      /\ req' = [req EXCEPT ![w] = r]
  BY DEF Records!Begin, Records!Goto
<1> HIDE DEF r
<1>5. /\ step \in [Worker -> Label] /\ req \in [Worker -> Request \cup {Records!Idle}]
      /\ step' \in [Worker -> Label] /\ req' \in [Worker -> Request \cup {Records!Idle}]
  BY <1>3, <1>4 DEF IInv, Types, Label
<1>6. Types'
  BY <1>1, <1>5 DEF IInv, Types
<1>7. \A v \in Worker :
        /\ v # w => step'[v] = step[v] /\ req'[v] = req[v]
        /\ v = w => step'[v] = "look" /\ req'[v] = r
  BY <1>4, <1>5
<1>8. InOrder'
  <2>1. \A v \in Upload : uploads'[v].created \in Nat /\ uploads'[v].created <= sent
    BY DEF IInv, Types, InOrder, Record
  <2>2. \A v \in Worker : v # w /\ step'[v] # "idle" =>
            req'[v] \in Request /\ req'[v].time \in Nat /\ req'[v].time <= sent
    BY <1>7 DEF IInv, InOrder, Request
  <2> QED
    BY <1>1, <1>3, <1>7, <2>1, <2>2 DEF InOrder
<1>9. OneOwner'
  <2> DEFINE O == OwnersNow \cup {<<sent + 1, u>>}
  <2>1. \A v \in Worker : step'[v] # "idle" => <<req'[v].time, req'[v].upload>> \in O
    BY <1>3, <1>7, OwnedNow DEF Owned
  <2>2. Owned(O, table', chunks', uploads', step', req')
    BY <2>1, OwnedNow DEF Owned
  <2>3. OwnersNow' \subseteq O
    BY <2>2, OwnersWithin DEF OwnersNow
  <2>4. OneEach(OwnersNow', sent + 1)
    BY <1>1, <2>3, OneMoreOwner DEF IInv
  <2> QED
    BY <1>1, <2>4 DEF OneOwner
<1>10. Inserted' /\ Records!ReportMeansStored'
  <2>1. \A v \in Worker : step'[v] # "idle" => req'[v] \in Request
    BY <1>8 DEF InOrder
  <2>2. \A v \in Worker : step'[v] # "idle" =>
            /\ req'[v].route = "job" => req'[v].upload \in chunked'
            /\ step'[v] = "report" => step[v] = "report" /\ req'[v] = req[v]
    BY <1>3, <1>7 DEF IInv, Inserted
  <2> QED
    BY <1>5, <1>6, <2>1, <2>2, StoredStays DEF Types
<1> QED
  BY <1>6, <1>8, <1>9, <1>10 DEF IInv

LEMMA PrepareStep ==
    ASSUME Records!ConstantsAssumption, IInv, NEW w \in Worker, Records!Prepare(w)
    PROVE  IInv'
<1>1. PICK u \in Upload :
        /\ ~Records!Exists(u)
        /\ uploads' = [uploads EXCEPT ![u] =
                [Records!Absent EXCEPT !.status = "url_created", !.stored = TRUE,
                               !.created = sent + 1]]
  BY DEF Records!Prepare, Records!Fresh, Records!Put
<1> DEFINE stub == [Records!Absent EXCEPT !.status = "url_created", !.stored = TRUE,
                                  !.created = sent + 1]
<1>2. /\ sent \in Nat /\ sent' = sent + 1
      /\ UNCHANGED <<table, chunks, bucket, step, req, deleted, chunked, deaths>>
  BY DEF IInv, Types, Records!Prepare, Records!history
<1>3. /\ stub \in Record /\ stub.listed = {} /\ ~stub.reported
      /\ stub.created = sent + 1
  <2>2. sent + 1 \in Nat
    BY <1>2
  <2> QED
    BY <2>2, AbsentIsARecord DEF Record, Records!Status
<1>4. uploads' = [uploads EXCEPT ![u] = stub]
  BY <1>1
<1> HIDE DEF stub
<1>5. uploads \in [Upload -> Record] /\ uploads' \in [Upload -> Record]
  BY <1>3, <1>4 DEF IInv, Types
<1>6. \A v \in Upload : IF v = u THEN uploads'[v] = stub ELSE uploads'[v] = uploads[v]
  BY <1>4, <1>5
<1>7. Types'
  BY <1>2, <1>5 DEF IInv, Types
<1>8. InOrder'
  <2>1. \A v \in Upload : uploads[v].created \in Nat /\ uploads[v].created <= sent
    BY DEF IInv, Types, InOrder, Record
  <2>2. \A v \in Worker : step[v] # "idle" =>
            req[v] \in Request /\ req[v].time \in Nat /\ req[v].time <= sent
    BY DEF IInv, InOrder, Request
  <2> QED
    BY <1>2, <1>3, <1>6, <2>1, <2>2 DEF InOrder
<1>9. OneOwner'
  <2>1. \A v \in Upload : \A i \in uploads'[v].listed : <<i[1], v>> \in OwnersNow
    BY <1>3, <1>6, OwnedNow DEF Owned
  <2>2. Owned(OwnersNow, table', chunks', uploads', step', req')
    BY <1>2, <2>1, OwnedNow DEF Owned
  <2>3. OwnersNow' \subseteq OwnersNow
    BY <2>2, OwnersWithin DEF OwnersNow
  <2>4. OneEach(OwnersNow', sent + 1)
    BY <1>2, <2>3, OneMoreOwner DEF IInv
  <2> QED
    BY <1>2, <2>4 DEF OneOwner
<1>10. Inserted' /\ Records!ReportMeansStored'
  <2>1. req' \in [Worker -> Request \cup {Records!Idle}]
    BY <1>7 DEF Types
  <2>2. \A v \in Worker : step'[v] # "idle" =>
            /\ req'[v] \in Request
            /\ req'[v].route = "job" => req'[v].upload \in chunked'
    BY <1>2 DEF IInv, InOrder, Inserted
  <2>3. \A v \in Upload : uploads'[v].reported =>
            uploads[v].reported /\ uploads'[v].report = uploads[v].report
    BY <1>3, <1>6
  <2> QED
    BY <1>2, <1>5, <2>1, <2>2, <2>3, StoredStays
<1> QED
  BY <1>7, <1>8, <1>9, <1>10 DEF IInv

\* The server makes the id of a posted file, the browser that of a chunked job, and
\* the other two are about a file that is in the bucket or in the payload.
LEMMA BeginStep ==
    ASSUME Records!ConstantsAssumption, IInv, NEW w \in Worker,
           \/ Records!UploadCsv(w) \/ Records!CreateIngestionJob(w)
           \/ Records!IngestFromStorage(w) \/ Records!IngestUpload(w)
    PROVE  IInv'
<1>1. chunked \in SUBSET Upload /\ bucket \in [Upload -> Files]
  BY DEF IInv, Types
<1>2. CASE Records!UploadCsv(w)
  <2>1. PICK u \in Upload, f \in File : Records!Begin(w, "csv", u, f)
    BY <1>2 DEF Records!UploadCsv
  <2> QED
    BY <1>1, <1>2, <2>1, FreshRequest DEF Records!UploadCsv, Records!history, Files
<1>3. CASE Records!CreateIngestionJob(w)
  <2>1. PICK u \in Upload, f \in File : Records!Begin(w, "job", u, f) /\ chunked' = chunked \cup {u}
    BY <1>3 DEF Records!CreateIngestionJob
  <2> QED
    BY <1>1, <1>3, <2>1, FreshRequest DEF Records!CreateIngestionJob, Files
<1>4. CASE Records!IngestFromStorage(w)
  <2>1. PICK u \in Upload : Records!Begin(w, "stored", u, bucket[u])
    BY <1>4 DEF Records!IngestFromStorage
  <2> QED
    BY <1>1, <1>4, <2>1, FreshRequest DEF Records!IngestFromStorage, Records!history
<1>5. CASE Records!IngestUpload(w)
  <2>1. PICK u \in Upload, payload \in File :
            LET f == Records!ResolveFile(u, payload)
            IN  Records!Begin(w, IF f = bucket[u] THEN "stored" ELSE "csv", u, f)
    BY <1>5 DEF Records!IngestUpload
  <2> DEFINE f == Records!ResolveFile(u, payload)
             route == IF f = bucket[u] THEN "stored" ELSE "csv"
  <2>2. f \in Files /\ route \in {"csv", "stored", "job"} /\ route # "job"
    BY <1>1 DEF Records!ResolveFile, Files
  <2>3. Records!Begin(w, route, u, f)
    BY <2>1
  <2> HIDE DEF f, route
  <2> QED
    BY <1>1, <1>5, <2>2, <2>3, FreshRequest DEF Records!IngestUpload, Records!history
<1> QED
  BY <1>2, <1>3, <1>4, <1>5

-----------------------------------------------------------------------------
(* Requests that go on *)

\* A step of a request to a label: it keeps what it is about until it ends, and
\* takes nothing away.
LEMMA RequestStep ==
    ASSUME IInv, NEW w \in Worker, NEW l \in Label, NEW r \in Request \cup {Records!Idle},
           step[w] # "idle",
           l # "idle" =>
                /\ r \in Request /\ r.route = req[w].route /\ r.upload = req[w].upload
                /\ r.file = req[w].file /\ r.time = req[w].time,
           step' = [step EXCEPT ![w] = l], req' = [req EXCEPT ![w] = r],
           UNCHANGED <<bucket, sent, deleted, chunked>>, deaths' \in Nat,
           uploads' \in [Upload -> Record],
           table' \in SUBSET Product, table \subseteq table',
           chunks' \in SUBSET JobRow,
           \A u \in Upload : uploads'[u].created <= sent,
           \A p \in table' : Mark(p) \in OwnersNow,
           \A j \in chunks' : \A p \in j.rows : Mark(p) \in OwnersNow,
           \A u \in Upload : \A i \in uploads'[u].listed : <<i[1], u>> \in OwnersNow,
           l = "report" =>
                \/ step[w] = "report" \/ r.route = "job"
                \/ r.file.rows \subseteq RowsOf(table', r.upload),
           \A u \in Upload \ (deleted \cup chunked) : uploads'[u].reported =>
                \/ uploads[u].reported /\ uploads'[u].report = uploads[u].report
                \/ uploads'[u].report \subseteq RowsOf(table', u)
    PROVE  IInv'
<1>1. /\ step \in [Worker -> Label] /\ req \in [Worker -> Request \cup {Records!Idle}]
      /\ step' \in [Worker -> Label] /\ req' \in [Worker -> Request \cup {Records!Idle}]
  BY DEF IInv, Types
<1>2. \A v \in Worker :
        /\ v # w => step'[v] = step[v] /\ req'[v] = req[v]
        /\ v = w => step'[v] = l /\ req'[v] = r
  BY <1>1
<1>3. Types'
  BY <1>1 DEF IInv, Types
<1>4. InOrder'
  BY <1>2 DEF IInv, InOrder
<1>5. OneOwner'
  <2>1. \A v \in Worker : step'[v] # "idle" =>
            <<req'[v].time, req'[v].upload>> \in OwnersNow
    BY <1>2, OwnedNow DEF Owned
  <2>2. Owned(OwnersNow, table', chunks', uploads', step', req')
    BY <2>1 DEF Owned
  <2>3. OwnersNow' \subseteq OwnersNow
    BY <2>2, OwnersWithin DEF OwnersNow
  <2>4. OneEach(OwnersNow', sent)
    BY <2>3, FewerOwners DEF IInv
  <2> QED
    BY <2>4 DEF OneOwner
<1>6. Inserted' /\ Records!ReportMeansStored'
  <2>1. \A v \in Worker : step'[v] # "idle" => req'[v] \in Request
    BY <1>4 DEF InOrder
  <2>2. \A v \in Worker : step'[v] # "idle" =>
            /\ req'[v].route = "job" => req'[v].upload \in chunked
    BY <1>2 DEF IInv, Inserted
  <2>3. \A v \in Worker : step'[v] = "report" =>
            \/ step[v] = "report" /\ req'[v].upload = req[v].upload
                /\ req'[v].file = req[v].file
            \/ req'[v].upload \in chunked'
            \/ req'[v].file.rows \subseteq RowsOf(table', req'[v].upload)
    BY <1>2, <2>2
  <2>4. \A u \in Upload : RowsOf(table, u) \subseteq RowsOf(table', u)
    BY MoreRows
  <2> QED
    BY <1>1, <2>1, <2>2, <2>3, <2>4, StoredStays
<1> QED
  BY <1>3, <1>4, <1>5, <1>6 DEF IInv

\* The facts of the invariant a step of one request starts from.
LEMMA Served ==
    ASSUME IInv, NEW w \in Worker, step[w] # "idle"
    PROVE  /\ req[w] \in Request /\ req[w].upload \in Upload /\ req[w].time <= sent
           /\ req[w].time \in Nat /\ sent \in Nat /\ deaths \in Nat
           /\ req \in [Worker -> Request \cup {Records!Idle}]
           /\ uploads \in [Upload -> Record] /\ table \in SUBSET Product
           /\ chunks \in SUBSET JobRow
           /\ \A u \in Upload : uploads[u].created <= sent
           /\ \A p \in table : Mark(p) \in OwnersNow
           /\ \A j \in chunks : \A p \in j.rows : Mark(p) \in OwnersNow
           /\ \A u \in Upload : \A i \in uploads[u].listed : <<i[1], u>> \in OwnersNow
           /\ <<req[w].time, req[w].upload>> \in OwnersNow
<1>1. req[w] \in Request
  BY DEF IInv, InOrder
<1> QED
  BY <1>1, OwnedNow DEF IInv, Types, InOrder, Owned, Request

\* A request that ends takes its locals with it.
LEMMA Responds ==
    ASSUME IInv, NEW w \in Worker, step[w] # "idle", Records!Respond(w),
           UNCHANGED <<uploads, table, bucket, sent, deleted, chunked>>,
           deaths' \in Nat, chunks' \in SUBSET JobRow,
           \A j \in chunks' : \A p \in j.rows : Mark(p) \in OwnersNow
    PROVE  IInv'
<1>1. /\ step' = [step EXCEPT ![w] = "idle"] /\ req' = [req EXCEPT ![w] = Records!Idle]
  BY DEF Records!Respond, Records!Goto
<1>2. "idle" \in Label /\ Records!Idle \in Request \cup {Records!Idle}
  BY DEF Label
<1>3. /\ uploads' = uploads /\ table' = table
  OBVIOUS
<1> QED
  BY <1>1, <1>2, <1>3, Served, RequestStep

LEMMA LookStep ==
    ASSUME Records!ConstantsAssumption, IInv, NEW w \in Worker, Records!Look(w)
    PROVE  IInv'
<1> DEFINE r == [req[w] EXCEPT !.exists = Records!Exists(req[w].upload)]
<1>1. step[w] # "idle" /\ "record" \in Label
  BY DEF Records!Look, Label
<1>2. /\ r \in Request /\ r.route = req[w].route /\ r.upload = req[w].upload
      /\ r.file = req[w].file /\ r.time = req[w].time
  <2>1. Records!Exists(req[w].upload) \in BOOLEAN /\ req[w] \in Request
    BY <1>1, Served DEF Records!Exists
  <2> QED
    BY <2>1 DEF Request
<1>3. /\ step' = [step EXCEPT ![w] = "record"] /\ req' = [req EXCEPT ![w] = r]
      /\ UNCHANGED <<uploads, table, chunks, bucket, sent, deleted, chunked, deaths>>
  <2>1. req' = [req EXCEPT ![w].exists = Records!Exists(req[w].upload)]
    BY DEF Records!Look
  <2>2. req' = [req EXCEPT ![w] = r]
    BY <2>1
  <2> QED
    BY <2>2 DEF Records!Look, Records!Goto, Records!history
<1> HIDE DEF r
<1> QED
  BY <1>1, <1>2, <1>3, Served, RequestStep

\* The record a request writes: the old one, described anew, or a new one.
LEMMA RecordWrite ==
    ASSUME Records!ConstantsAssumption, IInv, NEW w \in Worker, step[w] # "idle",
           NEW old \in Record,
           old.reported =>
                /\ uploads[req[w].upload].reported
                /\ old.report = uploads[req[w].upload].report,
           Records!Put(req[w].upload, Records!Described(req[w], old)),
           Records!Goto(w, Records!AfterRecord(req[w])),
           UNCHANGED <<table, chunks, bucket, req, sent, Records!history, deaths>>
    PROVE  IInv'
<1> DEFINE r == req[w]
           d == Records!Described(r, old)
<1>1. /\ d \in Record /\ d.created = r.time /\ d.listed = Records!Ids(Records!Parsed(r))
      /\ d.reported = old.reported /\ d.report = old.report
  BY Served, DescribedIsARecord
<1>2. /\ uploads' = [uploads EXCEPT ![r.upload] = d]
      /\ step' = [step EXCEPT ![w] = Records!AfterRecord(r)] /\ req' = [req EXCEPT ![w] = r]
      /\ UNCHANGED <<table, chunks, bucket, sent, deleted, chunked, deaths>>
  BY Served DEF Records!Put, Records!Goto, Records!history
<1>3. \A i \in d.listed : <<i[1], r.upload>> \in OwnersNow
  BY <1>1, Served, ParsedRows
<1>4. /\ Records!AfterRecord(r) \in Label /\ Records!AfterRecord(r) # "idle"
      /\ Records!AfterRecord(r) = "report" => r.route = "job"
  BY DEF Records!AfterRecord, Label
<1> HIDE DEF d
<1>5. \A u \in Upload : IF u = r.upload THEN uploads'[u] = d ELSE uploads'[u] = uploads[u]
  BY <1>2, Served
<1>6. /\ uploads' \in [Upload -> Record]
      /\ \A u \in Upload : uploads'[u].created <= sent
      /\ \A u \in Upload : \A i \in uploads'[u].listed : <<i[1], u>> \in OwnersNow
      /\ \A u \in Upload : uploads'[u].reported =>
            uploads[u].reported /\ uploads'[u].report = uploads[u].report
  <2>1. uploads' \in [Upload -> Record]
    BY <1>1, <1>2, Served
  <2>2. \A u \in Upload : uploads'[u].created <= sent
    BY <1>1, <1>5, Served
  <2>3. \A u \in Upload : \A i \in uploads'[u].listed : <<i[1], u>> \in OwnersNow
    BY <1>3, <1>5, Served
  <2>4. \A u \in Upload : uploads'[u].reported =>
            uploads[u].reported /\ uploads'[u].report = uploads[u].report
    BY <1>1, <1>5
  <2> QED
    BY <2>1, <2>2, <2>3, <2>4
<1>7. /\ table' \in SUBSET Product /\ table \subseteq table'
      /\ chunks' \in SUBSET JobRow /\ deaths' \in Nat /\ req[w] \in Request
      /\ \A p \in table' : Mark(p) \in OwnersNow
      /\ \A j \in chunks' : \A p \in j.rows : Mark(p) \in OwnersNow
  BY <1>2, Served
<1> QED
  BY <1>2, <1>4, <1>6, <1>7, RequestStep

LEMMA UpdateStep ==
    ASSUME Records!ConstantsAssumption, IInv, NEW w \in Worker, Records!Update(w)
    PROVE  IInv'
<1>1. /\ step[w] # "idle" /\ Records!Goto(w, Records!AfterRecord(req[w]))
      /\ UNCHANGED <<table, chunks, bucket, req, sent, Records!history, deaths>>
  BY DEF Records!Update
<1>2. CASE Store = "memory" \/ Records!Exists(req[w].upload)
  <2>1. Records!Put(req[w].upload, Records!Described(req[w], uploads[req[w].upload]))
    BY <1>2 DEF Records!Update
  <2>2. uploads[req[w].upload] \in Record
    BY <1>1, Served
  <2> QED
    BY <1>1, <2>1, <2>2, RecordWrite
<1>3. CASE ~(Store = "memory" \/ Records!Exists(req[w].upload))
  <2>1. /\ uploads' = uploads /\ step' = [step EXCEPT ![w] = Records!AfterRecord(req[w])]
        /\ req' = [req EXCEPT ![w] = req[w]]
        /\ UNCHANGED <<table, chunks, bucket, sent, deleted, chunked, deaths>>
    BY <1>1, <1>3, Served DEF Records!Update, Records!Goto, Records!history
  <2>2. /\ Records!AfterRecord(req[w]) \in Label
        /\ Records!AfterRecord(req[w]) = "report" => req[w].route = "job"
    BY DEF Records!AfterRecord, Label
  <2> QED
    BY <1>1, <2>1, <2>2, Served, RequestStep
<1> QED
  BY <1>2, <1>3

LEMMA AddStep ==
    ASSUME Records!ConstantsAssumption, IInv, NEW w \in Worker, Records!Add(w)
    PROVE  IInv'
<1>1. /\ step[w] # "idle"
      /\ UNCHANGED <<table, chunks, bucket, sent, Records!history, deaths>>
  BY DEF Records!Add
<1>2. CASE Store = "postgres" /\ Records!Exists(req[w].upload)
  <2>1. Records!Respond(w) /\ UNCHANGED uploads
    BY <1>2 DEF Records!Add
  <2> QED
    BY <1>1, <2>1, Served, Responds DEF Records!history
<1>3. CASE ~(Store = "postgres" /\ Records!Exists(req[w].upload))
  <2>1. /\ Records!Put(req[w].upload, Records!Described(req[w], Records!Absent))
        /\ Records!Goto(w, Records!AfterRecord(req[w])) /\ UNCHANGED req
    BY <1>3 DEF Records!Add
  <2> QED
    BY <1>1, <2>1, AbsentIsARecord, RecordWrite
<1> QED
  BY <1>2, <1>3

\* What is inserted is what the request will report.
LEMMA InsertStep ==
    ASSUME Records!ConstantsAssumption, IInv, NEW w \in Worker, Records!Insert(w)
    PROVE  IInv'
<1>1. /\ step[w] # "idle"
      /\ UNCHANGED <<uploads, chunks, bucket, sent, Records!history, deaths>>
  BY DEF Records!Insert
<1>2. CASE Records!Refused(Records!Parsed(req[w]))
  <2>1. Records!Respond(w) /\ UNCHANGED table
    BY <1>2 DEF Records!Insert
  <2> QED
    BY <1>1, <2>1, Served, Responds DEF Records!history
<1>3. CASE ~Records!Refused(Records!Parsed(req[w]))
  <2>1. /\ table' = table \cup Records!Parsed(req[w])
        /\ step' = [step EXCEPT ![w] = "report"] /\ req' = [req EXCEPT ![w] = req[w]]
        /\ UNCHANGED <<uploads, chunks, bucket, sent, deleted, chunked, deaths>>
    BY <1>1, <1>3, Served DEF Records!Insert, Records!Goto, Records!history
  <2>2. /\ Records!Parsed(req[w]) \in SUBSET Product
        /\ \A p \in Records!Parsed(req[w]) : Mark(p) = <<req[w].time, req[w].upload>>
        /\ RowsOf(Records!Parsed(req[w]), req[w].upload) = req[w].file.rows
    BY <1>1, Served, ParsedRows
  <2>3. /\ table' \in SUBSET Product /\ table \subseteq table'
        /\ \A p \in table' : Mark(p) \in OwnersNow
    BY <1>1, <2>1, <2>2, Served
  <2>4. req[w].file.rows \subseteq RowsOf(table', req[w].upload)
    BY <2>1, <2>2, MoreRows
  <2>5. "report" \in Label
    BY DEF Label
  <2> QED
    BY <1>1, <2>1, <2>3, <2>4, <2>5, Served, RequestStep
<1> QED
  BY <1>2, <1>3


\* A report is written when its rows are stored, or for an upload that is not
\* promised anything.
LEMMA ReportStep ==
    ASSUME Records!ConstantsAssumption, IInv, NEW w \in Worker, Records!Report(w)
    PROVE  IInv'
<1> DEFINE r == req[w]
           old == uploads[r.upload]
           new == [old EXCEPT !.reported = TRUE, !.report = r.file.rows,
                     !.duplicate = IF r.duplicate = Records!None THEN @ ELSE r.duplicate]
           l == IF r.route = "job" THEN "job" ELSE "idle"
           rest == IF r.route = "job" THEN r ELSE Records!Idle
<1>1. /\ step[w] # "idle" /\ step[w] = "report"
      /\ UNCHANGED <<table, chunks, bucket, sent, deleted, chunked, deaths>>
  BY DEF Records!Report, Records!history
<1>2. /\ step' = [step EXCEPT ![w] = l] /\ req' = [req EXCEPT ![w] = rest]
  <2>1. CASE r.route = "job"
    BY <1>1, <2>1, Served DEF Records!Report, Records!Goto
  <2>2. CASE r.route # "job"
    BY <2>2 DEF Records!Report, Records!Respond, Records!Goto
  <2> QED
    BY <2>1, <2>2
<1>3. /\ l \in Label /\ rest \in Request \cup {Records!Idle} /\ l # "report"
      /\ l # "idle" => rest = r /\ r \in Request
  BY <1>1, Served DEF Label
<1>4. new \in Record /\ new.report = r.file.rows /\ new.reported
      /\ new.created = old.created /\ new.listed = old.listed
  <2>1. /\ r.file.rows \in SUBSET Nat /\ old \in Record
        /\ r.duplicate \in Upload \cup {Records!None}
    BY <1>1, Served, FilesHaveRows DEF Request
  <2> QED
    BY <2>1 DEF Record
<1>5. \/ uploads' = [uploads EXCEPT ![r.upload] = new]
      \/ uploads' = uploads
  BY DEF Records!Report, Records!Put
<1> HIDE DEF new, l, rest
<1>6. \A u \in Upload :
        \/ uploads'[u] = uploads[u]
        \/ u = r.upload /\ uploads'[u] = new
  BY <1>1, <1>5, Served
<1>7. \A u \in Upload : /\ uploads'[u] \in Record
                        /\ uploads'[u].created = uploads[u].created
                        /\ uploads'[u].listed = uploads[u].listed
  BY <1>1, <1>4, <1>6, Served
<1>8. uploads' \in [Upload -> Record]
  BY <1>1, <1>4, <1>5, Served
<1>9. \A u \in Upload \ (deleted \cup chunked) : uploads'[u].reported =>
            \/ uploads[u].reported /\ uploads'[u].report = uploads[u].report
            \/ uploads'[u].report \subseteq RowsOf(table', u)
  <2> SUFFICES ASSUME NEW u \in Upload \ (deleted \cup chunked),
                      u = r.upload, uploads'[u] = new
               PROVE  new.report \subseteq RowsOf(table, u)
    BY <1>1, <1>6
  <2> QED
    BY <1>1, <1>4 DEF IInv, Inserted
<1>10. /\ \A u \in Upload : uploads'[u].created <= sent
       /\ \A u \in Upload : \A i \in uploads'[u].listed : <<i[1], u>> \in OwnersNow
  BY <1>1, <1>7, Served
<1>11. /\ table' \in SUBSET Product /\ table \subseteq table'
       /\ chunks' \in SUBSET JobRow /\ deaths' \in Nat
       /\ \A p \in table' : Mark(p) \in OwnersNow
       /\ \A j \in chunks' : \A p \in j.rows : Mark(p) \in OwnersNow
  BY <1>1, Served
<1> QED
  BY <1>1, <1>2, <1>3, <1>8, <1>9, <1>10, <1>11, RequestStep

LEMMA AddJobStep ==
    ASSUME Records!ConstantsAssumption, IInv, NEW w \in Worker, Records!AddJob(w)
    PROVE  IInv'
<1> DEFINE row == [upload |-> req[w].upload, rows |-> Records!Parsed(req[w])]
<1>1. /\ step[w] # "idle" /\ Records!Respond(w)
      /\ UNCHANGED <<uploads, table, bucket, sent, deleted, chunked, deaths>>
      /\ chunks' = chunks \/ chunks' = chunks \cup {row}
  BY DEF Records!AddJob, Records!history
<1>2. /\ row \in JobRow /\ row.rows = Records!Parsed(req[w])
      /\ \A p \in row.rows : Mark(p) \in OwnersNow
  <2>1. /\ Records!Parsed(req[w]) \in SUBSET Product /\ req[w].upload \in Upload
        /\ \A p \in Records!Parsed(req[w]) : Mark(p) \in OwnersNow
    BY <1>1, Served, ParsedRows
  <2> QED
    BY <2>1 DEF JobRow
<1> HIDE DEF row
<1>3. /\ chunks' \in SUBSET JobRow
      /\ \A j \in chunks' : \A p \in j.rows : Mark(p) \in OwnersNow
  BY <1>1, <1>2, Served
<1> QED
  BY <1>1, <1>3, Served, Responds

LEMMA DieStep ==
    ASSUME Records!ConstantsAssumption, IInv, NEW w \in Worker, Records!Die(w)
    PROVE  IInv'
<1>1. /\ step[w] # "idle" /\ Records!Respond(w) /\ deaths' = deaths + 1
      /\ UNCHANGED <<uploads, table, chunks, bucket, sent, deleted, chunked>>
  BY DEF Records!Die, Records!history
<1>2. deaths' \in Nat
  BY <1>1 DEF IInv, Types
<1>3. /\ chunks' \in SUBSET JobRow
      /\ \A j \in chunks' : \A p \in j.rows : Mark(p) \in OwnersNow
  BY <1>1, Served
<1> QED
  BY <1>1, <1>2, <1>3, Responds

-----------------------------------------------------------------------------
(* Steps of no request *)

\* No request moves, and what is taken is of an upload that is deleted.
LEMMA StoreStep ==
    ASSUME IInv, UNCHANGED <<step, req, sent, chunked, deaths>>,
           bucket' \in [Upload -> Files],
           deleted \subseteq deleted', deleted' \in SUBSET Upload,
           uploads' \in [Upload -> Record],
           table' \in SUBSET Product, chunks' \in SUBSET JobRow,
           \A u \in Upload : uploads'[u].created <= sent,
           \A p \in table' : Mark(p) \in OwnersNow,
           \A j \in chunks' : \A p \in j.rows : Mark(p) \in OwnersNow,
           \A u \in Upload : \A i \in uploads'[u].listed : <<i[1], u>> \in OwnersNow,
           \A u \in Upload : uploads'[u].reported =>
                uploads[u].reported /\ uploads'[u].report = uploads[u].report,
           \A u \in Upload \ deleted' : RowsOf(table, u) \subseteq RowsOf(table', u)
    PROVE  IInv'
<1>1. Types'
  BY DEF IInv, Types
<1>2. InOrder'
  BY DEF IInv, InOrder
<1>3. OneOwner'
  <2>1. Owned(OwnersNow, table', chunks', uploads', step', req')
    BY OwnedNow DEF Owned
  <2>2. OwnersNow' \subseteq OwnersNow
    BY <2>1, OwnersWithin DEF OwnersNow
  <2>3. OneEach(OwnersNow', sent)
    BY <2>2, FewerOwners DEF IInv
  <2> QED
    BY <2>3 DEF OneOwner
<1>4. Inserted' /\ Records!ReportMeansStored'
  <2>1. req' \in [Worker -> Request \cup {Records!Idle}]
    BY <1>1 DEF Types
  <2>2. \A v \in Worker : step'[v] # "idle" => req'[v] \in Request
    BY <1>2 DEF InOrder
  <2>3. \A v \in Worker : step'[v] # "idle" /\ req'[v].route = "job" =>
            req'[v].upload \in chunked'
    BY DEF IInv, Inserted
  <2> QED
    BY <2>1, <2>2, <2>3, StoredStays
<1> QED
  BY <1>1, <1>2, <1>3, <1>4 DEF IInv

\* What is there before a step of no request.
LEMMA Stored ==
    ASSUME IInv
    PROVE  /\ uploads \in [Upload -> Record] /\ table \in SUBSET Product
           /\ chunks \in SUBSET JobRow /\ bucket \in [Upload -> Files]
           /\ deleted \in SUBSET Upload
           /\ \A u \in Upload : uploads[u].created <= sent /\ uploads[u].created \in Nat
           /\ sent \in Nat
           /\ \A p \in table : Mark(p) \in OwnersNow
           /\ \A j \in chunks : \A p \in j.rows : Mark(p) \in OwnersNow
           /\ \A u \in Upload : \A i \in uploads[u].listed : <<i[1], u>> \in OwnersNow
BY OwnedNow DEF IInv, Types, InOrder, Owned, Record

LEMMA PutFileStep ==
    ASSUME Records!ConstantsAssumption, IInv, NEW u \in Upload, Records!PutFile(u)
    PROVE  IInv'
<1>1. PICK f \in File : bucket' = [bucket EXCEPT ![u] = f]
  BY DEF Records!PutFile
<1>2. bucket' \in [Upload -> Files]
  BY <1>1, Stored DEF Files
<1>3. UNCHANGED <<uploads, table, chunks, step, req, sent, deleted, chunked, deaths>>
  BY DEF Records!PutFile, Records!history
<1> QED
  BY <1>2, <1>3, Stored, StoreStep

LEMMA RunJobStep ==
    ASSUME Records!ConstantsAssumption, IInv, NEW j \in chunks, Records!RunJob(j)
    PROVE  IInv'
<1>1. /\ UNCHANGED <<uploads, bucket, step, req, sent, deleted, chunked, deaths>>
      /\ chunks' = chunks \ {j}
      /\ table' = table \/ table' = table \cup j.rows
  BY DEF Records!RunJob, Records!history
<1>2. j.rows \in SUBSET Product /\ \A p \in j.rows : Mark(p) \in OwnersNow
  BY Stored DEF JobRow
<1>3. /\ table' \in SUBSET Product /\ table \subseteq table'
      /\ \A p \in table' : Mark(p) \in OwnersNow
      /\ chunks' \in SUBSET JobRow
      /\ \A k \in chunks' : \A p \in k.rows : Mark(p) \in OwnersNow
  BY <1>1, <1>2, Stored
<1>4. \A u \in Upload : RowsOf(table, u) \subseteq RowsOf(table', u)
  BY <1>3, MoreRows
<1> QED
  BY <1>1, <1>3, <1>4, Stored, StoreStep

\* A delete takes products of its upload only: on Postgres because it asks for
\* them, in memory because what the record lists is of a request for this upload.
LEMMA DeleteTakesItsOwn ==
    ASSUME IInv, NEW u \in Upload, NEW p \in Records!OfUpload(u)
    PROVE  p \in table /\ p.upload = u
<1>1. CASE Store = "memory"
  <2>1. p \in table /\ p.id \in uploads[u].listed
    BY <1>1 DEF Records!OfUpload
  <2>2. Mark(p) \in OwnersNow /\ <<p.id[1], u>> \in OwnersNow
    BY <2>1, Stored
  <2> DEFINE a == Mark(p)
             b == <<p.id[1], u>>
  <2>3. a[1] = b[1] /\ a[2] = p.upload /\ b[2] = u
    BY DEF Mark
  <2> HIDE DEF a, b
  <2>4. a[2] = b[2]
    BY <2>2, <2>3 DEF IInv, OneOwner, OneEach, a, b
  <2> QED
    BY <2>1, <2>3, <2>4
<1>2. CASE Store # "memory"
  BY <1>2 DEF Records!OfUpload
<1> QED
  BY <1>1, <1>2

LEMMA DeleteStep ==
    ASSUME Records!ConstantsAssumption, IInv, NEW u \in Upload, Records!Delete(u)
    PROVE  IInv'
<1>1. /\ UNCHANGED <<bucket, step, req, sent, chunked, deaths>>
      /\ uploads' = [uploads EXCEPT ![u] = Records!Absent]
      /\ table' = table \ Records!OfUpload(u)
      /\ chunks' \subseteq chunks
      /\ deleted' = deleted \cup {u}
  BY DEF Records!Delete, Records!Put
<1>2. uploads' \in [Upload -> Record]
  BY <1>1, AbsentIsARecord, Stored
<1>3. \A v \in Upload : IF v = u THEN uploads'[v] = Records!Absent ELSE uploads'[v] = uploads[v]
  BY <1>1, Stored
<1>4. /\ \A v \in Upload : uploads'[v].created <= sent
      /\ \A v \in Upload : \A i \in uploads'[v].listed : <<i[1], v>> \in OwnersNow
      /\ \A v \in Upload : uploads'[v].reported =>
            uploads[v].reported /\ uploads'[v].report = uploads[v].report
  BY <1>3, AbsentIsARecord, Stored
<1>5. \A v \in Upload \ deleted' : RowsOf(table, v) \subseteq RowsOf(table', v)
  BY <1>1, DeleteTakesItsOwn DEF RowsOf
<1>6. /\ table' \in SUBSET Product /\ chunks' \in SUBSET JobRow
      /\ deleted \subseteq deleted' /\ deleted' \in SUBSET Upload
      /\ bucket' \in [Upload -> Files]
      /\ \A p \in table' : Mark(p) \in OwnersNow
      /\ \A j \in chunks' : \A p \in j.rows : Mark(p) \in OwnersNow
  BY <1>1, Stored
<1> QED
  BY <1>1, <1>2, <1>4, <1>5, <1>6, StoreStep

-----------------------------------------------------------------------------
(* The invariant *)

LEMMA InvariantInitially ==
    ASSUME Records!ConstantsAssumption, Records!Init
    PROVE  IInv
<1>1. Types
  BY AbsentIsARecord, NoFileIsAFile DEF Records!Init, Types, Label
<1>2. InOrder
  BY AbsentIsARecord DEF Records!Init, InOrder
<1>3. OneOwner
  <2>1. Owned({}, table, chunks, uploads, step, req)
    BY AbsentIsARecord DEF Records!Init, Owned
  <2>2. OwnersNow = {}
    BY <2>1, OwnersWithin DEF OwnersNow
  <2> QED
    BY <2>2 DEF OneOwner, OneEach
<1>4. Inserted /\ Records!ReportMeansStored
  BY AbsentIsARecord DEF Records!Init, Inserted, Records!ReportMeansStored
<1> QED
  BY <1>1, <1>2, <1>3, <1>4 DEF IInv

LEMMA InvariantKept ==
    ASSUME Records!ConstantsAssumption, IInv, [Records!Next]_(Records!vars)
    PROVE  IInv'
<1>1. CASE UNCHANGED Records!vars
  BY <1>1, Stored, StoreStep DEF Records!vars, Records!history
<1>2. ASSUME NEW w \in Worker,
             \/ Records!UploadCsv(w) \/ Records!CreateIngestionJob(w) \/ Records!Prepare(w)
             \/ Records!IngestFromStorage(w) \/ Records!IngestUpload(w)
             \/ Records!Look(w) \/ Records!Update(w) \/ Records!Add(w)
             \/ Records!Insert(w) \/ Records!Report(w) \/ Records!AddJob(w)
             \/ Records!Die(w)
      PROVE  IInv'
  BY <1>2, BeginStep, PrepareStep, LookStep, UpdateStep, AddStep, InsertStep, ReportStep,
     AddJobStep, DieStep
<1>3. ASSUME NEW j \in chunks, Records!RunJob(j) PROVE IInv'
  BY <1>3, RunJobStep
<1>4. ASSUME NEW u \in Upload, Records!PutFile(u) \/ Records!Delete(u) PROVE IInv'
  BY <1>4, PutFileStep, DeleteStep
<1> QED
  BY <1>1, <1>2, <1>3, <1>4 DEF Records!Next

LEMMA Invariant == ASSUME Records!ConstantsAssumption PROVE Records!Spec => []IInv
<1>1. Records!Init => IInv
  BY InvariantInitially
<1>2. IInv /\ [Records!Next]_(Records!vars) => IInv'
  BY InvariantKept
<1> QED
  BY <1>1, <1>2, PTL DEF Records!Spec

\* The tables and the requests in flight keep their types.
THEOREM TypeCorrect == ASSUME Records!ConstantsAssumption PROVE Records!Spec => []Types
<1>1. IInv => Types
  BY DEF IInv
<1> QED
  BY <1>1, Invariant, PTL

\* When an upload shows a validation report, the rows it accepts are products of
\* the upload, however many requests for it overlapped, died or sent it again, and
\* whatever other uploads were deleted meanwhile (ingest_upload, delete_upload).
THEOREM ReportsAreTrue ==
    ASSUME Records!ConstantsAssumption PROVE Records!Spec => []ReportMeansStored
<1>1. IInv => ReportMeansStored
  BY DEF IInv, ReportMeansStored
<1> QED
  BY <1>1, Invariant, PTL

\* The numbers of requests, which in memory every product id starts with, belong
\* to one upload each: what a delete takes is of the upload it deletes.
THEOREM DeletesTakeTheirOwn ==
    ASSUME Records!ConstantsAssumption
    PROVE  Records!Spec => [](\A u \in Upload : \A p \in Records!OfUpload(u) : p.upload = u)
<1>1. IInv => \A u \in Upload : \A p \in Records!OfUpload(u) : p.upload = u
  BY DeleteTakesItsOwn
<1> QED
  BY <1>1, Invariant, PTL

-----------------------------------------------------------------------------
(* From the bytes of a file to the products of an upload *)

IsRow(row) == \A key : Csv!Value(row, key) \in Int

LEMMA NoValueIsNone == Csv!NoValue \in Int /\ Csv!NoValue < 0
BY SMT DEF Csv!NoValue

LEMMA BlankIsEmpty == Csv!Blank.number = Csv!NoValue
BY DEF Csv!Blank

LEMMA Least ==
    ASSUME NEW S, S \subseteq Nat, S # {}
    PROVE  \E x \in S : \A y \in S : x <= y
<1>1. PICK x \in S : \A y \in S : <<y, x>> \notin OpToRel(<, Nat)
  BY NatLessThanWellFounded, WFMin
<1>2. ASSUME NEW y \in S PROVE x <= y
  <2>1. ~(y < x)
    BY <1>1 DEF OpToRel
  <2> QED BY <2>1
<1> QED BY <1>2

LEMMA FirstAndLast ==
    ASSUME NEW n \in Nat, NEW S, S \subseteq 1 .. n, S # {}
    PROVE  /\ Csv!Min(S) \in S
           /\ Csv!Max(S) \in S /\ \A x \in S : Csv!Max(S) >= x
<1>1. S \subseteq Nat
  OBVIOUS
<1>2. PICK x \in S : \A y \in S : x <= y
  BY <1>1, Least
<1>3. Csv!Min(S) \in S
  BY <1>2 DEF Csv!Min
<1> DEFINE T == {n - y : y \in S}
<1>4. T # {} /\ T \subseteq Nat
  OBVIOUS
<1> HIDE DEF T
<1>5. PICK t \in T : \A y \in T : t <= y
  BY <1>4, Least
<1> USE DEF T
<1>6. PICK z \in S : t = n - z
  OBVIOUS
<1>7. ASSUME NEW y \in S PROVE z >= y
  <2>1. n - y \in T /\ n - y \in Nat /\ n - z \in Nat
    OBVIOUS
  <2>2. n - z <= n - y
    BY <1>5, <1>6, <2>1
  <2> QED BY <2>1, <2>2
<1>8. \E m \in S : \A y \in S : m >= y
  BY <1>7
<1>9. Csv!Max(S) \in S /\ \A y \in S : Csv!Max(S) >= y
  BY <1>8 DEF Csv!Max
<1> QED BY <1>3, <1>9

\* What a row says of a field is a cell of the line, of a column read as that field.
LEMMA RowsAreRead ==
    ASSUME NEW headers \in Seq(STRING), NEW cells \in Seq(Cell), NEW mapping
    PROVE  LET row == Csv!Row(headers, mapping, cells)
               padded == Csv!Padded(cells, Len(headers))
           IN  /\ DOMAIN row = {Csv!Target(headers[i], mapping) : i \in DOMAIN headers}
                                \ (Csv!Commercial \cup {"ignore"})
               /\ \A key \in DOMAIN row : \E i \in DOMAIN headers : row[key] = padded[i]
               /\ \A i \in DOMAIN headers : padded[i].number \in Int
               /\ IsRow(row)
<1> DEFINE n == Len(headers)
           padded == Csv!Padded(cells, n)
           row == Csv!Row(headers, mapping, cells)
           Heads(key) == Csv!HeadersOf(headers, mapping, key)
           Winner(key) ==
             CHOOSE h \in Heads(key) :
                \A g \in Heads(key) : Csv!First(headers, g) <= Csv!First(headers, h)
           keys == {Csv!Target(headers[i], mapping) : i \in DOMAIN headers}
                        \ (Csv!Commercial \cup {"ignore"})
<1>1. n \in Nat /\ DOMAIN headers = 1 .. n
  OBVIOUS
<1>2. row = [key \in keys |-> padded[Csv!Last(headers, Winner(key))]]
  BY DEF Csv!Row
<1>3. \A i \in DOMAIN headers : padded[i].number \in Int
  <2> SUFFICES ASSUME NEW i \in 1 .. n PROVE padded[i].number \in Int
    BY <1>1
  <2>1. padded[i] = IF i <= Len(cells) THEN cells[i] ELSE Csv!Blank
    BY DEF Csv!Padded
  <2>2. i <= Len(cells) => cells[i] \in Cell
    OBVIOUS
  <2> QED BY <2>1, <2>2, NoValueIsNone, BlankIsEmpty DEF Cell
<1>4. ASSUME NEW key \in keys
      PROVE  Csv!Last(headers, Winner(key)) \in DOMAIN headers
  <2> DEFINE Places(h) == {i \in DOMAIN headers : headers[i] = h}
  <2>1. ASSUME NEW h \in Heads(key) PROVE Places(h) # {} /\ Places(h) \subseteq 1 .. n
    BY <1>1 DEF Csv!HeadersOf
  <2>2. ASSUME NEW h \in Heads(key)
        PROVE  /\ Csv!First(headers, h) \in 1 .. n
               /\ Csv!Last(headers, h) \in DOMAIN headers
    <3>1. Places(h) # {} /\ Places(h) \subseteq 1 .. n
      BY <2>1
    <3>2. Csv!Min(Places(h)) \in Places(h) /\ Csv!Max(Places(h)) \in Places(h)
      BY <1>1, <3>1, FirstAndLast
    <3> QED BY <1>1, <3>2 DEF Csv!First, Csv!Last
  <2>3. Heads(key) # {}
    BY DEF Csv!HeadersOf
  <2> DEFINE firsts == {Csv!First(headers, h) : h \in Heads(key)}
  <2>4. firsts # {} /\ firsts \subseteq 1 .. n
    BY <2>2, <2>3
  <2>5. /\ Csv!Max(firsts) \in firsts
        /\ \A x \in firsts : Csv!Max(firsts) >= x
    BY <1>1, <2>4, FirstAndLast
  <2>6. PICK h \in Heads(key) : Csv!First(headers, h) = Csv!Max(firsts)
    BY <2>5
  <2>7. \A g \in Heads(key) : Csv!First(headers, g) <= Csv!First(headers, h)
    BY <1>1, <2>2, <2>5, <2>6
  <2>8. Winner(key) \in Heads(key)
    BY <2>7
  <2> QED BY <2>2, <2>8
<1> HIDE DEF padded, Winner, keys, row
<1>5. ASSUME NEW key PROVE Csv!Value(row, key) \in Int
  BY <1>2, <1>3, <1>4, NoValueIsNone, BlankIsEmpty DEF Csv!Value, Csv!Cell
<1> QED BY <1>2, <1>3, <1>4, <1>5 DEF padded, keys, row, IsRow

\* The weight of a row, whichever column it is taken from.
LEMMA WeightIsInt ==
    ASSUME NEW row, IsRow(row)
    PROVE  Csv!Weight(row) \in Int
<1> DEFINE key == CHOOSE k \in Csv!WeightColumns(row) : TRUE
<1>1. CASE Csv!WeightColumns(row) = {}
  BY <1>1, NoValueIsNone DEF Csv!Weight
<1>2. CASE Csv!WeightColumns(row) # {}
  <2>1. key \in Csv!Weights
    BY <1>2 DEF Csv!WeightColumns
  <2>2. Csv!Value(row, key) \in Int
    BY DEF IsRow
  <2> HIDE DEF key
  <2>3. Csv!TenthsOfGram(key, Csv!Value(row, key)) \in Int
    BY <2>1, <2>2 DEF Csv!TenthsOfGram, Csv!Weights
  <2> QED BY <1>2, <2>3 DEF Csv!Weight, key
<1> QED BY <1>1, <1>2

LEMMA WhenHolds ==
    ASSUME NEW condition, NEW field, NEW code
    PROVE  condition <=> Csv!When(condition, field, code) # {}
BY DEF Csv!When

\* The weight of a row that passes is that of something a shop sells.
LEMMA PassedIsWeighed ==
    ASSUME NEW row, IsRow(row), NEW enabled, Csv!Errors(row, enabled) = {}
    PROVE  /\ Csv!Weight(row) \in 1 .. 50 * Csv!Kilogram
           /\ Csv!Satisfied(row, enabled) # {}
<1>1. Csv!ParseErrors(row) = {} /\ Csv!NormaliseErrors(row, enabled) = {}
  BY DEF Csv!Errors
<1>2. Csv!WeightErrors(row) = {}
  BY <1>1 DEF Csv!ParseErrors
<1>3. /\ Csv!Weight(row) # Csv!NoValue
      /\ Csv!Satisfied(row, enabled) # {}
  BY <1>1 DEF Csv!NormaliseErrors, Csv!When
<1>4. Csv!WeightColumns(row) # {}
  BY <1>3 DEF Csv!Weight
<1>5. Csv!Weight(row) \in Int
  BY WeightIsInt
<1>6. ~(Csv!Weight(row) <= 0) /\ ~(Csv!Weight(row) > 50 * Csv!Kilogram)
  <2> DEFINE unclear == \E key \in Csv!Weights : Csv!Unclear(row, key)
             several == Csv!Cardinality(Csv!WeightColumns(row)) > 1
             empty == Csv!WeightColumns(row) = {}
             nothing == Csv!Weight(row) <= 0
             heavy == Csv!Weight(row) > 50 * Csv!Kilogram
             grams == Csv!Value(row, "weight_per_item_kg") \in 500 .. 50000
             code == IF unclear THEN "invalid_type"
                     ELSE IF several THEN "mixed_weight_units"
                     ELSE IF empty THEN "none"
                     ELSE IF nothing THEN "weight_non_positive"
                     ELSE IF heavy THEN IF grams THEN "weight_unit_likely_grams"
                                        ELSE "weight_too_large"
                     ELSE "none"
  <2>1. Csv!WeightErrors(row) = Csv!When(code # "none", "weight_per_item_kg", code)
    BY DEF Csv!WeightErrors
  <2> HIDE DEF unclear, several, empty, nothing, heavy, grams
  <2>2. code = "none"
    BY <1>2, <2>1 DEF Csv!When
  <2>3. ~empty
    BY <1>4 DEF empty
  <2>4. ~nothing /\ ~heavy
    BY <2>2, <2>3
  <2> QED BY <2>4 DEF nothing, heavy
<1>7. 50 * Csv!Kilogram \in Int
  BY SMT DEF Csv!Kilogram
<1> DEFINE limit == 50 * Csv!Kilogram
<1> HIDE DEF limit
<1>8. Csv!Weight(row) \in 1 .. limit
  BY <1>5, <1>6, <1>7 DEF limit
<1> QED BY <1>3, <1>8 DEF limit

LEMMA BlocksAreBlocks ==
    ASSUME NEW row
    PROVE  Csv!PTBlock(row) # Csv!NoBlock /\ Csv!WWFBlock(row) # Csv!NoBlock
<1>1. DOMAIN Csv!NoBlock = {"none"}
  BY DEF Csv!NoBlock
<1>2. DOMAIN Csv!PTBlock(row) = {"items", "protein", "plant", "animal"}
  BY DEF Csv!PTBlock
<1>3. DOMAIN Csv!WWFBlock(row) = {"items", "ownBrand", "channel"}
  BY DEF Csv!WWFBlock
<1> QED BY <1>1, <1>2, <1>3

\* The rows of a file, and those of them that pass.
RowsOfFile(sheet, mapping) ==
    [n \in DOMAIN Csv!DataRows(sheet) |->
        Csv!Row(sheet.headers, mapping, Csv!DataRows(sheet)[n])]
AcceptedRows(rows, enabled) == {n \in DOMAIN rows : Csv!Errors(rows[n], enabled) = {}}

\* What an import that was not given up is made of.
LEMMA ImportIs ==
    ASSUME NEW sheet, NEW enabled, NEW mapping
    PROVE  LET rows == RowsOfFile(sheet, mapping)
               result == Csv!Import(sheet, enabled, mapping)
               goes == /\ ~Csv!Unreadable(sheet)
                       /\ ~\E n \in DOMAIN rows : Csv!Raises(rows[n])
           IN  /\ goes =>
                    /\ result.total = Len(rows)
                    /\ result.errors =
                        UNION {{n} \X Csv!Errors(rows[n], enabled) : n \in DOMAIN rows}
                    /\ result.products = {Csv!Product(rows[n], n, enabled) :
                                            n \in AcceptedRows(rows, enabled)}
               /\ ~goes => /\ result.products = {}
                           /\ result.outcome \notin {"succeeded", "blocked"}
<1> DEFINE rows == RowsOfFile(sheet, mapping)
           result == Csv!Import(sheet, enabled, mapping)
           accepted == AcceptedRows(rows, enabled)
           read == [outcome |-> IF accepted = DOMAIN rows THEN "succeeded" ELSE "blocked",
              total |-> Len(rows),
              errors |-> UNION {{n} \X Csv!Errors(rows[n], enabled) : n \in DOMAIN rows},
              warnings |-> UNION {{n} \X Csv!Warnings(rows[n], enabled) : n \in DOMAIN rows},
              products |-> {Csv!Product(rows[n], n, enabled) : n \in accepted},
              dropped |-> IF rows = <<>> THEN {}
                          ELSE Csv!Commercial \cap {Csv!Target(sheet.headers[i], mapping) :
                                                      i \in DOMAIN sheet.headers}]
<1>1. result = IF Csv!Unreadable(sheet) THEN Csv!NoImport("unreadable")
               ELSE IF \E n \in DOMAIN rows : Csv!Raises(rows[n])
               THEN Csv!NoImport("raised") ELSE read
  BY Zenon DEF Csv!Import, RowsOfFile, AcceptedRows
<1>2. /\ read.total = Len(rows)
      /\ read.errors = UNION {{n} \X Csv!Errors(rows[n], enabled) : n \in DOMAIN rows}
      /\ read.products = {Csv!Product(rows[n], n, enabled) : n \in accepted}
  OBVIOUS
<1>3. \A outcome : Csv!NoImport(outcome).products = {}
                    /\ Csv!NoImport(outcome).outcome = outcome
  BY DEF Csv!NoImport
<1> HIDE DEF rows, accepted, read, result
<1>4. (~Csv!Unreadable(sheet) /\ ~\E n \in DOMAIN rows : Csv!Raises(rows[n]))
        => result = read
  BY <1>1
<1>5. ~(~Csv!Unreadable(sheet) /\ ~\E n \in DOMAIN rows : Csv!Raises(rows[n]))
        => result \in {Csv!NoImport("unreadable"), Csv!NoImport("raised")}
  BY <1>1
<1>6. ASSUME result \in {Csv!NoImport("unreadable"), Csv!NoImport("raised")}
      PROVE  result.products = {} /\ result.outcome \notin {"succeeded", "blocked"}
  BY <1>3, <1>6
<1> QED BY <1>2, <1>4, <1>5, <1>6 DEF rows, accepted, result

\* ingest_csv_bytes: of a file that was read each row is a product or has an error
\* that is reported, and not both, for files of any size and any mapping; a product
\* weighs something, at most 50 kg, and has a block for each of its methodologies.
THEOREM NoRowVanishes ==
    ASSUME NEW sheet, IsTable(sheet), NEW enabled, NEW mapping
    PROVE  Csv!RowsAreAnswered(Csv!Import(sheet, enabled, mapping))
<1> DEFINE rows == RowsOfFile(sheet, mapping)
           accepted == AcceptedRows(rows, enabled)
           result == Csv!Import(sheet, enabled, mapping)
           Faults(n) == Csv!Errors(rows[n], enabled)
           made == {p.row : p \in result.products}
           faulty == {e[1] : e \in result.errors}
<1> SUFFICES ASSUME result.outcome \in {"succeeded", "blocked"}
             PROVE  /\ made \cup faulty = 1 .. result.total
                    /\ made \cap faulty = {}
                    /\ \A p \in result.products :
                        /\ p.weight \in 1 .. 50 * Csv!Kilogram
                        /\ p.methodologies # {}
                        /\ (p.pt # Csv!NoBlock) <=> "protein_tracker" \in p.methodologies
                        /\ (p.wwf # Csv!NoBlock) <=> "wwf" \in p.methodologies
  BY Zenon DEF Csv!RowsAreAnswered
<1>1. /\ result.total = Len(rows)
      /\ result.errors = UNION {{n} \X Faults(n) : n \in DOMAIN rows}
      /\ result.products = {Csv!Product(rows[n], n, enabled) : n \in accepted}
  BY ImportIs
<1>2. DOMAIN rows = 1 .. Len(rows) /\ \A n \in DOMAIN rows : IsRow(rows[n])
  <2>1. Csv!DataRows(sheet) \in Seq(Seq(Cell))
    BY DEF IsTable
  <2>2. DOMAIN rows = 1 .. Len(Csv!DataRows(sheet)) /\ Len(Csv!DataRows(sheet)) \in Nat
    BY <2>1 DEF RowsOfFile
  <2>3. Len(rows) = Len(Csv!DataRows(sheet))
    BY <2>2 DEF RowsOfFile
  <2>4. ASSUME NEW n \in DOMAIN rows PROVE IsRow(rows[n])
    <3>1. /\ rows[n] = Csv!Row(sheet.headers, mapping, Csv!DataRows(sheet)[n])
          /\ Csv!DataRows(sheet)[n] \in Seq(Cell) /\ sheet.headers \in Seq(STRING)
      BY <2>1 DEF RowsOfFile, IsTable
    <3> DEFINE cells == Csv!DataRows(sheet)[n]
               heads == sheet.headers
    <3>2. heads \in Seq(STRING) /\ cells \in Seq(Cell)
      BY <3>1
    <3> HIDE DEF cells, heads
    <3>3. IsRow(Csv!Row(heads, mapping, cells))
      BY <3>2, RowsAreRead, Zenon
    <3> QED BY <3>1, <3>3 DEF cells, heads
  <2> QED BY <2>2, <2>3, <2>4
<1> HIDE DEF rows, result
<1>3. made = accepted
  <2>1. \A n \in accepted : Csv!Product(rows[n], n, enabled).row = n
    BY DEF Csv!Product
  <2> QED BY <1>1, <2>1
<1>4. faulty = {n \in DOMAIN rows : Faults(n) # {}}
  <2>1. ASSUME NEW e \in result.errors
        PROVE  e[1] \in DOMAIN rows /\ Faults(e[1]) # {}
    <3>1. PICK n \in DOMAIN rows : e \in {n} \X Faults(n)
      BY <1>1
    <3> QED BY <3>1
  <2>2. ASSUME NEW n \in DOMAIN rows, NEW x \in Faults(n) PROVE n \in faulty
    <3>1. <<n, x>> \in result.errors
      BY <1>1
    <3> QED BY <3>1
  <2> QED BY <2>1, <2>2
<1>5. made \cup faulty = 1 .. result.total /\ made \cap faulty = {}
  BY <1>1, <1>2, <1>3, <1>4 DEF AcceptedRows
<1>6. ASSUME NEW p \in result.products
      PROVE  /\ p.weight \in 1 .. 50 * Csv!Kilogram
             /\ p.methodologies # {}
             /\ (p.pt # Csv!NoBlock) <=> "protein_tracker" \in p.methodologies
             /\ (p.wwf # Csv!NoBlock) <=> "wwf" \in p.methodologies
  <2>1. PICK n \in accepted : p = Csv!Product(rows[n], n, enabled)
    BY <1>1
  <2>2. /\ p.weight = Csv!Weight(rows[n])
        /\ p.methodologies = Csv!Satisfied(rows[n], enabled)
        /\ p.pt = IF "protein_tracker" \in p.methodologies
                  THEN Csv!PTBlock(rows[n]) ELSE Csv!NoBlock
        /\ p.wwf = IF "wwf" \in p.methodologies
                   THEN Csv!WWFBlock(rows[n]) ELSE Csv!NoBlock
    BY <2>1 DEF Csv!Product
  <2>3. Csv!Weight(rows[n]) \in 1 .. 50 * Csv!Kilogram
        /\ Csv!Satisfied(rows[n], enabled) # {}
    BY <1>2, PassedIsWeighed DEF AcceptedRows
  <2> QED BY <2>2, <2>3, BlocksAreBlocks
<1> QED BY <1>5, <1>6

\* A row that passes for one methodology satisfies it, and passes for both of them
\* unless its split is half.
LEMMA OneOfBoth ==
    ASSUME NEW row, NEW m \in Both, Csv!Errors(row, {m}) = {}
    PROVE  /\ m \in Csv!Satisfied(row, {m}) /\ m \in Csv!Satisfied(row, Both)
           /\ m = "protein_tracker" \/ ~Csv!HalfSplit(row) =>
                Csv!Errors(row, Both) = {}
<1>1. Csv!ParseErrors(row) = {} /\ Csv!NormaliseErrors(row, {m}) = {}
  BY DEF Csv!Errors
<1>2. /\ Csv!Weight(row) # Csv!NoValue
      /\ ~("protein_tracker" \in Csv!Satisfied(row, {m}) /\ Csv!HalfSplit(row))
      /\ Csv!Satisfied(row, {m}) # {}
  BY <1>1 DEF Csv!NormaliseErrors, Csv!When
<1>3. Csv!Satisfied(row, {m}) \subseteq Csv!Satisfied(row, Both)
  BY DEF Csv!Satisfied
<1>4. Csv!Satisfied(row, {m}) \subseteq {m}
  BY DEF Csv!Satisfied
<1>5. m \in Csv!Satisfied(row, {m}) /\ m \in Csv!Satisfied(row, Both)
  BY <1>2, <1>3, <1>4
<1>6. ASSUME m = "protein_tracker" \/ ~Csv!HalfSplit(row)
      PROVE  Csv!NormaliseErrors(row, Both) = {}
  <2>1. ~Csv!HalfSplit(row)
    BY <1>2, <1>5, <1>6
  <2> QED BY <1>2, <1>5, <2>1 DEF Csv!NormaliseErrors, Csv!When
<1> QED BY <1>1, <1>5, <1>6 DEF Csv!Errors

\* "The row is still ingested with the SATISFIABLE subset" (normalise): what a
\* project with one methodology makes of a row, a project with both makes of it
\* too, but for rows with half a protein split, for every file and mapping.
THEOREM BothKeepWhatEitherKeeps ==
    ASSUME NEW sheet, NEW mapping
    PROVE  Csv!BothKeepEither(sheet, mapping,
                Csv!Import(sheet, {"protein_tracker"}, mapping),
                Csv!Import(sheet, {"wwf"}, mapping), Csv!Import(sheet, Both, mapping))
<1> DEFINE rows == RowsOfFile(sheet, mapping)
           Of(enabled) == Csv!Import(sheet, enabled, mapping).products
           Half(n) == Csv!HalfSplit(Csv!Row(sheet.headers, mapping, Csv!DataRows(sheet)[n]))
           Made(n, enabled) == Csv!Product(rows[n], n, enabled)
<1>1. ASSUME NEW m \in Both, NEW p \in Of({m})
      PROVE  \E n \in DOMAIN rows :
                /\ p = Made(n, {m}) /\ Csv!Errors(rows[n], {m}) = {}
                /\ Csv!Errors(rows[n], Both) = {} => Made(n, Both) \in Of(Both)
  <2> DEFINE goes == /\ ~Csv!Unreadable(sheet)
                     /\ ~\E n \in DOMAIN rows : Csv!Raises(rows[n])
  <2>1. goes
    BY ImportIs
  <2>2. /\ Of({m}) = {Made(n, {m}) : n \in AcceptedRows(rows, {m})}
        /\ Of(Both) = {Made(n, Both) : n \in AcceptedRows(rows, Both)}
    BY <2>1, ImportIs
  <2> HIDE DEF rows, Of, Made
  <2>3. PICK n \in AcceptedRows(rows, {m}) : p = Made(n, {m})
    BY <2>2
  <2>4. n \in DOMAIN rows /\ Csv!Errors(rows[n], {m}) = {}
    BY DEF AcceptedRows
  <2>5. Csv!Errors(rows[n], Both) = {} => n \in AcceptedRows(rows, Both)
    BY <2>4 DEF AcceptedRows
  <2> QED BY <2>2, <2>3, <2>4, <2>5
<1>2. \A n \in DOMAIN rows : Half(n) <=> Csv!HalfSplit(rows[n])
  BY DEF RowsOfFile
<1>3. \A n, enabled :
        LET p == Made(n, enabled)
        IN  /\ p.row = n /\ p.weight = Csv!Weight(rows[n])
            /\ "protein_tracker" \in Csv!Satisfied(rows[n], enabled) =>
                p.pt = Csv!PTBlock(rows[n])
            /\ "wwf" \in Csv!Satisfied(rows[n], enabled) =>
                p.wwf = Csv!WWFBlock(rows[n])
  BY DEF Csv!Product
<1> HIDE DEF rows, Of, Half, Made
<1>4. ASSUME NEW p \in Of({"protein_tracker"})
      PROVE  \E q \in Of(Both) : q.row = p.row /\ q.pt = p.pt /\ q.weight = p.weight
  <2>1. PICK n \in DOMAIN rows :
            /\ p = Made(n, {"protein_tracker"})
            /\ Csv!Errors(rows[n], {"protein_tracker"}) = {}
            /\ Csv!Errors(rows[n], Both) = {} => Made(n, Both) \in Of(Both)
    BY <1>1 DEF Both
  <2>2. /\ "protein_tracker" \in Csv!Satisfied(rows[n], {"protein_tracker"})
        /\ "protein_tracker" \in Csv!Satisfied(rows[n], Both)
        /\ Csv!Errors(rows[n], Both) = {}
    BY <2>1, OneOfBoth DEF Both
  <2> QED BY <1>3, <2>1, <2>2
<1>5. ASSUME NEW p \in Of({"wwf"})
      PROVE  \/ Half(p.row)
             \/ \E q \in Of(Both) : q.row = p.row /\ q.wwf = p.wwf
  <2>1. PICK n \in DOMAIN rows :
            /\ p = Made(n, {"wwf"})
            /\ Csv!Errors(rows[n], {"wwf"}) = {}
            /\ Csv!Errors(rows[n], Both) = {} => Made(n, Both) \in Of(Both)
    BY <1>1 DEF Both
  <2>2. /\ "wwf" \in Csv!Satisfied(rows[n], {"wwf"})
        /\ "wwf" \in Csv!Satisfied(rows[n], Both)
        /\ ~Csv!HalfSplit(rows[n]) => Csv!Errors(rows[n], Both) = {}
    BY <2>1, OneOfBoth DEF Both
  <2> QED BY <1>2, <1>3, <2>1, <2>2
<1> QED BY <1>4, <1>5, Zenon DEF Csv!BothKeepEither, Of, Half

\* A header stands for one field at most.
LEMMA OneMeaning ==
    ASSUME NEW h, NEW f, NEW g, f \in Csv!Inferred(h), g \in Csv!Inferred(h)
    PROVE  f = g
<1>1. \A x \in Csv!Meant(h), y \in Csv!Meant(h) : x = y
  BY DEF Csv!Meant, Csv!Registry, Csv!ProductSynonyms, Csv!DescriptionSynonyms,
         Csv!MethodologySynonyms
<1>2. \A x \in Csv!Inferred(h), y \in Csv!Inferred(h) : x = y
  BY <1>1 DEF Csv!Inferred
<1> QED BY <1>2

\* A field the preview found a column for is in each row, with what a cell of the
\* line says.
LEMMA FoundIsRead ==
    ASSUME NEW headers \in Seq(STRING), NEW cells \in Seq(Cell),
           NEW f \in {"items_purchased", "items_sold", "is_own_brand", "retail_channel"},
           NEW m, f \in Csv!Required(m), Csv!MissingFor(m, headers) = {}
    PROVE  LET row == Csv!Row(headers, <<>>, cells)
           IN  \E i \in DOMAIN headers :
                    Csv!Cell(row, f) = Csv!Padded(cells, Len(headers))[i]
<1> DEFINE row == Csv!Row(headers, <<>>, cells)
           fields == UNION {Csv!Inferred(headers[i]) : i \in DOMAIN headers}
<1>1. f \in Csv!WeightsKnown(fields)
  BY DEF Csv!MissingFor
<1>2. f \in fields
  BY <1>1 DEF Csv!WeightsKnown
<1>3. PICK i \in DOMAIN headers : f \in Csv!Inferred(headers[i])
  BY <1>2
<1>4. Csv!Target(headers[i], <<>>) = f
  <2>1. DOMAIN <<>> = {}
    OBVIOUS
  <2>2. (CHOOSE g \in Csv!Inferred(headers[i]) : TRUE) = f
    BY <1>3, OneMeaning
  <2> QED BY <1>3, <2>1, <2>2 DEF Csv!Target
<1>5. f \notin Csv!Commercial \cup {"ignore"}
  BY DEF Csv!Commercial
<1>6. f \in {Csv!Target(headers[k], <<>>) : k \in DOMAIN headers}
  BY <1>4
<1>7. f \in DOMAIN row
  BY <1>5, <1>6, RowsAreRead
<1>8. \E k \in DOMAIN headers : row[f] = Csv!Padded(cells, Len(headers))[k]
  <2>1. \A key \in DOMAIN Csv!Row(headers, <<>>, cells) :
            \E k \in DOMAIN headers :
                Csv!Row(headers, <<>>, cells)[key] = Csv!Padded(cells, Len(headers))[k]
    BY RowsAreRead, Zenon
  <2> QED BY <1>7, <2>1
<1> QED BY <1>7, <1>8 DEF Csv!Cell

\* infer_mapping and its preview: when no column is missing for a methodology, a row
\* without error and without an empty cell gets the block of that methodology.
THEOREM PreviewIsRight ==
    ASSUME NEW sheet, IsTable(sheet)
    PROVE  Csv!PreviewKeepsItsWord(sheet, Csv!Import(sheet, Both, <<>>))
<1> DEFINE rows == RowsOfFile(sheet, <<>>)
           headers == sheet.headers
           result == Csv!Import(sheet, Both, <<>>)
           padded(n) == Csv!Padded(Csv!DataRows(sheet)[n], Len(headers))
<1> SUFFICES ASSUME NEW m \in {"protein_tracker", "wwf"},
                    Csv!MissingFor(m, headers) = {}, NEW p \in result.products,
                    \A i \in DOMAIN headers : padded(p.row)[i].number # Csv!NoValue
             PROVE  m \in p.methodologies
  BY Zenon DEF Csv!PreviewKeepsItsWord
<1>1. PICK n \in AcceptedRows(rows, Both) : p = Csv!Product(rows[n], n, Both)
  BY ImportIs
<1>2. p.row = n /\ p.methodologies = Csv!Satisfied(rows[n], Both)
  BY <1>1 DEF Csv!Product
<1>3. n \in DOMAIN rows /\ Csv!Errors(rows[n], Both) = {}
  BY DEF AcceptedRows
<1> DEFINE cells == Csv!DataRows(sheet)[n]
           row == rows[n]
<1>4. /\ n \in DOMAIN Csv!DataRows(sheet)
      /\ row = Csv!Row(headers, <<>>, cells)
  BY <1>3 DEF RowsOfFile
<1>5. headers \in Seq(STRING) /\ cells \in Seq(Cell)
  BY <1>4 DEF IsTable
<1>6. \A i \in DOMAIN headers : padded(n)[i].number # Csv!NoValue
  BY <1>2
<1> HIDE DEF rows, headers, result
<1>7. ASSUME NEW f \in {"items_purchased", "items_sold", "is_own_brand",
                        "retail_channel"}, f \in Csv!Required(m)
      PROVE  Csv!Cell(row, f).number # Csv!NoValue
  <2> HIDE DEF cells, row
  <2>1. PICK i \in DOMAIN headers :
            Csv!Cell(row, f) = Csv!Padded(cells, Len(headers))[i]
    BY <1>4, <1>5, <1>7, FoundIsRead
  <2> QED BY <1>6, <2>1 DEF cells
<1> HIDE DEF cells, row, padded
<1>8. CASE m = "protein_tracker"
  <2>1. "items_purchased" \in Csv!Required(m)
    BY <1>8 DEF Csv!Required
  <2>2. Csv!HasPT(row)
    BY <1>7, <2>1 DEF Csv!HasPT, Csv!Given, Csv!Value
  <2> QED BY <1>2, <1>8, <2>2 DEF Csv!Satisfied, Both, row
<1>9. CASE m = "wwf"
  <2>1. /\ "items_sold" \in Csv!Required(m) /\ "is_own_brand" \in Csv!Required(m)
        /\ "retail_channel" \in Csv!Required(m)
    BY <1>9 DEF Csv!Required
  <2>2. /\ Csv!Given(row, "items_sold") /\ Csv!Given(row, "retail_channel")
        /\ Csv!Cell(row, "is_own_brand").number # Csv!NoValue
    BY <1>7, <2>1 DEF Csv!Given, Csv!Value
  <2>3. Csv!Cell(row, "is_own_brand") # Csv!Blank
    BY <2>2, BlankIsEmpty
  <2>4. Csv!WordErrors(row) = {}
    BY <1>3 DEF Csv!Errors, Csv!ParseErrors, row
  <2>5. /\ Csv!Flag(Csv!Cell(row, "is_own_brand")) # "none"
        /\ Csv!Channel(Csv!Cell(row, "retail_channel")) # "none"
    BY <2>2, <2>3, <2>4 DEF Csv!WordErrors, Csv!When
  <2>6. Csv!HasWWF(row)
    BY <2>2, <2>5 DEF Csv!HasWWF
  <2> QED BY <1>2, <1>9, <2>6 DEF Csv!Satisfied, Both, row
<1> QED BY <1>8, <1>9

\* What is imported is imported once, and gives each kind of project its result.
Imports ==
    /\ IsTable(file.table)
    /\ results \in {<<>>, [p \in Projects |-> Csv!Import(file.table, p, file.mapping)]}

LEMMA ImportsOnce == ASSUME IngestionAssumption PROVE FileSpec => []Imports
<1>1. FileInit => Imports
  BY DEF FileInit, Imports, IngestionAssumption
<1>2. ASSUME Imports, [ImportFile]_fileVars PROVE Imports'
  <2>1. file' = file
    BY <1>2 DEF ImportFile, fileVars
  <2>2. CASE ImportFile
    BY <1>2, <2>1, <2>2 DEF Imports, ImportFile
  <2>3. CASE UNCHANGED fileVars
    BY <1>2, <2>1, <2>3 DEF Imports, fileVars
  <2> QED BY <1>2, <2>2, <2>3
<1> QED BY <1>1, <1>2, PTL DEF FileSpec

\* ingest_csv_bytes: whatever is imported, for any mapping of its columns, no row
\* vanishes (NoRowVanishes) and a project with both methodologies gets what one with
\* either gets (BothKeepWhatEitherKeeps).
THEOREM ImportsAreAnswered ==
    ASSUME IngestionAssumption PROVE FileSpec => []RowsAreAnswered
<1>1. Imports => RowsAreAnswered
  <2> SUFFICES ASSUME Imports PROVE RowsAreAnswered
    OBVIOUS
  <2>1. CASE results = <<>>
    BY <2>1 DEF RowsAreAnswered
  <2>2. CASE results = [p \in Projects |-> Csv!Import(file.table, p, file.mapping)]
    <3>1. ASSUME NEW p \in DOMAIN results PROVE Csv!RowsAreAnswered(results[p])
      BY <2>2, NoRowVanishes DEF Imports
    <3>2. /\ results[{"protein_tracker"}]
                = Csv!Import(file.table, {"protein_tracker"}, file.mapping)
          /\ results[{"wwf"}] = Csv!Import(file.table, {"wwf"}, file.mapping)
          /\ results[Both] = Csv!Import(file.table, Both, file.mapping)
      <4>1. {"protein_tracker"} \in Projects /\ {"wwf"} \in Projects /\ Both \in Projects
        BY DEF Projects, Both
      <4> QED BY <2>2, <4>1
    <3> QED
      BY <3>1, <3>2, BothKeepWhatEitherKeeps DEF RowsAreAnswered
  <2> QED BY <2>1, <2>2 DEF Imports
<1> QED BY <1>1, ImportsOnce, PTL

\* infer_mapping: whatever is imported, what its preview does not miss is there
\* (PreviewIsRight).
THEOREM PreviewsAreRight ==
    ASSUME IngestionAssumption PROVE FileSpec => []PreviewKeepsItsWord
<1>1. Imports => PreviewKeepsItsWord
  <2> SUFFICES ASSUME Imports, results # <<>>, file.mapping = <<>>
               PROVE  Csv!PreviewKeepsItsWord(file.table, results[Both])
    BY DEF PreviewKeepsItsWord
  <2>1. Both \in Projects
    BY DEF Projects, Both
  <2>2. results[Both] = Csv!Import(file.table, Both, <<>>)
    BY <2>1 DEF Imports
  <2> QED BY <2>2, PreviewIsRight DEF Imports
<1> QED BY <1>1, ImportsOnce, PTL
=============================================================================

----------------------------- MODULE MCIngestion -----------------------------
(***************************************************************************)
(* How a file becomes products, in three parts that are checked side by    *)
(* side; MCInit chooses.  Chunked jobs: on Postgres two tabs drive one and *)
(* an insert may break, in memory one tab drives it and two requests may   *)
(* die.  Upload records: an upload with two contents in memory, two of     *)
(* them on Postgres (the constants of the cfg are those of Postgres).      *)
(* Files: every import of a row that differs from a good one in two cells. *)
(***************************************************************************)
EXTENDS Ingestion

VARIABLE focus

OneTab == {CHOOSE w \in Worker : TRUE}

M == INSTANCE IngestionJob WITH
        Worker <- OneTab, ChunkSize <- {1, 2}, MaxChunk <- 2, InsertSize <- 1,
        MaxFaults <- 2

Whole == [rows |-> {1, 2}, errors |-> FALSE]
Faulty == [rows |-> {1}, errors |-> TRUE]
Contents == {Whole, Faulty}
UM == INSTANCE UploadRecords WITH
        Upload <- {CHOOSE u \in Upload : TRUE}, Store <- "memory", MaxRequests <- 3,
        products <- table, jobs <- chunks, pc <- step

uploadVars == <<uploads, table, chunks, bucket, step, req, sent, deleted, chunked, deaths>>
allVars == <<focus, vars, uploadVars, fileVars>>

-----------------------------------------------------------------------------
(* Files *)

Common == <<"libelle", "weight", "sales", "units_sold", "mdd", "canal">>
Good == <<Csv!Word("label"), Csv!Number(1330), Csv!Number(30), Csv!Number(10),
          Csv!Word("yes"), Csv!Word("fresh")>>
Cells == {Csv!Blank, Csv!Word("oops"), Csv!Word("sec"), Csv!Number(-10),
          Csv!Number(0), Csv!Number(5), Csv!Number(1001), Csv!Number(10)}
\* Further columns of a file, and what is in them: other units, proteins, a
\* second column for a field, commercial columns, columns of the project.
Further == {
    <<<<"weight_per_item_kg", "net_weight">>, <<Csv!Blank, Csv!Blank>>>>,
    <<<<"weight_per_item_lb", "weight_per_item_oz">>, <<Csv!Blank, Csv!Number(10)>>>>,
    <<<<"protein_g_per_100ml", "density_g_per_ml">>, <<Csv!Number(30), Csv!Number(10)>>>>,
    <<<<"protein_g_per_serving", "serving_g">>, <<Csv!Number(30), Csv!Number(1000)>>>>,
    <<<<"protein", "protein_kj">>, <<Csv!Number(30), Csv!Blank>>>>,
    <<<<"plant_protein", "animal_protein">>, <<Csv!Number(10), Csv!Number(20)>>>>,
    <<<<"internal_id", "purchase_price">>, <<Csv!Word("label"), Csv!Number(1001)>>>>,
    <<<<"store_label", "revenue">>, <<Csv!Word("no"), Csv!Number(1001)>>>>,
    <<<<"sku", "pays">>, <<Csv!Word("#"), Csv!Word("fr")>>>>,
    <<<<"units_sold", "protein_source">>, <<Csv!Number(10), Csv!Word("label")>>>>}
Rows(cells) ==
    {[[cells EXCEPT ![i] = c] EXCEPT ![j] = d] :
        i \in DOMAIN cells, j \in {2, 7, 8}, c \in Cells,
        d \in {Csv!Blank, Csv!Word("oops"), Csv!Number(0), Csv!Number(1001)}}
Mappings == {<<>>, [sales |-> "items_purchased", weight |-> "ignore"],
             [libelle |-> "product_name", revenue |-> "items_purchased"]}
OneRow ==
    UNION {[headers : {Common \o x[1]}, rows : {<<r>> : r \in Rows(Good \o x[2])}] :
            x \in Further}
FewRows ==
    [headers : {Common, <<>>},
     rows : {<<>>, <<Good, SubSeq(Good, 1, 5)>>, <<Good, Good, Good>>,
             <<<<Csv!Word("#")>>, Good, Good>>}]
NoChannel ==
    [headers : {<<"sku">> \o SubSeq(Common, 1, 5)},
     rows : {<<<<Csv!Word("label")>> \o SubSeq(Good, 1, 5)>>}]
MCImported ==
    [table : OneRow \cup FewRows \cup NoChannel, mapping : {<<>>}]
    \cup [table : FewRows, mapping : Mappings]

ASSUME InstancesAreMeant ==
    /\ IngestionAssumption /\ Store = "postgres"
    /\ M!ConstantsAssumption /\ UM!ConstantsAssumption

-----------------------------------------------------------------------------
(* The three side by side *)

UploadsIdle ==
    /\ uploads = <<>> /\ table = {} /\ chunks = {} /\ bucket = <<>>
    /\ step = <<>> /\ req = <<>> /\ sent = 0 /\ deleted = {} /\ chunked = {}
    /\ deaths = 0
FileIdle == file = [table |-> [headers |-> <<>>, rows |-> <<>>], mapping |-> <<>>]

MCInit ==
    \/ /\ focus = "jobs" /\ UploadsIdle /\ FileIdle /\ results = <<>>
       /\ \/ store = "postgres" /\ Init
          \/ store = "memory" /\ M!Init
    \/ /\ focus = "uploads" /\ FileIdle /\ results = <<>>
       /\ \/ store = "postgres" /\ M!Init /\ Records!Init
          \/ store = "memory" /\ M!Init /\ UM!Init
    \/ focus = "files" /\ store = "memory" /\ M!Init /\ UploadsIdle /\ FileInit

Jobs ==
    /\ focus = "jobs"
    /\ \/ store = "postgres" /\ Next
       \/ store = "memory" /\ M!Next
    /\ UNCHANGED <<uploadVars, fileVars>>

Uploads ==
    /\ focus = "uploads"
    /\ \/ store = "postgres" /\ Records!Next
       \/ store = "memory" /\ UM!Next
    /\ UNCHANGED <<vars, fileVars>>

Files ==
    /\ focus = "files" /\ ImportFile
    /\ UNCHANGED <<vars, uploadVars>>

MCNext == (Jobs \/ Uploads \/ Files) /\ UNCHANGED focus

MCServe(w) ==
    /\ focus = "jobs"
    /\ \/ store = "postgres" /\ Serve(w)
       \/ store = "memory" /\ w \in OneTab /\ M!Serve(w)
    /\ UNCHANGED <<focus, uploadVars, fileVars>>

MCPoll(j) ==
    /\ focus = "jobs"
    /\ \/ store = "postgres" /\ \E w \in Worker : AdvanceRead(w, j)
       \/ store = "memory" /\ \E w \in OneTab : M!AdvanceRead(w, j)
    /\ UNCHANGED <<focus, uploadVars, fileVars>>

\* Requests are served to their end and the browser polls, as in IngestionJob.
MCSpec ==
    /\ MCInit /\ [][MCNext]_allVars
    /\ \A w \in Worker : WF_allVars(MCServe(w))
    /\ \A j \in JobId : WF_allVars(MCPoll(j))
=============================================================================

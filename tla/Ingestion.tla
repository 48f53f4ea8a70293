----------------------------- MODULE Ingestion -----------------------------
(***************************************************************************)
(* How a file becomes products: the chunked jobs (the extended module),    *)
(* the upload records and the requests that write them, and what the bytes *)
(* of one file are made into.                                              *)
(***************************************************************************)
EXTENDS IngestionJob

CONSTANTS
    Upload, File,               \* of the upload records, ...
    Store, MaxRequests, MaxDeaths,
    MaxRows,                    \* ... and of the files: rows one may have,
    Imported                    \* what is imported: [table, mapping]

VARIABLES
    uploads, table, chunks, bucket, step, req, sent, deleted, chunked, deaths,
    file,       \* what is imported
    results     \* what each kind of project gets of it

Records == INSTANCE UploadRecords WITH products <- table, jobs <- chunks, pc <- step
Csv == INSTANCE CsvFile

-----------------------------------------------------------------------------
(* Files *)

Cell == [word : STRING, number : Int]

\* A file with headers and rows of cells; what its comment rows leave is again a
\* sequence of rows.
IsTable(t) == t.headers \in Seq(STRING) /\ Csv!DataRows(t) \in Seq(Seq(Cell))

\* What the constants are: the module that gives them values assumes it.
IngestionAssumption ==
    /\ ConstantsAssumption
    /\ Records!ConstantsAssumption
    /\ \A f \in Imported : IsTable(f.table)

\* A project has one methodology, the other, or both.
Both == {"protein_tracker", "wwf"}
Projects == (SUBSET Both) \ {{}}

fileVars == <<file, results>>

\* ingest_csv_bytes, for a project of each kind.
ImportFile ==
    /\ results = <<>>
    /\ results' = [p \in Projects |-> Csv!Import(file.table, p, file.mapping)]
    /\ UNCHANGED file

FileInit == file \in Imported /\ results = <<>>
FileSpec == FileInit /\ [][ImportFile]_fileVars

-----------------------------------------------------------------------------
(* Properties, and those of IngestionJob *)

\* A report is the last thing a request stores (UploadRecords), on either store.
ReportMeansStored == Records!ReportMeansStored

\* No row of a file vanishes (CsvFile), whatever the methodologies of the project,
\* and a project with both gets what one with either gets.
RowsAreAnswered ==
    /\ \A p \in DOMAIN results : Csv!RowsAreAnswered(results[p])
    /\ results # <<>> =>
        Csv!BothKeepEither(file.table, file.mapping, results[{"protein_tracker"}],
                           results[{"wwf"}], results[Both])

\* What the preview does not miss is imported (CsvFile).
PreviewKeepsItsWord ==
    results # <<>> /\ file.mapping = <<>> =>
        Csv!PreviewKeepsItsWord(file.table, results[Both])
=============================================================================

# Altera API: a verification of its jobs, stores, calculations and reviews

The Altera API takes the catalogue of a food retailer, classifies every product
under two methodologies, Protein Tracker ("pt") and WWF, lets people review and
enrich the result, calculates, and reports. Two things make it hard. The long
parts are done by *chunked jobs*: a row in the store says what is left to do, a
browser calls `advance` until the row is terminal, and several requests work on
one row, each from its own stale copy, any of which may die half way. And the
same figures are computed again and again, by the gate before a run, by the
engine, by screens, workbooks, exports and comparisons, each by code of its own
and from whatever is stored when it is asked.

Paths are relative to `src/apps/api/altera_api/` unless they start with `src/`.

## 1. Inventory

A request handler is a sequence of store calls. A store call is atomic (a lock
in memory, one HTTP call to Supabase in production); nothing spans two calls.
There are two stores, `api/state.py` and `persistence/postgres.py`, and they
differ: unique indexes, foreign keys, cascades, columns that are not written.
Components interact through the rows alone.

| Component | State it keeps | Operations | What is hard | Correct when |
|---|---|---|---|---|
| Classification jobs (`api/classification_job_orchestrator.py`) | a row per job: status, pending ids, counters, failed ids | create, advance, cancel, retry-failed, stale sweep | overlapping requests, whole-row writes from stale copies, crashes, provider failures | no product lost, counters agree, a job ends and stays ended, failures show |
| Ingestion jobs (`api/ingestion_job_orchestrator.py`) | a row per job: status, parsed rows left, counters | create, advance, stale sweep | a crash between the insert and the write of the row; inserts that conflict | each row counted once, nothing reported that is not there |
| Upload records (`ingest_upload`, upload routes) | record, report, products, file in the bucket | post, prepare, ingest, chunked import, delete | a record that is ready before its products; repeats; deletes in flight | a report means stored products |
| CSV parsing (`ingestion/`) | none | read, map, filter, parse, normalise | two columns for one field, cells that are no number, units | no row vanishes, the preview keeps its word |
| Synchronous classification (`classify_upload`, `classify_route`) | classification rows, review items | classify an upload in one request | the AI answers after minutes; two calls per product; deaths | whoever was answered has missed nothing |
| AI batch classifier and guards (`ai/`) | the counters of a call | batches, repair, judgement, sweep, retry | order of early returns, exceptions that leave the call, counters of two passes | one verdict for each product, nothing made up is accepted |
| Manual review (`review/`, decisions in `api/orchestrator.py`) | an item per product with a 15 minute soft lock | claim, refresh, release, assign, accept, change, defer, bulk | read, check, upsert; locks that expire; a job rewriting the row | a decision is final, nothing leaves the queue undecided |
| Enrichment (`enrichment/`, routes) | records per product, append-only | references, manual values, category averages | several records for one product, several readers | what is shown is what is used |
| NEVO V2 commands (`classification_v2/`) | files of a review package, records | validate, plan, apply, propose, split, audit | a command that dies or is run twice, by two people, while the application goes on | an audit that passes is right about what is calculated |
| Guided workflow (`api/workflow.py`) | none: counts | status of the steps, blockers, gate of a run | combinations of counts | the wizard leads somewhere, the gate agrees with the engine |
| Calculation (`calculation/`, `create_run`) | runs with rows and headline | run | rounding, double counting, a catalogue that changes meanwhile | the books balance, a strict run is full |
| WWF Step 2 (`ingestion/wwf_step2.py`, route) | ingredients per product | validate and replace | clear and store are separate calls | what is stored is what was uploaded |
| Scenario projection (`scenarios/`) and scenarios | operations, a result, a status | add operation, run, promote, read | order and clamping; result and status in two calls | mass is kept, what clients see has a result |
| Screens (`api/routes.py`) | none | tables, readiness numbers, coverage | each recomputes what the engine does | they say what the run does |
| Reports (`exports/`, `comparisons/`, `recommendations/`) | none | workbook, export, lists, coverage section, advice, comparison | an old run joined with live data | what is told follows from the run |
| Report approval and delivery | approval status of an export | render, submit, approve, reject, deliver, download | check-then-act, two stores | clients get what was approved |
| Recommendations | records with a status | generate, transition | a second generation | decisions survive |
| Pipeline jobs (`jobs/`) | a row per job, an idempotency key | create-and-dispatch, execute | duplicates, a process that dies | one active job per key, jobs end |
| Browser and heavy-job guard (`src/apps/web/.../workflow/`, routes) | the job a card polls | create, poll, resume, retry, cancel, probe | two tabs, give-up, 409, reload, an upload deleted | whoever keeps pressing gets through, loops stop |
| Project lifecycle, auth, admin, demo mode, migrations, matchers and benchmarks | | | | not modelled, see section 6 |

## 2. Modules

Modules come in layers: the components; where an area has several, a module that
puts them together and states what is said of them (`Ingestion`, `AICalls`,
`Calculations`, `Outputs`); TLC modules (`MC...`) that give it small instances; and
proof modules. Run and theorem are about the same definition, which is why it
stands in the layer between the two.

| Area | Components | Run by | Proved in |
|---|---|---|---|
| Classification jobs | `ClassificationJob`, `JobLifecycle` | itself | `ClassificationJobProofs` |
| From file to products | `IngestionJob`, `UploadRecords`, `CsvFile`, `Ingestion` | `MCIngestion` | `IngestionJobProofs`, `UploadRecordsProofs` |
| AI | `BatchClassifier`, `PTGuards`, `WWFGuards`, `DecisionList`, `SyncClassify`, `AICalls` | `MCBatchClassifier` | `BatchClassifierProofs` |
| Review | `ReviewQueue` | itself | `ReviewQueueProofs` |
| Calculation | `ProteinTracker`, `WWFEngine`, `Rounding`, `Enrichment`, `Projection`, `Step2Ingredients`, `Workflow`, `CalculationRun`, `PTScreens`, `PTReport`, `WWFReport`, `Reporting`, `Calculations` | `MCCalculation` | `CalculationProofs` |
| Around a run | `ReportExports`, `Recommendations`, `Scenarios`, `PipelineJobs`, `NevoApply`, `Outputs` | `MCOutputs` | `ReportExportsProofs`, `OutputsProofs` |
| Browser | `WizardJobs` | `MCWizardJobs` | |

In every module with requests, `pc[w]` says what the request of worker `w` does
next and `req[w]` (or `snap`, `target`, `todo`, ...) holds its local variables:
what it has read and will not read again. One action is one store call. `Crash`
or `Die` is a process that ends, or a call that raises, between two of them.

### Classification jobs

`jobs` is the table; a record keeps `status`, `pending` (`pending_product_ids`),
`total`, `processed`, `failed` (`failed_product_ids`), `batch` and
`cancelRequested`. `cls[p]` and `review[p]` are the classification row and the
review item of a product; `"placeholder"` is the system row of
`_queue_unknown_pt` / `_queue_unknown_wwf`. `scope[j]` is a history variable, the
list the job was created with.

| Code | Actions |
|---|---|
| create route, `create_classification_job` | `CreateCheck`, `CreateList`, `CreateInsert` |
| `advance_classification_job` | `AdvanceRead`, then `AdvanceStop` (no provider), or `AdvanceDrained`, or `AdvanceStart` (the RUNNING write), `Classify` and `Enqueue` per product, `CountCoverage`, `CommitAdvance` |
| `cancel_classification_job` | `CancelRead`, `CancelWrite` |
| `retry_failed_in_classification_job` | `RetryRead`, `RetryNothing` or `RetryInsert` |
| `cancel_stale_classification_jobs` | `SweepStale` |

A batch classified by the AI and a batch recovered after the provider crashed
make the same store calls in the same order, so a batch is an arbitrary verdict
per product. Neither `tuple({...})` nor the products query fixes an order, so a
list is any ordering of its set. `JobLifecycle` is what any chunked job
promises: items only leave the list, a completed job has none left, a terminal
job never changes.

### From file to products

`IngestionJob` has the same shape. `products[j]` is the set of rows that are in
the products table, `malformed[j]` the rows `product_from_row` raises on,
`rejected[j]` the errors of the parser. `AdvanceStart` slices and deserialises,
`InsertRows` is one insert of `add_products_bulk` (`InsertSize` rows on Postgres,
all of them in memory), `InsertConflict` the unique constraint on
`(upload_id, row_number)`, `InsertBreaks` a connection that fails before or after
the insert took effect, `Commit` the write of the row.

`UploadRecords` has the ways a file becomes products: `UploadCsv`, `Prepare` with
`PutFile` and `IngestFromStorage`, the pipeline job (`IngestUpload`), the chunked
job (`CreateIngestionJob`, `AddJob`, `RunJob`) and `Delete`. `ingest_upload` is
`Look` (the checksum), `Update` or `Add` (the record), `Insert`, `Report`. Products
carry ids; in memory a delete takes what the record lists, on Postgres what
references the upload.

`CsvFile` is `ingest_csv_bytes` as a function, `Import`: headers to fields
(`Inferred`, `Target`), the commercial filter, `Weight`, `Protein`, `Splits`,
counts and flags per row, the two methodology blocks, and `MissingFor`, what the
preview says. Cells are words or numbers in tenths of the unit of their column.

`Ingestion` has the three beside each other. The store of `IngestionJob` is a
variable that nothing changes, so one invariant can be about both; a file is
imported (`ImportFile`) for a project of each kind.

### AI

`BatchClassifier` is one call of `batch_classify`: the answer to a batch is
`Rows`, or `Unreadable` and asked again, or a `ProviderError`; `Sweep` ends a pass
and begins the retry pass or returns. `todo` is what this pass has still to send,
`out` the verdicts, and three counters are returned.
`JudgeAnswer` is the chain of conditions one row goes through. `PTGuards` and
`WWFGuards` are the guards as ordered rules over a name, which is the set of the
vocabulary expressions it contains; `DecisionList` has what both are made of.

`SyncClassify` is `classify_upload`: `Classify` begins, each product is one of
`ProductGone`, `Skip`, `Rules` or `PutOff` for the AI (`AskAI`, `Apply`), a verdict is
a row (`StoreRow`) and a review item (`StoreItem`), and `Answer` ends it, while
people decide (`Decide`) and the upload may be deleted (`DeleteUpload`). `AICalls`
has a call and the synchronous requests beside each other.

### Review

One methodology. `items[p]` is the row of `manual_reviews` with its `lock` and
the time it `expires`; `cls[p]` keeps a category and who chose it; `now` ticks.

| Code | Actions |
|---|---|
| `claim_review_item`, `release_review_item`, `refresh_review_lock`, `assign_review_item` | `ClaimRead`, `ReleaseRead`, `RefreshRead`, `AssignRead`, each followed by `LockWrite` of the copy |
| `submit_decision` | `DecideItem`, or `DecideUnqueued` and `Synthesise`; then `ReadCurrent`, `ClassifyItem`, `Settle`, or `DecisionFails` |
| `bulk_submit_decision` | `BulkStart`, one `BulkCheck` per item or `BulkReject`; then the same steps, item by item |
| a batch of `advance_classification_job` | `JobCreate`, `JobClassify`, `JobEnqueue` |

A request reads the clock together with the row it checks. A bulk request names
each product once. Who an item is assigned to guards nothing.

### Calculation

`ProteinTracker.Run` and `WWFEngine.Run` are the engines as functions of a
catalogue, in whole numbers of the last decimal place, every `quantize` included
(`Rounding`). `Enrichment` has the records an endpoint appends and
`Selected`, which of them the engine takes. `Projection.Project` is
`project_pt_scenario`. `Step2Ingredients` is the upload of a companion file:
`UploadInvalid`, or `UploadValid` (the clear), `StoreProduct` one by one, where
Postgres refuses the insert (`InsertBreaks`), and `Answer` once all are stored;
`Break` is the request that dies before it answers.

`Workflow` is `compute_workflow_status` over counts, `RunReady` the gate.
`CalculationRun` puts them together for a project whose methodologies (`enabled`)
are chosen with it: products arrive (`Upload`, `AddProduct`), are
classified, decided and enriched (`Classify`, `Decide`, `ApplyReferences`,
`SubmitManualNutrition`, `CreateManualEnrichment`, `ApplyCategoryAverage`), while
a request passes the gate (`CreateRun`), lists (`ListProducts`), reads
(`ReadClassifications`) and refuses or stores (`Refuse`, `Compute`, `DropEmpty`).

`PTScreens` has the classification table, the nutrition table, the preflight
and the coverage of a run. `PTReport`, `WWFReport` and `Reporting` have what is
told about a run: workbook sheets, contributors, coverage section, advice,
report document, exports and comparisons. They take the run and, as `now`, the
catalogue of the time of the report, which may be another one.

`Calculations` is the component as a whole: the project, its Step 2 uploads and a
computation that maps an input to everything told about it (`ComputeResult`). It
says what an input is (`IsInput`: the domain types of the code, as predicates on
catalogues of any size) and states the properties; `MCCalculation` gives it the
small inputs, and `CalculationProofs` proves it for all.

### Around a run

| Module | Code | Actions |
|---|---|---|
| `ReportExports` | export, submit, approve, reject, deliver routes, client download | `Render`; `ReadExport`, `WriteExport`, `AppendAudit`; `DownloadRead`, `CountInMemory` or `CountRead` and `CountWrite`, `SignUrl` |
| `Recommendations` | generate and the four transitions | `GenerateRead`, `Upsert`; `TransitionRead`, `TransitionWrite` |
| `Scenarios` | create, add operation, run, read | `CreateScenario`, `AddOperation`; `RunRead`, `Project`, `SaveResult`, `Promote`; `ReadResult` |
| `PipelineJobs` | `_create_and_dispatch`, `execute_job` | `Find`, `Add`; `Start`, `Handle`, `Succeed` or `SucceedBreaks`, `Fail` |
| `NevoApply` | the commands of the NEVO V2 review package | `Review`, `Validate`, `WriteApproved`, `MakePlan`, `StartApply`, `SkipRow`, `LookUpRow`, `WriteRow`, `RefuseRow`, `Propose`, `StartSplits`, `SkipSplit`, `LookUpSplit`, `WritePlant`, `WriteAnimal`; meanwhile `Classify`, `Enrich`; the two audits are `ApplyAudit`, `SplitAudit` |

The operators of `NevoApply` are those who have a command (`Crew`), a choice of
`Init`: one or several. `Outputs` has the five beside each other, recommendations
in memory and pipeline jobs on Postgres, where their properties hold.

### Browser

`WizardJobs` has the cards of the wizard page and the inline import. A handler is
a *chain* of requests, `[op, job, tries, mounted]`; slot 0 of a card is the probe
of a mount. The server serves a request and the handler takes the answer in one
step, since no handler reads what another one writes; `Fault` is a request that
never reaches the route, and an answer may be lost after the route has acted.
Admission (`Admit`) and insertion (`Create`) are separate steps. A job has an age
(fresh, paused, stale) instead of timestamps. What a job does to products is
left to `ClassificationJob` and `IngestionJob`.

## 3. What is checked

### Runs

Every instance is set in its `.cfg` or, where several stand side by side, in the
`MC` module, whose `MCInit` chooses one of them.

| Run | Instances | Result |
|---|---|---|
| `class_concurrent` | 3 products, 1 job, 2 requests, batch 2, 1 crash; symmetric | passes, 2.1M states |
| `class_sequential` | 2 products, 2 jobs, 1 request, batch 1 or 2, 1 crash, fair | passes, 272k states |
| `class_lost_cancel` | 2 products, 1 job, 2 requests, no crash | `CancelSticks` is violated |
| `ingestion` | a job of 4 rows: two tabs on Postgres (chunks of 1 or 3, inserts of 2, 1 fault), one tab in memory (chunks of 1 or 2, inserts of 1, 2 faults); 1 upload with 3 requests in memory, 2 uploads with 2 requests on Postgres, 1 death; files of a row that differs from a good one in two cells | passes, 493k states |
| `ai_calls` | every name of one or two expressions with every reply; calls of three products in batches of 2, retried one by one; synchronous requests: 3 in memory on 3 products, one of them without the methodology, and 2 that overlap on Postgres on 2 products, 1 death | passes, 841k states |
| `review_reviewers` | 1 product, 2 reviewers, 2 requests, 1 batch, 1 crash, lock time 1; symmetric | passes, 2.2M states |
| `review_final_word` | the same with 1 request, no crash | `FinalWord` is violated |
| `calculation` | every catalogue of two products for the engines; projects of one or two products (PT, both methodologies, WWF) with 2 workers; scenarios of up to three operations; Step 2 with 3 uploads in memory, 2 on Postgres | passes, 837k states |
| `manual_ignored` | a project whose values may differ | `LatestManualCounts` is violated |
| `outputs` | 1 export, 2 downloads, 2 requests; 2 actions of a recommendation in memory, 3 generations; 1 scenario with 2 operations; 3 pipeline jobs of 2 keys; NEVO: one operator on one product, two operators on one, one on two products; 1 death or fault each | passes, 819k states |
| `wizard_jobs` | a card alone, one pressed twice, two tabs, both methodologies, a card and an import; jobs of 2 chunks, 2 faults, 1 remount | passes, 353k states |
| `import_abandoned` | an import of 1 chunk, 2 faults | `ImportResumes` is violated |

What they show.

*Classification jobs.* However two requests overlap and whichever of them dies,
no product is lost (`NoProductSkipped`), processed plus pending is the total
(`ProgressAddsUp`) and completed means classified (`CompletedIsComplete`). The
reason is that a chunk leaves the list only in the write that follows its
verdicts; mutants that claim it earlier, slice it wrongly or count it
differently break these properties. With one request at a time more is true: a
terminal row is never written again (`TerminalIsFinal`), a failed row keeps a
job from ending as plain completed (`FailuresShow`), a placeholder has its review
item or is on the list of an active job unless a request died and the job was then
stopped (`PlaceholderNotStranded`), polling ends (`JobSettles`), and the rows
implement `JobLifecycle` (`ImplementsLifecycle`). None of these five holds with two
tabs. The exception in `PlaceholderNotStranded` is real: the list of a cancelled,
failed or swept job is not served again. A default Protein Tracker job created
later lists the product, a default WWF job does not.

*From file to products.* Two tabs do no harm to the counters (`RowsAccounted`),
the table is never behind the job (`InsertedArePresent`), a job without errors
has ingested the file, one that completed "with errors" shows some and in memory
has no row left (`CompletedMeansIngested`), and in memory a repeated chunk
is harmless (`MemoryRepeatIsHarmless`); on Postgres it is not. A report of an
upload means its products are stored (`ReportMeansStored`), whatever is posted
again or deleted. Every row of a file becomes a product, an error or is counted
as skipped, and a file read for both methodologies keeps a row that either
accepts (`RowsAreAnswered`); and what the preview calls missing is what the
import misses (`PreviewKeepsItsWord`).

*AI.* A verdict that skips review is one the model gave, above the threshold and
untouched by guards, fallbacks and the retry (`AcceptedIsTheModels`). A call that
returns has one verdict per product, and nothing the model answers makes a call
raise but, for WWF, a composite whose fallback lacks its subgroup
(`OneVerdictEach`); the counters cover the failed products (`FailuresAreCounted`). A synchronous request that was answered, and
that no other overlapped, left no doubtful product out of the queue
(`AnsweredMeansSeen`).

*Review.* The soft lock does not exclude anybody: two claims that overlap are
both granted. What the order of the writes does give is checked instead: an item
leaves the queue only after a manual classification is stored
(`RemovedIsDecided`, for queues no batch has touched), a request with a stale
copy never undoes a decision (`FinalWordUnlessListed`), and no sequence of stale
writes keeps an item locked beyond the lock time (`LockIsBounded`).

*Calculation.* The engines' totals are the sums of what they list and shares
make 100 (`EnginesReconcile`), a projection keeps mass and its skips change
nothing (`ProjectionBalances`), the screens agree with the run they announce
(`ScreensAgree`), and workbooks, coverage, advice, exports and comparisons
follow from the run and each other (`ReportsReconcile`). A run the workflow calls
ready is one the engine accepts (`GateMatchesEngine`), a strict run has a row
for every product its gate saw, although list and classifications are read
after the gate (`StrictRunsAreFull`), the wizard always has an open step
(`WizardLeadsOn`) and a companion file replaces what was stored
once it is accepted (`Step2IsStored`; on Postgres it never is, see below).

*Around a run.* What a client downloads was approved by a lead
(`ClientsGetApproved`); a scenario clients see has a result (`ActiveHasResult`);
no two requests execute one key at once (`OneAtATime`); a pipeline job ends whatever
its handler raises and whichever other request dies, its own excepted (`JobsEnd`); a decision on a recommendation survives in memory
(`PromotedIsKept`); products whose two NEVO audits pass are calculated with the
audited values, and one operator applies nothing twice (`VerifiedIsUsed`).

*Browser.* Whoever keeps pressing the button the page offers sees the end of the
job (`UserGetsThrough`), and no loop polls for ever, an unmounted or deleted one
included (`LoopsStop`).

### Divergences the runs found

1. A cancel is lost to an advance in flight (`class_lost_cancel`): the update has
   no `WHERE updated_at`, `persistence/postgres.py:1093`.
2. Manual review is not the final word (`review_final_word`): a product listed
   when the job was created and decided while it runs gets the verdict of the
   AI, `api/classification_job_orchestrator.py:809`.
3. A manual value that corrects an earlier one is stored and not used
   (`manual_ignored`): `enrichment/selection.py:86` takes the oldest of a source.
4. An import whose loop gave up cannot be resumed (`import_abandoned`), though
   the page says "Click Retry": `_inline-upload.tsx:304`.

### Seen while modelling

Not given a run each; the modules behave as the code does.

*Jobs.* A second advance is not rejected, the check is a `pass` statement
(`classification_job_orchestrator.py:597`), and two tabs can undo each other's
commits. The docstring of cancel says it takes effect on the next advance, the
code cancels at once, so the `cancel_requested` branch is unreachable. The
failure counters walk Protein Tracker rows only. A default WWF job skips UNKNOWN
placeholders, also one whose request died before its review item and whose job was
stopped: no reviewer is asked about it. Halving a retry batch below 20 enlarges it. On Postgres a repeated
ingestion chunk reports rows that are there as errors (a job of one chunk ends
FAILED), and the sweep completes a stalled job with rows pending if it has some
errors, against its docstring.

*Uploads.* On Postgres the original of a duplicate cannot be deleted
(`duplicate_of_upload_id` has no `ON DELETE`), and ingesting twice makes two
uploads duplicates of each other or raises after the record was updated; in
memory it doubles the products and orphans the first ones. A record is ready for
classification before its products are stored. Uploads that fail validation
have their good rows inserted. The synchronous rules path overwrites manual
decisions.

*CSV.* A density of 0 raises out of `parse_row` and fails the file. Column order
matters when two columns map to one field. Commercial columns are not stripped
when remapped (`pipeline.py:58-60` says they are). `purchase_price` becomes
`items_purchased`. Half a protein split rejects a row that the normaliser's
docstring keeps. Rows starting with "#" are skipped uncounted; a blank last line
is an error. The preview misses `external_product_id` for WWF and weights in
pounds and ounces, which the import reads. "1,234" is 1.234.

*AI.* Names of a dish can end outside the composites (`wwf_guards.py:1858`). A
readable composite without a subgroup raises a `ValidationError` out of
`batch_classify`; the synchronous route does not catch it. "inconnu" in place of
unknown bypasses fallback, food guard and safety net. Comments on the order of
the guards are contradicted by the code. The guard for composites builds rows
that the domain model refuses when Postgres reads them.

*Review.* `reopen_after_defer` has no caller, so a deferred product cannot be
decided again. Overlapping claims are both granted, against `review/locks.py:4`.
A batch that queues an item drops its lock. A bulk change is not all or nothing:
`change_pt_item` may refuse half way (`orchestrator.py:1709`). `submit_decision`
does not store the record that `bulk_submit_decision` stores.

*Calculation.* Partial mode removes the blocker "classification required" and the
engine then raises. A strict run is refused once any run exists, and in a dual
project a WWF run closes the strict PT gate. An empty run stays on Postgres. Of
several records the screens show the newest, the engine takes the oldest. The
route accepts splits within 2 percentage points, the engine within 0.0001. On
Postgres Step 2 rows are inserted without their organisation, which the schema
refuses, after the old ones were deleted (`postgres.py:982`): the file is lost.
Overweight Step 2 data only warns and then fails the run. Projected shares may
add up to 100.0001.

*Reports.* `DomainBase` is strict, and `summary_payload` comes back from Postgres
as strings, so `render_export` (`orchestrator.py:2001`, `:2056`) and
`build_run_comparison` (`comparisons/engine.py:317`) raise there. The model
renders on both stores. "Must match `rows_count`" in the preflight does not
hold: the engine includes rows the screen leaves out. An old run's workbook,
exports and coverage join it with live classifications, items and weights.

*Delivery.* A delivered export can be approved or rejected again. In memory an
export is rebuilt with its download count and delivery state reset. On Postgres
`append_audit` reads fields its event does not have, so no event is stored. The
report route gives clients drafts. On Postgres a second generation resets
recommendations (`postgres.py:1648`, against `routes.py:4597`). A pipeline job
whose write of "succeeded" fails is marked failed although its work is done.

*NEVO V2.* A stale plan is detected by its count alone. The approved file is
written even when the package has errors, and after the summary. Half a pair of
splits is never repaired, and neither audit notices a later reclassification.
Two operators can double a total; the audits detect it.

*Wizard.* The resume after a 409 is not awaited, so a second press starts a
second loop. "Launch both" is refused by the heavy guard for large uploads.
After a reload a completed card offers a Retry that does nothing. The guard
compares the size of the upload but counts jobs by their products.

## 4. Bounds and fairness

Two requests are enough for every race of a pair of handlers; a third would
only add a second stale copy of the same row, and the theorems cover any number.
Three products with batch 2 give a full batch, a short last batch and an empty
list; two jobs give a job and its retry, or the job that a race of two creates
adds. `MaxCrashes`, `MaxDeaths` and `MaxFaults` bound failures; `JobId`,
`MaxRequests`, `MaxExports`, `MaxScenarios`, `MaxJobs`, `MaxRuns`, `MaxReviews`,
`MaxEntries` bound what is ever created. Four rows with chunk 3 and inserts of 2
give a chunk that takes two inserts and a short last chunk. With lock time 1, a
clock that ticks once gives a lock that is held and one that has expired.
`Bulk` keeps requests for several items out of the instances that are not about
them. A file has two rows, and two cells of a row differ from a good one, since
a rule reads two cells at most; a name has at most two expressions, since a
guard is triggered by one and excepted by another. The engines add up, so two
products show every interaction of rows. `GiveUp` is 2 instead of 5 and the
faults of an instance reach it. `CHECK_DEADLOCK FALSE` is used because the
systems stop when every job has ended and the bounds are used up.

Fairness. `Serve(w)` is weakly fair: a request the server has accepted goes on
to its next store call unless it dies. `AdvanceRead` is weakly fair per job:
`pollJob` in `page.tsx` and `_inline-upload.tsx` calls advance until the answer is
terminal. The classification loop gives up after five failures in a row; the
number of crashes in an instance is below five. In `WizardJobs` the give-up is
modelled and so is what it leaves to the user, who is assumed to press what the
page offers (`PressOn`) and to choose a file again (`PickFile`); a job nobody
advances grows old (`Age`). In `PipelineJobs` the process that runs a job goes
on unless it dies. Nothing is assumed about creates, cancels, retries or faults.

`JobSettles` of the classification job holds with one tab only: the RUNNING
write of `AdvanceStart` puts a stale pending list back, so two tabs whose
requests overlap exactly can undo each other's commits for ever. An ingestion
job writes RUNNING only once, and settles with two tabs.

## 5. What is proved

Eight modules of proofs, for every value of the constants that satisfies the
module's `ConstantsAssumption` (finite sets of products, batches and chunks of at
least one, numbers that are numbers). A theorem that needs more says so:
`OneTab` (a single worker), `Store = "memory"`, `Methodology = "pt"`. Each of these
is needed, since the code does otherwise without it. Where only one of the cases
has a property, the property names it: `MemoryRepeatIsHarmless` begins with
`store = "memory"`, `AppliedOnce` with `OneOperator`. Every invariant and action
property of a run that passes is stated by a theorem; the runs have small
instances, the theorems any.

No invariant here is inductive alone. Nearly always the reason is the same: a
handler acts on what it read some time ago. So each strengthening says of *every
copy a request may still write back*, or every plan it may still act on, what
the invariant says of the tables, in a form that other requests cannot
invalidate.

| Module | Theorems | Strengthening |
|---|---|---|
| `ClassificationJobProofs` | `Soundness`, `TypeCorrect`, `NothingIsSkipped`, `ProgressIsRight`, `RetriesRepeatWork`, `CompletionIsEarned`; with one tab `EndedStaysEnded`, `PlaceholdersAreKept`, `FailuresAreShown`, `OneTabImplements` | `IInv`; `CopyIsCurrent`, `RecordInv`, `OpenIsCurrent`, `CountIsCurrent` |
| `IngestionJobProofs` | `TypeCorrect`, `EveryRowIsAccounted`, `NothingInsertedIsMissing`, `CompletionIsEarned`; in memory `RepeatsAreHarmless`, and with one tab `OneTabImplements` | `StoredAreSound`, `CopiesAreSound`, `ChunkIsKept`, `CaveatsAreTrue`; `MemoryInv` |
| `UploadRecordsProofs` | `TypeCorrect`, `ReportsAreTrue`, `DeletesTakeTheirOwn`; of files `NoRowVanishes`, `BothKeepWhatEitherKeeps`, `PreviewIsRight`, and of what is imported `ImportsAreAnswered`, `PreviewsAreRight` | `OneOwner`, `Inserted` |
| `BatchClassifierProofs` | `BatchesKeepTheirWord`, `EveryProductIsAnswered`, `NothingAcceptedIsMadeUp`, `FailuresReachTheCounters`, `AnsweredHaveSeen` | `BatchInv`, `RaisedInv`; `SyncInv` |
| `ReviewQueueProofs` | `TypeCorrect`, `LocksAreBounded`, `RemovalsAreDecided`, `FinalWordKept` | `HasWork`, `CopyIsOpen`, `CopyIsBounded`, `DeletesDecided` |
| `CalculationProofs` | `TypeCorrect`, `GateIsTheEngines`, `RunsAreFull`, `WizardAlwaysLeadsOn`, `StepTwoReplacesAll`, `BooksAreKept`, `ProjectionsBalance`, `ScreensTellTheRun`, `ReportsTellTheRun`; the last four put together what is proved of the engines, `TrackerBooksBalance`, `WWFBooksBalance`; of scenarios `ScenariosBalance`, `OrderDoesNotMatter`; of screens `ShownValueIsUsed`, `ReadyIsCalculated`, `CoverageIsTrue`, `TablesAddUp`, `PreflightIsTrue`; of reports `TrackerReportsAgree`, `WWFReportsAgree`, `ComparisonsAgree`, `ComparisonsMirror` | `Passed`; `PartStored` |
| `ReportExportsProofs` | `OnlyApprovedLeaves`, `DeliveriesAreTraceable` | `RequestsFit`, `ApprovedFirst`, `ApprovalLogged` |
| `OutputsProofs` | `NoEmptyScenarioShown`, `KeysExclude`; in memory `DecidedStaysDecided`; `NothingIsAppliedTwice`, `AuditsTellWhatIsUsed` | `RunsInOrder`; `OwnJob`, `OneActive`; `RecsIInv`; `NevoIInv`; `TraceInv` |

The arguments:

- *Classification jobs.* `RowInv(row, items, done)` has each product of the job
  either on the list of the row or in `done`, the products that are classified.
  `done` only grows and so does `RowInv` in it (`RowInvGrows`), so a copy that was
  right when it was read is right when it is written. `RequestInv` ties the
  progress of a request to its copy: what it has handled of the chunk is
  classified, so the row it commits satisfies `RowInv` (`BatchRowInv`). TLC checks
  the same `IInv` in `class_concurrent`. With one tab the copy is the row
  (`CopyIsCurrent`), which gives the action properties and, step by step, the
  refinement of `JobLifecycle`. For placeholders, what a request has
  handled of its chunk has its review items, so the row it commits takes none from
  the list that lacks one (`RecordInv`, `CommitStrandsNothing`), and while nothing
  has died the only placeholder without an item is the one being written
  (`OpenIsCurrent`). So only a step that stops a job after a death strands one (`StopStrands`).
- *Ingestion jobs.* `Sound(row, ...)` is the account of a row, of the table or
  held by a request; `products` only grows. In memory the products are exactly
  the well-formed rows of what was sliced (`MemoryInv`), so a second insert
  counts what the first one counted; a server keeps its store (`StoreStays`).
- *Uploads.* In memory a delete goes by listed ids. Every id has one owner among
  products, jobs, records and requests in flight (`Owners`), so no delete takes
  another upload's rows and a report stays true.
- *Files.* A row without errors has a weight and at least one methodology it
  satisfies, which is what makes it a product; the others are in the report. Both
  sets are defined on the same data rows, so none is in both or in neither. The
  preview looks for columns and the import for cells: a required field with a
  column has a cell, so what is missing then is a number in it. An import is done
  once, with what was chosen (`Imports`), so `RowsAreAnswered` and
  `PreviewKeepsItsWord` hold of whatever is imported.
- *AI.* In a call, what was sent, what is still to do and what has a verdict
  cover the products, and the counters cover the failures (`BatchInv`); accepted
  verdicts are the model's since guards only lower. For the synchronous request,
  each unsettled product is in the queue or still ahead of it (`NothingMissed`),
  which other steps keep while it is alone.
- *Review.* A copy that will be written is open and its lock is bounded by what a
  lock taken now would have; a delete is preceded by a manual classification.
- *Calculation.* The gate read counts; `GateIsRight` turns "no gaps" into
  statements on products (`Counting`), `SelectedFinds` and `AppendingKeeps` show
  that appended records never take a value away, so a request that has passed the
  gate keeps what it was promised (`Passed`). `SharesMake100` is the argument on
  rounding half to even: two halves cannot both be rounded up or both down.
- *Screens.* The table takes the newest record of the first source, the engine
  the oldest of the best: with one value per source both are the same
  (`OnlyOneIsShown`). Having a value to show and having a row in a run come to
  the same (`ValueMeansRow`), so what preflight and coverage count are the rows.
- *Sums.* The library's induction theorems take an operator, so induction is stated
  for a set (`SubsetInduction`, `NumberInduction`: a set that has the start and is
  closed under the step has everything). `MapThenSumSet` and `FoldLeft` are
  unfolded to the recursive functions they choose (`SumsOf`, `FoldLeftIs`); that
  these exist and are unique is shown along the subsets of a finite set. From there
  sums split (`SumOfUnion`), compare (`SumOfLess`) and can be counted by key without
  loss (`SumByKey`).
- *Engines.* `TrackerBooksBalance` and `WWFBooksBalance` together are
  `EnginesReconcile` (`BooksAreKept`). Rounding is bounded row by row (`Rounded`,
  `SplitRounds`) and the bounds are summed; the weights of a WWF run are sums over
  parts, and every part belongs to one product and one food group (`AllPartsFit`).
- *Tables.* Counters by source and group count disjoint sets that cover what is
  listed (`CountsByKey`). The preflight's sum leaves out products without weight,
  which weigh nothing in the run, and no food group can weigh more than the total
  unless Step 2 adds to it (`GroupIsWithin`): so before Step 2 nothing is refused.
- *Scenarios.* What an operation adds to a group does not depend on the masses
  (`ApplyAdds`), as long as nothing is clamped in between. So any number of them
  adds a sum (`AppliedAdds`), which does not depend on their order; the stable sort
  is a permutation (`SortedFits`). With `ScenariosBalance` and
  `OrderDoesNotMatter`, `ProjectionBalances` is proved (`ProjectionsBalance`).
- *Reports.* With the two theorems on comparisons, `TrackerReportsAgree` and
  `WWFReportsAgree` are `ReportsReconcile` (`ReportsTellTheRun`); `now` is any later
  state of the project. The workbook decides again what is plant and what is animal; row by
  row that is the engine's decision (`AmountsOfRow`), so its sums are the headline's
  (`AmountsAreSums`) up to the one rounding of the composite pool
  (`HalvesOfThePool`). A list of contributors picks the product with so many before
  it; "before" is a strict order, so ranks differ and each is taken
  (`RanksDiffer`, `RanksAreTaken`), and the list is what weighs most
  (`ListIsTheTop`). The level of uncertainty is a threshold on rounded quotients,
  which one more never lowers (`MoreIsAtLeast`, `LevelIsHonest`). Advice is a
  sequence of rules of which the first of each action remains (`FirstFits`).
  Shares with different divisors are compared after rounding half to even, which
  keeps their order (`RoundingKeepsOrder`): a comparison may call a change stable,
  but never points against the kilograms.
- *Exports, jobs, scenarios, recommendations.* A request carries the status it
  read; what it writes presupposes an approval that is recorded already.
- *NEVO.* With one operator, what a command read is still so when it writes
  (`CommandFits`), hence at most one total and one half of each kind (`Once`). With
  any number this is false; but each record the commands appended carries a
  value of NEVO, and the audits count them, so whatever passes them
  (`AuditsPassed`) is what `Selected` takes (`PassedIsSelected`). Both together
  are `VerifiedIsUsed`.

Assumed throughout: products are not deleted while a classification or
calculation job runs, product lists have no duplicates (the Postgres query pages
without an order, which in principle allows one), and no request outlives the
30 minutes of the stale sweep.

The theorems about files, screens and scenarios assume that what they are given
is what its name says; for those of `Calculations` `IsInput` puts this together:
`IsTable` (headers, and data rows of cells once
`SelectSeq` has dropped the comments), `IsCatalogue` (records are records, and a
product has a group if and only if somebody classified it), `ShownCatalogue` (a
source and a group are of the enumerations), `PTCatalogue`, `WWFCatalogue` and
`WWFIngredients` (finitely many products with quantities that are not negative, a
composite in scope has one of the four buckets, an ingredient a food group) and
`IsPlan` (a list of operations whose amounts and orders are numbers). Those about
reports also take `StoredNow` (sources and review statuses are of the
enumerations), `SameFile` (no request changes what the file said about a product),
`OnlyCompositesAreFiled` (the validator of `domain/wwf.py:198`), `FiledNow` (a
classified product has a food group, is out of scope or unknown), and products
numbered in the order of the run, which is how equal contributors are ordered. Those about
numbers also assume what `Calculations` assumes of the units
(`PTConstantsAssumption`, `WWFConstantsAssumption`: positive, and 100 percent an
even number of units of a share). The properties of the run `calculation` are
stated for the inputs that satisfy `IsInput`, and TLC has checked that all inputs
of the run do.

Only model-checked:

- liveness: `JobSettles`, `JobsEnd`, `UserGetsThrough`, `LoopsStop`. The prover has
  no rule for fairness and `ENABLED`;
- the guards as tables of rules: the proofs about batches hold for any guards
  that keep `AcceptedIsTheModels`' case distinction, the tables themselves are
  enumerated in `ai_calls`.

## 6. Not modelled, and what is next

Project lifecycle: a transition table nobody consults. Authorisation, admin,
rate limits, observability: checks of one request. Demo mode: off by default,
and with it the demo branch of advance. Migrations: the source of the unique
indexes and foreign keys assumed. The patterns of the rules engine, prompts,
matchers, embeddings and benchmarks: data and text scores; the models take any
outcome of them. Rendering of files, signed URLs, response shapes. Row-level
conversions of the mappers, except where a property depends on a lost field.

Next: the refinement of `JobLifecycle` by an ingestion job on Postgres, where a
repeated chunk has to be treated as an error; the audit trail of
`ReportExports` on Postgres once events are stored.

----------------------------- MODULE WizardJobs -----------------------------
(***************************************************************************)
(* The browser and the server around the chunked jobs: the wizard page     *)
(* (workflow/page.tsx, workflow/_inline-upload.tsx) that creates, drives,  *)
(* resumes and retries jobs, and the routes that admit them (the active    *)
(* job of an upload, the heavy-job guard, the stale sweep).  What a job    *)
(* does to products is the matter of ClassificationJob and IngestionJob:   *)
(* here a job has a number of chunks left.                                 *)
(*                                                                         *)
(* A card is one job widget of one open page.  Its handlers are chains of  *)
(* requests: the answer to each decides the next.  No handler reads what   *)
(* another one writes, so an answer is handled as it is given.             *)
(***************************************************************************)
EXTENDS Naturals, Sequences, FiniteSets

CONSTANTS
    Card,           \* [page, upload, kind] of every widget
    Chunks,         \* chunks of a whole upload
    HeavyChunks,    \* the heavy threshold, in chunks
    GiveUp,         \* failures in a row that end a polling loop (5 in the code)
    MaxChains,      \* bound: chains of each card that run at the same time
    Deletable,      \* bound: uploads that somebody may delete
    MaxJobs,        \* bound: jobs from which on a card that shows an end is left alone
    Fallible,       \* bound: the cards whose requests may fail
    MaxFaults,      \* bound: requests that fail or whose answer is lost
    MaxRemounts     \* bound: reloads and navigations

\* What the constants are: the module that gives them values assumes it.
ConstantsAssumption ==
    /\ \A c \in Card : c.kind \in {"protein_tracker", "wwf", "import"}
    /\ {Chunks, HeavyChunks, GiveUp} \subseteq Nat \ {0}
    /\ Deletable \subseteq {c.upload : c \in Card}
    /\ Fallible \subseteq Card
    /\ MaxChains \in [Card -> Nat \ {0}]
    /\ MaxJobs \in [Card -> Nat]
    /\ {MaxFaults, MaxRemounts} \subseteq Nat

VARIABLES
    open,       \* the cards on somebody's screen
    jobs,       \* both job tables, in the order of creation
    deleted,    \* uploads that were deleted
    page,       \* the React state of a card
    chain,      \* the chains of a card; chain 0 is the probe of a mount
    faults,     \* requests that may still fail
    remounts    \* reloads and navigations still to come

server == <<jobs, deleted>>
vars == <<open, server, page, chain, faults, remounts>>

Active == {"queued", "running"}
Completed == {"completed", "completed_with_errors"}
\* CLASSIFICATION_JOB_TERMINAL_STATUSES, INGESTION_JOB_TERMINAL_STATUSES
Terminal == Completed \cup {"failed", "cancelled"}

JobId == DOMAIN jobs
Imports(c) == c.kind = "import"
Of(c) == {j \in JobId : jobs[j].upload = c.upload /\ jobs[j].kind = c.kind}

(***************************************************************************)
(* A chain: the request on its way, the job it is about, the failures in a *)
(* row of a polling loop, and whether its page is still there.             *)
(***************************************************************************)
NoChain == [op |-> "none", job |-> 0, tries |-> 0, mounted |-> FALSE]
Chain(op, job) == [op |-> op, job |-> job, tries |-> 0, mounted |-> TRUE]
Chains(c) == 0 .. MaxChains[c]

Nothing == [job |-> 0, status |-> "none"]
Shows(c, statuses) == page[c].shown.status \in statuses

\* An import that was ever created has left an upload, and the page then shows
\* the upload instead of the file picker.
Fresh(c) ==
    [busy |-> FALSE, shown |-> Nothing, file |-> FALSE,
     imported |-> ~Imports(c) \/ Of(c) # {}]

Probe(c) == IF Imports(c) THEN NoChain ELSE Chain("detect", 0)

Init ==
    /\ open \subseteq Card
    /\ jobs = <<>>
    /\ deleted = {}
    /\ page = [c \in Card |-> Fresh(c)]
    /\ chain = [c \in Card |-> [k \in Chains(c) |->
                    IF k = 0 /\ c \in open THEN Probe(c) ELSE NoChain]]
    /\ faults \in 0 .. MaxFaults
    /\ remounts \in 0 .. MaxRemounts

SetChain(c, k, new) == chain' = [chain EXCEPT ![c][k] = new]
Send(c, k, op, job, tries) ==
    SetChain(c, k, [chain[c][k] EXCEPT !.op = op, !.job = job, !.tries = tries])

-----------------------------------------------------------------------------
(* The handlers.  An answer is a job and its status, or says why not.      *)

Answer(j, status) == [job |-> j, status |-> status]
Copy(j) == Answer(j, jobs[j].status)
Refusal(why) == Answer(0, why)

\* The component that sent the request may be gone by now: the chain goes on all
\* the same, and shows nothing.
Show(c, k, new) ==
    IF chain[c][k].mounted THEN page' = [page EXCEPT ![c] = new]
    ELSE UNCHANGED page

Idle(c) == [page[c] EXCEPT !.busy = FALSE]

\* The handler ends: .finally(() => setBusy(false)).
Finish(c, k, new) == Show(c, k, new) /\ SetChain(c, k, NoChain)

\* What is left of the page after a loop: an import is over, whatever became of
\* its job, and its file is gone from the picker.
After(c) ==
    IF Imports(c) THEN [Idle(c) EXCEPT !.file = FALSE] ELSE Idle(c)

(***************************************************************************)
(* A handler got a job: it shows it and polls it; resuming a job that has  *)
(* ended only shows it.                                                    *)
(***************************************************************************)
HandleJob(c, k, got) ==
    LET shown == [page[c] EXCEPT !.shown = got]
    IN  /\ chain[c][k].op \in {"create", "insert", "get", "retry"}
        /\ got.status \in Active \cup Terminal
        /\ IF chain[c][k].op = "get" /\ got.status \in Terminal
           THEN Finish(c, k, [shown EXCEPT !.busy = FALSE])
           ELSE Show(c, k, shown) /\ Send(c, k, "advance", got.job, 0)

(***************************************************************************)
(* The upload has an active job: it is resumed.  The resume is not awaited *)
(* (void handleResumeClassify), so the finally of the first handler clears *)
(* the busy flag while the resumed job is being polled.                    *)
(***************************************************************************)
HandleConflict(c, k, got) ==
    /\ got.status = "conflict"
    /\ Show(c, k, Idle(c))
    /\ Send(c, k, "get", got.job, 0)

HandleError(c, k, got) ==
    /\ chain[c][k].op \in {"create", "insert", "get", "retry"}
    /\ got.status \in {"error", "heavy"}
    /\ Finish(c, k, Idle(c))

HandleProgress(c, k, got) ==
    /\ chain[c][k].op = "advance" /\ got.status \in Active
    /\ Show(c, k, [page[c] EXCEPT !.shown = got])
    /\ Send(c, k, "advance", got.job, 0)

\* The job has ended: the loop refreshes the page and stops.
HandleEnd(c, k, got) ==
    /\ chain[c][k].op = "advance" /\ got.status \in Terminal
    /\ Finish(c, k, [After(c) EXCEPT !.shown = got, !.imported = TRUE])

\* Mutant: the failures are not counted.
HandlePollErrorForEver(c, k, got) ==
    /\ chain[c][k].op = "advance" /\ got.status = "error"
    /\ UNCHANGED <<page, chain>>
(***************************************************************************)
(* A request of the loop failed: it tries again, and after GiveUp failures *)
(* in a row it stops.                                                      *)
(***************************************************************************)
HandlePollError(c, k, got) ==
    LET tries == chain[c][k].tries + 1
    IN  /\ chain[c][k].op = "advance" /\ got.status = "error"
        /\ IF tries >= GiveUp THEN Finish(c, k, After(c))
           ELSE Send(c, k, "advance", chain[c][k].job, tries) /\ UNCHANGED page

\* The probe of a mount: an active job is shown, and offered for resuming.
HandleProbe(c, k, got) ==
    /\ chain[c][k].op = "detect"
    /\ Finish(c, k, IF got.status = "error" THEN page[c]
                    ELSE [page[c] EXCEPT !.shown = got])

Handle(c, k, got) ==
    \/ HandleJob(c, k, got) \/ HandleConflict(c, k, got) \/ HandleError(c, k, got)
    \/ HandleProgress(c, k, got) \/ HandleEnd(c, k, got)
    \/ HandlePollError(c, k, got) \/ HandleProbe(c, k, got)

\* The answer of a request arrives, or is lost.
Reply(c, k, answer) ==
    /\ \/ Handle(c, k, answer) /\ UNCHANGED faults
       \/ /\ c \in Fallible /\ faults > 0
          /\ faults' = faults - 1
          /\ Handle(c, k, Refusal("error"))
    /\ UNCHANGED <<open, deleted, remounts>>

-----------------------------------------------------------------------------
(* The routes *)

\* find_active_classification_job
FindActive(c) == {j \in Of(c) : jobs[j].status \in Active}

Heavy(j) == jobs[j].total >= HeavyChunks

\* Mutant: the count has no age limit (the guard before Phase 35-stale).
CountActiveHeavyEver == {j \in JobId : jobs[j].status \in Active /\ Heavy(j)}
\* count_active_heavy_*_jobs within the active window
CountActiveHeavy ==
    {j \in JobId : jobs[j].status \in Active /\ Heavy(j) /\ jobs[j].age = "fresh"}

\* will_be_heavy: the size of the upload, or of the file, stands for the job.
WillBeHeavy == Chunks >= HeavyChunks

\* cancel_stale_*_jobs
CancelStale ==
    [j \in JobId |->
        IF jobs[j].status \in Active /\ jobs[j].age = "stale"
        THEN [jobs[j] EXCEPT !.status = "cancelled"] ELSE jobs[j]]

NewJob(c, status, total) ==
    [upload |-> c.upload, kind |-> c.kind, status |-> status,
     total |-> total, left |-> total, age |-> "fresh"]

Lost(j) == jobs[j].status = "gone"

(***************************************************************************)
(* POST .../classification-jobs, POST .../ingestion-jobs: an upload that   *)
(* has an active job gets the identity of that job (an import never has:   *)
(* its upload is minted with it); a heavy upload is refused while a heavy  *)
(* job advances anywhere; otherwise the stale jobs are swept               *)
(***************************************************************************)
Admit(c, k) ==
    /\ chain[c][k].op = "create"
    /\ IF c.upload \in deleted THEN Reply(c, k, Refusal("error")) /\ UNCHANGED jobs
       ELSE IF ~Imports(c) /\ FindActive(c) # {}
       THEN /\ \E j \in FindActive(c) : Reply(c, k, Answer(j, "conflict"))
            /\ UNCHANGED jobs
       ELSE IF WillBeHeavy /\ CountActiveHeavy # {}
       THEN Reply(c, k, Refusal("heavy")) /\ UNCHANGED jobs
       ELSE /\ Send(c, k, "insert", 0, 0)
            /\ jobs' = IF WillBeHeavy THEN CancelStale ELSE jobs
            /\ UNCHANGED <<open, deleted, page, faults, remounts>>

(***************************************************************************)
(* and the job is added, with the products that still need it.             *)
(***************************************************************************)
Create(c, k) ==
    /\ chain[c][k].op = "insert"
    /\ IF c.upload \in deleted THEN Reply(c, k, Refusal("error")) /\ UNCHANGED jobs
       ELSE \E total \in IF Imports(c) THEN {Chunks} ELSE 0 .. Chunks :
            /\ jobs' = Append(jobs, NewJob(c, "queued", total))
            /\ Reply(c, k, Answer(Len(jobs) + 1, "queued"))

\* GET .../classification-jobs/active
GetActive(c, k) ==
    /\ chain[c][k].op = "detect"
    /\ IF FindActive(c) = {} THEN Reply(c, k, Refusal("error"))
       ELSE \E j \in FindActive(c) : Reply(c, k, Copy(j))
    /\ UNCHANGED jobs

\* GET .../classification-jobs/{id}
GetJob(c, k) ==
    LET j == chain[c][k].job
    IN  /\ chain[c][k].op = "get"
        /\ Reply(c, k, IF Lost(j) THEN Refusal("error") ELSE Copy(j))
        /\ UNCHANGED jobs

(***************************************************************************)
(* POST .../advance: one chunk less.  A job that has ended is returned as  *)
(* it is; one whose upload is gone is a 404.                               *)
(***************************************************************************)
Advance(c, k) ==
    LET j == chain[c][k].job
        left == jobs[j].left
    IN  /\ chain[c][k].op = "advance"
        /\ IF Lost(j) THEN Reply(c, k, Refusal("error")) /\ UNCHANGED jobs
           ELSE IF jobs[j].status \in Terminal
           THEN Reply(c, k, Copy(j)) /\ UNCHANGED jobs
           ELSE \E status \in IF left > 1 THEN {"running"} ELSE Terminal \ {"cancelled"} :
                /\ jobs' = [jobs EXCEPT ![j].status = status, ![j].age = "fresh",
                                        ![j].left = IF left = 0 THEN 0 ELSE left - 1]
                /\ Reply(c, k, Answer(j, status))

(***************************************************************************)
(* POST .../retry-failed: a new job of the products that failed.           *)
(***************************************************************************)
RetryFailed(c, k) ==
    LET j == chain[c][k].job
    IN  /\ chain[c][k].op = "retry"
        /\ IF Lost(j) THEN Reply(c, k, Refusal("error")) /\ UNCHANGED jobs
           ELSE \E total \in 0 .. jobs[j].total :
                LET status == IF total = 0 THEN "completed" ELSE "queued"
                IN  /\ jobs' = Append(jobs, NewJob(c, status, total))
                    /\ Reply(c, k, Answer(Len(jobs) + 1, status))

Serve(c, k) ==
    \/ Admit(c, k) \/ Create(c, k) \/ GetActive(c, k) \/ GetJob(c, k)
    \/ Advance(c, k) \/ RetryFailed(c, k)

\* A request that never reaches its route.
Fault(c, k) ==
    /\ chain[c][k] # NoChain
    /\ c \in Fallible /\ faults > 0
    /\ faults' = faults - 1
    /\ Handle(c, k, Refusal("error"))
    /\ UNCHANGED <<open, server, remounts>>

\* A job nobody advances ages: past the active window, past the stale one.
Age(j) ==
    /\ jobs[j].status \in Active
    /\ \/ jobs[j].age = "fresh" /\ jobs' = [jobs EXCEPT ![j].age = "paused"]
       \/ jobs[j].age = "paused" /\ jobs' = [jobs EXCEPT ![j].age = "stale"]
    /\ UNCHANGED <<open, deleted, page, chain, faults, remounts>>

\* POST /admin/heavy-jobs/cancel-stale
Sweep ==
    /\ CancelStale # jobs
    /\ jobs' = CancelStale
    /\ UNCHANGED <<open, deleted, page, chain, faults, remounts>>

\* DELETE .../uploads/{id}; on Postgres the rows of its jobs go with it.
DeleteUpload(u) ==
    /\ u \in Deletable \ deleted
    /\ deleted' = deleted \cup {u}
    /\ jobs' = [j \in JobId |-> IF jobs[j].upload = u
                                THEN [jobs[j] EXCEPT !.status = "gone"] ELSE jobs[j]]
    /\ UNCHANGED <<open, page, chain, faults, remounts>>

-----------------------------------------------------------------------------
(* The user *)

\* One button, in the place of the others: resume, retry the failures, or run.
Offered(c) ==
    IF Shows(c, Active) THEN (IF Imports(c) THEN "none" ELSE "get")
    ELSE IF Imports(c)
    THEN (IF page[c].file /\ ~page[c].imported THEN "create" ELSE "none")
    ELSE IF Shows(c, {"completed_with_errors"}) THEN "retry"
    ELSE "create"

Press(c) ==
    /\ c \in open
    /\ ~page[c].busy /\ Offered(c) # "none"
    /\ \E k \in Chains(c) \ {0} :
        /\ chain[c][k] = NoChain
        /\ SetChain(c, k, Chain(Offered(c), page[c].shown.job))
    /\ page' = [page EXCEPT ![c].busy = TRUE]
    /\ UNCHANGED <<open, server, faults, remounts>>

\* A card that shows the end of a job is pressed again only while there is room.
Starting ==
    UNION {{<<c, k>> : k \in {i \in Chains(c) :
                chain[c][i].op \in {"create", "insert", "retry"}}} : c \in Card}
PressAgain(c) ==
    /\ Shows(c, Terminal) => Len(jobs) + Cardinality(Starting) < MaxJobs[c]
    /\ Press(c)

\* A file is picked, while there is a picker.
PickFile(c) ==
    /\ c \in open /\ Imports(c)
    /\ ~page[c].imported /\ ~page[c].file
    /\ page' = [page EXCEPT ![c].file = TRUE]
    /\ UNCHANGED <<open, server, chain, faults, remounts>>

(***************************************************************************)
(* The page is reloaded, which ends its chains, or left and entered again  *)
(* within the application, which does not.  A new mount probes.            *)
(***************************************************************************)
Remount(p, reload) ==
    LET cards == {c \in open : c.page = p}
        Left(ch) == IF reload THEN NoChain ELSE [ch EXCEPT !.mounted = FALSE]
    IN  /\ cards # {}
        /\ remounts > 0
        /\ remounts' = remounts - 1
        /\ page' = [c \in Card |-> IF c \in cards THEN Fresh(c) ELSE page[c]]
        /\ chain' = [c \in Card |->
                IF c \notin cards THEN chain[c]
                ELSE [k \in Chains(c) |->
                        IF k = 0 THEN Probe(c)
                        ELSE IF chain[c][k] = NoChain THEN NoChain
                        ELSE Left(chain[c][k])]]
        /\ UNCHANGED <<open, server, faults>>

Next ==
    \/ \E c \in Card : \E k \in Chains(c) : Serve(c, k) \/ Fault(c, k)
    \/ \E c \in Card : PressAgain(c) \/ PickFile(c)
    \/ \E c \in Card, reload \in BOOLEAN : Remount(c.page, reload)
    \/ \E j \in JobId : Age(j)
    \/ Sweep
    \/ \E u \in Deletable : DeleteUpload(u)

(***************************************************************************)
(* Requests are served and answers handled; time passes; a user keeps      *)
(* pressing what the card offers until it shows the end of a job.          *)
(***************************************************************************)
PressOn(c) == ~Shows(c, Terminal) /\ PressAgain(c)
Fairness ==
    /\ \A c \in Card : WF_vars(PressOn(c)) /\ WF_vars(PickFile(c))
    /\ \A c \in Card : \A k \in Chains(c) : WF_vars(Serve(c, k))
    /\ WF_vars(\E j \in JobId : Age(j))

Spec == Init /\ [][Next]_vars /\ Fairness

-----------------------------------------------------------------------------
(* Properties *)

\* "The job is saved and can be resumed": whoever keeps pressing what the cards
\* offer is shown the end of every classification, unless its upload is deleted.
\* Lost answers, dead polling loops, reloads, a second tab, jobs other users left
\* behind and the heavy-job guard only delay it.
UserGetsThrough ==
    []<>(\A c \in open : Imports(c) \/ Shows(c, Terminal) \/ c.upload \in deleted)

\* Every polling loop stops, also that of a page that was left and that of a job
\* that was deleted: nothing polls for ever.
LoopsStop ==
    []<>(\A c \in open : \A k \in Chains(c) : chain[c][k].op # "advance")

\* "Click Retry to resume the import" (i18n/upload.ts:225): an import the page
\* showed, and gave up on, is driven to its end as well.
ImportResumes ==
    []<>(\A c \in open : Imports(c) /\ page[c].shown.job # 0 =>
            jobs[page[c].shown.job].status \in Terminal)
=============================================================================

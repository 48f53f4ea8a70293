------------------------------- MODULE AICalls -------------------------------
(***************************************************************************)
(* The two ways the model's answers become classifications in one request: *)
(* a call of the batch classifier (the extended module), and the           *)
(* synchronous request that goes over an upload with it, whose store calls *)
(* others come in between.                                                 *)
(***************************************************************************)
EXTENDS BatchClassifier

CONSTANTS Item, Enabled, Worker, Store, MaxRequests, MaxDeaths

VARIABLES present, cls, queued, step, req, answered, sent, deaths

Sync == INSTANCE SyncClassify WITH Product <- Item, pc <- step

\* Whatever was answered has been seen: a row for each product, an item for each
\* doubtful one (SyncClassify).
AnsweredMeansSeen == Sync!AnsweredMeansSeen
=============================================================================

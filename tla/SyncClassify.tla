--------------------------- MODULE SyncClassify ---------------------------
(***************************************************************************)
(* Synchronous classification: classify_upload (api/orchestrator.py) goes  *)
(* over every product of an upload in one request.  classify_route calls   *)
(* it, with the rules first or with the AI alone, and so does the pipeline *)
(* job of jobs/tasks.py.  A product is two store calls, its row and its    *)
(* place in the review queue, and a person may decide it at any time.      *)
(***************************************************************************)
EXTENDS Naturals, Sequences, FiniteSets, SequencesExt

CONSTANTS
    Product,        \* the products of the upload
    Enabled,        \* those that have the methodology
    Worker,         \* requests served at the same time
    Store,          \* "memory" or "postgres"
    MaxRequests,    \* bound: requests ever sent
    MaxDeaths       \* bound: requests that die

\* What the constants are: the module that gives them values assumes it.
ConstantsAssumption ==
    /\ Enabled \subseteq Product /\ IsFiniteSet(Product)
    /\ Store \in {"memory", "postgres"}
    /\ MaxRequests \in Nat /\ MaxDeaths \in Nat

VARIABLES
    present,    \* the upload and its products are there
    cls,        \* the classification row of each product
    queued,     \* products with an item in the review queue
    pc, req,    \* what the request of a worker does next, and its locals
    answered,   \* history: the last request was answered, no other beside it
    sent, deaths

storeVars == <<present, cls, queued>>
vars == <<storeVars, pc, req, answered, sent, deaths>>

\* A row is known by who made it: "unsure" is an AI verdict of low confidence,
\* "system" the placeholder of _queue_unknown_pt and _queue_unknown_wwf.
Source == {"none", "rule", "ai", "unsure", "system", "person"}

\* A request: rules first or AI alone; no provider, one that takes a product at a
\* time, or one that takes batches; the loop it is in, the products left in it,
\* those put off for the AI, and the row and the queue change under way.
Idle == [rules |-> FALSE, provider |-> "none", loop |-> "products", todo |-> <<>>,
         later |-> <<>>, row |-> "none", enqueue |-> FALSE, alone |-> TRUE]

Init ==
    /\ present = TRUE
    /\ cls = [p \in Product |-> "none"]
    /\ queued = {}
    /\ pc = [w \in Worker |-> "idle"]
    /\ req = [w \in Worker |-> Idle]
    /\ answered = FALSE /\ sent = 0 /\ deaths = 0

Goto(w, label, r) == pc' = [pc EXCEPT ![w] = label] /\ req' = [req EXCEPT ![w] = r]
Respond(w) == Goto(w, "idle", Idle)
Busy == {w \in Worker : pc[w] # "idle"}

(***************************************************************************)
(* classify_route: deterministic_only takes no provider, and               *)
(* skip_deterministic without one is the rules after all.  The pipeline    *)
(* job never skips the rules.  A missing upload is 404.                    *)
(***************************************************************************)
Classify(w) ==
    /\ pc[w] = "idle" /\ sent < MaxRequests /\ present
    /\ sent' = sent + 1 /\ answered' = FALSE
    /\ pc' = [pc EXCEPT ![w] = "next"]
    /\ \E skip \in BOOLEAN, provider \in {"none", "single", "batch"},
          todo \in SetToSeqs(Product) :
        req' = [v \in Worker |->
            IF v = w THEN [Idle EXCEPT !.rules = ~skip \/ provider = "none",
                !.provider = provider, !.todo = todo, !.alone = Busy = {}]
            ELSE [req[v] EXCEPT !.alone = @ /\ v \notin Busy]]
    /\ UNCHANGED <<storeVars, deaths>>

At(w, loop) == pc[w] = "next" /\ req[w].loop = loop /\ req[w].todo # <<>>
Product1(w) == Head(req[w].todo)
\* The product at hand is done with, or waits for the AI.
Advanced(r) == [r EXCEPT !.todo = Tail(@)]
\* The row of the product at hand, and what becomes of its review item.
Verdict(w, row, enqueue) ==
    Goto(w, "row", [req[w] EXCEPT !.row = row, !.enqueue = enqueue])

\* Mutant: the AI leaves out whatever has a row.
LockedByAnyRow(p) == cls[p] # "none"
\* The AI leaves a person's row alone; the rules do not look.
Locked(p) == cls[p] = "person"

\* `assert product is not None`: 502.
ProductGone(w) ==
    /\ At(w, "products") /\ ~present
    /\ Respond(w)
    /\ UNCHANGED <<storeVars, answered, sent, deaths>>

Skip(w) ==
    /\ At(w, "products") /\ present
    /\ Product1(w) \notin Enabled \/ (~req[w].rules /\ Locked(Product1(w)))
    /\ Goto(w, "next", Advanced(req[w]))
    /\ UNCHANGED <<storeVars, answered, sent, deaths>>

\* AI alone, or no rule matches and the provider takes batches.
PutOff(w) ==
    /\ At(w, "products") /\ present /\ Product1(w) \in Enabled
    /\ IF req[w].rules THEN req[w].provider = "batch" ELSE ~Locked(Product1(w))
    /\ Goto(w, "next", [Advanced(req[w]) EXCEPT !.later = Append(@, Product1(w))])
    /\ UNCHANGED <<storeVars, answered, sent, deaths>>

\* Accepted, of low confidence, or no readable answer.
AIVerdict(w) ==
    \/ Verdict(w, "ai", FALSE) \/ Verdict(w, "unsure", TRUE) \/ Verdict(w, "system", TRUE)

Rules(w) ==
    /\ At(w, "products") /\ present /\ req[w].rules /\ Product1(w) \in Enabled
    /\ \/ Verdict(w, "rule", FALSE)
       \/ Verdict(w, "system", TRUE)   \* collision, contradiction, or no provider
       \/ req[w].provider = "single" /\ AIVerdict(w)
    /\ UNCHANGED <<storeVars, answered, sent, deaths>>

\* What was put off goes to the AI, in batches or one by one.
AskAI(w) ==
    /\ pc[w] = "next" /\ req[w].todo = <<>> /\ req[w].later # <<>>
    /\ Goto(w, "next", [req[w] EXCEPT !.loop = "verdicts", !.todo = req[w].later, !.later = <<>>])
    /\ UNCHANGED <<storeVars, answered, sent, deaths>>

Apply(w) ==
    /\ At(w, "verdicts")
    /\ AIVerdict(w)
    /\ UNCHANGED <<storeVars, answered, sent, deaths>>

\* A foreign key refuses what is about a product that is gone: 502.
Refused == Store = "postgres" /\ ~present

StoreRow(w) ==
    /\ pc[w] = "row"
    /\ IF Refused THEN Respond(w) /\ UNCHANGED cls
       ELSE /\ cls' = [cls EXCEPT ![Product1(w)] = req[w].row]
            /\ Goto(w, "item", req[w])
    /\ UNCHANGED <<present, queued, answered, sent, deaths>>

StoreItem(w) ==
    /\ pc[w] = "item"
    /\ IF Refused THEN Respond(w) /\ UNCHANGED queued
       ELSE /\ queued' = IF req[w].enqueue THEN queued \cup {Product1(w)}
                         ELSE queued \ {Product1(w)}
            /\ Goto(w, "next", Advanced(req[w]))
    /\ UNCHANGED <<present, cls, answered, sent, deaths>>

Answer(w) ==
    /\ pc[w] = "next" /\ req[w].todo = <<>> /\ req[w].later = <<>>
    /\ answered' = req[w].alone
    /\ Respond(w)
    /\ UNCHANGED <<storeVars, sent, deaths>>

-----------------------------------------------------------------------------
(* What others do meanwhile *)

\* A reviewer decides a product that is in the queue (ReviewQueue has the steps).
Decide ==
    /\ \E p \in queued :
        /\ cls' = [cls EXCEPT ![p] = "person"]
        /\ queued' = queued \ {p}
    /\ UNCHANGED <<present, pc, req, answered, sent, deaths>>

DeleteUpload ==
    /\ present
    /\ present' = FALSE
    /\ cls' = [p \in Product |-> "none"] /\ queued' = {}
    /\ UNCHANGED <<pc, req, answered, sent, deaths>>

Die(w) ==
    /\ pc[w] # "idle" /\ deaths < MaxDeaths
    /\ deaths' = deaths + 1
    /\ Respond(w)
    /\ UNCHANGED <<storeVars, answered, sent>>

Next ==
    \/ \E w \in Worker :
        \/ Classify(w) \/ ProductGone(w) \/ Skip(w) \/ PutOff(w) \/ Rules(w)
        \/ AskAI(w) \/ Apply(w) \/ StoreRow(w) \/ StoreItem(w) \/ Answer(w) \/ Die(w)
    \/ Decide \/ DeleteUpload

Spec == Init /\ [][Next]_vars

-----------------------------------------------------------------------------
(* Properties *)

Unsettled == {p \in Enabled : cls[p] \in {"none", "unsure", "system"}}

\* "Must never silently skip": when a request that no other one overlapped has
\* been answered, each product with the methodology has a row, and is in the review
\* queue if the row is a placeholder or unsure, whatever an earlier request that died has left behind and
\* whatever reviewers decided meanwhile.
AnsweredMeansSeen == answered /\ present => Unsettled \subseteq queued
=============================================================================
